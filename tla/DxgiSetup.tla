------------------------------ MODULE DxgiSetup ------------------------------
(***************************************************************************)
(* How a DXGI capturer comes to be and goes away (dxgi_windows.go):        *)
(* newDXGICapturer, the search of initFactory over adapters and outputs,   *)
(* tryOutput, initDeviceAndDuplication and releaseDXGIObjects.             *)
(*                                                                         *)
(* Each call that returns a COM object adds a reference somebody must      *)
(* release; any of them may fail.  refs is the ledger of live references,  *)
(* kept apart from the fields the code believes it holds.                  *)
(***************************************************************************)
EXTENDS Integers, Sequences

CONSTANTS
    Adapters,           \* number of adapters
    Outputs,            \* Outputs[ai]: number of outputs of adapter ai
    Requests            \* <<AdapterIndex, OutputIndex>> a caller may ask for

Targets == UNION { {ai} \X (0 .. Outputs[ai] - 1) : ai \in 0 .. Adapters - 1 }

ASSUME InputAssumption ==
    /\ Adapters \in Nat
    /\ Outputs \in [0 .. Adapters - 1 -> Nat]
    /\ Requests \subseteq Nat \X Nat

VARIABLES
    works,              \* outputs that can be duplicated
    transient,          \* a call may fail although its target is fine
    request,            \* the output the options name
    pc,                 \* where the constructor is
    step,               \* inside tryOutput: the next element of Chain
    target,             \* the output being tried; in the loops, <<ai, oi>>
    fields,             \* fields of dxgiCapturer that are not nil
    local,              \* initFactory's variable adapter holds a reference
    refs                \* live references of each kind

given == <<works, transient, request>>
vars == <<given, pc, step, target, fields, local, refs>>

\* What tryOutput obtains, call by call.
Chain == << {"adapter"}, {"output"}, {"output1"}, {"device", "context"}, {"duplication"} >>

AllFields == {"factory", "adapter", "output", "output1", "device", "context", "duplication"}

Points == {"start", "requested", "adapters", "outputs", "trying", "done", "failed", "closed"}

Init ==
    /\ works \in SUBSET Targets
    /\ transient \in BOOLEAN
    /\ request \in Requests
    /\ pc = "start"
    /\ step = 0
    /\ target = request
    /\ fields = {}
    /\ local = FALSE
    /\ refs = [k \in AllFields |-> 0]

-----------------------------------------------------------------------------
(* References.                                                             *)

\* Seeded fault: the context is forgotten, as D3D11CreateDevice returned it
\* beside the device.
ReleaseFieldsButContext(keep) ==
    /\ fields' = fields \cap keep
    /\ refs' = [k \in AllFields |->
                   IF k \in fields \ (keep \cup {"context"}) THEN refs[k] - 1 ELSE refs[k]]

\* Seeded fault: the fields are released and not set to nil.
ReleaseFieldsOnly(keep) ==
    /\ UNCHANGED fields
    /\ refs' = [k \in AllFields |->
                   IF k \in fields \ keep THEN refs[k] - 1 ELSE refs[k]]

\* releaseDXGIObjects: every field that is set is released and cleared, the
\* factory only on request.
ReleaseFields(keep) ==
    /\ fields' = fields \cap keep
    /\ refs' = [k \in AllFields |->
                   IF k \in fields \ keep THEN refs[k] - 1 ELSE refs[k]]

\* Objects a successful call returned are stored in their fields.
Store(objects) ==
    /\ fields' = fields \cup objects
    /\ refs' = [k \in AllFields |-> IF k \in objects THEN refs[k] + 1 ELSE refs[k]]

\* The enumerator's own reference to the adapter of the outer loop.
TakeLocal ==
    /\ local' = TRUE
    /\ refs' = [refs EXCEPT !["adapter"] = @ + 1]

DropLocal ==
    /\ local' = FALSE
    /\ refs' = [refs EXCEPT !["adapter"] = @ - 1]

-----------------------------------------------------------------------------

\* tryOutput(t) starts from whatever the last attempt left behind.
BeginTry(t, point) ==
    /\ ReleaseFields({"factory"})
    /\ target' = t
    /\ step' = 1
    /\ pc' = point

\* CoInitializeEx or CreateDXGIFactory1 fails: Close finds no field set.
NoFactory ==
    /\ pc = "start"
    /\ pc' = "failed"
    /\ UNCHANGED <<given, step, target, fields, local, refs>>

CreateFactory ==
    /\ pc = "start"
    /\ Store({"factory"})
    /\ target' = request
    /\ step' = 1
    /\ pc' = "requested"
    /\ UNCHANGED <<given, local>>

AdapterExists(ai) == ai < Adapters
OutputExists(t) == AdapterExists(t[1]) /\ t[2] < Outputs[t[1]]

\* Whether the next call of tryOutput can succeed, and whether it can fail.
CanSucceed ==
    CASE step = 1 -> AdapterExists(target[1])
      [] step = 2 -> OutputExists(target)
      [] step = Len(Chain) -> target \in works
      [] OTHER -> TRUE

CanFail ==
    \/ transient
    \/ IF step \in {1, 2} THEN ~CanSucceed ELSE target \notin works

Trying == pc \in {"requested", "trying"}

TryStep ==
    /\ Trying /\ step < Len(Chain)
    /\ CanSucceed
    /\ Store(Chain[step])
    /\ step' = step + 1
    /\ UNCHANGED <<given, pc, target, local>>

\* The duplication stands.  In the loop, its adapter variable is released.
TrySucceeds ==
    /\ Trying /\ step = Len(Chain)
    /\ CanSucceed
    /\ fields' = fields \cup Chain[step]
    /\ refs' = [k \in AllFields |->
                   refs[k] + (IF k \in Chain[step] THEN 1 ELSE 0)
                           - (IF k = "adapter" /\ local THEN 1 ELSE 0)]
    /\ local' = FALSE
    /\ pc' = "done"
    /\ UNCHANGED <<given, step, target>>

\* The request failed: search from adapter 0.  What was obtained so far stays
\* in the fields until the next tryOutput or Close.
RequestFails ==
    /\ pc = "requested"
    /\ CanFail
    /\ target' = <<0, 0>>
    /\ pc' = "adapters"
    /\ UNCHANGED <<given, step, fields, local, refs>>

\* Seeded fault: the search stops at the first output that cannot be used.
TryFailsSkipsAdapter ==
    /\ pc = "trying"
    /\ CanFail
    /\ target' = <<target[1] + 1, 0>>
    /\ pc' = "adapters"
    /\ DropLocal
    /\ UNCHANGED <<given, step, fields>>

TryFails ==
    /\ pc = "trying"
    /\ CanFail
    /\ target' = <<target[1], target[2] + 1>>
    /\ pc' = "outputs"
    /\ UNCHANGED <<given, step, fields, local, refs>>

\* The outer loop: EnumAdapters1(ai).
NextAdapter ==
    /\ pc = "adapters"
    /\ AdapterExists(target[1])
    /\ TakeLocal
    /\ pc' = "outputs"
    /\ UNCHANGED <<given, step, target, fields>>

\* Seeded fault: a failed constructor does not Close.
NoMoreAdaptersNoClose ==
    /\ pc = "adapters"
    /\ transient \/ ~AdapterExists(target[1])
    /\ pc' = "failed"
    /\ UNCHANGED <<given, step, target, fields, local, refs>>

\* DXGI_ERROR_NOT_FOUND or another error ends the search, and
\* newDXGICapturer closes what is left.
NoMoreAdapters ==
    /\ pc = "adapters"
    /\ transient \/ ~AdapterExists(target[1])
    /\ ReleaseFields({})
    /\ pc' = "failed"
    /\ UNCHANGED <<given, step, target, local>>

\* The inner loop: EnumOutputs(oi), whose output is released at once.
NextOutput ==
    /\ pc = "outputs"
    /\ OutputExists(target)
    /\ BeginTry(target, "trying")
    /\ UNCHANGED <<given, local>>

\* Seeded fault: the outer loop does not advance.
NoMoreOutputsSameAdapter ==
    /\ pc = "outputs"
    /\ transient \/ ~OutputExists(target)
    /\ DropLocal
    /\ target' = <<target[1], 0>>
    /\ pc' = "adapters"
    /\ UNCHANGED <<given, step, fields>>

NoMoreOutputs ==
    /\ pc = "outputs"
    /\ transient \/ ~OutputExists(target)
    /\ DropLocal
    /\ target' = <<target[1] + 1, 0>>
    /\ pc' = "adapters"
    /\ UNCHANGED <<given, step, fields>>

Close ==
    /\ pc = "done"
    /\ ReleaseFields({})
    /\ pc' = "closed"
    /\ UNCHANGED <<given, step, target, local>>

Next ==
    \/ NoFactory \/ CreateFactory
    \/ TryStep \/ TrySucceeds \/ RequestFails \/ TryFails
    \/ NextAdapter \/ NoMoreAdapters \/ NextOutput \/ NoMoreOutputs
    \/ Close

Spec == Init /\ [][Next]_vars

FairSpec == Spec /\ WF_vars(Next)

-----------------------------------------------------------------------------

TypeOK ==
    /\ works \subseteq Targets
    /\ transient \in BOOLEAN
    /\ request \in Requests
    /\ pc \in Points
    /\ step \in 0 .. Len(Chain)
    /\ target \in Nat \X Nat
    /\ fields \subseteq AllFields
    /\ local \in BOOLEAN
    /\ refs \in [AllFields -> 0 .. 2]

\* No reference is lost and none is released twice: the live references are
\* those of the fields and of the loop's adapter variable, whichever call of
\* whichever attempt failed.
RefsBalanced ==
    \A k \in AllFields :
       refs[k] = (IF k \in fields THEN 1 ELSE 0) + (IF k = "adapter" /\ local THEN 1 ELSE 0)

\* A constructor that succeeds has set every field CaptureWithInfo dereferences,
\* and after a failure or a Close no COM object is left.
AllOrNothing ==
    /\ pc = "done" => fields = AllFields
    /\ pc \in {"failed", "closed"} => \A k \in AllFields : refs[k] = 0

Before(t, u) == t[1] < u[1] \/ (t[1] = u[1] /\ t[2] < u[2])

\* The search misses nothing: while only what cannot work fails, it gives the
\* requested output if that can be duplicated, else the first one in enumeration
\* order that can; and it fails for want of an output only when there is none.
SearchComplete ==
    ~transient =>
      /\ pc = "done" => /\ target \in works
                        /\ target = request \/ (/\ request \notin works
                                                /\ \A t \in works : ~Before(t, target))
      /\ pc = "failed" /\ step # 0 => works = {}

\* The constructor comes to an end.
Terminates == <>(pc \in {"done", "failed", "closed"})
=============================================================================
