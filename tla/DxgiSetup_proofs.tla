--------------------------- MODULE DxgiSetup_proofs ---------------------------
(***************************************************************************)
(* Proofs about DxgiSetup, for any number of adapters and outputs, any     *)
(* request, and any set of outputs that can be duplicated.                 *)
(***************************************************************************)
EXTENDS DxgiSetup, TLAPS

LEMMA ChainFacts ==
    /\ Len(Chain) = 5
    /\ Chain[1] = {"adapter"} /\ Chain[2] = {"output"} /\ Chain[3] = {"output1"}
    /\ Chain[4] = {"device", "context"} /\ Chain[5] = {"duplication"}
  BY DEF Chain

\* The fields that are set when tryOutput has made n - 1 of its calls.
Obtained(n) ==
    {"factory"} \cup (IF n > 1 THEN {"adapter"} ELSE {})
                \cup (IF n > 2 THEN {"output"} ELSE {})
                \cup (IF n > 3 THEN {"output1"} ELSE {})
                \cup (IF n > 4 THEN {"device", "context"} ELSE {})

\* The next call fills fields that are empty, and the last one fills the rest.
LEMMA ObtainedFacts ==
    /\ Obtained(1) = {"factory"}
    /\ Obtained(5) \cup Chain[5] = AllFields
    /\ \A n \in 1 .. 4 : /\ Obtained(n + 1) = Obtained(n) \cup Chain[n]
                         /\ Obtained(n) \cap Chain[n] = {}
    /\ Obtained(5) \cap Chain[5] = {}
    /\ \A n \in 1 .. 5 : Obtained(n) \subseteq AllFields /\ Chain[n] \subseteq AllFields
                         /\ "factory" \in Obtained(n)
  BY ChainFacts DEF Obtained, AllFields

InLoop == {"outputs", "trying"}

\* Where the constructor is tells which fields are set and whether the loop
\* holds an adapter of its own.
FieldsInv ==
    /\ local <=> pc \in InLoop
    /\ pc = "start" => fields = {} /\ step = 0
    /\ Trying => step \in 1 .. 5 /\ fields = Obtained(step)
    /\ pc \in {"adapters", "outputs"} => "factory" \in fields /\ step \in 1 .. 5
    /\ pc = "done" => fields = AllFields
    /\ pc \in {"failed", "closed"} => fields = {}

IInv == TypeOK /\ RefsBalanced /\ FieldsInv

LEMMA PointFacts ==
    /\ Points = {"start", "requested", "adapters", "outputs", "trying", "done", "failed", "closed"}
    /\ InLoop = {"outputs", "trying"}
    /\ AllFields = {"factory", "adapter", "output", "output1", "device", "context", "duplication"}
  BY DEF Points, InLoop, AllFields

\* The ledger, with its types.
LEMMA Ledger ==
    ASSUME fields' \subseteq AllFields, local' \in BOOLEAN,
           DOMAIN refs' = AllFields, refs' = [k \in AllFields |-> refs'[k]],
           RefsBalanced'
    PROVE  refs' \in [AllFields -> 0 .. 2]
  <1>1. \A k \in AllFields : refs'[k] \in 0 .. 2
    BY DEF RefsBalanced
  <1> QED
    BY <1>1

LEMMA ReleaseKeepsLedger ==
    ASSUME IInv, NEW keep, ReleaseFields(keep), UNCHANGED local
    PROVE  /\ fields' \subseteq AllFields /\ refs' \in [AllFields -> 0 .. 2]
           /\ RefsBalanced'
  <1>1. RefsBalanced'
    BY DEF IInv, TypeOK, RefsBalanced, ReleaseFields
  <1>2. fields' \subseteq AllFields /\ refs' = [k \in AllFields |-> refs'[k]] /\ local' \in BOOLEAN
        /\ DOMAIN refs' = AllFields
    BY DEF IInv, TypeOK, ReleaseFields
  <1> QED
    BY <1>1, <1>2, Ledger

LEMMA StoreKeepsLedger ==
    ASSUME IInv, NEW objects \in SUBSET AllFields, objects \cap fields = {},
           Store(objects), UNCHANGED local
    PROVE  /\ fields' \subseteq AllFields /\ refs' \in [AllFields -> 0 .. 2]
           /\ RefsBalanced'
  <1>1. RefsBalanced'
    BY DEF IInv, TypeOK, RefsBalanced, Store
  <1>2. fields' \subseteq AllFields /\ refs' = [k \in AllFields |-> refs'[k]] /\ local' \in BOOLEAN
        /\ DOMAIN refs' = AllFields
    BY DEF IInv, TypeOK, Store
  <1> QED
    BY <1>1, <1>2, Ledger

LEMMA LocalKeepsLedger ==
    ASSUME IInv, UNCHANGED fields, (TakeLocal /\ ~local) \/ (DropLocal /\ local)
    PROVE  /\ local' \in BOOLEAN /\ refs' \in [AllFields -> 0 .. 2] /\ RefsBalanced'
  <1>0. "adapter" \in AllFields
    BY PointFacts
  <1>1. RefsBalanced'
    BY <1>0 DEF IInv, TypeOK, RefsBalanced, TakeLocal, DropLocal
  <1>2. fields' \subseteq AllFields /\ refs' = [k \in AllFields |-> refs'[k]] /\ local' \in BOOLEAN
        /\ DOMAIN refs' = AllFields
    BY <1>0 DEF IInv, TypeOK, TakeLocal, DropLocal
  <1> QED
    BY <1>1, <1>2, Ledger

LEMMA InitIInv == Init => IInv
  <1> SUFFICES ASSUME Init PROVE IInv
    OBVIOUS
  <1>1. TypeOK
    <2>1. request \in Nat \X Nat /\ 0 \in 0 .. Len(Chain)
      BY InputAssumption, ChainFacts DEF Init
    <2>2. refs \in [AllFields -> 0 .. 2]
      BY DEF Init
    <2> QED
      BY <2>1, <2>2, PointFacts DEF Init, TypeOK
  <1>2. RefsBalanced
    BY DEF Init, RefsBalanced
  <1>3. FieldsInv
    BY PointFacts DEF Init, FieldsInv, Trying
  <1> QED
    BY <1>1, <1>2, <1>3 DEF IInv

LEMMA NextIInv == IInv /\ [Next]_vars => IInv'
  <1> SUFFICES ASSUME IInv, [Next]_vars PROVE IInv'
    OBVIOUS
  <1> USE DEF given
  <1>0. /\ TypeOK /\ RefsBalanced /\ FieldsInv
        /\ step \in 0 .. 5 /\ target \in Nat \X Nat /\ request \in Nat \X Nat
        /\ 1 \in 0 .. 5
    BY ChainFacts, InputAssumption DEF IInv, TypeOK
  <1>1. CASE NoFactory
    BY <1>0, <1>1, PointFacts
    DEF NoFactory, IInv, TypeOK, RefsBalanced, FieldsInv, Trying
  <1>2. CASE CreateFactory
    <2>1. /\ fields' \subseteq AllFields /\ refs' \in [AllFields -> 0 .. 2] /\ RefsBalanced'
      BY <1>0, <1>2, StoreKeepsLedger, PointFacts DEF CreateFactory, FieldsInv
    <2>2. fields' = Obtained(1)
      BY <1>0, <1>2, ObtainedFacts DEF CreateFactory, FieldsInv, Store
    <2>3. TypeOK'
      BY <1>0, <1>2, <2>1, ChainFacts, PointFacts DEF CreateFactory, TypeOK
    <2>4. FieldsInv'
      BY <1>0, <1>2, <2>2, PointFacts DEF CreateFactory, FieldsInv, Trying
    <2> QED
      BY <2>1, <2>3, <2>4 DEF IInv
  <1>3. CASE TryStep
    <2>0. step \in 1 .. 4 /\ fields = Obtained(step) /\ Trying /\ pc' = pc /\ step' = step + 1
      BY <1>0, <1>3, ChainFacts DEF TryStep, FieldsInv
    <2>1. /\ fields' \subseteq AllFields /\ refs' \in [AllFields -> 0 .. 2] /\ RefsBalanced'
      BY <1>0, <1>3, <2>0, StoreKeepsLedger, ObtainedFacts DEF TryStep
    <2>2. fields' = Obtained(step')
      BY <1>3, <2>0, ObtainedFacts DEF TryStep, Store
    <2>3. TypeOK'
      BY <1>0, <1>3, <2>0, <2>1, ChainFacts DEF TryStep, TypeOK
    <2>4. FieldsInv'
      BY <1>0, <1>3, <2>0, <2>2, PointFacts DEF TryStep, FieldsInv, Trying
    <2> QED
      BY <2>1, <2>3, <2>4 DEF IInv
  <1>4. CASE TrySucceeds
    <2>0. step = 5 /\ fields = Obtained(5) /\ Trying /\ pc' = "done" /\ local' = FALSE
          /\ fields' = AllFields /\ UNCHANGED <<given, step, target>>
      BY <1>0, <1>4, ChainFacts, ObtainedFacts DEF TrySucceeds, FieldsInv
    <2>1. RefsBalanced'
      <3>1. \A k \in AllFields :
               /\ refs'[k] = refs[k] + (IF k \in Chain[5] THEN 1 ELSE 0)
                                     - (IF k = "adapter" /\ local THEN 1 ELSE 0)
               /\ k \in fields' /\ (k \in Chain[5] <=> k \notin fields)
        BY <1>4, <2>0, ObtainedFacts DEF TrySucceeds
      <3> QED
        BY <1>0, <2>0, <3>1 DEF RefsBalanced
    <2>2. refs' \in [AllFields -> 0 .. 2]
      <3>1. refs' = [k \in AllFields |-> refs'[k]] /\ DOMAIN refs' = AllFields
        BY <1>4 DEF TrySucceeds
      <3> QED
        BY <2>0, <2>1, <3>1, Ledger
    <2>3. TypeOK'
      BY <1>0, <2>0, <2>2, PointFacts DEF TypeOK
    <2>4. FieldsInv'
      BY <1>0, <2>0, PointFacts DEF FieldsInv, Trying
    <2> QED
      BY <2>1, <2>3, <2>4 DEF IInv
  <1>5. CASE RequestFails
    <2>1. "factory" \in fields /\ step \in 1 .. 5
      BY <1>0, <1>5, ObtainedFacts DEF RequestFails, FieldsInv, Trying
    <2> QED
      BY <1>0, <1>5, <2>1, PointFacts
      DEF RequestFails, IInv, TypeOK, RefsBalanced, FieldsInv, Trying
  <1>6. CASE TryFails
    <2>1. "factory" \in fields /\ step \in 1 .. 5
      BY <1>0, <1>6, ObtainedFacts DEF TryFails, FieldsInv, Trying
    <2>2. target' \in Nat \X Nat
      BY <1>0, <1>6 DEF TryFails
    <2> QED
      BY <1>0, <1>6, <2>1, <2>2, PointFacts
      DEF TryFails, IInv, TypeOK, RefsBalanced, FieldsInv, Trying
  <1>7. CASE NextAdapter \/ NoMoreOutputs
    <2>1. /\ UNCHANGED <<works, transient, request, step, fields>>
          /\ (TakeLocal /\ ~local) \/ (DropLocal /\ local)
          /\ pc' \in {"outputs", "adapters"} /\ (local' <=> pc' = "outputs")
          /\ "factory" \in fields /\ step \in 1 .. 5
      BY <1>0, <1>7, PointFacts
      DEF NextAdapter, NoMoreOutputs, FieldsInv, TakeLocal, DropLocal
    <2>2. target' \in Nat \X Nat
      BY <1>0, <1>7 DEF NextAdapter, NoMoreOutputs
    <2>3. refs' \in [AllFields -> 0 .. 2] /\ RefsBalanced' /\ local' \in BOOLEAN
      BY <2>1, LocalKeepsLedger
    <2>4. TypeOK'
      BY <1>0, <2>1, <2>2, <2>3, PointFacts DEF TypeOK
    <2>5. FieldsInv'
      BY <2>1, PointFacts DEF FieldsInv, Trying
    <2> QED
      BY <2>3, <2>4, <2>5 DEF IInv
  <1>8. CASE NoMoreAdapters \/ Close
    <2>1. /\ UNCHANGED <<works, transient, request, step, target, local>>
          /\ ReleaseFields({}) /\ pc' \in {"failed", "closed"} /\ ~local
      BY <1>0, <1>8, PointFacts DEF NoMoreAdapters, Close, FieldsInv
    <2>2. fields' = {} /\ refs' \in [AllFields -> 0 .. 2] /\ RefsBalanced'
      BY <2>1, ReleaseKeepsLedger DEF ReleaseFields
    <2>3. TypeOK'
      BY <1>0, <2>1, <2>2, PointFacts DEF TypeOK
    <2>4. FieldsInv'
      BY <2>1, <2>2, PointFacts DEF FieldsInv, Trying
    <2> QED
      BY <2>2, <2>3, <2>4 DEF IInv
  <1>9. CASE NextOutput
    <2>1. /\ UNCHANGED <<works, transient, request, target, local>>
          /\ ReleaseFields({"factory"}) /\ pc' = "trying" /\ step' = 1 /\ local
          /\ "factory" \in fields
      BY <1>0, <1>9, PointFacts DEF NextOutput, BeginTry, FieldsInv
    <2>2. fields' = Obtained(1) /\ refs' \in [AllFields -> 0 .. 2] /\ RefsBalanced'
          /\ fields' \subseteq AllFields
      BY <2>1, ReleaseKeepsLedger, ObtainedFacts, SMTT(30) DEF ReleaseFields
    <2>3. TypeOK'
      BY <1>0, <2>1, <2>2, ChainFacts, PointFacts DEF TypeOK
    <2>4. FieldsInv'
      BY <2>1, <2>2, PointFacts DEF FieldsInv, Trying
    <2> QED
      BY <2>2, <2>3, <2>4 DEF IInv
  <1>10. CASE UNCHANGED vars
    BY <1>0, <1>10 DEF vars, IInv, TypeOK, RefsBalanced, FieldsInv, Trying
  <1> QED
    BY <1>1, <1>2, <1>3, <1>4, <1>5, <1>6, <1>7, <1>8, <1>9, <1>10 DEF Next

LEMMA Inductive == Spec => []IInv
  BY InitIInv, NextIInv, PTL DEF Spec

\* Types; in particular no counter of references leaves 0 .. 2.
THEOREM TypeCorrect == Spec => []TypeOK
  <1>1. IInv => TypeOK
    BY DEF IInv
  <1> QED
    BY <1>1, Inductive, PTL

\* Whichever call of whichever attempt fails, the references are balanced.
THEOREM NoReferenceLost == Spec => []RefsBalanced
  <1>1. IInv => RefsBalanced
    BY DEF IInv
  <1> QED
    BY <1>1, Inductive, PTL

\* A constructor that succeeds has every field, one that fails leaves nothing.
THEOREM SetupIsAtomic == Spec => []AllOrNothing
  <1>1. IInv => AllOrNothing
    <2> SUFFICES ASSUME IInv PROVE AllOrNothing
      OBVIOUS
    <2>1. pc = "done" => fields = AllFields
      BY DEF IInv, FieldsInv
    <2>2. pc \in {"failed", "closed"} => fields = {} /\ ~local
      BY PointFacts DEF IInv, FieldsInv
    <2> QED
      BY <2>1, <2>2 DEF IInv, RefsBalanced, AllOrNothing
  <1> QED
    BY <1>1, Inductive, PTL

(***************************************************************************)
(* The search: everything before the target has been found wanting.        *)
(***************************************************************************)
NoneBefore(t) == \A u \in works : ~Before(u, t)

Ruled(t) == request \notin works /\ NoneBefore(t)

SearchInv ==
    ~transient =>
      /\ pc = "requested" => target = request
      /\ pc \in {"adapters", "outputs", "trying"} => Ruled(target)
      /\ pc \in InLoop => AdapterExists(target[1])
      /\ pc = "done" => target \in works /\ (target = request \/ Ruled(target))
      /\ pc = "failed" /\ step # 0 => works = {}

LEMMA TargetFacts ==
    /\ \A t \in Targets : /\ t[1] \in 0 .. Adapters - 1
                          /\ t[2] \in 0 .. Outputs[t[1]] - 1
                          /\ Outputs[t[1]] \in Nat
                          /\ t = <<t[1], t[2]>>
    /\ Adapters \in Nat
  BY InputAssumption DEF Targets

\* An output that works exists, and comes before, at or after another place.
LEMMA WorksFacts ==
    ASSUME TypeOK, NEW u \in works
    PROVE  u \in Targets /\ OutputExists(u) /\ u = <<u[1], u[2]>> /\ u[1] \in Nat /\ u[2] \in Nat
  BY TargetFacts DEF TypeOK, OutputExists, AdapterExists

\* Going to the next output rules the one just tried out and no other.
LEMMA NextOutputRuled ==
    ASSUME TypeOK, Ruled(target), target \notin works
    PROVE  Ruled(<<target[1], target[2] + 1>>)
  <1>1. target[1] \in Nat /\ target[2] \in Nat /\ target = <<target[1], target[2]>>
    BY DEF TypeOK
  <1>2. ASSUME NEW u \in works PROVE ~Before(u, <<target[1], target[2] + 1>>)
    <2>1. u[1] \in Nat /\ u[2] \in Nat /\ u = <<u[1], u[2]>>
      BY WorksFacts
    <2>2. ~Before(u, target) /\ u # target
      BY DEF Ruled, NoneBefore
    <2>3. ~(u[1] = target[1] /\ u[2] = target[2])
      BY <1>1, <2>1, <2>2
    <2> QED
      BY <1>1, <2>1, <2>2, <2>3 DEF Before
  <1> QED
    BY <1>2 DEF Ruled, NoneBefore

\* Going to the next adapter skips outputs that do not exist.
LEMMA NextAdapterRuled ==
    ASSUME TypeOK, Ruled(target), ~OutputExists(target), AdapterExists(target[1])
    PROVE  Ruled(<<target[1] + 1, 0>>)
  <1>1. target[1] \in Nat /\ target[2] \in Nat
    BY DEF TypeOK
  <1>2. ASSUME NEW u \in works PROVE ~Before(u, <<target[1] + 1, 0>>)
    <2>1. u[1] \in Nat /\ u[2] \in Nat /\ OutputExists(u) /\ ~Before(u, target)
          /\ u[2] < Outputs[u[1]]
      BY WorksFacts DEF Ruled, NoneBefore, OutputExists
    <2>2. u[1] = target[1] => u[2] < target[2]
      <3>1. target[1] \in 0 .. Adapters - 1
        BY <1>1, TargetFacts DEF AdapterExists
      <3>2. Outputs[target[1]] \in Nat
        BY <3>1, InputAssumption
      <3> QED
        BY <1>1, <2>1, <3>2 DEF OutputExists
    <2> QED
      BY <1>1, <2>1, <2>2 DEF Before
  <1> QED
    BY <1>2 DEF Ruled, NoneBefore

\* Past the last adapter there is nothing left to find.
LEMMA NothingWorks ==
    ASSUME TypeOK, Ruled(target), ~AdapterExists(target[1])
    PROVE  works = {}
  <1> SUFFICES ASSUME NEW u \in works PROVE FALSE
    OBVIOUS
  <1>1. u[1] \in 0 .. Adapters - 1 /\ target[1] \in Nat /\ Adapters \in Nat
    BY WorksFacts, TargetFacts DEF TypeOK
  <1>2. u[1] < target[1]
    BY <1>1 DEF AdapterExists
  <1> QED
    BY <1>2 DEF Ruled, NoneBefore, Before

\* Without transient failures an attempt fails only on an output that cannot work.
LEMMA FailsForAReason ==
    ASSUME TypeOK, ~transient, CanFail
    PROVE  target \notin works
  <1>1. CASE step \in {1, 2}
    <2>1. ~OutputExists(target)
      BY <1>1, ChainFacts DEF CanFail, CanSucceed, OutputExists
    <2> QED
      BY <2>1, WorksFacts
  <1>2. CASE step \notin {1, 2}
    BY <1>2 DEF CanFail
  <1> QED
    BY <1>1, <1>2

LEMMA NextSearch == IInv /\ SearchInv /\ [Next]_vars => SearchInv'
  <1> SUFFICES ASSUME IInv, SearchInv, [Next]_vars PROVE SearchInv'
    OBVIOUS
  <1> USE DEF given, InLoop
  <1>t. UNCHANGED transient
    BY DEF Next, vars, NoFactory, CreateFactory, TryStep, TrySucceeds, RequestFails,
           TryFails, NextAdapter, NoMoreAdapters, NextOutput, NoMoreOutputs, Close
  <1> SUFFICES ASSUME ~transient PROVE SearchInv'
    BY <1>t DEF SearchInv
  <1>0. TypeOK /\ FieldsInv /\ target \in Nat \X Nat
    BY DEF IInv, TypeOK
  <1>1. CASE NoFactory
    BY <1>0, <1>1 DEF NoFactory, SearchInv, FieldsInv
  <1>2. CASE CreateFactory
    BY <1>0, <1>2 DEF CreateFactory, SearchInv
  <1>3. CASE TryStep
    BY <1>0, <1>3 DEF TryStep, SearchInv, Trying, Ruled, NoneBefore, AdapterExists
  <1>4. CASE TrySucceeds
    <2>1. target \in works
      BY <1>4, ChainFacts DEF TrySucceeds, CanSucceed
    <2> QED
      BY <1>4, <2>1 DEF TrySucceeds, SearchInv, Trying, Ruled, NoneBefore
  <1>5. CASE RequestFails
    <2>1. request \notin works /\ target' = <<0, 0>>
      BY <1>0, <1>5, FailsForAReason DEF RequestFails, SearchInv
    <2>2. \A u \in works : ~Before(u, <<0, 0>>)
      BY <1>0, WorksFacts DEF Before
    <2> QED
      BY <1>5, <2>1, <2>2 DEF RequestFails, SearchInv, Ruled, NoneBefore
  <1>6. CASE TryFails
    <2>1. Ruled(target')
      BY <1>0, <1>6, FailsForAReason, NextOutputRuled DEF TryFails, SearchInv
    <2>2. target'[1] = target[1]
      BY <1>6 DEF TryFails
    <2> QED
      BY <1>6, <2>1, <2>2
      DEF TryFails, SearchInv, Ruled, NoneBefore, AdapterExists
  <1>7. CASE NextAdapter \/ NextOutput
    BY <1>7
    DEF NextAdapter, NextOutput, BeginTry, SearchInv, Ruled, NoneBefore, AdapterExists
  <1>8. CASE NoMoreAdapters
    <2>1. works = {}
      BY <1>0, <1>8, NothingWorks DEF NoMoreAdapters, SearchInv
    <2> QED
      BY <1>8, <2>1 DEF NoMoreAdapters, SearchInv
  <1>9. CASE NoMoreOutputs
    <2>1. Ruled(<<target[1] + 1, 0>>)
      BY <1>0, <1>9, NextAdapterRuled DEF NoMoreOutputs, SearchInv
    <2> QED
      BY <1>9, <2>1 DEF NoMoreOutputs, SearchInv, Ruled, NoneBefore
  <1>10. CASE Close
    BY <1>10 DEF Close, SearchInv
  <1>11. CASE UNCHANGED vars
    BY <1>11 DEF vars, SearchInv, Ruled, NoneBefore, AdapterExists
  <1> QED
    BY <1>1, <1>2, <1>3, <1>4, <1>5, <1>6, <1>7, <1>8, <1>9, <1>10, <1>11 DEF Next

\* The search gives the requested output or the first one in enumeration order
\* that can be duplicated, and fails only when there is none.
THEOREM SearchIsComplete == Spec => []SearchComplete
  <1>1. Init => SearchInv
    BY DEF Init, SearchInv, InLoop
  <1>2. IInv /\ SearchInv => SearchComplete
    BY DEF SearchInv, SearchComplete, Ruled, NoneBefore
  <1> QED
    BY <1>1, <1>2, NextSearch, Inductive, PTL DEF Spec

(***************************************************************************)
(* The choice of back end and display, of which the setup above is one     *)
(* step: Selection, for any number of displays and any options.  sel is    *)
(* where newPlatformCapturer is.                                           *)
(***************************************************************************)
CONSTANTS Cards, Indices, Timeouts, MaxDisplays
VARIABLES machine, opts, sel, failed, backend, shown

Sel == INSTANCE Selection WITH Requests <- Indices, pc <- sel

\* Back ends that work, those of a platform, and what one makes of the index.
Usable(b)   == b \in machine.works
NativeOf(p) == Sel!Native[p]
Chosen(b)   == Sel!DisplayOf(b, opts)

LEMMA NativeFacts ==
    /\ Sel!Platforms = {"linux", "windows", "darwin", "other"}
    /\ NativeOf("linux") = {"pipewire", "x11"} /\ NativeOf("windows") = {"dxgi", "gdi"}
    /\ NativeOf("darwin") = {"sck"} /\ NativeOf("other") = {}
    /\ Sel!Backends = {"pipewire", "x11", "dxgi", "gdi", "sck"}
  <1>1. /\ Sel!Platforms = {"linux", "windows", "darwin", "other"}
        /\ NativeOf("linux") = {"pipewire", "x11"} /\ NativeOf("windows") = {"dxgi", "gdi"}
        /\ NativeOf("darwin") = {"sck"} /\ NativeOf("other") = {}
    BY DEF Sel!Platforms, Sel!Native, NativeOf
  <1>2. Sel!Backends = UNION {NativeOf(p) : p \in {"linux", "windows", "darwin", "other"}}
    BY <1>1 DEF Sel!Backends, NativeOf
  <1>3. UNION {NativeOf(p) : p \in {"linux", "windows", "darwin", "other"}}
            = NativeOf("linux") \cup NativeOf("windows")
                 \cup NativeOf("darwin") \cup NativeOf("other")
    OBVIOUS
  <1> QED
    BY <1>1, <1>2, <1>3

\* What stays as it was at the start, but for the timeout.
MachineInv ==
    /\ opts \in [adapter : Cards, output : Indices, timeout : Int]
    /\ machine.platform \in Sel!Platforms
    /\ machine.count \in 1 .. MaxDisplays
    /\ machine.primary \in Sel!Displays
    /\ machine.first \in 0 .. machine.count
    /\ machine.duplicable \subseteq 0 .. machine.count - 1
    /\ machine.works \subseteq NativeOf(machine.platform)
    /\ Usable("x11") => machine.display

\* A capturer is of a back end that works, and of the display that back end
\* makes of the index.
ChosenInv ==
    \/ backend = {}
    \/ /\ sel = "returned"
       /\ \E b \in machine.works :
             backend = {b} /\ shown = Chosen(b) /\ shown # Sel!None

\* Which back ends have been tried at each point.
TriedInv ==
    /\ sel \in {"normalize", "returned"} \cup NativeOf(machine.platform)
    /\ \A b \in failed : ~Usable(b) \/ Chosen(b) = Sel!None
    /\ sel = "pipewire" => machine.wayland \/ ~machine.display
    /\ sel = "x11" => /\ machine.display
                      /\ machine.wayland => "pipewire" \in failed
    /\ sel = "gdi" => "dxgi" \in failed
    /\ sel = "returned" /\ backend = {} =>
          IF machine.platform = "linux"
            THEN /\ machine.wayland \/ ~machine.display => "pipewire" \in failed
                 /\ machine.display => "x11" \in failed
            ELSE NativeOf(machine.platform) \subseteq failed

SelectionInv == MachineInv /\ ChosenInv /\ TriedInv

LEMMA InitSelection ==
    ASSUME Sel!InputAssumption
    PROVE  Sel!Init => SelectionInv
  <1> SUFFICES ASSUME Sel!Init PROVE SelectionInv
    OBVIOUS
  <1>1. MachineInv
    <2>1. machine.first \in 0 .. machine.count
      BY DEF Sel!Init, Sel!Machines
    <2>2. machine.duplicable \subseteq 0 .. machine.count - 1
      BY DEF Sel!Init, Sel!Machines, Sel!Displays, Sel!InputAssumption
    <2> QED
      BY <2>1, <2>2
      DEF Sel!Init, Sel!Machines, Sel!InputAssumption, MachineInv, Usable, NativeOf
  <1>2. ChosenInv /\ TriedInv
    BY DEF Sel!Init, ChosenInv, TriedInv
  <1> QED
    BY <1>1, <1>2 DEF SelectionInv

LEMMA NextSelection == SelectionInv /\ [Sel!Next]_(Sel!vars) => SelectionInv'
  <1> SUFFICES ASSUME SelectionInv, [Sel!Next]_(Sel!vars) PROVE SelectionInv'
    OBVIOUS
  <1> USE DEF SelectionInv, Usable, Chosen
  <1>1. /\ opts' \in [adapter : Cards, output : Indices, timeout : Int]
        /\ opts'.adapter = opts.adapter /\ opts'.output = opts.output
        /\ machine' = machine
    <2>1. CASE Sel!Normalize
      BY <2>1 DEF Sel!Normalize, MachineInv
    <2>2. CASE Sel!Succeed \/ Sel!Fail \/ UNCHANGED Sel!vars
      BY <2>2 DEF Sel!Succeed, Sel!Fail, Sel!vars, MachineInv
    <2> QED
      BY <2>1, <2>2 DEF Sel!Next
  <1>2. MachineInv'
    BY <1>1 DEF MachineInv, NativeOf
  <1>3. \A b : Chosen(b)' = Chosen(b)
    BY <1>1 DEF Sel!DisplayOf, Sel!X11Display, Sel!GdiDisplay, Sel!SckDisplay,
                Sel!PipewireDisplay, Sel!DxgiDisplay, Sel!DxgiOutput, Sel!InRange
  <1>4. machine.platform \in {"linux", "windows", "darwin", "other"}
    BY NativeFacts DEF MachineInv
  <1>5. CASE Sel!Normalize
    <2>1. sel = "normalize" /\ sel' = Sel!First /\ UNCHANGED <<failed, backend, shown>>
      BY <1>5 DEF Sel!Normalize
    <2>2. backend = {}
      BY <2>1 DEF ChosenInv
    <2>3. TriedInv'
      BY <1>1, <1>3, <1>4, <2>1, NativeFacts DEF TriedInv, Sel!First, NativeOf
    <2> QED
      BY <1>2, <2>1, <2>2, <2>3 DEF ChosenInv
  <1>6. CASE Sel!Succeed
    <2>1. /\ sel \in machine.works /\ Chosen(sel) # Sel!None
          /\ backend' = {sel} /\ shown' = Chosen(sel) /\ sel' = "returned"
          /\ UNCHANGED failed
      BY <1>6 DEF Sel!Succeed
    <2>2. ChosenInv'
      BY <1>1, <1>3, <2>1 DEF ChosenInv
    <2>3. TriedInv'
      BY <1>1, <1>3, <2>1 DEF TriedInv
    <2> QED
      BY <1>2, <2>2, <2>3
  <1>7. CASE Sel!Fail
    <2>1. /\ sel \in Sel!Backends /\ (~Usable(sel) \/ Chosen(sel) = Sel!None)
          /\ failed' = failed \cup {sel} /\ sel' = Sel!After(sel)
          /\ UNCHANGED <<backend, shown>>
      BY <1>7 DEF Sel!Fail
    <2>2. sel \in NativeOf(machine.platform)
      BY <2>1, NativeFacts DEF TriedInv
    <2>3. backend = {}
      BY <2>1, NativeFacts DEF ChosenInv
    <2>4. \A b \in failed' : ~Usable(b)' \/ Chosen(b)' = Sel!None
      BY <1>1, <1>3, <2>1 DEF TriedInv
    <2>5. TriedInv'
      <3>1. \/ machine.platform = "linux" /\ sel \in {"pipewire", "x11"}
            \/ machine.platform = "windows" /\ sel \in {"dxgi", "gdi"}
            \/ machine.platform = "darwin" /\ sel = "sck"
        BY <1>4, <2>2, NativeFacts
      <3>2. CASE sel = "pipewire"
        <4>1. sel' = IF machine.wayland /\ machine.display THEN "x11" ELSE "returned"
          BY <2>1, <3>2 DEF Sel!After
        <4> QED
          BY <1>1, <2>1, <2>4, <3>1, <3>2, <4>1, NativeFacts DEF TriedInv, NativeOf
      <3>3. CASE sel = "dxgi"
        <4>1. sel' = "gdi"
          BY <2>1, <3>3 DEF Sel!After
        <4> QED
          BY <1>1, <2>1, <2>4, <3>1, <3>3, <4>1, NativeFacts DEF TriedInv, NativeOf
      <3>4. CASE sel \in {"x11", "gdi", "sck"}
        <4>1. sel' = "returned"
          BY <2>1, <3>4 DEF Sel!After
        <4>2. machine.platform # "linux" => NativeOf(machine.platform) \subseteq failed'
          BY <2>1, <3>1, <3>4, NativeFacts DEF TriedInv
        <4>3. machine.platform = "linux" =>
                 /\ machine.wayland \/ ~machine.display => "pipewire" \in failed'
                 /\ "x11" \in failed'
          BY <2>1, <3>1, <3>4 DEF TriedInv
        <4> QED
          BY <1>1, <2>1, <2>4, <3>1, <3>4, <4>1, <4>2, <4>3, NativeFacts
          DEF TriedInv, NativeOf
      <3> QED
        BY <3>1, <3>2, <3>3, <3>4
    <2> QED
      BY <1>2, <2>1, <2>3, <2>5 DEF ChosenInv
  <1>8. CASE UNCHANGED Sel!vars
    BY <1>2, <1>1, <1>3, <1>8 DEF Sel!vars, ChosenInv, TriedInv, NativeOf
  <1> QED
    BY <1>5, <1>6, <1>7, <1>8 DEF Sel!Next

LEMMA SelectionAlways ==
    ASSUME Sel!InputAssumption
    PROVE  Sel!Spec => []SelectionInv
  <1>1. Sel!Init => SelectionInv
    BY InitSelection
  <1> QED
    BY <1>1, NextSelection, PTL DEF Sel!Spec

\* A display that exists is the one captured, by whichever back end the
\* platform came to, but for an X screen without Xinerama, GDI's primary, and a
\* DXGI output that cannot be duplicated.
THEOREM DisplayIsTheRequested ==
    ASSUME Sel!InputAssumption
    PROVE  Sel!Spec => []Sel!RequestedDisplay
  <1>1. SelectionInv => Sel!RequestedDisplay
    <2> SUFFICES ASSUME SelectionInv, NEW b \in backend, Sel!Named(b) # Sel!None
                 PROVE  \/ shown = Sel!Named(b)
                        \/ b = "x11" /\ ~machine.xinerama
                        \/ b = "gdi" /\ opts.output = 0 /\ shown = machine.primary
                        \/ b = "dxgi" /\ Sel!Named(b) \notin machine.duplicable
      BY DEF Sel!RequestedDisplay
    <2> DEFINE i == opts.output
    <2>1. b \in machine.works /\ shown = Chosen(b)
      BY DEF SelectionInv, ChosenInv
    <2>2. b \in {"pipewire", "x11", "dxgi", "gdi", "sck"}
      BY <2>1, NativeFacts DEF SelectionInv, MachineInv
    <2>3. b # "dxgi" => Sel!InRange(i) /\ Sel!Named(b) = i /\ machine.count \in Nat /\ i \in Nat
      BY DEF SelectionInv, MachineInv, Sel!Named, Sel!InRange, Sel!InputAssumption
    <2>4. CASE b = "x11"
      BY <2>1, <2>3, <2>4 DEF Chosen, Sel!DisplayOf, Sel!X11Display
    <2>5. CASE b = "gdi"
      BY <2>1, <2>3, <2>5 DEF Chosen, Sel!DisplayOf, Sel!GdiDisplay
    <2>6. CASE b = "sck"
      BY <2>1, <2>3, <2>6 DEF Chosen, Sel!DisplayOf, Sel!SckDisplay
    <2>7. CASE b = "pipewire"
      BY <2>1, <2>3, <2>7 DEF Chosen, Sel!DisplayOf, Sel!PipewireDisplay
    <2>8. CASE b = "dxgi"
      BY <2>1, <2>8 DEF Chosen, Sel!DisplayOf, Sel!DxgiDisplay, Sel!Named
    <2> QED
      BY <2>2, <2>4, <2>5, <2>6, <2>7, <2>8
  <1> QED
    BY <1>1, SelectionAlways, PTL

\* But for a session with DISPLAY alone, the construction fails only when no
\* back end of the platform could have worked.
THEOREM FailsOnlyInTheEnd ==
    ASSUME Sel!InputAssumption
    PROVE  Sel!Spec => []Sel!FailsOnlyWhenAllFail
  <1>1. SelectionInv => Sel!FailsOnlyWhenAllFail
    <2> SUFFICES ASSUME SelectionInv, sel = "returned", backend = {},
                        ~(machine.display /\ ~machine.wayland), NEW b \in machine.works
                 PROVE  Chosen(b) = Sel!None
      BY DEF Sel!FailsOnlyWhenAllFail, Chosen
    <2>1. b \in NativeOf(machine.platform) /\ (b = "x11" => machine.display)
      BY DEF SelectionInv, MachineInv, Usable
    <2>2. b \in failed
      BY <2>1, NativeFacts DEF SelectionInv, TriedInv
    <2> QED
      BY <2>2 DEF SelectionInv, TriedInv, Usable
  <1> QED
    BY <1>1, SelectionAlways, PTL

\* The number Selection gives to an output: those of adapter 0 come first.
Number(t) == IF t[1] = 0 THEN t[2] ELSE Outputs[0] + t[2]

\* With two adapters and no passing failure, the search of initFactory ends with
\* the display that Selection takes for DXGI's choice, whichever outputs can be
\* duplicated.
AsSelected ==
        /\ Adapters = 2
        /\ machine.first = Outputs[0] /\ machine.count = Outputs[0] + Outputs[1]
        /\ machine.duplicable = {Number(t) : t \in works}
        /\ ~transient
        /\ pc = "done"
    => Number(target) = Sel!DxgiDisplay(request[1], request[2])

LEMMA NumberFacts ==
    ASSUME Adapters = 2
    PROVE  /\ \A t \in Nat \X Nat :
                 t \in Targets <=> t[1] \in {0, 1} /\ t[2] < Outputs[t[1]]
           /\ \A t \in Targets : Number(t) \in Nat
           /\ \A t, u \in Targets : Number(t) = Number(u) => t = u
           /\ \A t, u \in Targets : ~Before(u, t) => Number(t) <= Number(u)
  <1>1. Outputs[0] \in Nat /\ Outputs[1] \in Nat
    BY InputAssumption
  <1>2. \A t \in Nat \X Nat : t \in Targets <=> t[1] \in {0, 1} /\ t[2] < Outputs[t[1]]
    BY <1>1, InputAssumption DEF Targets
  <1>3. Targets \subseteq Nat \X Nat
    BY <1>1, InputAssumption DEF Targets
  <1>4. \A t \in Targets : Number(t) \in Nat
    BY <1>1, <1>2, <1>3 DEF Number
  <1>5. ASSUME NEW t \in Targets, NEW u \in Targets
        PROVE  /\ Number(t) = Number(u) => t = u
               /\ ~Before(u, t) => Number(t) <= Number(u)
    <2>1. PICK a, i, b, j \in Nat : t = <<a, i>> /\ u = <<b, j>>
      BY <1>3
    <2>2. /\ a \in {0, 1} /\ i < Outputs[a]
          /\ b \in {0, 1} /\ j < Outputs[b]
      BY <1>2, <2>1
    <2> QED
      BY <1>1, <2>1, <2>2 DEF Number, Before
  <1> QED
    BY <1>2, <1>4, <1>5

THEOREM SetupChoosesAsSelected == Spec => []AsSelected
  <1>1. IInv /\ SearchComplete => AsSelected
    <2> SUFFICES ASSUME IInv, SearchComplete, Adapters = 2,
                        machine.first = Outputs[0],
                        machine.count = Outputs[0] + Outputs[1],
                        machine.duplicable = {Number(t) : t \in works},
                        ~transient, pc = "done"
                 PROVE  Number(target) = Sel!DxgiDisplay(request[1], request[2])
      BY DEF AsSelected
    <2> DEFINE named == Sel!DxgiOutput(request[1], request[2])
    <2>1. /\ request \in Nat \X Nat /\ target \in works /\ works \subseteq Targets
          /\ target = request \/ (request \notin works /\ \A t \in works : ~Before(t, target))
      BY InputAssumption DEF IInv, TypeOK, SearchComplete
    <2>2. Outputs[0] \in Nat /\ Outputs[1] \in Nat
      BY InputAssumption
    <2>3. named = IF request \in Targets THEN Number(request) ELSE Sel!None
      BY <2>1, <2>2, NumberFacts DEF Sel!DxgiOutput, Number
    <2>4. named \in machine.duplicable <=> request \in works
      <3>1. Sel!None \notin machine.duplicable
        BY <2>1, NumberFacts DEF Sel!None
      <3> QED
        BY <2>1, <2>3, <3>1, NumberFacts
    <2>5. CASE request \in works
      BY <2>1, <2>3, <2>4, <2>5 DEF Sel!DxgiDisplay
    <2>6. CASE request \notin works
      <3>1. Number(target) \in machine.duplicable
            /\ \A d \in machine.duplicable : Number(target) <= d
        BY <2>1, <2>6, NumberFacts
      <3>2. machine.duplicable \subseteq Nat
        BY <2>1, NumberFacts
      <3>3. Sel!Min(machine.duplicable) = Number(target)
        BY <3>1, <3>2 DEF Sel!Min
      <3> QED
        BY <2>4, <2>6, <3>1, <3>3 DEF Sel!DxgiDisplay
    <2> QED
      BY <2>5, <2>6
  <1> QED
    BY <1>1, SearchIsComplete, Inductive, PTL
=============================================================================
