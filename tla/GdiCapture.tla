----------------------------- MODULE GdiCapture -----------------------------
(***************************************************************************)
(* The GDI capturer (gdi_windows.go).  A capturer holds no handle between  *)
(* calls: each Capture obtains a chain of GDI objects, copies the screen   *)
(* into the last of them and lets its defers release everything, in the    *)
(* reverse order, on every path.                                           *)
(*                                                                         *)
(* A goroutine may go on in another operating-system thread after any      *)
(* call; a device context of GetDC can only be released by the thread that *)
(* obtained it.  The screen is a version number, as in X11Capture.         *)
(***************************************************************************)
EXTENDS Integers, Sequences

CONSTANTS
    Callers,            \* goroutines that share the Capturer
    Threads,            \* threads that run them
    MaxVersions,        \* bound: changes of the screen
    MaxMoves            \* bound: times a goroutine changes its thread

ASSUME InputAssumption ==
    /\ Threads # {}
    /\ MaxVersions \in Nat \ {0}
    /\ MaxMoves \in Nat

VARIABLES
    screen,             \* version of what the screen shows
    thread,             \* thread each goroutine runs in
    moves,              \* times one has moved
    mu,                 \* holder of c.mu, {} when free
    image,              \* version of c.img, 0 before the first
    handles,            \* GDI objects and selections that exist
    defers,             \* deferred calls of the Capture that holds mu
    origin,             \* thread GetDC ran in
    bits,               \* version in the DIB section
    faults,             \* what went wrong in GDI
    pc,                 \* where each caller is
    start,              \* screen when the current Capture began
    ret                 \* result of the latest call

gdiVars  == <<handles, defers, origin, bits, faults>>
callVars == <<start, ret>>
vars == <<screen, thread, moves, mu, image, gdiVars, pc, callVars>>

NoResult == [kind |-> "none", shown |-> 0, start |-> 0]

\* What a Capture obtains, in order; "selected" is the bitmap in its context.
Chain == <<"screenDC", "memDC", "bitmap", "selected">>

Objects == { Chain[k] : k \in 1 .. Len(Chain) }

InMu == Objects \cup {"blit", "convert", "fail", "succeed"}

Init ==
    /\ screen = 1
    /\ thread \in [Callers -> Threads]
    /\ moves = 0
    /\ mu = {}
    /\ image = 0
    /\ handles = {}
    /\ defers = <<>>
    /\ origin \in Threads
    /\ bits = 0
    /\ faults = {}
    /\ pc = [g \in Callers |-> "idle"]
    /\ start = [g \in Callers |-> 0]
    /\ ret = [g \in Callers |-> NoResult]

-----------------------------------------------------------------------------
(* The desktop and the scheduler of the Go runtime.                        *)

ScreenChanges ==
    /\ screen < MaxVersions
    /\ screen' = screen + 1
    /\ UNCHANGED <<thread, moves, mu, image, gdiVars, pc, callVars>>

Migrate(g, t) ==
    /\ moves < MaxMoves
    /\ thread[g] # t
    /\ thread' = [thread EXCEPT ![g] = t]
    /\ moves' = moves + 1
    /\ UNCHANGED <<screen, mu, image, gdiVars, pc, callVars>>

-----------------------------------------------------------------------------
(* CaptureWithInfo                                                         *)

Goto(g, point) == pc' = [pc EXCEPT ![g] = point]

CallCapture(g) ==
    /\ pc[g] = "idle"
    /\ Goto(g, "capture")
    /\ start' = [start EXCEPT ![g] = screen]
    /\ ret' = [ret EXCEPT ![g] = NoResult]
    /\ UNCHANGED <<screen, thread, moves, mu, image, gdiVars>>

\* Seeded fault: CaptureWithInfo does not take c.mu.
LockSkipped(g) ==
    /\ pc[g] = "capture"
    /\ Goto(g, Head(Chain))
    /\ bits' = 0
    /\ UNCHANGED <<screen, thread, moves, mu, image, handles, defers, origin, faults, callVars>>

\* The bounds were tested by the constructor and never change.
Lock(g) ==
    /\ pc[g] = "capture"
    /\ mu = {}
    /\ mu' = {g}
    /\ Goto(g, Head(Chain))
    /\ bits' = 0
    /\ UNCHANGED <<screen, thread, moves, image, handles, defers, origin, faults, callVars>>

\* The point after obtaining o.
After(o) ==
    LET k == CHOOSE k \in 1 .. Len(Chain) : Chain[k] = o
    IN  IF k = Len(Chain) THEN "blit" ELSE Chain[k + 1]

\* Seeded fault: the release of the bitmap is deferred before it is selected
\* into the context, and its deselection before that.
ObtainDefersSwapped(g, o) ==
    /\ pc[g] = o
    /\ handles' = handles \cup {o}
    /\ defers' = IF o = "selected" THEN <<Head(defers), o>> \o Tail(defers) ELSE <<o>> \o defers
    /\ origin' = IF o = "screenDC" THEN thread[g] ELSE origin
    /\ Goto(g, After(o))
    /\ UNCHANGED <<screen, thread, moves, mu, image, bits, faults, callVars>>

\* A call that succeeds, and the defer after it.
Obtain(g, o) ==
    /\ pc[g] = o
    /\ handles' = handles \cup {o}
    /\ defers' = <<o>> \o defers
    /\ origin' = IF o = "screenDC" THEN thread[g] ELSE origin
    /\ Goto(g, After(o))
    /\ UNCHANGED <<screen, thread, moves, mu, image, bits, faults, callVars>>

ObtainFails(g, o) ==
    /\ pc[g] = o
    /\ o # "selected"
    /\ Goto(g, "fail")
    /\ UNCHANGED <<screen, thread, moves, mu, image, gdiVars, callVars>>

\* CreateDIBSection returns a bitmap without bits: the early return comes
\* before the defer.
BitmapWithoutBits(g) ==
    /\ pc[g] = "bitmap"
    /\ handles' = handles \cup {"bitmap"}
    /\ faults' = faults \cup {"bits"}
    /\ Goto(g, "fail")
    /\ UNCHANGED <<screen, thread, moves, mu, image, defers, origin, bits, callVars>>

\* The result of SelectObject is not looked at; the copy then goes into the
\* context's own bitmap, and the bits stay as they are.
SelectFails(g) ==
    /\ pc[g] = "selected"
    /\ faults' = faults \cup {"select"}
    /\ defers' = <<"selected">> \o defers
    /\ Goto(g, "blit")
    /\ UNCHANGED <<screen, thread, moves, mu, image, handles, origin, bits, callVars>>

BitBlt(g) ==
    /\ pc[g] = "blit"
    /\ bits' = IF "selected" \in handles THEN screen ELSE bits
    /\ Goto(g, "convert")
    /\ UNCHANGED <<screen, thread, moves, mu, image, handles, defers, origin, faults, callVars>>

BitBltFails(g) ==
    /\ pc[g] = "blit"
    /\ Goto(g, "fail")
    /\ UNCHANGED <<screen, thread, moves, mu, image, gdiVars, callVars>>

Convert(g) ==
    /\ pc[g] = "convert"
    /\ image' = bits
    /\ Goto(g, "succeed")
    /\ UNCHANGED <<screen, thread, moves, mu, gdiVars, callVars>>

\* The deferred calls run in reverse order; none of their results is looked at.
Deferred(g) ==
    /\ pc[g] \in {"fail", "succeed"} /\ defers # <<>>
    /\ IF Head(defers) = "screenDC" /\ thread[g] # origin
         THEN faults' = faults \cup {"thread"} /\ UNCHANGED handles
         ELSE handles' = handles \ {Head(defers)} /\ UNCHANGED faults
    /\ defers' = Tail(defers)
    /\ UNCHANGED <<screen, thread, moves, mu, image, origin, bits, pc, callVars>>

\* Seeded fault: an error returns without the deferred calls.
ReturnSkipsDefers(g) ==
    /\ pc[g] = "fail" \/ (pc[g] = "succeed" /\ defers = <<>>)
    /\ ret' = [ret EXCEPT ![g] = [kind |-> pc[g], shown |-> image, start |-> start[g]]]
    /\ start' = [start EXCEPT ![g] = 0]
    /\ mu' = mu \ {g}
    /\ defers' = <<>>
    /\ Goto(g, "idle")
    /\ UNCHANGED <<screen, thread, moves, image, handles, origin, bits, faults>>

Return(g) ==
    /\ pc[g] \in {"fail", "succeed"} /\ defers = <<>>
    /\ ret' = [ret EXCEPT ![g] = [kind |-> pc[g], shown |-> image, start |-> start[g]]]
    /\ start' = [start EXCEPT ![g] = 0]
    /\ mu' = mu \ {g}
    /\ Goto(g, "idle")
    /\ UNCHANGED <<screen, thread, moves, image, gdiVars>>

-----------------------------------------------------------------------------

Capture(g) ==
    \/ Lock(g)
    \/ \E o \in Objects : Obtain(g, o) \/ ObtainFails(g, o)
    \/ BitmapWithoutBits(g) \/ SelectFails(g)
    \/ BitBlt(g) \/ BitBltFails(g) \/ Convert(g)
    \/ Deferred(g) \/ Return(g)

Next ==
    \/ ScreenChanges
    \/ \E g \in Callers :
          \/ CallCapture(g)
          \/ Capture(g)
          \/ \E t \in Threads : Migrate(g, t)

Spec == Init /\ [][Next]_vars

-----------------------------------------------------------------------------
(* Properties.                                                             *)

TypeOK ==
    /\ screen \in 1 .. MaxVersions
    /\ thread \in [Callers -> Threads]
    /\ moves \in 0 .. MaxMoves
    /\ mu \subseteq Callers
    /\ image \in 0 .. MaxVersions /\ bits \in 0 .. MaxVersions
    /\ handles \subseteq Objects
    /\ defers \in Seq(Objects) /\ Len(defers) <= Len(Chain)
    /\ origin \in Threads
    /\ faults \subseteq {"bits", "select", "thread"}
    /\ pc \in [Callers -> {"idle", "capture"} \cup InMu]
    /\ start \in [Callers -> 0 .. MaxVersions]
    /\ ret \in [Callers -> [kind : {"none", "fail", "succeed"},
                           shown : 0 .. MaxVersions, start : 0 .. MaxVersions]]

\* Between two calls no GDI object is left, whichever call failed, except a
\* bitmap that came without bits and a context whose Capture changed threads.
HandlesReturned ==
    mu = {} /\ {"bits", "thread"} \cap faults = {} => handles = {} /\ defers = <<>>

\* A bitmap is not deleted while it is selected into a context, nor the context
\* with the bitmap in it: what is obtained last goes first.
ReleaseOrder == "selected" \in handles => {"memDC", "bitmap"} \subseteq handles

\* A Capture returns what the screen showed during the call, also when others
\* capture into the same image, or a blank image when SelectObject failed.
CurrentImage ==
    \A g \in Callers :
       ret[g].kind = "succeed" =>
          \/ ret[g].shown \in ret[g].start .. screen
          \/ ret[g].shown = 0 /\ "select" \in faults
=============================================================================
