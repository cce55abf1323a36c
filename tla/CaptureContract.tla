--------------------------- MODULE CaptureContract ---------------------------
(***************************************************************************)
(* What a streaming back end of the Capturer interface (capturer.go)       *)
(* promises its callers, whatever thread delivers the frames and however   *)
(* the buffers are shared.  A frame is known only by its number: the n-th  *)
(* frame published by the native stream.                                   *)
(*                                                                         *)
(* The promise that matters is made to a whole call, not to one step of    *)
(* it: start[g] is the newest frame when caller g entered Capture, and     *)
(* whatever the call returns is judged against it.                         *)
(***************************************************************************)
EXTENDS Naturals

CONSTANTS
    Callers,            \* goroutines that share one Capturer
    Hasty               \* TRUE: a deadline may pass before the first look for a frame

VARIABLES
    avail,              \* number of the newest published frame, 0 = none yet
    last,               \* number of the frame held by the last image, 0 = nil
    missed,             \* number of the newest frame lost to a call that failed
    open,               \* FALSE once the native stream has been torn down
    call,               \* call[g]: the method g is inside of, or "none"
    start,              \* start[g]: avail when g's Capture began
    ret                 \* ret[g]: what g's latest call returned

vars == <<avail, last, missed, open, call, start, ret>>

Kinds == {"none", "fresh", "repeated", "timeout", "error", "closed"}

NoResult == [kind |-> "none", seq |-> 0]

Init ==
    /\ avail = 0
    /\ last = 0
    /\ missed = 0
    /\ open = TRUE
    /\ call = [g \in Callers |-> "none"]
    /\ start = [g \in Callers |-> 0]
    /\ ret = [g \in Callers |-> NoResult]

\* The native thread publishes the next frame.
Publish ==
    /\ open
    /\ avail' = avail + 1
    /\ UNCHANGED <<last, missed, open, call, start, ret>>

Enter(g, method) ==
    /\ call[g] = "none"
    /\ call' = [call EXCEPT ![g] = method]
    /\ start' = [start EXCEPT ![g] = IF method = "Capture" THEN avail ELSE 0]
    /\ ret' = [ret EXCEPT ![g] = NoResult]
    /\ UNCHANGED <<avail, last, missed, open>>

Leave(g, method, kind, n) ==
    /\ call[g] = method
    /\ call' = [call EXCEPT ![g] = "none"]
    /\ start' = [start EXCEPT ![g] = 0]
    /\ ret' = [ret EXCEPT ![g] = [kind |-> kind, seq |-> n]]

\* What there was when the call began has been shown, or was lost.
NothingNew(g) == start[g] <= last \/ start[g] <= missed

\* (img, false, nil): a frame nobody was given before, and no older than the
\* newest frame at the time of the call.
Fresh(g) ==
    /\ open
    /\ \E n \in start[g] .. avail :
          /\ n > last
          /\ last' = n
          /\ Leave(g, "Capture", "fresh", n)
    /\ UNCHANGED <<avail, missed, open>>

\* (lastImage, true, nil): only when no frame was waiting at the time of the
\* call beyond the one the image already shows.
Repeated(g) ==
    /\ open
    /\ last > 0
    /\ NothingNew(g)
    /\ Leave(g, "Capture", "repeated", last)
    /\ UNCHANGED <<avail, last, missed, open>>

\* ErrTimeout: no image yet and no frame when the call began, unless there was no
\* time to look for one.
TimedOut(g) ==
    /\ open
    /\ last = 0
    /\ Hasty \/ NothingNew(g)
    /\ Leave(g, "Capture", "timeout", 0)
    /\ UNCHANGED <<avail, last, missed, open>>

\* Any other error; the last image and its frame number survive it.  A frame the
\* call had taken already may be lost.
Fail(g) ==
    /\ Leave(g, "Capture", "error", 0)
    /\ \/ UNCHANGED missed
       \/ open /\ missed' \in start[g] .. avail
    /\ UNCHANGED <<avail, last, open>>

TearDown ==
    /\ open
    /\ \E g \in Callers : call[g] = "Close"
    /\ open' = FALSE
    /\ UNCHANGED <<avail, last, missed, call, start, ret>>

CloseReturns(g) ==
    /\ ~open
    /\ Leave(g, "Close", "closed", 0)
    /\ UNCHANGED <<avail, last, missed, open>>

Next ==
    \/ Publish
    \/ TearDown
    \/ \E g \in Callers :
          \/ Enter(g, "Capture")
          \/ Enter(g, "Close")
          \/ Fresh(g)
          \/ Repeated(g)
          \/ TimedOut(g)
          \/ Fail(g)
          \/ CloseReturns(g)

Spec == Init /\ [][Next]_vars

-----------------------------------------------------------------------------
(* What callers can rely on who share a capturer that keeps the promise.    *)

Images == {"fresh", "repeated"}

InOrder ==
    \A g, h \in Callers :
       ret'[g] # ret[g] /\ ret'[g].kind \in Images /\ ret[h].kind \in Images =>
           /\ ret'[g].seq >= ret[h].seq
           /\ ret'[g].kind = "fresh" => ret'[g].seq > ret[h].seq

StaysClosed ==
    /\ \A g \in Callers : ret'[g].kind = "closed" => ~open'
    /\ ~open => ~open'
    /\ ~open => \A g \in Callers :
                   ret'[g] # ret[g] => ret'[g].kind \in {"none", "error", "closed"}

\* A call that returns an image returns none older than any image a caller holds
\* already, and a fresh one is newer than all of them: the images of all callers
\* together are in the order in which they were published.
ResultsInOrder == [][InOrder]_vars

\* When a Close has returned, no Capture of any caller returns an image or a
\* timeout any more.
ClosedForEver == [][StaysClosed]_vars

\* What makes it so: a result is of a frame that was shown, and who was told that
\* the capturer is closed was told the truth.
ResultsInv ==
    /\ avail \in Nat /\ last \in Nat
    /\ start \in [Callers -> Nat]
    /\ ret \in [Callers -> [kind : Kinds, seq : Nat]]
    /\ \A g \in Callers :
          /\ ret[g].kind \in Images => ret[g].seq <= last
          /\ ret[g].kind = "closed" => ~open
=============================================================================
