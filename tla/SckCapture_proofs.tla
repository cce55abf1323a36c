-------------------------- MODULE SckCapture_proofs --------------------------
(***************************************************************************)
(* Proofs about SckCapture, for every set of callers, every set of sample  *)
(* sizes and of timeouts, and every number of frames.                      *)
(***************************************************************************)
EXTENDS SckCapture, TLAPS

Points == {"idle", "capture", "close"} \cup InMu

LEMMA PointFacts ==
    /\ Points = {"idle", "capture", "close", "read", "waiting", "woken", "expired",
                 "convert", "stop", "destroy", "closing"}
    /\ InMu = {"read", "waiting", "woken", "expired", "convert", "stop", "destroy",
               "closing"}
    /\ InRead = {"read", "waiting", "woken", "expired"}
    /\ Kinds = {"none", "fresh", "repeated", "timeout", "error", "closed"}
  BY DEF Points, InMu, InRead, Kinds

\* What a sample is, and that the sample nobody has sent yet is one of no size.
LEMMA SampleFacts ==
    ASSUME NEW s \in Samples \cup {NoSample}
    PROVE  /\ s.w \in Nat /\ s.h \in Nat /\ s.stride \in Nat
           /\ s.w <= s.stride
           /\ s \in Samples => s.w > 0 /\ s.h > 0
  <1>1. CASE s \in Samples
    <2>1. s \in [w : Nat \ {0}, h : Nat \ {0}, stride : Nat, known : BOOLEAN]
      BY <1>1, InputAssumption
    <2>2. s.stride >= s.w
      BY <1>1, InputAssumption
    <2> QED
      BY <2>1, <2>2
  <1>2. CASE s \notin Samples
    BY <1>2 DEF NoSample
  <1> QED
    BY <1>1, <1>2

(***************************************************************************)
(* Types.  The count of frames stays bounded because the handler works on  *)
(* one sample at a time.                                                   *)
(***************************************************************************)
Typed ==
    /\ TypeOK
    /\ \A s \in job : seq < MaxFrames

LEMMA InitTyped == Init => Typed
  <1> SUFFICES ASSUME Init PROVE Typed
    OBVIOUS
  <1>1. frame \in [1 .. frameSize -> Nat] /\ frameSize \in Nat
    BY SMT DEF Init
  <1>2. /\ out.pub \in Samples \cup {NoSample}
        /\ out.size \in Nat /\ out.seq \in Nat
        /\ out.cells \in [1 .. out.size -> Nat]
    BY SMT DEF Init, NoFrame
  <1>3. seq \in 0 .. MaxFrames
    BY InputAssumption, SMT DEF Init
  <1>4. NoResult \in [kind : Kinds, seq : Nat]
    BY PointFacts, SMT DEF NoResult
  <1>5. /\ pc \in [Callers -> Points]
        /\ start \in [Callers -> Nat]
        /\ ret \in [Callers -> [kind : Kinds, seq : Nat]]
    BY <1>4, PointFacts DEF Init
  <1> QED
    BY <1>1, <1>2, <1>3, <1>5 DEF Init, Typed, TypeOK, Points

\* A step of one caller, by the operators its action is built from.
LEMMA GotoFacts ==
    ASSUME TypeOK, NEW g \in Callers, NEW point \in Points, Goto(g, point)
    PROVE  /\ pc' \in [Callers -> Points]
           /\ \A h \in Callers : pc'[h] = IF h = g THEN point ELSE pc[h]
  BY DEF TypeOK, Goto, Points

LEMMA ReturnFacts ==
    ASSUME TypeOK, NEW g \in Callers, NEW kind \in Kinds, NEW n \in Nat,
           Return(g, kind, n)
    PROVE  /\ pc' \in [Callers -> Points]
           /\ \A h \in Callers : pc'[h] = IF h = g THEN "idle" ELSE pc[h]
           /\ start' \in [Callers -> Nat]
           /\ \A h \in Callers : start'[h] = IF h = g THEN 0 ELSE start[h]
           /\ ret' \in [Callers -> [kind : Kinds, seq : Nat]]
           /\ mu' = mu \ {g} /\ mu' \subseteq Callers
  <1>1. Goto(g, "idle") /\ "idle" \in Points
    BY PointFacts DEF Return
  <1>2. start' \in [Callers -> Nat]
        /\ \A h \in Callers : start'[h] = IF h = g THEN 0 ELSE start[h]
    BY DEF TypeOK, Return
  <1>3. ret' \in [Callers -> [kind : Kinds, seq : Nat]]
    BY DEF TypeOK, Return
  <1>4. mu' = mu \ {g} /\ mu' \subseteq Callers
    BY DEF TypeOK, Return
  <1> QED
    BY <1>1, <1>2, <1>3, <1>4, GotoFacts

LEMMA BroadcastFacts ==
    ASSUME TypeOK, Broadcast
    PROVE  /\ pc' \in [Callers -> Points]
           /\ \A h \in Callers :
                 pc'[h] = IF pc[h] = "waiting" THEN "woken" ELSE pc[h]
  BY PointFacts DEF TypeOK, Broadcast, Points

\* The product of two sizes is a size.
LEMMA ProductIsNat ==
    ASSUME NEW a \in Nat, NEW b \in Nat
    PROVE  a * b \in Nat
  BY SMT

\* Pixel (x, y) of a frame whose rows fit the stride is one of its first
\* stride * h cells.
LEMMA IndexInRange ==
    ASSUME NEW w \in Nat, NEW h \in Nat, NEW stride \in Nat, w <= stride,
           NEW x \in 0 .. w - 1, NEW y \in 0 .. h - 1
    PROVE  y * stride + x + 1 \in 1 .. stride * h
  <1> DEFINE rest == h - (y + 1)
  <1>1. rest \in Nat /\ h = y + 1 + rest
    OBVIOUS
  <1>2. y * stride \in Nat /\ stride * rest \in Nat
    BY <1>1, ProductIsNat
  <1> HIDE DEF rest
  <1>3. stride * (y + 1 + rest) = y * stride + stride + stride * rest
    BY <1>1, SMT
  <1>4. stride * h = y * stride + stride + stride * rest
    BY <1>1, <1>3
  <1>5. stride * h \in Nat
    BY ProductIsNat
  <1> DEFINE a == y * stride
             b == stride * rest
             n == stride * h
  <1>6. n = a + stride + b /\ a \in Nat /\ b \in Nat /\ n \in Nat
    BY <1>2, <1>4, <1>5
  <1> HIDE DEF a, b, n
  <1>7. a + x + 1 \in 1 .. n
    BY <1>6
  <1> QED
    BY <1>7 DEF a, n

\* Pixel (x, y) of a convertible copy is a cell of it.
LEMMA PixelsAreCells ==
    ASSUME NEW f, f.pub \in Samples \cup {NoSample}, f.size \in Nat, Convertible(f),
           NEW x \in 0 .. f.pub.w - 1, NEW y \in 0 .. f.pub.h - 1
    PROVE  /\ y * f.pub.stride + x + 1 \in 1 .. f.pub.stride * f.pub.h
           /\ y * f.pub.stride + x + 1 \in 1 .. f.size
  <1>1. /\ f.pub.w \in Nat /\ f.pub.h \in Nat /\ f.pub.stride \in Nat
        /\ f.pub.w <= f.pub.stride
    BY SampleFacts
  <1>2. y * f.pub.stride + x + 1 \in 1 .. f.pub.stride * f.pub.h
    BY <1>1, IndexInRange
  <1>3. f.pub.stride * f.pub.h \in Nat /\ f.pub.stride * f.pub.h <= f.size
    BY <1>1, ProductIsNat DEF Convertible
  <1> QED
    BY <1>2, <1>3

LEMMA PixelsTyped ==
    ASSUME NEW f, f.pub \in Samples \cup {NoSample}, f.size \in Nat, Convertible(f),
           f.cells \in [1 .. f.size -> Nat]
    PROVE  PixelsOf(f) \subseteq Nat
  <1> SUFFICES ASSUME NEW x \in 0 .. f.pub.w - 1, NEW y \in 0 .. f.pub.h - 1
               PROVE  f.cells[y * f.pub.stride + x + 1] \in Nat
    BY DEF PixelsOf
  <1>1. y * f.pub.stride + x + 1 \in 1 .. f.size
    BY PixelsAreCells
  <1> QED
    BY <1>1

LEMMA PublishTyped == Typed /\ Publish => Typed'
  <1> SUFFICES ASSUME Typed, Publish PROVE Typed'
    OBVIOUS
  <1> USE DEF Typed
  <1>1. PICK s \in job :
            /\ frame' = Written(s.stride * s.h)
            /\ frameSize' = Capacity(s.stride * s.h)
            /\ pub' = s
            /\ seq' = seq + 1
            /\ job' = {}
    BY DEF Publish
  <1> DEFINE bytes == s.stride * s.h
  <1>2. bytes \in Nat
    BY SampleFacts, ProductIsNat DEF TypeOK
  <1> HIDE DEF bytes
  <1>3. frameSize' \in Nat /\ frameSize' = Capacity(bytes)
    BY <1>1, <1>2 DEF Capacity, TypeOK, bytes
  <1>4. frame' \in [1 .. frameSize' -> Nat]
    <2>1. frame' = Written(bytes)
      BY <1>1 DEF bytes
    <2>2. ASSUME NEW i \in 1 .. Capacity(bytes)
          PROVE  (IF i <= bytes THEN seq + 1 ELSE frame[i]) \in Nat
      BY <1>2 DEF Capacity, TypeOK
    <2> QED
      BY <1>3, <2>1, <2>2 DEF Written
  <1>5. seq' \in 0 .. MaxFrames
    BY <1>1, InputAssumption DEF TypeOK
  <1>6. pub' \in Samples \cup {NoSample} /\ job' \subseteq Samples
    BY <1>1 DEF TypeOK
  <1>7. \A t \in job' : seq' < MaxFrames
    BY <1>1
  <1>8. pc' \in [Callers -> Points]
    BY BroadcastFacts DEF Publish
  <1>9. UNCHANGED <<capVars, goVars, mu, out, start, ret>>
    BY DEF Publish
  <1> QED
    BY <1>3, <1>4, <1>5, <1>6, <1>7, <1>8, <1>9 DEF TypeOK, Points, capVars, goVars

\* A step that only moves a caller, and who holds c.mu.
LEMMA MoveTyped ==
    ASSUME Typed, UNCHANGED <<capVars, job, frameVars, crashed, timeout, lastImage, lastSeq, out>>,
           mu' \subseteq Callers, pc' \in [Callers -> Points],
           start' \in [Callers -> Nat], ret' \in [Callers -> [kind : Kinds, seq : Nat]]
    PROVE  Typed'
  BY DEF Typed, TypeOK, Points, capVars, frameVars

LEMMA GotoTyped ==
    ASSUME Typed, UNCHANGED <<capVars, job, frameVars, goVars, out, start, ret>>,
           NEW g \in Callers, NEW point \in Points, Goto(g, point),
           mu' = mu \/ mu' = {g}
    PROVE  Typed'
  <1>1. pc' \in [Callers -> Points]
    BY GotoFacts DEF Typed
  <1>2. mu' \subseteq Callers
    BY DEF Typed, TypeOK
  <1> QED
    BY <1>1, <1>2, MoveTyped DEF Typed, TypeOK, goVars

LEMMA ReturnTyped ==
    ASSUME Typed, UNCHANGED <<capVars, job, frameVars, goVars, out>>,
           NEW g \in Callers, NEW kind \in Kinds, NEW n \in Nat, Return(g, kind, n)
    PROVE  Typed'
  BY ReturnFacts, MoveTyped DEF Typed, goVars

LEMMA ConvertTyped ==
    ASSUME Typed, NEW g \in Callers, Convert(g)
    PROVE  Typed'
  <1> USE DEF Typed
  <1>1. /\ out'.pub \in Samples \cup {NoSample}
        /\ out'.size \in Nat /\ out'.seq \in Nat
        /\ out'.cells \in [1 .. out'.size -> Nat]
    BY SMT DEF Convert, NoFrame
  <1>2. lastImage' \subseteq Nat
    BY PixelsTyped DEF Convert, TypeOK
  <1>3. lastSeq' \in Nat
    BY DEF Convert, TypeOK
  <1>4. PICK kind \in Kinds, n \in Nat : Return(g, kind, n)
    BY PointFacts DEF Convert, TypeOK
  <1>5. /\ pc' \in [Callers -> Points] /\ start' \in [Callers -> Nat]
        /\ ret' \in [Callers -> [kind : Kinds, seq : Nat]] /\ mu' \subseteq Callers
    BY <1>4, ReturnFacts
  <1>6. UNCHANGED <<capVars, job, frameVars, crashed, timeout>>
    BY DEF Convert
  <1> QED
    BY <1>1, <1>2, <1>3, <1>5, <1>6 DEF TypeOK, Points, capVars, frameVars

LEMMA CaptureTyped ==
    ASSUME Typed, NEW g \in Callers, Capture(g)
    PROVE  Typed'
  <1>0. 0 \in Nat /\ lastSeq \in Nat
    BY DEF Typed, TypeOK
  <1>1. CASE LockCapture(g) \/ ReadWait(g)
    BY <1>0, <1>1, GotoTyped, ReturnTyped, PointFacts DEF LockCapture, ReadWait
  <1>2. CASE ReadPoll(g) \/ ReadTimedOut(g) \/ ReadNoMemory(g)
    BY <1>0, <1>2, ReturnTyped, PointFacts DEF ReadPoll, ReadTimedOut, NothingNew, ReadNoMemory
  <1>3. CASE ReadCopy(g)
    <2>1. pc' \in [Callers -> Points]
      BY <1>3, GotoFacts, PointFacts DEF ReadCopy, Typed
    <2>2. /\ out'.pub \in Samples \cup {NoSample}
          /\ out'.size \in Nat /\ out'.seq \in Nat
          /\ out'.cells \in [1 .. out'.size -> Nat]
      BY <1>3, SMT DEF ReadCopy, Typed, TypeOK
    <2> QED
      BY <1>3, <2>1, <2>2 DEF ReadCopy, Typed, TypeOK, Points, capVars, frameVars, goVars
  <1>4. CASE Convert(g)
    BY <1>4, ConvertTyped
  <1> QED
    BY <1>1, <1>2, <1>3, <1>4 DEF Capture

LEMMA CloseTyped ==
    ASSUME Typed, NEW g \in Callers, Close(g)
    PROVE  Typed'
  <1>1. CASE LockClose(g)
    BY <1>1, GotoTyped, ReturnTyped, PointFacts DEF LockClose
  <1>2. CASE CloseReturns(g)
    BY <1>2, ReturnTyped, PointFacts DEF CloseReturns
  <1>3. CASE Stop(g) \/ Destroy(g)
    <2>1. pc' \in [Callers -> Points]
      BY <1>3, GotoFacts, PointFacts DEF Stop, Destroy, Typed
    <2> QED
      BY <1>3, <2>1 DEF Stop, Destroy, Typed, TypeOK, Points, frameVars, goVars
  <1> QED
    BY <1>1, <1>2, <1>3 DEF Close

LEMMA CallTyped ==
    ASSUME Typed, NEW g \in Callers,
           \/ CallCapture(g) \/ CallClose(g)
           \/ Rouse(g, "woken") \/ Rouse(g, "expired")
    PROVE  Typed'
  <1>1. CASE CallCapture(g) \/ CallClose(g)
    <2>1. NoResult \in [kind : Kinds, seq : Nat]
      BY PointFacts, SMT DEF NoResult
    <2>2. ret' = [ret EXCEPT ![g] = NoResult]
      BY <1>1 DEF CallCapture, CallClose
    <2>3. ret' \in [Callers -> [kind : Kinds, seq : Nat]]
      BY <2>1, <2>2 DEF Typed, TypeOK
    <2>4. pc' \in [Callers -> Points]
      BY <1>1, GotoFacts, PointFacts DEF CallCapture, CallClose, Typed
    <2>5. start' \in [Callers -> Nat]
      BY <1>1 DEF CallCapture, CallClose, Typed, TypeOK
    <2> QED
      BY <1>1, <2>3, <2>4, <2>5, MoveTyped DEF CallCapture, CallClose, goVars, Typed, TypeOK
  <1>2. CASE Rouse(g, "woken") \/ Rouse(g, "expired")
    BY <1>2, GotoTyped, PointFacts DEF Rouse
  <1> QED
    BY <1>1, <1>2

LEMMA NextTyped == Typed /\ [Next]_vars => Typed'
  <1> SUFFICES ASSUME Typed, [Next]_vars PROVE Typed'
    OBVIOUS
  <1> USE DEF capVars, frameVars, goVars, callVars
  <1>1. CASE Construct \/ UNCHANGED vars
    BY <1>1 DEF Construct, ContentArrives, ContentFails, AddOutput, AddOutputFails,
                StartWaited, vars, Typed, TypeOK
  <1>2. ASSUME NEW result \in {"running", "failed"}, StartCompletes(result) PROVE Typed'
    BY <1>2 DEF StartCompletes, Typed, TypeOK
  <1>3. ASSUME NEW s \in Samples, Sample(s) PROVE Typed'
    BY <1>3 DEF Sample, Typed, TypeOK
  <1>4. CASE Drop \/ HandlerOnFreed
    BY <1>4 DEF Drop, HandlerOnFreed, Typed, TypeOK
  <1>5. CASE Publish
    BY <1>5, PublishTyped
  <1> QED
    BY <1>1, <1>2, <1>3, <1>4, <1>5, CallTyped, CaptureTyped, CloseTyped DEF Next

LEMMA AlwaysTyped == Spec => []Typed
  BY InitTyped, NextTyped, PTL DEF Spec

\* Every variable keeps its type, although the result of sc_capture_new and the
\* samples come from other threads: c->seq stays within the frames published,
\* and every cell of c->frame up to c->frame_size holds a frame number.
THEOREM TypeCorrect == Spec => []TypeOK
  BY AlwaysTyped, PTL DEF Typed

(***************************************************************************)
(* c.mu: the callers between Lock and Unlock are the ones that hold it.    *)
(***************************************************************************)
LockInv ==
    /\ \A g \in Callers : g \in mu <=> pc[g] \in InMu
    /\ \A g, h \in mu : g = h

LEMMA LockMoves ==
    ASSUME TypeOK, LockInv, NEW g \in Callers, NEW point \in Points, Goto(g, point),
           \/ mu = {} /\ mu' = {g} /\ point \in InMu
           \/ mu' = mu \ {g} /\ point \notin InMu /\ (pc[g] \in InMu \/ mu = {})
           \/ mu' = mu /\ (pc[g] \in InMu <=> point \in InMu)
    PROVE  LockInv'
  BY GotoFacts DEF LockInv

LEMMA ReturnKeepsLock ==
    ASSUME TypeOK, LockInv, NEW g \in Callers, NEW kind, NEW n, Return(g, kind, n),
           pc[g] \in InMu \/ mu = {}
    PROVE  LockInv'
  <1>1. Goto(g, "idle") /\ mu' = mu \ {g}
    BY DEF Return
  <1> QED
    BY <1>1, LockMoves, PointFacts

LEMMA Alone ==
    ASSUME LockInv, NEW g \in Callers, pc[g] \in InMu \/ mu = {}
    PROVE  \A h \in Callers \ {g} : pc[h] \notin InMu
  BY DEF LockInv

LEMMA LockStep == Typed /\ LockInv /\ [Next]_vars => LockInv'
  <1> SUFFICES ASSUME TypeOK, LockInv, [Next]_vars PROVE LockInv'
    BY DEF Typed
  <1> USE DEF callVars
  <1>1. ASSUME UNCHANGED <<mu, pc>> PROVE LockInv'
    BY <1>1 DEF LockInv
  <1>2. CASE Construct \/ Drop \/ HandlerOnFreed \/ UNCHANGED vars
    BY <1>1, <1>2 DEF Construct, ContentArrives, ContentFails, AddOutput, AddOutputFails,
                      StartWaited, Drop, HandlerOnFreed, vars
  <1>3. ASSUME NEW result \in {"running", "failed"}, StartCompletes(result) PROVE LockInv'
    BY <1>1, <1>3 DEF StartCompletes
  <1>4. ASSUME NEW s \in Samples, Sample(s) PROVE LockInv'
    BY <1>1, <1>4 DEF Sample
  <1>5. CASE Publish
    BY <1>5, BroadcastFacts, PointFacts DEF Publish, LockInv
  <1>6. ASSUME NEW g \in Callers,
               \/ CallCapture(g) \/ CallClose(g)
               \/ Rouse(g, "woken") \/ Rouse(g, "expired")
        PROVE  LockInv'
    <2>1. CASE CallCapture(g)
      BY <2>1, LockMoves, PointFacts DEF CallCapture
    <2>2. CASE CallClose(g)
      BY <2>2, LockMoves, PointFacts DEF CallClose
    <2>3. CASE Rouse(g, "woken") \/ Rouse(g, "expired")
      BY <2>3, LockMoves, PointFacts DEF Rouse
    <2> QED
      BY <1>6, <2>1, <2>2, <2>3
  <1>7. ASSUME NEW g \in Callers, Capture(g) PROVE LockInv'
    <2>1. CASE LockCapture(g)
      BY <2>1, LockMoves, ReturnKeepsLock, PointFacts DEF LockCapture
    <2>2. CASE ReadPoll(g) \/ ReadTimedOut(g)
      BY <2>2, ReturnKeepsLock, PointFacts DEF ReadPoll, ReadTimedOut, NothingNew
    <2>3. CASE ReadNoMemory(g) \/ Convert(g)
      BY <2>3, ReturnKeepsLock, PointFacts DEF ReadNoMemory, Convert
    <2>4. CASE ReadWait(g)
      BY <2>4, LockMoves, PointFacts DEF ReadWait
    <2>5. CASE ReadCopy(g)
      BY <2>5, LockMoves, PointFacts DEF ReadCopy
    <2> QED
      BY <1>7, <2>1, <2>2, <2>3, <2>4, <2>5 DEF Capture
  <1>8. ASSUME NEW g \in Callers, Close(g) PROVE LockInv'
    <2>1. CASE LockClose(g)
      BY <2>1, LockMoves, ReturnKeepsLock, PointFacts DEF LockClose
    <2>2. CASE Stop(g)
      BY <2>2, LockMoves, PointFacts DEF Stop
    <2>3. CASE Destroy(g)
      BY <2>3, LockMoves, PointFacts DEF Destroy
    <2>4. CASE CloseReturns(g)
      BY <2>4, ReturnKeepsLock, PointFacts DEF CloseReturns
    <2> QED
      BY <1>8, <2>1, <2>2, <2>3, <2>4 DEF Close
  <1> QED
    BY <1>2, <1>3, <1>4, <1>5, <1>6, <1>7, <1>8 DEF Next

LEMMA AlwaysLocked == Spec => [](Typed /\ LockInv)
  <1>1. Init => LockInv
    BY PointFacts DEF Init, LockInv
  <1> QED
    BY <1>1, LockStep, AlwaysTyped, PTL DEF Spec

(***************************************************************************)
(* The capture: what is made, running or gone while somebody relies on it. *)
(***************************************************************************)

\* Points at which a caller relies on the capture being there.
Alive == InRead \cup {"convert", "stop", "destroy"}

\* Nobody is inside before sc_capture_new has returned one, or after it failed;
\* a failure can leave the output registered but then the stream never runs,
\* and a stream that runs ends only behind a removed output.
StageInv ==
    /\ stage \in {"content", "output"} => live = "none" /\ ~output
    /\ stage = "failed" => live \notin {"starting", "running"}
    /\ stage = "freed" => ~output
    /\ stage = "failed" => job = {}
    /\ job # {} => live = "running"
    /\ \A g \in Callers :
          /\ pc[g] # "idle" => stage \in {"running", "freed"}
          /\ pc[g] \in Alive => stage = "running"
          /\ pc[g] = "destroy" => ~output
          /\ pc[g] = "closing" => stage = "freed"

LEMMA AliveFacts ==
    /\ Alive = {"read", "waiting", "woken", "expired", "convert", "stop", "destroy"}
    /\ Alive \subseteq InMu
  BY PointFacts DEF Alive

\* A step that leaves the capture alone, and takes its caller to a point the
\* stage allows.
LEMMA GotoKeepsStage ==
    ASSUME TypeOK, StageInv, UNCHANGED <<capVars, job>>,
           NEW g \in Callers, NEW point \in Points, Goto(g, point),
           point # "idle" => stage \in {"running", "freed"},
           point \in Alive => stage = "running",
           point = "destroy" => ~output,
           point = "closing" => stage = "freed"
    PROVE  StageInv'
  BY GotoFacts DEF StageInv, capVars

LEMMA ReturnKeepsStage ==
    ASSUME TypeOK, StageInv, UNCHANGED <<capVars, job>>,
           NEW g \in Callers, NEW kind, NEW n, Return(g, kind, n)
    PROVE  StageInv'
  BY GotoKeepsStage, PointFacts, AliveFacts DEF Return

LEMMA ConstructKeepsStage ==
    ASSUME TypeOK, StageInv, Construct
    PROVE  StageInv'
  <1> USE DEF callVars, TypeOK, StageInv
  <1>1. CASE ContentArrives
    BY <1>1 DEF ContentArrives
  <1>2. CASE ContentFails
    BY <1>2, AliveFacts DEF ContentFails
  <1>3. CASE AddOutput
    BY <1>3, AliveFacts DEF AddOutput
  <1>4. CASE AddOutputFails
    BY <1>4, AliveFacts DEF AddOutputFails
  <1>5. CASE StartWaited
    BY <1>5, AliveFacts DEF StartWaited
  <1> QED
    BY <1>1, <1>2, <1>3, <1>4, <1>5 DEF Construct

LEMMA CloseKeepsStage ==
    ASSUME TypeOK, LockInv, StageInv, NEW g \in Callers, Close(g)
    PROVE  StageInv'
  <1>1. CASE LockClose(g)
    <2>1. CASE stage = "freed"
      BY <1>1, <2>1, ReturnKeepsStage DEF LockClose
    <2>2. CASE stage # "freed"
      <3>1. stage = "running" /\ Goto(g, "stop")
        BY <1>1, <2>2 DEF LockClose, StageInv
      <3> QED
        BY <1>1, <3>1, GotoKeepsStage, PointFacts DEF LockClose
    <2> QED
      BY <2>1, <2>2
  <1>2. CASE CloseReturns(g)
    BY <1>2, ReturnKeepsStage DEF CloseReturns
  <1>3. ASSUME pc[g] \in InMu
        PROVE  \A h \in Callers \ {g} : pc[h] \notin Alive /\ pc[h] # "closing"
    BY <1>3, Alone, AliveFacts, PointFacts
  <1>4. CASE Stop(g)
    <2>1. \A h \in Callers : pc'[h] = IF h = g THEN "destroy" ELSE pc[h]
      BY <1>4, GotoFacts, PointFacts DEF Stop
    <2>2. stage = "running" /\ output' = FALSE /\ UNCHANGED <<stage, live, job>>
      BY <1>4, AliveFacts DEF Stop, StageInv
    <2> QED
      BY <2>1, <2>2 DEF StageInv
  <1>5. CASE Destroy(g)
    <2>1. \A h \in Callers : pc'[h] = IF h = g THEN "closing" ELSE pc[h]
      BY <1>5, GotoFacts, PointFacts DEF Destroy
    <2>2. /\ stage' = "freed" /\ ~output /\ UNCHANGED <<live, output, job>>
          /\ pc[g] \in InMu
      BY <1>5, PointFacts DEF Destroy, StageInv
    <2>3. "closing" \notin Alive
      BY AliveFacts
    <2> QED
      BY <1>3, <2>1, <2>2, <2>3 DEF StageInv
  <1> QED
    BY <1>1, <1>2, <1>4, <1>5 DEF Close

LEMMA CaptureKeepsStage ==
    ASSUME TypeOK, StageInv, NEW g \in Callers, Capture(g)
    PROVE  StageInv'
  <1>1. CASE LockCapture(g)
    <2>1. CASE stage = "freed"
      BY <1>1, <2>1, ReturnKeepsStage DEF LockCapture
    <2>2. CASE stage # "freed"
      <3>1. stage = "running" /\ Goto(g, "read")
        BY <1>1, <2>2 DEF LockCapture, StageInv
      <3> QED
        BY <1>1, <3>1, GotoKeepsStage, PointFacts DEF LockCapture
    <2> QED
      BY <2>1, <2>2
  <1>2. CASE ReadPoll(g) \/ ReadTimedOut(g) \/ ReadNoMemory(g) \/ Convert(g)
    BY <1>2, ReturnKeepsStage DEF ReadPoll, ReadTimedOut, NothingNew, ReadNoMemory, Convert
  <1>3. CASE ReadWait(g) \/ ReadCopy(g)
    <2>1. stage = "running"
      BY <1>3, AliveFacts DEF ReadWait, ReadCopy, StageInv
    <2>2. PICK point \in {"waiting", "convert"} : Goto(g, point)
      BY <1>3 DEF ReadWait, ReadCopy
    <2>3. UNCHANGED <<capVars, job>>
      BY <1>3 DEF ReadWait, ReadCopy
    <2> QED
      BY <2>1, <2>2, <2>3, GotoKeepsStage, PointFacts
  <1> QED
    BY <1>1, <1>2, <1>3 DEF Capture

LEMMA StageStep == Typed /\ LockInv /\ StageInv /\ [Next]_vars => StageInv'
  <1> SUFFICES ASSUME TypeOK, LockInv, StageInv, [Next]_vars PROVE StageInv'
    BY DEF Typed
  <1> USE DEF capVars, callVars
  <1>1. ASSUME NEW result \in {"running", "failed"}, StartCompletes(result) PROVE StageInv'
    BY <1>1 DEF StartCompletes, StageInv
  <1>2. ASSUME NEW s \in Samples, Sample(s) PROVE StageInv'
    BY <1>2 DEF Sample, StageInv
  <1>3. CASE Drop \/ HandlerOnFreed \/ UNCHANGED vars
    BY <1>3 DEF Drop, HandlerOnFreed, vars, StageInv
  <1>4. CASE Publish
    <2>1. \A h \in Callers : pc'[h] = IF pc[h] = "waiting" THEN "woken" ELSE pc[h]
      BY <1>4, BroadcastFacts DEF Publish
    <2> QED
      BY <1>4, <2>1, AliveFacts DEF Publish, StageInv
  <1>5. ASSUME NEW g \in Callers, CallCapture(g) \/ CallClose(g) PROVE StageInv'
    <2>1. PICK point \in {"capture", "close"} : Goto(g, point)
      BY <1>5 DEF CallCapture, CallClose
    <2>2. stage \in {"running", "freed"} /\ UNCHANGED <<capVars, job>>
      BY <1>5 DEF CallCapture, CallClose
    <2> QED
      BY <2>1, <2>2, GotoKeepsStage, PointFacts, AliveFacts
  <1>6. ASSUME NEW g \in Callers, Rouse(g, "woken") \/ Rouse(g, "expired") PROVE StageInv'
    <2>1. stage = "running"
      BY <1>6, AliveFacts DEF Rouse, StageInv
    <2> QED
      BY <1>6, <2>1, GotoKeepsStage, PointFacts DEF Rouse
  <1> QED
    BY <1>1, <1>2, <1>3, <1>4, <1>5, <1>6, ConstructKeepsStage, CaptureKeepsStage,
       CloseKeepsStage DEF Next

LEMMA AlwaysStaged == Spec => [](Typed /\ LockInv /\ StageInv)
  <1>1. Init => StageInv
    BY AliveFacts DEF Init, StageInv
  <1> QED
    BY <1>1, StageStep, AlwaysLocked, PTL DEF Spec

\* Whether sc_capture_destroy freed the capture or a failed sc_capture_new that
\* left the handler registered, no caller reads it and no sample is sent to it
\* any more, also by a stream whose start completes after the free.  A handler
\* that was sent one before the free is the only one that can touch it.
THEOREM FreedIsLeftAlone == Spec => NothingEntersFreed
  <1> DEFINE Entry == Gone => /\ job' \subseteq job
                             /\ \A g \in Callers : pc[g] \notin InRead /\ pc'[g] \notin InRead
  <1>1. StageInv /\ Gone => /\ ~(live = "running" /\ output)
                            /\ \A g \in Callers : pc[g] \notin Alive
    BY DEF StageInv, Gone
  <1>2. TypeOK /\ StageInv /\ Gone /\ [Next]_vars => job' \subseteq job /\ Gone'
    <2> SUFFICES ASSUME TypeOK, StageInv, Gone, [Next]_vars
                 PROVE  job' \subseteq job /\ stage' = stage
      BY DEF Gone
    <2> USE DEF capVars
    <2>1. CASE Construct
      BY <2>1 DEF Construct, ContentArrives, ContentFails, AddOutput, AddOutputFails,
                  StartWaited, Gone
    <2>2. CASE Drop \/ Publish \/ HandlerOnFreed \/ UNCHANGED vars
      BY <2>2 DEF Drop, Publish, HandlerOnFreed, vars
    <2>3. ASSUME NEW result \in {"running", "failed"}, StartCompletes(result)
          PROVE  UNCHANGED <<stage, job>>
      BY <2>3 DEF StartCompletes
    <2>4. ASSUME NEW s \in Samples, Sample(s) PROVE FALSE
      BY <1>1, <2>4 DEF Sample
    <2>5. ASSUME NEW g \in Callers, Capture(g) PROVE UNCHANGED <<stage, job>>
      BY <2>5 DEF Capture, LockCapture, ReadPoll, ReadWait, ReadTimedOut, NothingNew,
                  ReadCopy, ReadNoMemory, Convert
    <2>6. ASSUME NEW g \in Callers, Close(g) PROVE UNCHANGED <<stage, job>>
      <3>1. pc[g] # "destroy"
        BY <1>1, AliveFacts
      <3> QED
        BY <2>6, <3>1 DEF Close, LockClose, Stop, Destroy, CloseReturns
    <2>7. ASSUME NEW g \in Callers,
                 \/ CallCapture(g) \/ CallClose(g)
                 \/ Rouse(g, "woken") \/ Rouse(g, "expired")
          PROVE  UNCHANGED <<stage, job>>
      BY <2>7 DEF CallCapture, CallClose, Rouse
    <2> QED
      BY <2>1, <2>2, <2>3, <2>4, <2>5, <2>6, <2>7 DEF Next
  <1>3. (StageInv /\ Gone)' => \A g \in Callers : pc'[g] \notin Alive
    BY DEF StageInv, Gone
  <1>4. Typed /\ StageInv /\ StageInv' /\ [Next]_vars => [Entry]_vars
    BY <1>1, <1>2, <1>3, AliveFacts, PointFacts DEF Typed
  <1> QED
    BY <1>4, AlwaysStaged, PTL DEF Spec, NothingEntersFreed

(***************************************************************************)
(* Waiting on c->cond: a new frame broadcasts, and only the caller that    *)
(* holds c.mu changes lastSeq, while nobody waits.                         *)
(***************************************************************************)
LEMMA WakeupStep ==
    Typed /\ LockInv /\ NoLostWakeup /\ [Next]_vars => NoLostWakeup'
  <1> SUFFICES ASSUME TypeOK, LockInv, NoLostWakeup, [Next]_vars PROVE NoLostWakeup'
    BY DEF Typed
  <1> USE DEF frameVars, goVars, callVars
  <1>1. ASSUME UNCHANGED <<seq, lastSeq>>,
               \A h \in Callers : pc'[h] = "waiting" => pc[h] = "waiting"
        PROVE  NoLostWakeup'
    BY <1>1 DEF NoLostWakeup, Ready
  <1>2. ASSUME NEW g \in Callers, NEW point \in Points \ {"waiting"}, Goto(g, point),
               UNCHANGED <<seq, lastSeq>>
        PROVE  NoLostWakeup'
    BY <1>1, <1>2, GotoFacts
  <1>3. ASSUME \A h \in Callers : pc'[h] # "waiting" PROVE NoLostWakeup'
    BY <1>3 DEF NoLostWakeup
  <1>4. CASE Construct \/ Drop \/ HandlerOnFreed \/ UNCHANGED vars
    BY <1>1, <1>4 DEF Construct, ContentArrives, ContentFails, AddOutput, AddOutputFails,
                      StartWaited, Drop, HandlerOnFreed, vars
  <1>5. ASSUME NEW result \in {"running", "failed"}, StartCompletes(result)
        PROVE  NoLostWakeup'
    BY <1>1, <1>5 DEF StartCompletes
  <1>6. ASSUME NEW s \in Samples, Sample(s) PROVE NoLostWakeup'
    BY <1>1, <1>6 DEF Sample
  <1>7. CASE Publish
    BY <1>3, <1>7, BroadcastFacts DEF Publish
  <1>8. ASSUME NEW g \in Callers,
               \/ CallCapture(g) \/ CallClose(g)
               \/ Rouse(g, "woken") \/ Rouse(g, "expired")
        PROVE  NoLostWakeup'
    BY <1>2, <1>8, PointFacts DEF CallCapture, CallClose, Rouse
  <1>9. ASSUME NEW g \in Callers, Capture(g) PROVE NoLostWakeup'
    <2>1. CASE ReadWait(g)
      <3>1. ~Ready /\ UNCHANGED <<seq, lastSeq>>
        BY <2>1 DEF ReadWait
      <3> QED
        BY <3>1 DEF NoLostWakeup, Ready
    <2>2. CASE Convert(g)
      <3>1. \A h \in Callers : pc'[h] = IF h = g THEN "idle" ELSE pc[h]
        BY <2>2, GotoFacts, PointFacts DEF Convert, Return
      <3>2. \A h \in Callers \ {g} : pc[h] # "waiting"
        BY <2>2, Alone, PointFacts DEF Convert
      <3> QED
        BY <1>3, <3>1, <3>2
    <2>3. CASE LockCapture(g) \/ ReadCopy(g) \/ ReadNoMemory(g)
      BY <1>2, <2>3, PointFacts DEF LockCapture, ReadCopy, ReadNoMemory, Return
    <2>4. CASE ReadPoll(g) \/ ReadTimedOut(g)
      BY <1>2, <2>4, PointFacts DEF ReadPoll, ReadTimedOut, NothingNew, Return
    <2> QED
      BY <1>9, <2>1, <2>2, <2>3, <2>4 DEF Capture
  <1>10. ASSUME NEW g \in Callers, Close(g) PROVE NoLostWakeup'
    BY <1>2, <1>10, PointFacts DEF Close, LockClose, Stop, Destroy, CloseReturns, Return
  <1> QED
    BY <1>4, <1>5, <1>6, <1>7, <1>8, <1>9, <1>10 DEF Next

\* No caller sleeps through a frame, however the broadcast, the spurious
\* wake-ups and the deadlines of several callers interleave.
THEOREM WakeupsArrive == Spec => []NoLostWakeup
  <1>1. Init => NoLostWakeup
    BY DEF Init, NoLostWakeup
  <1> QED
    BY <1>1, WakeupStep, AlwaysLocked, PTL DEF Spec

(***************************************************************************)
(* Pixels: the visible part of c->frame, and of a copy, is one frame's.    *)
(***************************************************************************)
Whole(cells, n, tag) == \A i \in 1 .. n : cells[i] = tag

\* The buffer keeps the cells of earlier, larger frames beyond the visible part.
BufferInv ==
    /\ pub.stride * pub.h <= frameSize
    /\ Whole(frame, pub.stride * pub.h, seq)
    /\ out.pub.stride * out.pub.h <= out.size
    /\ Whole(out.cells, out.pub.stride * out.pub.h, out.seq)

LEMMA NoFrameIsWhole ==
    /\ NoFrame.pub.stride * NoFrame.pub.h <= NoFrame.size
    /\ Whole(NoFrame.cells, NoFrame.pub.stride * NoFrame.pub.h, NoFrame.seq)
  BY DEF NoFrame, NoSample, Whole

LEMMA WholePixels ==
    ASSUME NEW f, f.pub \in Samples, f.size \in Nat, Convertible(f),
           Whole(f.cells, f.pub.stride * f.pub.h, f.seq)
    PROVE  PixelsOf(f) = {f.seq}
  <1>1. ASSUME NEW x \in 0 .. f.pub.w - 1, NEW y \in 0 .. f.pub.h - 1
        PROVE  f.cells[y * f.pub.stride + x + 1] = f.seq
    BY PixelsAreCells DEF Whole
  <1>2. 0 \in 0 .. f.pub.w - 1 /\ 0 \in 0 .. f.pub.h - 1
    BY SampleFacts
  <1>3. f.cells[0 * f.pub.stride + 0 + 1] \in PixelsOf(f)
    BY <1>2 DEF PixelsOf
  <1>4. f.cells[0 * f.pub.stride + 0 + 1] = f.seq
    BY <1>1, <1>2
  <1>5. ASSUME NEW tag \in PixelsOf(f) PROVE tag = f.seq
    BY <1>1, <1>5 DEF PixelsOf
  <1> QED
    BY <1>3, <1>4, <1>5

LEMMA PublishWhole ==
    ASSUME TypeOK, BufferInv, Publish
    PROVE  BufferInv'
  <1>1. PICK s \in job :
            /\ frame' = Written(s.stride * s.h)
            /\ frameSize' = Capacity(s.stride * s.h)
            /\ pub' = s
            /\ seq' = seq + 1
    BY DEF Publish
  <1> DEFINE bytes == s.stride * s.h
  <1>2. bytes \in Nat /\ frameSize \in Nat
    BY SampleFacts, ProductIsNat DEF TypeOK
  <1>3. /\ frame' = Written(bytes) /\ frameSize' = Capacity(bytes)
        /\ pub'.stride * pub'.h = bytes
    BY <1>1
  <1> HIDE DEF bytes
  <1>4. bytes <= frameSize'
    BY <1>2, <1>3 DEF Capacity
  <1>5. Whole(frame', bytes, seq')
    <2> SUFFICES ASSUME NEW i \in 1 .. bytes PROVE frame'[i] = seq + 1
      BY <1>1 DEF Whole
    <2>1. i \in 1 .. Capacity(bytes) /\ i <= bytes
      BY <1>2 DEF Capacity
    <2> QED
      BY <1>3, <2>1 DEF Written
  <1>6. UNCHANGED out
    BY DEF Publish
  <1> QED
    BY <1>3, <1>4, <1>5, <1>6 DEF BufferInv

LEMMA BufferStep == Typed /\ BufferInv /\ [Next]_vars => BufferInv'
  <1> SUFFICES ASSUME TypeOK, BufferInv, [Next]_vars PROVE BufferInv'
    BY DEF Typed
  <1> USE DEF frameVars, callVars
  <1>1. ASSUME UNCHANGED <<pub, frame, frameSize, seq, out>> PROVE BufferInv'
    BY <1>1 DEF BufferInv, Whole
  <1>2. CASE Construct \/ Drop \/ HandlerOnFreed \/ UNCHANGED vars
    BY <1>1, <1>2 DEF Construct, ContentArrives, ContentFails, AddOutput, AddOutputFails,
                      StartWaited, Drop, HandlerOnFreed, vars
  <1>3. ASSUME NEW result \in {"running", "failed"}, StartCompletes(result) PROVE BufferInv'
    BY <1>1, <1>3 DEF StartCompletes
  <1>4. ASSUME NEW s \in Samples, Sample(s) PROVE BufferInv'
    BY <1>1, <1>4 DEF Sample
  <1>5. ASSUME NEW g \in Callers,
               \/ CallCapture(g) \/ CallClose(g)
               \/ Rouse(g, "woken") \/ Rouse(g, "expired") \/ Close(g)
        PROVE  BufferInv'
    BY <1>1, <1>5 DEF CallCapture, CallClose, Rouse, Close, LockClose, Stop, Destroy,
                      CloseReturns
  <1>6. ASSUME NEW g \in Callers, Capture(g) PROVE BufferInv'
    <2>1. CASE ReadCopy(g)
      <3>1. UNCHANGED <<pub, frame, frameSize, seq>>
        BY <2>1 DEF ReadCopy
      <3>2. /\ out'.pub = pub /\ out'.size = frameSize /\ out'.seq = seq
            /\ out'.cells = frame
        BY <2>1 DEF ReadCopy
      <3> QED
        BY <3>1, <3>2 DEF BufferInv, Whole
    <2>2. CASE Convert(g)
      BY <2>2, NoFrameIsWhole DEF Convert, BufferInv, Whole
    <2>3. CASE LockCapture(g) \/ ReadPoll(g) \/ ReadWait(g) \/ ReadTimedOut(g)
               \/ ReadNoMemory(g)
      BY <1>1, <2>3 DEF LockCapture, ReadPoll, ReadWait, ReadTimedOut, NothingNew,
                        ReadNoMemory
    <2> QED
      BY <1>6, <2>1, <2>2, <2>3 DEF Capture
  <1> QED
    BY <1>2, <1>3, <1>4, <1>5, <1>6, PublishWhole DEF Next

(***************************************************************************)
(* What a call in progress knows of the frame numbers.                     *)
(***************************************************************************)
Sleeping == {"waiting", "woken", "expired"}
NotReading == {"idle", "close", "stop", "destroy", "closing"}

\* Of the caller g: a copy it is about to convert is newer than the image and
\* no older than its call; a call that sleeps began before the first frame.
CallerInv(g) ==
    /\ start[g] <= seq
    /\ pc[g] = "convert" => /\ out.pub \in Samples
                            /\ out.seq \in start[g] .. seq
                            /\ out.seq > lastSeq
    /\ pc[g] \in Sleeping => lastSeq = 0 /\ start[g] = 0
    /\ pc[g] \in NotReading => start[g] = 0

CallInv ==
    /\ lastSeq <= seq
    /\ lastImage # {} <=> lastSeq > 0
    /\ seq > 0 => pub \in Samples
    /\ \A g \in Callers : CallerInv(g)

\* The frame numbers and the image are left alone, and one caller moves on.
LEMMA GotoKeepsCall ==
    ASSUME TypeOK, CallInv, NEW g \in Callers, NEW point \in Points, Goto(g, point),
           UNCHANGED <<seq, pub, lastSeq, lastImage, out>>,
           \A h \in Callers \ {g} : start'[h] = start[h],
           start'[g] <= seq, point # "convert",
           point \in Sleeping => lastSeq = 0 /\ start'[g] = 0,
           point \in NotReading => start'[g] = 0
    PROVE  CallInv'
  BY GotoFacts DEF CallInv, CallerInv

\* A return, when lastSeq stays or becomes that of the copy.
LEMMA ReturnKeepsCall ==
    ASSUME TypeOK, LockInv, CallInv, NEW g \in Callers, pc[g] \in InMu \/ mu = {},
           NEW kind, NEW n, Return(g, kind, n), UNCHANGED <<seq, pub>>,
           lastSeq' <= seq', lastImage' # {} <=> lastSeq' > 0
    PROVE  CallInv'
  <1>1. \A h \in Callers : /\ pc'[h] = IF h = g THEN "idle" ELSE pc[h]
                           /\ start'[h] = IF h = g THEN 0 ELSE start[h]
    <2>1. Goto(g, "idle") /\ start' = [start EXCEPT ![g] = 0]
      BY DEF Return
    <2> QED
      BY <2>1, GotoFacts, PointFacts DEF TypeOK
  <1>2. \A h \in Callers \ {g} : pc[h] \notin InMu
    BY Alone
  <1>3. "convert" \in InMu /\ Sleeping \subseteq InMu /\ "idle" \notin Sleeping
    BY PointFacts DEF Sleeping
  <1>4. seq \in Nat
    BY DEF TypeOK
  <1> QED
    BY <1>1, <1>2, <1>3, <1>4 DEF CallInv, CallerInv

LEMMA ReadCopyKeepsCall ==
    ASSUME TypeOK, LockInv, CallInv, NEW g \in Callers, ReadCopy(g)
    PROVE  CallInv'
  <1>1. \A h \in Callers : pc'[h] = IF h = g THEN "convert" ELSE pc[h]
    BY GotoFacts, PointFacts DEF ReadCopy
  <1>2. \A h \in Callers \ {g} : pc[h] # "convert"
    BY Alone, PointFacts DEF ReadCopy
  <1>3. /\ seq \in Nat /\ lastSeq \in Nat /\ start \in [Callers -> Nat]
        /\ UNCHANGED <<seq, pub, lastSeq, lastImage, start>>
    BY DEF ReadCopy, frameVars, goVars, TypeOK
  <1>4. out'.pub = pub /\ out'.seq = seq
    BY DEF ReadCopy
  <1>5. seq > 0 /\ seq > lastSeq /\ pub \in Samples
    BY <1>3 DEF ReadCopy, Ready, CallInv
  <1>6. "convert" \notin Sleeping /\ "convert" \notin NotReading
    BY DEF Sleeping, NotReading
  <1>7. ASSUME NEW h \in Callers PROVE CallerInv(h)'
    BY <1>1, <1>2, <1>3, <1>4, <1>5, <1>6 DEF CallInv, CallerInv
  <1> QED
    BY <1>3, <1>5, <1>7 DEF CallInv

LEMMA PublishKeepsCall ==
    ASSUME TypeOK, CallInv, Publish
    PROVE  CallInv'
  <1>1. /\ seq' = seq + 1 /\ seq \in Nat /\ lastSeq \in Nat /\ pub' \in Samples
        /\ UNCHANGED <<lastSeq, lastImage, out, start>>
        /\ start \in [Callers -> Nat]
    BY DEF Publish, goVars, TypeOK
  <1>2. \A h \in Callers : pc'[h] = IF pc[h] = "waiting" THEN "woken" ELSE pc[h]
    BY BroadcastFacts DEF Publish
  <1>3. {"waiting", "woken"} \subseteq Sleeping /\ "woken" \notin NotReading
    BY DEF Sleeping, NotReading
  <1>4. ASSUME NEW h \in Callers PROVE CallerInv(h)'
    BY <1>1, <1>2, <1>3 DEF CallInv, CallerInv
  <1> QED
    BY <1>1, <1>4 DEF CallInv

LEMMA ConvertKeepsCall ==
    ASSUME TypeOK, LockInv, BufferInv, CallInv, NEW g \in Callers, Convert(g)
    PROVE  CallInv'
  <1>1. /\ pc[g] \in InMu /\ UNCHANGED <<seq, pub>>
        /\ \E kind, n : Return(g, kind, n)
    BY PointFacts DEF Convert, frameVars
  <1>2. CASE Convertible(out)
    <2>1. /\ out.pub \in Samples /\ out.seq > lastSeq /\ out.seq <= seq
          /\ out.seq \in Nat /\ lastSeq \in Nat /\ seq \in Nat
      BY DEF Convert, CallInv, CallerInv, TypeOK
    <2>2. lastImage' = PixelsOf(out) /\ lastSeq' = out.seq
      BY <1>2 DEF Convert
    <2>3. PixelsOf(out) = {out.seq}
      BY <1>2, <2>1, WholePixels DEF BufferInv, TypeOK
    <2> QED
      BY <1>1, <2>1, <2>2, <2>3, ReturnKeepsCall
  <1>3. CASE ~Convertible(out)
    <2>1. UNCHANGED <<lastImage, lastSeq>> /\ (lastImage # {} <=> lastSeq > 0)
          /\ lastSeq <= seq
      BY <1>3 DEF Convert, CallInv
    <2> QED
      BY <1>1, <2>1, ReturnKeepsCall
  <1> QED
    BY <1>2, <1>3

LEMMA CaptureKeepsCall ==
    ASSUME TypeOK, LockInv, BufferInv, CallInv, NEW g \in Callers, Capture(g)
    PROVE  CallInv'
  <1> USE DEF frameVars, goVars
  <1>0. /\ lastSeq <= seq /\ (lastImage # {} <=> lastSeq > 0)
        /\ start[g] \in Nat /\ seq \in Nat /\ lastSeq \in Nat /\ CallerInv(g)
    BY DEF CallInv, TypeOK
  <1>1. CASE LockCapture(g)
    <2>1. CASE stage = "freed"
      BY <1>0, <1>1, <2>1, ReturnKeepsCall DEF LockCapture
    <2>2. CASE stage # "freed"
      <3>1. Goto(g, "read") /\ UNCHANGED start
        BY <1>1, <2>2 DEF LockCapture
      <3>2. "read" \in Points /\ "read" \notin Sleeping /\ "read" \notin NotReading
        BY PointFacts DEF Sleeping, NotReading
      <3> QED
        BY <1>0, <1>1, <3>1, <3>2, GotoKeepsCall DEF LockCapture, CallerInv
    <2> QED
      BY <2>1, <2>2
  <1>2. CASE ReadPoll(g) \/ ReadTimedOut(g) \/ ReadNoMemory(g)
    BY <1>0, <1>2, ReturnKeepsCall, PointFacts
    DEF ReadPoll, ReadTimedOut, NothingNew, ReadNoMemory
  <1>3. CASE ReadWait(g)
    <2>1. lastSeq = 0 /\ start[g] = 0
      <3>1. CASE pc[g] = "read" /\ MayWait
        BY <1>0, <1>3, <3>1 DEF ReadWait, MayWait, Ready, CallerInv
      <3>2. CASE pc[g] = "woken"
        BY <1>0, <3>2 DEF CallerInv, Sleeping
      <3> QED
        BY <1>3, <3>1, <3>2 DEF ReadWait
    <2>2. Goto(g, "waiting") /\ UNCHANGED start
      BY <1>3 DEF ReadWait
    <2>3. "waiting" \in Points
      BY PointFacts
    <2> QED
      BY <1>0, <1>3, <2>1, <2>2, <2>3, GotoKeepsCall DEF ReadWait
  <1>4. CASE ReadCopy(g)
    BY <1>4, ReadCopyKeepsCall
  <1>5. CASE Convert(g)
    BY <1>5, ConvertKeepsCall
  <1> QED
    BY <1>1, <1>2, <1>3, <1>4, <1>5 DEF Capture

LEMMA CloseKeepsCall ==
    ASSUME TypeOK, LockInv, CallInv, NEW g \in Callers, Close(g)
    PROVE  CallInv'
  <1> USE DEF frameVars, goVars
  <1>0. /\ lastSeq <= seq /\ (lastImage # {} <=> lastSeq > 0)
        /\ seq \in Nat /\ CallerInv(g)
    BY DEF CallInv, TypeOK
  <1>1. CASE CloseReturns(g)
    BY <1>0, <1>1, ReturnKeepsCall, PointFacts DEF CloseReturns
  <1>2. ASSUME NEW point \in {"stop", "destroy", "closing"}, Goto(g, point),
               pc[g] \in NotReading, UNCHANGED <<frameVars, goVars, out, start>>
        PROVE  CallInv'
    <2>1. point \in Points /\ point # "convert" /\ point \notin Sleeping
      BY PointFacts DEF Sleeping
    <2>2. start[g] = 0 /\ start[g] <= seq
      BY <1>0, <1>2 DEF CallerInv
    <2> QED
      BY <1>2, <2>1, <2>2, GotoKeepsCall
  <1>3. CASE LockClose(g)
    <2>1. CASE stage = "freed"
      BY <1>0, <1>3, <2>1, ReturnKeepsCall DEF LockClose
    <2>2. CASE stage # "freed"
      BY <1>2, <1>3, <2>2 DEF LockClose, NotReading
    <2> QED
      BY <2>1, <2>2
  <1>4. CASE Stop(g) \/ Destroy(g)
    BY <1>2, <1>4 DEF Stop, Destroy, NotReading
  <1> QED
    BY <1>1, <1>3, <1>4 DEF Close

LEMMA CallStep ==
    Typed /\ LockInv /\ BufferInv /\ CallInv /\ [Next]_vars => CallInv'
  <1> SUFFICES ASSUME TypeOK, LockInv, BufferInv, CallInv, [Next]_vars PROVE CallInv'
    BY DEF Typed
  <1> USE DEF frameVars, goVars, callVars
  <1>1. ASSUME UNCHANGED <<pub, seq, lastSeq, lastImage, out, pc, start>> PROVE CallInv'
    BY <1>1 DEF CallInv, CallerInv
  <1>2. CASE Construct \/ Drop \/ HandlerOnFreed \/ UNCHANGED vars
    BY <1>1, <1>2 DEF Construct, ContentArrives, ContentFails, AddOutput, AddOutputFails,
                      StartWaited, Drop, HandlerOnFreed, vars
  <1>3. ASSUME NEW result \in {"running", "failed"}, StartCompletes(result) PROVE CallInv'
    BY <1>1, <1>3 DEF StartCompletes
  <1>4. ASSUME NEW s \in Samples, Sample(s) PROVE CallInv'
    BY <1>1, <1>4 DEF Sample
  <1>5. ASSUME NEW g \in Callers, CallCapture(g) PROVE CallInv'
    <2>1. /\ Goto(g, "capture") /\ start'[g] = seq /\ seq \in Nat
          /\ \A h \in Callers \ {g} : start'[h] = start[h]
      BY <1>5 DEF CallCapture, TypeOK
    <2>2. "capture" \in Points /\ "capture" \notin Sleeping /\ "capture" \notin NotReading
      BY PointFacts DEF Sleeping, NotReading
    <2> QED
      BY <1>5, <2>1, <2>2, GotoKeepsCall DEF CallCapture
  <1>6. ASSUME NEW g \in Callers, CallClose(g) PROVE CallInv'
    <2>1. Goto(g, "close") /\ start[g] = 0 /\ start[g] <= seq
      BY <1>6 DEF CallClose, NotReading, CallInv, CallerInv
    <2>2. "close" \in Points /\ "close" \notin Sleeping
      BY PointFacts DEF Sleeping
    <2> QED
      BY <1>6, <2>1, <2>2, GotoKeepsCall DEF CallClose
  <1>7. ASSUME NEW g \in Callers, NEW point \in {"woken", "expired"}, Rouse(g, point)
        PROVE  CallInv'
    <2>1. lastSeq = 0 /\ start[g] = 0 /\ start[g] <= seq
      BY <1>7 DEF Rouse, Sleeping, CallInv, CallerInv
    <2>2. point \in Points /\ point # "convert"
      BY PointFacts
    <2> QED
      BY <1>7, <2>1, <2>2, GotoKeepsCall DEF Rouse
  <1> QED
    BY <1>2, <1>3, <1>4, <1>5, <1>6, <1>7, PublishKeepsCall, CaptureKeepsCall,
       CloseKeepsCall DEF Next

LEMMA AlwaysCall ==
    Spec => [](Typed /\ LockInv /\ StageInv /\ BufferInv /\ CallInv)
  <1>1. Init => BufferInv
    BY NoFrameIsWhole DEF Init, BufferInv, NoSample, Whole
  <1>2. Init => CallInv
    BY DEF Init, CallInv, CallerInv, Sleeping
  <1> QED
    BY <1>1, <1>2, BufferStep, CallStep, AlwaysStaged, PTL DEF Spec

\* No image mixes two frames, although the buffer does: only Convert makes an
\* image, and of the visible part of a copy.
THEOREM NoTearing == Spec => []NoTornImage
  <1>1. Init => NoTornImage
    BY DEF Init, NoTornImage
  <1>2. Typed /\ BufferInv /\ CallInv /\ NoTornImage /\ [Next]_vars => NoTornImage'
    <2> SUFFICES ASSUME TypeOK, BufferInv, CallInv, NoTornImage, [Next]_vars
                 PROVE  NoTornImage'
      BY DEF Typed
    <2> USE DEF goVars
    <2>1. ASSUME UNCHANGED <<lastImage, lastSeq>> PROVE NoTornImage'
      BY <2>1 DEF NoTornImage
    <2>2. ASSUME NEW g \in Callers, Convert(g) PROVE NoTornImage'
      <3>1. CASE Convertible(out)
        <4>1. out.pub \in Samples
          BY <2>2 DEF Convert, CallInv, CallerInv
        <4>2. PixelsOf(out) = {out.seq}
          BY <3>1, <4>1, WholePixels DEF BufferInv, TypeOK
        <4> QED
          BY <2>2, <3>1, <4>2 DEF Convert, NoTornImage
      <3> QED
        BY <2>1, <2>2, <3>1 DEF Convert
    <2>3. ASSUME NEW g \in Callers, Capture(g), ~Convert(g) PROVE NoTornImage'
      BY <2>1, <2>3 DEF Capture, LockCapture, ReadPoll, ReadWait, ReadTimedOut, NothingNew,
                        ReadCopy, ReadNoMemory
    <2>4. ASSUME NEW g \in Callers,
                 \/ CallCapture(g) \/ CallClose(g)
                 \/ Rouse(g, "woken") \/ Rouse(g, "expired") \/ Close(g)
          PROVE  NoTornImage'
      BY <2>1, <2>4 DEF CallCapture, CallClose, Rouse, Close, LockClose, Stop, Destroy,
                        CloseReturns
    <2>5. CASE Construct \/ Drop \/ HandlerOnFreed \/ Publish \/ UNCHANGED vars
      BY <2>1, <2>5 DEF Construct, ContentArrives, ContentFails, AddOutput, AddOutputFails,
                        StartWaited, Drop, HandlerOnFreed, Publish, vars
    <2>6. ASSUME NEW result \in {"running", "failed"}, StartCompletes(result)
          PROVE  NoTornImage'
      BY <2>1, <2>6 DEF StartCompletes
    <2>7. ASSUME NEW s \in Samples, Sample(s) PROVE NoTornImage'
      BY <2>1, <2>7 DEF Sample
    <2> QED
      BY <2>2, <2>3, <2>4, <2>5, <2>6, <2>7 DEF Next
  <1> QED
    BY <1>1, <1>2, AlwaysCall, PTL DEF Spec

(***************************************************************************)
(* Refinement: every step is a step of CaptureContract or a stutter.       *)
(***************************************************************************)
CallOf(point) ==
    CASE point = "idle" -> "none"
      [] point \in {"close", "stop", "destroy", "closing"} -> "Close"
      [] OTHER -> "Capture"

calls == [g \in Callers |-> CallOf(pc[g])]

InCapture == {"capture", "convert"} \cup InRead
InClose == {"close", "stop", "destroy", "closing"}

LEMMA CallOfPoint ==
    /\ CallOf("idle") = "none"
    /\ \A point \in InCapture : CallOf(point) = "Capture"
    /\ \A point \in InClose : CallOf(point) = "Close"
    /\ InCapture \cup InClose \subseteq Points
  BY PointFacts DEF CallOf, InCapture, InClose

LEMMA CallMoves ==
    ASSUME TypeOK, NEW g \in Callers, NEW point \in Points, Goto(g, point)
    PROVE  /\ calls' = [calls EXCEPT ![g] = CallOf(point)]
           /\ calls[g] = CallOf(pc[g])
           /\ CallOf(point) = CallOf(pc[g]) => UNCHANGED calls
  BY GotoFacts DEF calls

LEMMA CallsOnReturn ==
    ASSUME TypeOK, NEW g \in Callers, NEW kind, NEW n, Return(g, kind, n)
    PROVE  /\ calls' = [calls EXCEPT ![g] = "none"]
           /\ start' = [start EXCEPT ![g] = 0]
           /\ ret' = [ret EXCEPT ![g] = [kind |-> kind, seq |-> n]]
           /\ calls[g] = CallOf(pc[g])
  BY CallMoves, CallOfPoint, PointFacts DEF Return

\* A return with an error, at any point of a Capture.
LEMMA FailRefines ==
    ASSUME TypeOK, NEW g \in Callers, pc[g] \in InCapture, Return(g, "error", 0),
           UNCHANGED <<seq, lastSeq, stage>>
    PROVE  Contract!Fail(g)
  BY CallsOnReturn, CallOfPoint DEF Contract!Fail, Contract!Leave, calls, CallOf

\* ret == 1 of sc_capture_read is a repetition or a timeout of the contract.
LEMMA NothingNewRefines ==
    ASSUME TypeOK, CallInv, NEW g \in Callers, pc[g] \in InRead, NothingNew(g),
           stage # "freed",
           lastSeq = 0 => start[g] = 0,
           lastSeq > 0 => lastSeq >= start[g]
    PROVE  Contract!Repeated(g) \/ Contract!TimedOut(g)
  <1>1. /\ calls[g] = "Capture" /\ lastSeq \in Nat
        /\ UNCHANGED <<seq, lastSeq, stage>>
        /\ \E kind, n : Return(g, kind, n)
    BY CallsOnReturn, CallOfPoint
    DEF NothingNew, InCapture, TypeOK, frameVars, goVars, capVars
  <1>2. CASE lastImage # {}
    <2>1. Return(g, "repeated", lastSeq) /\ lastSeq > 0
      BY <1>2 DEF NothingNew, CallInv
    <2> QED
      BY <1>1, <2>1, CallsOnReturn
      DEF Contract!Repeated, Contract!NothingNew, Contract!Leave, calls, CallOf
  <1>3. CASE lastImage = {}
    <2>1. Return(g, "timeout", 0) /\ lastSeq = 0
      BY <1>1, <1>3 DEF NothingNew, CallInv
    <2> QED
      BY <1>1, <2>1, CallsOnReturn
      DEF Contract!TimedOut, Contract!NothingNew, Contract!Leave, calls, CallOf
  <1> QED
    BY <1>2, <1>3

LEMMA ConvertRefines ==
    ASSUME TypeOK, StageInv, CallInv, NEW g \in Callers, Convert(g)
    PROVE  Contract!Fresh(g) \/ Contract!Fail(g)
  <1>1. /\ pc[g] = "convert" /\ pc[g] \in InCapture
        /\ UNCHANGED <<seq, stage>>
    BY DEF Convert, InCapture, frameVars, capVars
  <1>2. CASE Convertible(out)
    <2>1. Return(g, "fresh", out.seq) /\ lastSeq' = out.seq
      BY <1>2 DEF Convert
    <2>2. stage # "freed"
      BY <1>1, AliveFacts DEF StageInv
    <2>3. out.seq \in start[g] .. seq /\ out.seq > lastSeq
      BY <1>1 DEF CallInv, CallerInv
    <2> QED
      BY <1>1, <2>1, <2>2, <2>3, CallsOnReturn, CallOfPoint
      DEF Contract!Fresh, Contract!Leave, calls, CallOf
  <1>3. CASE ~Convertible(out)
    <2>1. Return(g, "error", 0) /\ UNCHANGED lastSeq
      BY <1>3 DEF Convert
    <2> QED
      BY <1>1, <2>1, FailRefines
  <1> QED
    BY <1>2, <1>3

\* A step of which the contract sees nothing.
LEMMA Stutters ==
    UNCHANGED <<seq, lastSeq, (stage # "freed"), calls, start, ret>>
        => UNCHANGED Contract!vars
  BY DEF Contract!vars, calls, CallOf

LEMMA CaptureRefines ==
    ASSUME TypeOK, StageInv, CallInv, NEW g \in Callers, Capture(g)
    PROVE  [Contract!Next]_(Contract!vars)
  <1> USE DEF frameVars, capVars, goVars
  <1>0. /\ InRead \subseteq InCapture
        /\ {"capture", "read", "waiting", "woken", "convert"} \subseteq InCapture
    BY PointFacts DEF InCapture
  <1>1. pc[g] \in InRead => stage # "freed"
    BY AliveFacts, PointFacts DEF StageInv
  <1>2. CASE LockCapture(g) /\ stage = "freed"
    <2>1. Return(g, "error", 0) /\ pc[g] \in InCapture
      BY <1>0, <1>2 DEF LockCapture
    <2> QED
      BY <1>2, <2>1, FailRefines DEF LockCapture, Contract!Next
  <1>3. CASE (LockCapture(g) /\ stage # "freed") \/ ReadWait(g) \/ ReadCopy(g)
    <2>1. PICK point \in {"read", "waiting", "convert"} : Goto(g, point)
      BY <1>3 DEF LockCapture, ReadWait, ReadCopy
    <2>2. pc[g] \in InCapture
      BY <1>0, <1>3 DEF LockCapture, ReadWait, ReadCopy
    <2>3. UNCHANGED calls
      BY <1>0, <2>1, <2>2, CallMoves, CallOfPoint
    <2>4. UNCHANGED <<seq, lastSeq, stage, start, ret>>
      BY <1>3 DEF LockCapture, ReadWait, ReadCopy
    <2> QED
      BY <2>3, <2>4, Stutters
  <1>4. CASE ReadPoll(g)
    <2>1. /\ seq = 0 \/ seq = lastSeq
          /\ start[g] <= seq /\ lastSeq <= seq
          /\ start[g] \in Nat /\ lastSeq \in Nat /\ seq \in Nat
      BY <1>4 DEF ReadPoll, Ready, CallInv, CallerInv, TypeOK
    <2>2. pc[g] \in InRead
      BY <1>4, PointFacts DEF ReadPoll
    <2>3. Contract!Repeated(g) \/ Contract!TimedOut(g)
      BY <1>1, <1>4, <2>1, <2>2, NothingNewRefines DEF ReadPoll
    <2> QED
      BY <2>3 DEF Contract!Next
  <1>5. CASE ReadTimedOut(g)
    <2>1. lastSeq = 0 /\ start[g] = 0 /\ pc[g] \in InRead
      BY <1>5, PointFacts DEF ReadTimedOut, CallInv, CallerInv, Sleeping
    <2>2. Contract!Repeated(g) \/ Contract!TimedOut(g)
      BY <1>1, <1>5, <2>1, NothingNewRefines DEF ReadTimedOut
    <2> QED
      BY <2>2 DEF Contract!Next
  <1>6. CASE ReadNoMemory(g)
    <2>1. pc[g] \in InCapture
      BY <1>0, <1>6 DEF ReadNoMemory
    <2> QED
      BY <1>6, <2>1, FailRefines DEF ReadNoMemory, Contract!Next
  <1>7. CASE Convert(g)
    BY <1>7, ConvertRefines DEF Contract!Next
  <1> QED
    BY <1>2, <1>3, <1>4, <1>5, <1>6, <1>7 DEF Capture

\* The return of a Close, by the caller that freed the capture or by another.
LEMMA CloseReturnRefines ==
    ASSUME TypeOK, NEW g \in Callers, pc[g] \in InClose, stage = "freed",
           Return(g, "closed", 0), UNCHANGED <<seq, lastSeq, stage>>
    PROVE  Contract!CloseReturns(g)
  BY CallsOnReturn, CallOfPoint DEF Contract!CloseReturns, Contract!Leave, calls, CallOf

LEMMA CloseRefines ==
    ASSUME TypeOK, StageInv, NEW g \in Callers, Close(g)
    PROVE  [Contract!Next]_(Contract!vars)
  <1> USE DEF frameVars, capVars, goVars
  <1>0. pc[g] \in InClose
    BY DEF Close, LockClose, Stop, Destroy, CloseReturns, InClose
  <1>1. CASE (LockClose(g) /\ stage # "freed") \/ Stop(g)
    <2>1. PICK point \in {"stop", "destroy"} : Goto(g, point)
      BY <1>1 DEF LockClose, Stop
    <2>2. UNCHANGED calls
      BY <1>0, <2>1, CallMoves, CallOfPoint DEF InClose
    <2>3. UNCHANGED <<seq, lastSeq, stage, start, ret>>
      BY <1>1 DEF LockClose, Stop
    <2> QED
      BY <2>2, <2>3, Stutters
  <1>2. CASE (LockClose(g) /\ stage = "freed") \/ CloseReturns(g)
    <2>1. /\ Return(g, "closed", 0) /\ stage = "freed"
          /\ UNCHANGED <<seq, lastSeq, stage>>
      BY <1>2 DEF LockClose, CloseReturns, StageInv
    <2> QED
      BY <1>0, <2>1, CloseReturnRefines DEF Contract!Next
  <1>3. CASE Destroy(g)
    <2>1. Goto(g, "closing") /\ pc[g] = "destroy" /\ stage' = "freed"
      BY <1>3 DEF Destroy
    <2>2. UNCHANGED calls /\ calls[g] = "Close"
      BY <1>0, <2>1, CallMoves, CallOfPoint DEF InClose
    <2>3. stage # "freed"
      BY <2>1, AliveFacts DEF StageInv
    <2>4. Contract!TearDown
      BY <1>3, <2>1, <2>2, <2>3 DEF Destroy, Contract!TearDown, calls, CallOf
    <2> QED
      BY <2>4 DEF Contract!Next
  <1> QED
    BY <1>1, <1>2, <1>3 DEF Close

LEMMA EnterRefines ==
    ASSUME TypeOK, CallInv, NEW g \in Callers
    PROVE  /\ CallCapture(g) => Contract!Enter(g, "Capture")
           /\ CallClose(g) => Contract!Enter(g, "Close")
  <1> USE DEF frameVars, capVars, goVars
  <1>0. Contract!NoResult = NoResult
    BY DEF Contract!NoResult, NoResult
  <1>1. CallCapture(g) => Contract!Enter(g, "Capture")
    <2> HAVE CallCapture(g)
    <2>1. Goto(g, "capture") /\ pc[g] = "idle" /\ "capture" \in InCapture
      BY DEF CallCapture, InCapture
    <2>2. calls' = [calls EXCEPT ![g] = "Capture"] /\ calls[g] = "none"
      BY <2>1, CallMoves, CallOfPoint
    <2> QED
      BY <1>0, <2>2 DEF CallCapture, Contract!Enter, calls, CallOf
  <1>2. CallClose(g) => Contract!Enter(g, "Close")
    <2> HAVE CallClose(g)
    <2>1. Goto(g, "close") /\ pc[g] = "idle" /\ "close" \in InClose
      BY DEF CallClose, InClose
    <2>2. calls' = [calls EXCEPT ![g] = "Close"] /\ calls[g] = "none"
      BY <2>1, CallMoves, CallOfPoint
    <2>3. start' = [start EXCEPT ![g] = 0]
      <3>1. start[g] = 0 /\ UNCHANGED start /\ start \in [Callers -> Nat]
        BY <2>1 DEF CallClose, CallInv, CallerInv, NotReading, TypeOK
      <3> QED
        BY <3>1
    <2> QED
      BY <1>0, <2>2, <2>3 DEF CallClose, Contract!Enter, calls, CallOf
  <1> QED
    BY <1>1, <1>2

LEMMA StepRefines ==
    Typed /\ StageInv /\ CallInv /\ [Next]_vars => [Contract!Next]_(Contract!vars)
  <1> SUFFICES ASSUME TypeOK, StageInv, CallInv, [Next]_vars
               PROVE  [Contract!Next]_(Contract!vars)
    BY DEF Typed
  <1> USE DEF frameVars, capVars, goVars, callVars
  <1>1. CASE Construct
    <2>1. (stage' # "freed") = (stage # "freed")
      BY <1>1 DEF Construct, ContentArrives, ContentFails, AddOutput, AddOutputFails,
                  StartWaited
    <2>2. UNCHANGED <<seq, lastSeq, pc, start, ret>>
      BY <1>1 DEF Construct, ContentArrives, ContentFails, AddOutput, AddOutputFails,
                  StartWaited
    <2> QED
      BY <2>1, <2>2, Stutters DEF calls
  <1>2. CASE Drop \/ HandlerOnFreed \/ UNCHANGED vars
    BY <1>2, Stutters DEF Drop, HandlerOnFreed, vars, calls
  <1>3. ASSUME NEW result \in {"running", "failed"}, StartCompletes(result)
        PROVE  UNCHANGED Contract!vars
    BY <1>3, Stutters DEF StartCompletes, calls
  <1>4. ASSUME NEW s \in Samples, Sample(s) PROVE UNCHANGED Contract!vars
    BY <1>4, Stutters DEF Sample, calls
  <1>5. CASE Publish
    <2>1. stage # "freed"
      BY <1>5 DEF Publish
    <2>2. UNCHANGED calls
      <3>1. \A h \in Callers : CallOf(pc'[h]) = CallOf(pc[h])
        BY <1>5, BroadcastFacts DEF Publish, CallOf
      <3> QED
        BY <3>1 DEF calls
    <2>3. Contract!Publish
      BY <1>5, <2>1, <2>2 DEF Publish, Contract!Publish, calls, CallOf
    <2> QED
      BY <2>3 DEF Contract!Next
  <1>6. ASSUME NEW g \in Callers, CallCapture(g) \/ CallClose(g) PROVE Contract!Next
    BY <1>6, EnterRefines DEF Contract!Next
  <1>7. ASSUME NEW g \in Callers, NEW point \in {"woken", "expired"}, Rouse(g, point)
        PROVE  UNCHANGED Contract!vars
    <2>1. {point, pc[g]} \subseteq InCapture
      BY <1>7, PointFacts DEF Rouse, InCapture
    <2>2. UNCHANGED calls
      BY <1>7, <2>1, CallMoves, CallOfPoint DEF Rouse
    <2> QED
      BY <1>7, <2>2, Stutters DEF Rouse
  <1>8. ASSUME NEW g \in Callers, Capture(g) \/ Close(g)
        PROVE  [Contract!Next]_(Contract!vars)
    BY <1>8, CaptureRefines, CloseRefines
  <1> QED
    BY <1>1, <1>2, <1>3, <1>4, <1>5, <1>6, <1>7, <1>8 DEF Next

\* The capturer implements the contract of the interface for its callers, also
\* when the stream starts late, fails after it was given out, or never starts.
THEOREM Implements == Spec => ContractSpec
  <1>1. Init => Contract!Init
    <2> SUFFICES ASSUME Init PROVE Contract!Init
      OBVIOUS
    <2>1. calls = [g \in Callers |-> "none"]
      BY CallOfPoint DEF Init, calls
    <2> QED
      BY <2>1 DEF Init, Contract!Init, Contract!NoResult, NoResult, calls, CallOf
  <1> QED
    BY <1>1, StepRefines, AlwaysCall, PTL DEF Spec, ContractSpec, Contract!Spec

(***************************************************************************)
(* What the promise gives the callers together.                            *)
(***************************************************************************)
LEMMA ResultsStep ==
    ASSUME Contract!ResultsInv, [Contract!Next]_(Contract!vars)
    PROVE  Contract!ResultsInv' /\ Contract!InOrder /\ Contract!StaysClosed
  <1> DEFINE Good == Contract!ResultsInv' /\ Contract!InOrder /\ Contract!StaysClosed
  <1> USE DEF Contract!ResultsInv, Contract!InOrder, Contract!StaysClosed,
              Contract!Images, Contract!Kinds, Contract!NoResult, Contract!Leave
  <1>1. CASE Contract!Publish \/ Contract!TearDown \/ UNCHANGED Contract!vars
    BY <1>1 DEF Contract!Publish, Contract!TearDown, Contract!vars
  <1>2. ASSUME NEW g \in Callers, Contract!Enter(g, "Capture") \/ Contract!Enter(g, "Close")
        PROVE  Good
    <2>1. /\ ret' = [ret EXCEPT ![g] = [kind |-> "none", seq |-> 0]]
          /\ start' \in [Callers -> Nat]
      BY <1>2 DEF Contract!Enter
    <2> QED
      BY <1>2, <2>1 DEF Contract!Enter
  <1>3. ASSUME NEW g \in Callers, Contract!Fresh(g) PROVE Good
    <2>1. lastSeq' \in Nat /\ lastSeq' > lastSeq
      BY <1>3 DEF Contract!Fresh
    <2>2. ret' = [ret EXCEPT ![g] = [kind |-> "fresh", seq |-> lastSeq']]
      BY <1>3 DEF Contract!Fresh
    <2> QED
      BY <1>3, <2>1, <2>2 DEF Contract!Fresh
  <1>4. ASSUME NEW g \in Callers, Contract!Repeated(g) PROVE Good
    BY <1>4 DEF Contract!Repeated
  <1>5. ASSUME NEW g \in Callers, Contract!TimedOut(g) PROVE Good
    BY <1>5 DEF Contract!TimedOut
  <1>6. ASSUME NEW g \in Callers, Contract!Fail(g) PROVE Good
    BY <1>6 DEF Contract!Fail
  <1>7. ASSUME NEW g \in Callers, Contract!CloseReturns(g) PROVE Good
    BY <1>7 DEF Contract!CloseReturns
  <1> QED
    BY <1>1, <1>2, <1>3, <1>4, <1>5, <1>6, <1>7 DEF Contract!Next

LEMMA ResultsAlways == ContractSpec => []Contract!ResultsInv
  <1>1. Contract!Init => Contract!ResultsInv
    BY DEF Contract!Init, Contract!ResultsInv, Contract!NoResult, Contract!Images,
           Contract!Kinds
  <1>2. Contract!ResultsInv /\ [Contract!Next]_(Contract!vars) => Contract!ResultsInv'
    BY ResultsStep
  <1> QED
    BY <1>1, <1>2, PTL DEF ContractSpec, Contract!Spec

\* The images that the callers get, all of them together, never go back: one
\* caller's Capture returns nothing older than what another has already.
THEOREM ImagesInOrder == Spec => Contract!ResultsInOrder
  <1>1. Contract!ResultsInv /\ [Contract!Next]_(Contract!vars)
            => [Contract!InOrder]_(Contract!vars)
    BY ResultsStep
  <1> QED
    BY <1>1, Implements, ResultsAlways, PTL
    DEF ContractSpec, Contract!Spec, Contract!ResultsInOrder

\* After a Close returned to anybody nobody gets an image or waits for one.
THEOREM ClosedIsFinal == Spec => Contract!ClosedForEver
  <1>1. Contract!ResultsInv /\ [Contract!Next]_(Contract!vars)
            => [Contract!StaysClosed]_(Contract!vars)
    BY ResultsStep
  <1> QED
    BY <1>1, Implements, ResultsAlways, PTL
    DEF ContractSpec, Contract!Spec, Contract!ClosedForEver
=============================================================================
