------------------------ MODULE PipewireCapture_proofs ------------------------
(***************************************************************************)
(* Proofs about PipewireCapture, for every set of callers, every set of    *)
(* sizes, chunks and timeouts, and every number of buffers and frames.     *)
(***************************************************************************)
EXTENDS PipewireCapture, TLAPS

(***************************************************************************)
(* Types, with what they rest on: the count of buffers bounds `queued`, and *)
(* rows that fit their stride keep a copied frame's indices in its domain. *)
(***************************************************************************)
RowsFit ==
    /\ job.w <= job.stride
    /\ pub.w <= pub.stride
    /\ out.w <= out.stride

Typed == TypeOK /\ BuffersReturned /\ RowsFit

\* The product of two sizes is a size.
LEMMA ProductIsNat ==
    ASSUME NEW a \in Nat, NEW b \in Nat
    PROVE  a * b \in Nat
  BY SMT

\* Pixel (x, y) of a frame whose rows fit the stride is one of its first
\* stride * h cells.
LEMMA IndexInRange ==
    ASSUME NEW w \in Nat, NEW h \in Nat, NEW stride \in Nat, w <= stride,
           NEW x \in 0 .. w - 1, NEW y \in 0 .. h - 1
    PROVE  y * stride + x + 1 \in 1 .. stride * h
  <1> DEFINE rest == h - (y + 1)
  <1>1. rest \in Nat /\ h = y + 1 + rest
    OBVIOUS
  <1>2. y * stride \in Nat /\ stride * rest \in Nat
    BY <1>1, ProductIsNat
  <1> HIDE DEF rest
  <1>3. stride * (y + 1 + rest) = y * stride + stride + stride * rest
    BY <1>1, SMT
  <1>4. stride * h = y * stride + stride + stride * rest
    BY <1>1, <1>3
  <1>5. stride * h \in Nat
    BY ProductIsNat
  <1> DEFINE a == y * stride
             b == stride * rest
             n == stride * h
  <1>6. n = a + stride + b /\ a \in Nat /\ b \in Nat /\ n \in Nat
    BY <1>2, <1>4, <1>5
  <1> HIDE DEF a, b, n
  <1>7. a + x + 1 \in 1 .. n
    BY <1>6
  <1> QED
    BY <1>7 DEF a, n

\* The pixels of a convertible copy are cells of it.
LEMMA PixelsAreCells ==
    ASSUME NEW f, f.w \in Nat, f.h \in Nat, f.stride \in Nat, f.size \in Nat,
           f.w <= f.stride, Convertible(f),
           NEW x \in 0 .. f.w - 1, NEW y \in 0 .. f.h - 1
    PROVE  /\ y * f.stride + x + 1 \in 1 .. f.stride * f.h
           /\ y * f.stride + x + 1 \in 1 .. f.size
  <1>1. y * f.stride + x + 1 \in 1 .. f.stride * f.h
    BY IndexInRange
  <1>2. f.stride * f.h \in Nat /\ f.stride * f.h <= f.size
    BY ProductIsNat DEF Convertible
  <1> QED
    BY <1>1, <1>2

LEMMA PixelsOfCells ==
    ASSUME NEW f, NEW tag
    PROVE  tag \in PixelsOf(f) <=>
               \E x \in 0 .. f.w - 1, y \in 0 .. f.h - 1 :
                  tag = f.cells[y * f.stride + x + 1]
  BY DEF PixelsOf

LEMMA PixelsTyped ==
    ASSUME NEW f, f.w \in Nat, f.h \in Nat, f.stride \in Nat, f.size \in Nat,
           f.w <= f.stride, Convertible(f), f.cells \in [1 .. f.size -> Nat]
    PROVE  PixelsOf(f) \in SUBSET Nat
  <1> SUFFICES ASSUME NEW tag \in PixelsOf(f) PROVE tag \in Nat
    OBVIOUS
  <1>1. PICK x \in 0 .. f.w - 1, y \in 0 .. f.h - 1 :
            tag = f.cells[y * f.stride + x + 1]
    BY PixelsOfCells
  <1>2. y * f.stride + x + 1 \in 1 .. f.size
    BY PixelsAreCells
  <1> QED
    BY <1>1, <1>2

LEMMA InitTyped == Init => Typed
  <1> SUFFICES ASSUME Init PROVE Typed
    OBVIOUS
  <1>1. frame \in [1 .. frameSize -> Nat]
    BY SMT DEF Init
  <1>2. out.cells \in [1 .. out.size -> Nat]
    BY SMT DEF Init, NoFrame
  <1>3. queued \in 0 .. Buffers /\ BuffersReturned
    BY InputAssumption, SMT DEF Init, BuffersReturned, IdleJob
  <1>4. /\ info \in Geometry
        /\ pub \in [w : Nat, h : Nat, stride : Nat]
        /\ job \in [busy : BOOLEAN, w : Nat, h : Nat, stride : Nat, bytes : Nat]
        /\ lastImage \in [w : Nat, h : Nat, tags : SUBSET Nat]
        /\ out.w \in Nat /\ out.h \in Nat /\ out.stride \in Nat
        /\ out.size \in Nat /\ out.seq \in Nat
    BY SMT DEF Init, Geometry, IdleJob, NoImage, NoFrame
  <1>5. /\ pc \in [Callers -> Points]
        /\ start \in [Callers -> Nat]
        /\ ret \in [Callers -> [kind : Kinds, seq : Nat]]
    BY SMT DEF Init, Points, NoResult, Kinds
  <1>6. RowsFit
    BY DEF Init, RowsFit, IdleJob, NoFrame
  <1> QED
    BY <1>1, <1>2, <1>3, <1>4, <1>5, <1>6 DEF Init, Typed, TypeOK

\* What the locals of on_process are after its first part.
LEMMA DequeueTyped ==
    ASSUME Typed, NEW c \in Chunks, Dequeue(c)
    PROVE  Typed'
  <1> USE DEF Typed
  <1>1. c.stride \in Nat /\ c.size \in Nat
    BY InputAssumption
  <1>2. Width \in Nat /\ Height \in Nat /\ Stride(c) \in Nat
    BY <1>1, SMT DEF TypeOK, Geometry, Width, Height, Stride
  <1>3. Stride(c) * Height \in Nat
    BY <1>2, ProductIsNat
  <1>4. Minimum(Stride(c) * Height, c.size) \in Nat
    BY <1>1, <1>3, SMT DEF Minimum
  <1>5. job' \in [busy : BOOLEAN, w : Nat, h : Nat, stride : Nat, bytes : Nat]
    BY <1>2, <1>4, SMT DEF Dequeue
  <1>6. queued' = queued - 1 /\ queued > 0 /\ job'.busy /\ ~job.busy
    BY SMT DEF Dequeue
  <1>7. queued' \in 0 .. Buffers /\ BuffersReturned'
    BY <1>6, InputAssumption, SMT DEF TypeOK, BuffersReturned
  <1>8. RowsFit'
    BY <1>2 DEF Dequeue, Delivers, RowsFit, streamVars
  <1> QED
    BY <1>5, <1>7, <1>8 DEF Dequeue, TypeOK, streamVars, goVars, callVars

\* One step of a caller, by the operators the actions are built from.
LEMMA GotoTyped ==
    ASSUME Typed, NEW g \in Callers, NEW point \in Points, Goto(g, point)
    PROVE  pc' \in [Callers -> Points]
  BY DEF Typed, TypeOK, Goto

LEMMA BroadcastTyped ==
    ASSUME Typed, Broadcast
    PROVE  pc' \in [Callers -> Points]
  BY DEF Typed, TypeOK, Broadcast, Points, InMu, InRead

LEMMA ReturnTyped ==
    ASSUME Typed, NEW g \in Callers, NEW kind \in Kinds, NEW n \in Nat,
           Return(g, kind, n)
    PROVE  /\ pc' \in [Callers -> Points]
           /\ start' \in [Callers -> Nat]
           /\ ret' \in [Callers -> [kind : Kinds, seq : Nat]]
           /\ mu' \in SUBSET Callers
  <1>1. "idle" \in Points
    BY DEF Points
  <1>2. pc' \in [Callers -> Points]
    BY <1>1, GotoTyped DEF Return
  <1>3. mu' \in SUBSET Callers
    BY DEF Typed, TypeOK, Return, Unlock
  <1>4. start' \in [Callers -> Nat]
    BY DEF Typed, TypeOK, Return
  <1>5. ret' \in [Callers -> [kind : Kinds, seq : Nat]]
    BY DEF Typed, TypeOK, Return
  <1> QED
    BY <1>2, <1>3, <1>4, <1>5

LEMMA PublishTyped == Typed /\ Publish => Typed'
  <1> SUFFICES ASSUME Typed, Publish PROVE Typed'
    OBVIOUS
  <1> USE DEF Typed
  <1>1. pc' \in [Callers -> Points]
    BY BroadcastTyped DEF Publish
  <1>2. job.bytes \in Nat /\ frameSize' \in Nat /\ seq' \in Nat
    BY DEF Publish, Capacity, TypeOK
  <1>3. frame' \in [1 .. frameSize' -> Nat]
    <2>1. frame' = Written(job.bytes) /\ frameSize' = Capacity(job.bytes)
      BY DEF Publish
    <2>2. ASSUME NEW i \in 1 .. Capacity(job.bytes)
          PROVE  (IF i <= job.bytes THEN seq + 1 ELSE frame[i]) \in Nat
      BY <1>2 DEF Capacity, TypeOK
    <2> QED
      BY <2>1, <2>2 DEF Written
  <1>4. pub' \in [w : Nat, h : Nat, stride : Nat]
    BY DEF Publish, TypeOK
  <1>5. job' \in [busy : BOOLEAN, w : Nat, h : Nat, stride : Nat, bytes : Nat]
    BY DEF Publish, Requeue, IdleJob
  <1>6. queued' \in 0 .. Buffers /\ BuffersReturned'
    BY InputAssumption DEF Publish, Requeue, IdleJob, TypeOK, BuffersReturned
  <1>7. RowsFit'
    BY DEF Publish, Requeue, IdleJob, RowsFit
  <1> QED
    BY <1>1, <1>2, <1>3, <1>4, <1>5, <1>6, <1>7 DEF Publish, TypeOK, goVars

\* What a Capture does between c.mu.Lock and its return.
LEMMA CaptureTyped ==
    ASSUME Typed, NEW g \in Callers, Capture(g)
    PROVE  Typed'
  <1> USE DEF Typed, TypeOK, BuffersReturned, RowsFit, streamVars, dataVars, goVars
  <1>0. /\ {"read", "waiting", "convert"} \subseteq Points
        /\ {"error", "fresh", "repeated", "timeout"} \subseteq Kinds
        /\ 0 \in Nat /\ lastSeq \in Nat
    BY DEF Points, InMu, InRead, Kinds
  <1>1. CASE LockCapture(g)
    <2>1. pc' \in [Callers -> Points]
      BY <1>0, <1>1, GotoTyped DEF LockCapture
    <2> QED
      BY <1>1, <2>1 DEF LockCapture
  <1>2. CASE NotInitialized(g)
    BY <1>0, <1>2, ReturnTyped DEF NotInitialized
  <1>3. CASE ReadError(g)
    BY <1>0, <1>3, ReturnTyped DEF ReadError
  <1>4. CASE ReadPoll(g)
    BY <1>0, <1>4, ReturnTyped DEF ReadPoll, NothingNew
  <1>5. CASE ReadWait(g)
    <2>1. pc' \in [Callers -> Points]
      BY <1>0, <1>5, GotoTyped DEF ReadWait
    <2> QED
      BY <1>5, <2>1 DEF ReadWait
  <1>6. CASE ReadTimedOut(g)
    BY <1>0, <1>6, ReturnTyped DEF ReadTimedOut, NothingNew
  <1>7. CASE ReadCopy(g)
    <2>1. pc' \in [Callers -> Points]
      BY <1>0, <1>7, GotoTyped DEF ReadCopy
    <2>2. /\ out'.w \in Nat /\ out'.h \in Nat /\ out'.stride \in Nat
          /\ out'.size \in Nat /\ out'.seq \in Nat
          /\ out'.cells \in [1 .. out'.size -> Nat]
          /\ out'.w <= out'.stride
      BY <1>7 DEF ReadCopy
    <2> QED
      BY <1>7, <2>1, <2>2 DEF ReadCopy
  <1>8. CASE ReadNoMemory(g)
    BY <1>0, <1>8, ReturnTyped DEF ReadNoMemory
  <1>9. ASSUME out' = NoFrame
        PROVE  /\ out'.w \in Nat /\ out'.h \in Nat /\ out'.stride \in Nat
               /\ out'.size \in Nat /\ out'.seq \in Nat
               /\ out'.cells \in [1 .. out'.size -> Nat]
               /\ out'.w <= out'.stride
    BY <1>9 DEF NoFrame
  <1>10. CASE Convert(g)
    <2>1. Convertible(out) /\ out.w \in Nat /\ out.h \in Nat /\ out.seq \in Nat
      BY <1>10 DEF Convert
    <2>2. lastImage' \in [w : Nat, h : Nat, tags : SUBSET Nat]
      <3>1. PixelsOf(out) \in SUBSET Nat
        BY <2>1, PixelsTyped
      <3> QED
        BY <1>10, <2>1, <3>1 DEF Convert
    <2>3. lastSeq' \in Nat
      BY <1>10, <2>1 DEF Convert
    <2>4. /\ pc' \in [Callers -> Points]
          /\ start' \in [Callers -> Nat]
          /\ ret' \in [Callers -> [kind : Kinds, seq : Nat]]
          /\ mu' \in SUBSET Callers
      BY <1>0, <1>10, <2>1, ReturnTyped DEF Convert
    <2>5. out' = NoFrame
      BY <1>10 DEF Convert
    <2> QED
      BY <1>9, <1>10, <2>2, <2>3, <2>4, <2>5 DEF Convert
  <1>11. CASE ConvertFails(g)
    <2>1. /\ pc' \in [Callers -> Points]
          /\ start' \in [Callers -> Nat]
          /\ ret' \in [Callers -> [kind : Kinds, seq : Nat]]
          /\ mu' \in SUBSET Callers
      BY <1>0, <1>11, ReturnTyped DEF ConvertFails
    <2>2. out' = NoFrame
      BY <1>11 DEF ConvertFails
    <2> QED
      BY <1>9, <1>11, <2>1, <2>2 DEF ConvertFails
  <1> QED
    BY <1>1, <1>2, <1>3, <1>4, <1>5, <1>6, <1>7, <1>8, <1>10, <1>11 DEF Capture

LEMMA CloseTyped ==
    ASSUME Typed, NEW g \in Callers, Close(g)
    PROVE  Typed'
  <1> USE DEF Typed, TypeOK, BuffersReturned, RowsFit, streamVars, dataVars, goVars
  <1>0. /\ {"closing", "stopping", "stopped"} \subseteq Points
        /\ "closed" \in Kinds /\ 0 \in Nat
    BY DEF Points, InMu, InClose, Kinds
  <1>1. CASE LockClose(g)
    <2>1. pc' \in [Callers -> Points]
      BY <1>0, <1>1, GotoTyped DEF LockClose
    <2> QED
      BY <1>1, <2>1 DEF LockClose
  <1>2. CASE StopLoop(g)
    <2>1. pc' \in [Callers -> Points]
      BY <1>0, <1>2, GotoTyped DEF StopLoop
    <2> QED
      BY <1>2, <2>1 DEF StopLoop
  <1>3. CASE Destroy(g)
    <2>1. pc' \in [Callers -> Points]
      BY <1>0, <1>3, GotoTyped DEF Destroy
    <2> QED
      BY <1>3, <2>1 DEF Destroy
  <1>4. CASE CloseSession(g)
    BY <1>0, <1>4, ReturnTyped DEF CloseSession
  <1> QED
    BY <1>1, <1>2, <1>3, <1>4 DEF Close

LEMMA NextTyped == Typed /\ [Next]_vars => Typed'
  <1> SUFFICES ASSUME Typed, [Next]_vars PROVE Typed'
    OBVIOUS
  <1> USE DEF Typed, TypeOK, BuffersReturned, RowsFit, streamVars, dataVars, goVars, callVars
  <1>1. CASE StreamError
    <2>1. pc' \in [Callers -> Points]
      BY <1>1, BroadcastTyped DEF StreamError
    <2> QED
      BY <1>1, <2>1 DEF StreamError
  <1>2. CASE ParamChanged
    BY <1>2, InputAssumption DEF ParamChanged, Geometry
  <1>3. ASSUME NEW c \in Chunks, Dequeue(c) PROVE Typed'
    BY <1>3, DequeueTyped
  <1>4. CASE Drop
    <2>1. job' \in [busy : BOOLEAN, w : Nat, h : Nat, stride : Nat, bytes : Nat]
      BY <1>4 DEF Drop, Requeue, IdleJob
    <2>2. queued' \in 0 .. Buffers /\ BuffersReturned' /\ RowsFit'
      BY <1>4, InputAssumption DEF Drop, Requeue, IdleJob
    <2> QED
      BY <1>4, <2>1, <2>2 DEF Drop
  <1>5. CASE Publish
    BY <1>5, PublishTyped
  <1>6. ASSUME NEW g \in Callers PROVE CallCapture(g) => Typed'
    <2> HAVE CallCapture(g)
    <2>1. pc' \in [Callers -> Points]
      BY DEF CallCapture, Points
    <2>2. /\ start' \in [Callers -> Nat]
          /\ ret' \in [Callers -> [kind : Kinds, seq : Nat]]
      BY DEF CallCapture, NoResult, Kinds
    <2> QED
      BY <2>1, <2>2 DEF CallCapture
  <1>7. ASSUME NEW g \in Callers PROVE CallClose(g) => Typed'
    <2> HAVE CallClose(g)
    <2>1. pc' \in [Callers -> Points]
      BY DEF CallClose, Points
    <2>2. ret' \in [Callers -> [kind : Kinds, seq : Nat]]
      BY DEF CallClose, NoResult, Kinds
    <2> QED
      BY <2>1, <2>2 DEF CallClose
  <1>8. {"woken", "expired"} \subseteq Points
    BY DEF Points, InMu, InRead
  <1>9. ASSUME NEW g \in Callers PROVE SpuriousWakeup(g) => Typed'
    <2> HAVE SpuriousWakeup(g)
    <2>1. pc' \in [Callers -> Points]
      BY <1>8, GotoTyped DEF SpuriousWakeup
    <2> QED
      BY <2>1 DEF SpuriousWakeup
  <1>10. ASSUME NEW g \in Callers PROVE Expire(g) => Typed'
    <2> HAVE Expire(g)
    <2>1. pc' \in [Callers -> Points]
      BY <1>8, GotoTyped DEF Expire
    <2> QED
      BY <2>1 DEF Expire
  <1>11. ASSUME NEW g \in Callers PROVE Capture(g) \/ Close(g) => Typed'
    BY CaptureTyped, CloseTyped
  <1>12. CASE UNCHANGED vars
    BY <1>12 DEF vars
  <1> HIDE DEF Typed
  <1> QED
    BY <1>1, <1>2, <1>3, <1>4, <1>5, <1>6, <1>7, <1>9, <1>10, <1>11, <1>12 DEF Next

LEMMA AlwaysTyped == Spec => []Typed
  BY InitTyped, NextTyped, PTL DEF Spec

\* Every variable keeps its type: in particular the count of queued buffers
\* stays within the pool, and every cell of c->frame holds a frame number.
THEOREM TypeCorrect == Spec => []TypeOK
  BY AlwaysTyped, PTL DEF Typed

\* on_process gives back the buffer it dequeued, on each of its paths.
THEOREM NoBufferLeak == Spec => []BuffersReturned
  BY AlwaysTyped, PTL DEF Typed

(***************************************************************************)
(* c.mu: the callers between Lock and Unlock are the ones that hold it.    *)
(***************************************************************************)
LockInv ==
    /\ \A g \in Callers : g \in mu <=> pc[g] \in InMu
    /\ \A g, h \in mu : g = h

LEMMA ReturnKeepsLock ==
    ASSUME Typed, LockInv, NEW g \in Callers, pc[g] \in InMu \/ mu = {},
           NEW kind, NEW n, Return(g, kind, n)
    PROVE  LockInv'
  <1>1. /\ pc' = [pc EXCEPT ![g] = "idle"]
        /\ mu' = mu \ {g}
        /\ pc \in [Callers -> Points]
    BY DEF Return, Goto, Unlock, Typed, TypeOK
  <1>2. "idle" \notin InMu
    BY DEF InMu, InRead, InClose
  <1> QED
    BY <1>1, <1>2 DEF LockInv

\* A step inside, or a step outside.
LEMMA GotoKeepsLock ==
    ASSUME Typed, LockInv, NEW g \in Callers, NEW point, Goto(g, point),
           pc[g] \in InMu <=> point \in InMu, UNCHANGED mu
    PROVE  LockInv'
  BY DEF Goto, Typed, TypeOK, LockInv

LEMMA LockKeepsLock ==
    ASSUME Typed, LockInv, NEW g \in Callers, NEW point \in InMu, Goto(g, point),
           mu = {}, mu' = {g}
    PROVE  LockInv'
  BY DEF Goto, Typed, TypeOK, LockInv

LEMMA BroadcastKeepsLock ==
    ASSUME Typed, LockInv, Broadcast, UNCHANGED mu
    PROVE  LockInv'
  <1>1. {"waiting", "woken"} \subseteq InMu
    BY DEF InMu, InRead
  <1> QED
    BY <1>1 DEF Broadcast, Typed, TypeOK, LockInv

LEMMA LockStep == Typed /\ LockInv /\ [Next]_vars => LockInv'
  <1> SUFFICES ASSUME Typed, LockInv, [Next]_vars PROVE LockInv'
    OBVIOUS
  <1>0. /\ {"read", "waiting", "woken", "expired", "convert"} \subseteq InMu
        /\ {"stopping", "stopped", "closing"} \subseteq InMu
        /\ "idle" \notin InMu /\ "capture" \notin InMu /\ "close" \notin InMu
    BY DEF InMu, InRead, InClose
  <1>1. CASE StreamError \/ Publish
    BY <1>1, BroadcastKeepsLock DEF StreamError, Publish
  <1>2. CASE UNCHANGED <<mu, pc>>
    BY <1>2 DEF LockInv
  <1>3. ASSUME NEW c \in Chunks, Dequeue(c) PROVE LockInv'
    BY <1>2, <1>3 DEF Dequeue, callVars
  <1>4. CASE ParamChanged \/ Drop \/ UNCHANGED vars
    BY <1>2, <1>4 DEF ParamChanged, Drop, vars, callVars
  <1>5. ASSUME NEW g \in Callers, CallCapture(g) \/ CallClose(g) PROVE LockInv'
    <2>1. Goto(g, "capture") \/ Goto(g, "close")
      BY <1>5 DEF CallCapture, CallClose, Goto
    <2> QED
      BY <1>0, <1>5, <2>1, GotoKeepsLock DEF CallCapture, CallClose
  <1>6. ASSUME NEW g \in Callers, SpuriousWakeup(g) \/ Expire(g) PROVE LockInv'
    BY <1>0, <1>6, GotoKeepsLock DEF SpuriousWakeup, Expire
  <1>7. ASSUME NEW g \in Callers, Capture(g) PROVE LockInv'
    <2>1. CASE LockCapture(g)
      BY <1>0, <2>1, LockKeepsLock DEF LockCapture
    <2>2. CASE NotInitialized(g)
      BY <2>2, ReturnKeepsLock DEF NotInitialized
    <2>3. CASE ReadError(g) \/ ReadNoMemory(g)
      BY <1>0, <2>3, ReturnKeepsLock DEF ReadError, ReadNoMemory, CanCopy
    <2>4. CASE ReadPoll(g) \/ ReadTimedOut(g)
      BY <1>0, <2>4, ReturnKeepsLock DEF ReadPoll, ReadTimedOut, NothingNew
    <2>5. CASE ReadWait(g) \/ ReadCopy(g)
      BY <1>0, <2>5, GotoKeepsLock DEF ReadWait, ReadCopy, CanCopy
    <2>6. CASE Convert(g) \/ ConvertFails(g)
      BY <1>0, <2>6, ReturnKeepsLock DEF Convert, ConvertFails
    <2> QED
      BY <1>7, <2>1, <2>2, <2>3, <2>4, <2>5, <2>6 DEF Capture
  <1>8. ASSUME NEW g \in Callers, Close(g) PROVE LockInv'
    <2>1. CASE LockClose(g)
      BY <1>0, <2>1, LockKeepsLock DEF LockClose
    <2>2. CASE StopLoop(g) \/ Destroy(g)
      BY <1>0, <2>2, GotoKeepsLock DEF StopLoop, Destroy
    <2>3. CASE CloseSession(g)
      BY <1>0, <2>3, ReturnKeepsLock DEF CloseSession
    <2> QED
      BY <1>8, <2>1, <2>2, <2>3 DEF Close
  <1> QED
    BY <1>1, <1>3, <1>4, <1>5, <1>6, <1>7, <1>8 DEF Next

\* c.mu admits one caller at a time to the capturer.
THEOREM Exclusion == Spec => []MutualExclusion
  <1>1. Init => LockInv
    BY DEF Init, LockInv, InMu, InRead, InClose
  <1>2. LockInv => MutualExclusion
    BY DEF LockInv, MutualExclusion
  <1> QED
    BY <1>1, <1>2, LockStep, AlwaysTyped, PTL DEF Spec

LEMMA AlwaysLocked == Spec => [](Typed /\ LockInv)
  <1>1. Init => LockInv
    BY DEF Init, LockInv, InMu, InRead, InClose
  <1> QED
    BY <1>1, LockStep, AlwaysTyped, PTL DEF Spec

(***************************************************************************)
(* Teardown: what is still alive at each point of a call.                  *)
(***************************************************************************)

\* Points at which a caller relies on the capture being there.
Alive == InRead \cup {"convert", "stopping", "stopped"}

StageInv ==
    /\ stage = "freed" => ~job.busy
    /\ \A g \in Callers : pc[g] \in Alive => stage # "freed"
    /\ \A g \in Callers : pc[g] = "closing" => stage = "freed"
    /\ CloseReleasesAll

\* A step that leaves the capture and the connection alone keeps StageInv when
\* it takes its caller to a point the stage allows.
LEMMA CallKeepsStage ==
    ASSUME Typed, StageInv, UNCHANGED <<stage, job, conn>>, NEW g \in Callers,
           NEW point, Goto(g, point),
           point \in Alive => stage # "freed", point = "closing" => stage = "freed",
           \/ UNCHANGED ret
           \/ \E r : /\ ret' = [ret EXCEPT ![g] = r]
                     /\ r.kind = "closed" => stage = "freed" /\ ~conn
    PROVE  StageInv'
  <1>1. \A h \in Callers : pc'[h] = IF h = g THEN point ELSE pc[h]
    BY DEF Goto, Typed, TypeOK
  <1>2. CloseReleasesAll'
    BY DEF Typed, TypeOK, StageInv, CloseReleasesAll
  <1> QED
    BY <1>1, <1>2 DEF StageInv

LEMMA ReturnKeepsStage ==
    ASSUME Typed, StageInv, UNCHANGED <<stage, job, conn>>, NEW g \in Callers,
           NEW kind \in Kinds \ {"closed"}, NEW n, Return(g, kind, n)
    PROVE  StageInv'
  <1>1. "idle" \notin Alive
    BY DEF Alive, InRead
  <1>2. Goto(g, "idle") /\ ret' = [ret EXCEPT ![g] = [kind |-> kind, seq |-> n]]
    BY DEF Return
  <1>3. [kind |-> kind, seq |-> n].kind # "closed"
    OBVIOUS
  <1> QED
    BY <1>1, <1>2, <1>3, CallKeepsStage

LEMMA BroadcastKeepsStage ==
    ASSUME Typed, StageInv, Broadcast, UNCHANGED <<stage, conn, ret>>,
           job'.busy => job.busy
    PROVE  StageInv'
  <1>1. /\ \A h \in Callers : pc'[h] \in Alive => pc[h] \in Alive
        /\ \A h \in Callers : pc'[h] = "closing" => pc[h] = "closing"
    BY DEF Broadcast, Typed, TypeOK, Alive, InRead
  <1> QED
    BY <1>1 DEF StageInv, CloseReleasesAll

LEMMA CaptureKeepsStage ==
    ASSUME Typed, StageInv, NEW g \in Callers, Capture(g)
    PROVE  StageInv'
  <1>0. /\ {"error", "fresh", "repeated", "timeout"} \subseteq Kinds \ {"closed"}
        /\ {"read", "waiting", "woken", "convert"} \subseteq Alive
        /\ "closing" \notin Alive
    BY DEF Kinds, Alive, InRead
  <1>1. pc[g] \in Alive => stage # "freed"
    BY DEF StageInv
  <1>2. CASE LockCapture(g)
    BY <1>0, <1>2, CallKeepsStage DEF LockCapture, dataVars, goVars
  <1>3. CASE NotInitialized(g) \/ ReadError(g) \/ ReadNoMemory(g)
    BY <1>0, <1>3, ReturnKeepsStage
    DEF NotInitialized, ReadError, ReadNoMemory, dataVars, goVars
  <1>4. CASE ReadPoll(g) \/ ReadTimedOut(g)
    BY <1>0, <1>4, ReturnKeepsStage
    DEF ReadPoll, ReadTimedOut, NothingNew, dataVars, goVars
  <1>5. CASE ReadWait(g) \/ ReadCopy(g)
    <2>1. pc[g] \in Alive
      BY <1>0, <1>5 DEF ReadWait, ReadCopy, CanCopy
    <2>2. \E point \in {"waiting", "convert"} : Goto(g, point)
      BY <1>5 DEF ReadWait, ReadCopy
    <2>3. UNCHANGED <<stage, job, conn, ret>>
      BY <1>5 DEF ReadWait, ReadCopy, dataVars, goVars
    <2> QED
      BY <1>0, <1>1, <2>1, <2>2, <2>3, CallKeepsStage
  <1>6. CASE Convert(g) \/ ConvertFails(g)
    BY <1>0, <1>6, ReturnKeepsStage DEF Convert, ConvertFails, dataVars, goVars
  <1> QED
    BY <1>2, <1>3, <1>4, <1>5, <1>6 DEF Capture

LEMMA CloseKeepsStage ==
    ASSUME Typed, LockInv, StageInv, NEW g \in Callers, Close(g)
    PROVE  StageInv'
  <1>0. /\ {"stopping", "stopped"} \subseteq Alive /\ Alive \subseteq InMu
        /\ "closing" \notin Alive /\ "idle" \notin Alive /\ "closing" \in InMu
    BY DEF Alive, InRead, InMu, InClose
  <1>1. CASE LockClose(g)
    BY <1>0, <1>1, CallKeepsStage DEF LockClose, dataVars, goVars
  <1>2. ASSUME pc[g] \in InMu
        PROVE  \A h \in Callers : pc[h] \in InMu => h = g
    BY <1>2 DEF LockInv
  <1>3. CASE StopLoop(g)
    <2>1. \A h \in Callers : pc'[h] = IF h = g THEN "stopped" ELSE pc[h]
      BY <1>3 DEF StopLoop, Goto, Typed, TypeOK
    <2>2. pc[g] \in InMu /\ stage # "freed" /\ stage' = "stopped"
      BY <1>0, <1>3 DEF StopLoop, StageInv
    <2>3. CloseReleasesAll'
      BY <1>3, <2>2 DEF StopLoop, goVars, StageInv, CloseReleasesAll
    <2> QED
      BY <1>0, <1>2, <2>1, <2>2, <2>3 DEF StageInv
  <1>4. CASE Destroy(g)
    <2>1. \A h \in Callers : pc'[h] = IF h = g THEN "closing" ELSE pc[h]
      BY <1>4 DEF Destroy, Goto, Typed, TypeOK
    <2>2. pc[g] \in InMu /\ stage' = "freed" /\ ~job'.busy
      BY <1>0, <1>4 DEF Destroy, dataVars
    <2>3. CloseReleasesAll'
      BY <1>4, <2>2 DEF Destroy, goVars, StageInv, CloseReleasesAll
    <2> QED
      BY <1>0, <1>2, <2>1, <2>2, <2>3 DEF StageInv
  <1>5. CASE CloseSession(g)
    <2>1. \A h \in Callers : pc'[h] = IF h = g THEN "idle" ELSE pc[h]
      BY <1>5 DEF CloseSession, Return, Goto, Typed, TypeOK
    <2>2. stage = "freed" /\ UNCHANGED <<stage, job>> /\ ~conn'
      BY <1>5 DEF CloseSession, StageInv, dataVars
    <2> QED
      BY <1>0, <2>1, <2>2 DEF StageInv, CloseReleasesAll
  <1> QED
    BY <1>1, <1>3, <1>4, <1>5 DEF Close

LEMMA StageStep == Typed /\ LockInv /\ StageInv /\ [Next]_vars => StageInv'
  <1> SUFFICES ASSUME Typed, LockInv, StageInv, [Next]_vars PROVE StageInv'
    OBVIOUS
  <1>0. "closing" \notin Alive /\ {"woken", "expired"} \subseteq Alive
        /\ "waiting" \in Alive /\ "capture" \notin Alive /\ "close" \notin Alive
    BY DEF Alive, InRead
  <1>1. CASE StreamError \/ Publish
    BY <1>1, BroadcastKeepsStage
    DEF StreamError, Publish, Requeue, IdleJob, dataVars, goVars
  <1>2. CASE ParamChanged \/ UNCHANGED vars
    BY <1>2 DEF ParamChanged, vars, dataVars, goVars, callVars, StageInv, CloseReleasesAll
  <1>3. ASSUME NEW c \in Chunks, Dequeue(c) PROVE StageInv'
    BY <1>3 DEF Dequeue, Streaming, goVars, callVars, StageInv, CloseReleasesAll
  <1>4. CASE Drop
    BY <1>4 DEF Drop, Requeue, IdleJob, goVars, callVars, StageInv, CloseReleasesAll
  <1>5. ASSUME NEW g \in Callers, CallCapture(g) \/ CallClose(g) PROVE StageInv'
    <2>1. Goto(g, "capture") \/ Goto(g, "close")
      BY <1>5 DEF CallCapture, CallClose, Goto
    <2>2. ret' = [ret EXCEPT ![g] = NoResult] /\ NoResult.kind # "closed"
      BY <1>5 DEF CallCapture, CallClose, NoResult
    <2>3. UNCHANGED <<stage, job, conn>>
      BY <1>5 DEF CallCapture, CallClose, dataVars, goVars
    <2> QED
      BY <1>0, <2>1, <2>2, <2>3, CallKeepsStage
  <1>6. ASSUME NEW g \in Callers, SpuriousWakeup(g) \/ Expire(g) PROVE StageInv'
    <2>1. Goto(g, "woken") \/ Goto(g, "expired")
      BY <1>6 DEF SpuriousWakeup, Expire
    <2>2. stage # "freed" /\ UNCHANGED <<stage, job, conn, ret>>
      BY <1>0, <1>6 DEF SpuriousWakeup, Expire, dataVars, goVars, StageInv
    <2> QED
      BY <1>0, <2>1, <2>2, CallKeepsStage
  <1>7. ASSUME NEW g \in Callers, Capture(g) \/ Close(g) PROVE StageInv'
    BY <1>7, CaptureKeepsStage, CloseKeepsStage
  <1> QED
    BY <1>1, <1>2, <1>3, <1>4, <1>5, <1>6, <1>7 DEF Next

LEMMA AlwaysStaged == Spec => [](Typed /\ LockInv /\ StageInv)
  <1>1. Init => StageInv
    BY DEF Init, StageInv, CloseReleasesAll, IdleJob, NoResult, Alive, InRead
  <1> QED
    BY <1>1, StageStep, AlwaysLocked, PTL DEF Spec

\* The freed capture is not in use by a caller or by on_process.
THEOREM MemorySafe == Spec => []NoUseAfterFree
  <1>1. StageInv => NoUseAfterFree
    BY DEF StageInv, NoUseAfterFree, Alive
  <1> QED
    BY <1>1, AlwaysStaged, PTL

\* A Close that has returned left nothing open.
THEOREM CloseIsComplete == Spec => []CloseReleasesAll
  <1>1. StageInv => CloseReleasesAll
    BY DEF StageInv
  <1> QED
    BY <1>1, AlwaysStaged, PTL

(***************************************************************************)
(* Waiting on c->cond.                                                     *)
(***************************************************************************)

\* Whatever makes Ready or error true broadcasts; only the caller that holds
\* c.mu changes lastSeq, and then nobody waits.
LEMMA WakeupStep ==
    Typed /\ LockInv /\ NoLostWakeup /\ [Next]_vars => NoLostWakeup'
  <1> SUFFICES ASSUME Typed, LockInv, NoLostWakeup, [Next]_vars PROVE NoLostWakeup'
    OBVIOUS
  <1> USE DEF streamVars, dataVars, goVars, callVars
  <1>1. ASSUME Broadcast PROVE NoLostWakeup'
    BY <1>1 DEF Broadcast, NoLostWakeup, Typed, TypeOK
  <1>2. ASSUME UNCHANGED <<seq, lastSeq, error>>,
               \A h \in Callers : pc'[h] = "waiting" => pc[h] = "waiting"
        PROVE  NoLostWakeup'
    BY <1>2 DEF NoLostWakeup, Ready
  <1>3. ASSUME NEW g \in Callers, NEW point, point # "waiting", Goto(g, point),
               UNCHANGED <<seq, lastSeq, error>>
        PROVE  NoLostWakeup'
    BY <1>2, <1>3 DEF Goto, Typed, TypeOK
  <1>4. CASE StreamError \/ Publish
    BY <1>1, <1>4 DEF StreamError, Publish
  <1>5. CASE ParamChanged \/ Drop \/ UNCHANGED vars
    BY <1>2, <1>5 DEF ParamChanged, Drop, vars
  <1>6. ASSUME NEW c \in Chunks, Dequeue(c) PROVE NoLostWakeup'
    BY <1>2, <1>6 DEF Dequeue
  <1>7. ASSUME NEW g \in Callers,
               CallCapture(g) \/ CallClose(g) \/ SpuriousWakeup(g) \/ Expire(g)
        PROVE  NoLostWakeup'
    BY <1>3, <1>7 DEF CallCapture, CallClose, SpuriousWakeup, Expire, Goto
  <1>8. ASSUME NEW g \in Callers, Capture(g) PROVE NoLostWakeup'
    <2>1. CASE ReadWait(g)
      BY <2>1 DEF ReadWait, Goto, NoLostWakeup, Ready, Typed, TypeOK
    <2>2. CASE Convert(g)
      <3>1. \A h \in Callers : pc'[h] # "waiting"
        <4>1. \A h \in Callers : pc'[h] = IF h = g THEN "idle" ELSE pc[h]
          BY <2>2 DEF Convert, Return, Goto, Typed, TypeOK
        <4>2. \A h \in Callers : pc[h] = "waiting" => h = g
          BY <2>2 DEF Convert, LockInv, InMu, InRead
        <4> QED
          BY <4>1, <4>2
      <3> QED
        BY <3>1 DEF NoLostWakeup
    <2>3. CASE LockCapture(g) \/ ReadCopy(g)
      BY <1>3, <2>3 DEF LockCapture, ReadCopy
    <2>4. CASE NotInitialized(g) \/ ReadError(g) \/ ReadNoMemory(g) \/ ConvertFails(g)
      BY <1>3, <2>4 DEF NotInitialized, ReadError, ReadNoMemory, ConvertFails, Return
    <2>5. CASE ReadPoll(g) \/ ReadTimedOut(g)
      BY <1>3, <2>5 DEF ReadPoll, ReadTimedOut, NothingNew, Return
    <2> QED
      BY <1>8, <2>1, <2>2, <2>3, <2>4, <2>5 DEF Capture
  <1>9. ASSUME NEW g \in Callers, Close(g) PROVE NoLostWakeup'
    BY <1>3, <1>9 DEF Close, LockClose, StopLoop, Destroy, CloseSession, Return
  <1> QED
    BY <1>4, <1>5, <1>6, <1>7, <1>8, <1>9 DEF Next

\* No caller sleeps through a frame or an error.
THEOREM WakeupsArrive == Spec => []NoLostWakeup
  <1>1. Init => NoLostWakeup
    BY DEF Init, NoLostWakeup
  <1> QED
    BY <1>1, WakeupStep, AlwaysLocked, PTL DEF Spec

(***************************************************************************)
(* Frame numbers: what a call in progress knows of seq and lastSeq.        *)
(***************************************************************************)
Sleeping == {"waiting", "woken", "expired"}
NotReading == {"idle", "close"} \cup InClose

CallInv ==
    /\ lastSeq <= seq
    /\ lastImage # NoImage <=> lastSeq > 0
    /\ seq > 0 => pub.w > 0 /\ pub.h > 0
    /\ \A g \in Callers :
          /\ start[g] <= seq
          /\ pc[g] = "convert" => /\ out.w > 0 /\ out.h > 0
                                 /\ out.seq \in start[g] .. seq
                                 /\ out.seq > lastSeq
          /\ pc[g] \in Sleeping => lastSeq = 0 /\ start[g] = 0
          /\ pc[g] \in NotReading => start[g] = 0

\* A return keeps CallInv, when lastSeq stays or becomes that of the copy.
LEMMA ReturnKeepsCall ==
    ASSUME Typed, LockInv, CallInv, NEW g \in Callers, pc[g] \in InMu \/ mu = {},
           NEW kind, NEW n, Return(g, kind, n), UNCHANGED <<seq, pub>>,
           lastSeq' <= seq', lastImage' # NoImage <=> lastSeq' > 0
    PROVE  CallInv'
  <1>1. \A h \in Callers : /\ pc'[h] = IF h = g THEN "idle" ELSE pc[h]
                           /\ start'[h] = IF h = g THEN 0 ELSE start[h]
    BY DEF Return, Goto, Typed, TypeOK
  <1>2. \A h \in Callers : h # g => pc[h] \notin InMu
    BY DEF LockInv
  <1>3. /\ "convert" \in InMu /\ Sleeping \subseteq InMu
        /\ "idle" \notin Sleeping
    BY DEF InMu, InRead, Sleeping
  <1>4. seq \in Nat
    BY DEF Typed, TypeOK
  <1> QED
    BY <1>1, <1>2, <1>3, <1>4 DEF CallInv

\* A step that moves one caller and leaves the frames alone.
LEMMA GotoKeepsCall ==
    ASSUME Typed, CallInv, NEW g \in Callers, NEW point, Goto(g, point),
           UNCHANGED <<seq, pub, lastSeq, lastImage, out>>,
           \A h \in Callers \ {g} : start'[h] = start[h],
           start'[g] <= seq, point # "convert",
           point \in Sleeping => lastSeq = 0 /\ start'[g] = 0,
           point \in NotReading => start'[g] = 0
    PROVE  CallInv'
  <1>1. \A h \in Callers : pc'[h] = IF h = g THEN point ELSE pc[h]
    BY DEF Goto, Typed, TypeOK
  <1> QED
    BY <1>1 DEF CallInv

LEMMA ReadCopyKeepsCall ==
    ASSUME Typed, LockInv, CallInv, NEW g \in Callers, ReadCopy(g)
    PROVE  CallInv'
  <1>1. \A h \in Callers : pc'[h] = IF h = g THEN "convert" ELSE pc[h]
    BY DEF ReadCopy, Goto, Typed, TypeOK
  <1>2. \A h \in Callers : h # g => pc[h] # "convert"
    BY DEF LockInv, ReadCopy, CanCopy, InMu, InRead
  <1>3. /\ seq \in Nat /\ lastSeq \in Nat /\ start[g] \in Nat
        /\ UNCHANGED <<seq, pub, lastSeq, lastImage, start>>
    BY DEF ReadCopy, streamVars, goVars, Typed, TypeOK
  <1>4. out'.w = pub.w /\ out'.h = pub.h /\ out'.seq = seq
    BY DEF ReadCopy
  <1>5. seq > 0 /\ seq > lastSeq
    BY <1>3 DEF ReadCopy, CanCopy, Ready, CallInv
  <1>6. "convert" \notin Sleeping /\ "convert" \notin NotReading
    BY DEF Sleeping, NotReading, InClose
  <1>7. ASSUME NEW h \in Callers
        PROVE  /\ start'[h] <= seq'
               /\ pc'[h] = "convert" => /\ out'.w > 0 /\ out'.h > 0
                                       /\ out'.seq \in start'[h] .. seq'
                                       /\ out'.seq > lastSeq'
               /\ pc'[h] \in Sleeping => lastSeq' = 0 /\ start'[h] = 0
               /\ pc'[h] \in NotReading => start'[h] = 0
    BY <1>1, <1>2, <1>3, <1>4, <1>5, <1>6 DEF CallInv
  <1> QED
    BY <1>3, <1>7 DEF CallInv

LEMMA PublishKeepsCall == Typed /\ CallInv /\ Publish => CallInv'
  <1> SUFFICES ASSUME Typed, CallInv, Publish PROVE CallInv'
    OBVIOUS
  <1>1. /\ seq' = seq + 1 /\ seq \in Nat /\ lastSeq \in Nat
        /\ UNCHANGED <<lastSeq, lastImage, out, start>>
        /\ start \in [Callers -> Nat]
    BY DEF Publish, goVars, Typed, TypeOK
  <1>2. pub'.w > 0 /\ pub'.h > 0
    BY SMTT(30) DEF Publish, Typed, TypeOK
  <1>3. \A h \in Callers : \/ pc'[h] = pc[h]
                           \/ pc[h] = "waiting" /\ pc'[h] = "woken"
    BY DEF Publish, Broadcast, Typed, TypeOK
  <1>4. {"waiting", "woken"} \subseteq Sleeping /\ "woken" \notin NotReading
    BY DEF Sleeping, NotReading, InClose
  <1>5. ASSUME NEW h \in Callers
        PROVE  /\ start'[h] <= seq'
               /\ pc'[h] = "convert" => /\ out'.w > 0 /\ out'.h > 0
                                       /\ out'.seq \in start'[h] .. seq'
                                       /\ out'.seq > lastSeq'
               /\ pc'[h] \in Sleeping => lastSeq' = 0 /\ start'[h] = 0
               /\ pc'[h] \in NotReading => start'[h] = 0
    BY <1>1, <1>3, <1>4 DEF CallInv
  <1> QED
    BY <1>1, <1>2, <1>5 DEF CallInv

LEMMA CallStep == Typed /\ LockInv /\ CallInv /\ [Next]_vars => CallInv'
  <1> SUFFICES ASSUME Typed, LockInv, CallInv, [Next]_vars PROVE CallInv'
    OBVIOUS
  <1> USE DEF streamVars, dataVars, goVars, callVars
  <1>0. /\ "capture" \notin Sleeping /\ "capture" \notin NotReading
        /\ "read" \notin Sleeping /\ "read" \notin NotReading
        /\ {"waiting", "woken", "expired"} \subseteq Sleeping
        /\ {"waiting", "woken", "expired"} \cap NotReading = {}
        /\ {"idle", "close", "stopping", "stopped", "closing"} \subseteq NotReading
        /\ {"close", "stopping", "stopped", "closing"} \cap Sleeping = {}
        /\ {"read", "waiting", "woken", "expired", "convert", "closing"} \subseteq InMu
    BY DEF Sleeping, NotReading, InClose, InMu, InRead
  <1>1. CASE StreamError
    <2>1. \A h \in Callers : \/ pc'[h] = pc[h]
                             \/ pc[h] = "waiting" /\ pc'[h] = "woken"
      BY <1>1 DEF StreamError, Broadcast, Typed, TypeOK
    <2> QED
      BY <1>0, <1>1, <2>1 DEF StreamError, CallInv
  <1>2. CASE ParamChanged \/ Drop \/ UNCHANGED vars
    BY <1>2 DEF ParamChanged, Drop, vars, CallInv
  <1>3. ASSUME NEW c \in Chunks, Dequeue(c) PROVE CallInv'
    BY <1>3 DEF Dequeue, CallInv
  <1>4. CASE Publish
    BY <1>4, PublishKeepsCall
  <1>5. ASSUME NEW g \in Callers PROVE /\ start[g] \in Nat /\ seq \in Nat
                                      /\ start[g] <= seq
    BY DEF Typed, TypeOK, CallInv
  <1>6. ASSUME NEW g \in Callers, CallCapture(g) PROVE CallInv'
    <2>1. Goto(g, "capture") /\ start'[g] = seq
          /\ \A h \in Callers \ {g} : start'[h] = start[h]
      BY <1>6 DEF CallCapture, Goto, Typed, TypeOK
    <2> QED
      BY <1>0, <1>5, <1>6, <2>1, GotoKeepsCall DEF CallCapture
  <1>7. ASSUME NEW g \in Callers, CallClose(g) PROVE CallInv'
    <2>1. Goto(g, "close") /\ start[g] = 0
      BY <1>0, <1>7 DEF CallClose, Goto, CallInv
    <2> QED
      BY <1>0, <1>5, <1>7, <2>1, GotoKeepsCall DEF CallClose
  <1>8. ASSUME NEW g \in Callers, SpuriousWakeup(g) \/ Expire(g) PROVE CallInv'
    <2>1. lastSeq = 0 /\ start[g] = 0
      BY <1>0, <1>8 DEF SpuriousWakeup, Expire, CallInv
    <2> QED
      BY <1>0, <1>5, <1>8, <2>1, GotoKeepsCall DEF SpuriousWakeup, Expire
  <1>9. ASSUME NEW g \in Callers, Capture(g) PROVE CallInv'
    <2>0. lastSeq <= seq /\ (lastImage # NoImage <=> lastSeq > 0)
      BY DEF CallInv
    <2>1. CASE LockCapture(g)
      BY <1>0, <1>5, <2>1, GotoKeepsCall DEF LockCapture
    <2>2. CASE NotInitialized(g) \/ ReadError(g) \/ ReadNoMemory(g) \/ ConvertFails(g)
      BY <1>0, <2>0, <2>2, ReturnKeepsCall
      DEF NotInitialized, ReadError, ReadNoMemory, CanCopy, ConvertFails
    <2>3. CASE ReadPoll(g) \/ ReadTimedOut(g)
      BY <1>0, <2>0, <2>3, ReturnKeepsCall DEF ReadPoll, ReadTimedOut, NothingNew
    <2>4. CASE ReadWait(g)
      <3>1. lastSeq = 0 /\ start[g] = 0
        <4>1. CASE pc[g] = "read" /\ MayWait
          <5>1. lastSeq = 0
            BY <4>1 DEF MayWait, CallInv, Typed, TypeOK
          <5> QED
            BY <1>5, <2>4, <5>1 DEF ReadWait, Ready
        <4>2. CASE pc[g] = "woken"
          BY <1>0, <4>2 DEF CallInv
        <4> QED
          BY <2>4, <4>1, <4>2 DEF ReadWait
      <3> QED
        BY <1>0, <1>5, <2>4, <3>1, GotoKeepsCall DEF ReadWait
    <2>5. CASE ReadCopy(g)
      BY <2>5, ReadCopyKeepsCall
    <2>6. CASE Convert(g)
      <3>1. /\ lastSeq' = out.seq /\ out.seq > lastSeq /\ out.seq <= seq
            /\ out.w > 0 /\ out.seq \in Nat /\ lastSeq \in Nat
        BY <2>6 DEF Convert, CallInv, Typed, TypeOK
      <3>2. lastImage' # NoImage
        BY <2>6, <3>1 DEF Convert, NoImage
      <3> QED
        BY <1>0, <2>6, <3>1, <3>2, ReturnKeepsCall DEF Convert
    <2> QED
      BY <1>9, <2>1, <2>2, <2>3, <2>4, <2>5, <2>6 DEF Capture
  <1>10. ASSUME NEW g \in Callers, Close(g) PROVE CallInv'
    <2>0. lastSeq <= seq /\ (lastImage # NoImage <=> lastSeq > 0)
      BY DEF CallInv
    <2>1. CASE LockClose(g) \/ StopLoop(g) \/ Destroy(g)
      <3>1. start[g] = 0
        BY <1>0, <2>1 DEF LockClose, StopLoop, Destroy, CallInv
      <3>2. \E point \in {"stopping", "stopped", "closing"} : Goto(g, point)
        BY <2>1 DEF LockClose, StopLoop, Destroy
      <3> QED
        BY <1>0, <1>5, <2>1, <3>1, <3>2, GotoKeepsCall DEF LockClose, StopLoop, Destroy
    <2>2. CASE CloseSession(g)
      BY <1>0, <2>0, <2>2, ReturnKeepsCall DEF CloseSession
    <2> QED
      BY <1>10, <2>1, <2>2 DEF Close
  <1> QED
    BY <1>1, <1>2, <1>3, <1>4, <1>6, <1>7, <1>8, <1>9, <1>10 DEF Next

LEMMA AlwaysCall == Spec => [](Typed /\ LockInv /\ StageInv /\ CallInv)
  <1>1. Init => CallInv
    BY DEF Init, CallInv, Sleeping, NotReading, NoImage
  <1> QED
    BY <1>1, CallStep, AlwaysStaged, PTL DEF Spec

(***************************************************************************)
(* Pixels: with complete chunks, the visible part of c->frame, of a copy   *)
(* and of the image is written by one frame.                               *)
(***************************************************************************)
Whole(cells, n, tag) == \A i \in 1 .. n : cells[i] = tag

PixelInv ==
    /\ job.bytes = job.stride * job.h
    /\ pub.stride * pub.h <= frameSize
    /\ Whole(frame, pub.stride * pub.h, seq)
    /\ out.stride * out.h <= out.size
    /\ Whole(out.cells, out.stride * out.h, out.seq)
    /\ NoTornImage

LEMMA WholePixels ==
    ASSUME NEW f, f.w \in Nat, f.h \in Nat, f.stride \in Nat, f.size \in Nat,
           f.w <= f.stride, f.w > 0, f.h > 0, Convertible(f),
           Whole(f.cells, f.stride * f.h, f.seq)
    PROVE  PixelsOf(f) = {f.seq}
  <1>1. ASSUME NEW x \in 0 .. f.w - 1, NEW y \in 0 .. f.h - 1
        PROVE  f.cells[y * f.stride + x + 1] = f.seq
    BY PixelsAreCells DEF Whole
  <1>2. ASSUME NEW tag \in PixelsOf(f) PROVE tag = f.seq
    BY <1>1, PixelsOfCells
  <1>3. f.seq \in PixelsOf(f)
    <2>1. 0 \in 0 .. f.w - 1 /\ 0 \in 0 .. f.h - 1
      OBVIOUS
    <2> QED
      BY <1>1, <2>1, PixelsOfCells
  <1> QED
    BY <1>2, <1>3

LEMMA DequeueWhole ==
    ASSUME FullChunks, Typed, PixelInv, NEW c \in Chunks, Dequeue(c)
    PROVE  PixelInv'
  <1>1. c.stride \in Nat /\ c.size \in Nat
    BY InputAssumption
  <1>2. Width \in Nat /\ Height \in Nat /\ Stride(c) \in Nat
    BY <1>1 DEF Typed, TypeOK, Geometry, Width, Height, Stride
  <1>3. Minimum(Stride(c) * Height, c.size) = Stride(c) * Height
    BY DEF Dequeue, Delivers, Minimum
  <1>4. job'.bytes = job'.stride * job'.h
    BY <1>3 DEF Dequeue
  <1>5. UNCHANGED <<pub, frame, frameSize, seq, out, lastImage, lastSeq>>
    BY DEF Dequeue, streamVars, goVars
  <1> QED
    BY <1>4, <1>5 DEF PixelInv, Whole, NoTornImage

LEMMA PublishWhole ==
    ASSUME Typed, PixelInv, Publish
    PROVE  PixelInv'
  <1>1. /\ pub'.stride * pub'.h = job.bytes
        /\ job.bytes \in Nat /\ frameSize \in Nat
    BY DEF Publish, PixelInv, Typed, TypeOK
  <1>2. frameSize' >= job.bytes
    BY <1>1 DEF Publish, Capacity
  <1>3. Whole(frame', job.bytes, seq')
    <2> SUFFICES ASSUME NEW i \in 1 .. job.bytes PROVE frame'[i] = seq + 1
      BY DEF Whole, Publish
    <2>1. i \in 1 .. Capacity(job.bytes) /\ i <= job.bytes
      BY <1>1 DEF Capacity
    <2> QED
      BY <2>1 DEF Publish, Written
  <1>4. job'.bytes = job'.stride * job'.h
    BY DEF Publish, Requeue, IdleJob
  <1>5. UNCHANGED <<out, lastImage, lastSeq>>
    BY DEF Publish, goVars
  <1> QED
    BY <1>1, <1>2, <1>3, <1>4, <1>5 DEF PixelInv, NoTornImage

LEMMA ConvertWhole ==
    ASSUME Typed, CallInv, PixelInv, NEW g \in Callers, Convert(g)
    PROVE  PixelInv'
  <1>1. /\ out.w > 0 /\ out.h > 0 /\ Convertible(out)
        /\ out.w \in Nat /\ out.h \in Nat /\ out.stride \in Nat /\ out.size \in Nat
        /\ out.w <= out.stride
    BY DEF Convert, CallInv, Typed, TypeOK, RowsFit
  <1>2. PixelsOf(out) = {out.seq}
    BY <1>1, WholePixels DEF PixelInv
  <1>3. lastImage'.tags = {lastSeq'}
    BY <1>2 DEF Convert
  <1>4. out' = NoFrame /\ UNCHANGED <<job, pub, frame, frameSize, seq>>
    BY DEF Convert, streamVars, dataVars
  <1>5. out'.stride * out'.h <= out'.size /\ Whole(out'.cells, out'.stride * out'.h, out'.seq)
    BY <1>4 DEF NoFrame, Whole
  <1> QED
    BY <1>3, <1>4, <1>5 DEF PixelInv, NoTornImage

LEMMA PixelStep ==
    ASSUME FullChunks
    PROVE  Typed /\ CallInv /\ PixelInv /\ [Next]_vars => PixelInv'
  <1> SUFFICES ASSUME Typed, CallInv, PixelInv, [Next]_vars PROVE PixelInv'
    OBVIOUS
  <1> USE DEF streamVars, dataVars, goVars, callVars
  <1>1. ASSUME UNCHANGED <<job, pub, frame, frameSize, seq, out, lastImage, lastSeq>>
        PROVE  PixelInv'
    BY <1>1 DEF PixelInv, Whole, NoTornImage
  <1>2. CASE StreamError \/ ParamChanged \/ UNCHANGED vars
    BY <1>1, <1>2 DEF StreamError, ParamChanged, vars
  <1>3. ASSUME NEW c \in Chunks, Dequeue(c) PROVE PixelInv'
    BY <1>3, DequeueWhole
  <1>4. CASE Drop
    <2>1. job'.bytes = job'.stride * job'.h
      BY <1>4 DEF Drop, Requeue, IdleJob
    <2> QED
      BY <1>4, <2>1 DEF Drop, PixelInv, Whole, NoTornImage
  <1>5. CASE Publish
    BY <1>5, PublishWhole
  <1>6. ASSUME NEW g \in Callers,
               CallCapture(g) \/ CallClose(g) \/ SpuriousWakeup(g) \/ Expire(g)
        PROVE  PixelInv'
    BY <1>1, <1>6 DEF CallCapture, CallClose, SpuriousWakeup, Expire
  <1>7. ASSUME NEW g \in Callers, Capture(g) PROVE PixelInv'
    <2>1. CASE ReadCopy(g)
      <3>1. /\ out'.stride * out'.h <= out'.size
            /\ Whole(out'.cells, out'.stride * out'.h, out'.seq)
        BY <2>1 DEF ReadCopy, PixelInv
      <3> QED
        BY <2>1, <3>1 DEF ReadCopy, PixelInv, Whole, NoTornImage
    <2>2. CASE Convert(g)
      BY <2>2, ConvertWhole
    <2>3. CASE ConvertFails(g)
      <3>1. /\ out'.stride * out'.h <= out'.size
            /\ Whole(out'.cells, out'.stride * out'.h, out'.seq)
        BY <2>3 DEF ConvertFails, NoFrame, Whole
      <3> QED
        BY <2>3, <3>1 DEF ConvertFails, PixelInv, Whole, NoTornImage
    <2>4. CASE LockCapture(g) \/ NotInitialized(g) \/ ReadError(g) \/ ReadPoll(g)
      BY <1>1, <2>4 DEF LockCapture, NotInitialized, ReadError, ReadPoll
    <2>5. CASE ReadWait(g) \/ ReadTimedOut(g) \/ ReadNoMemory(g)
      BY <1>1, <2>5 DEF ReadWait, ReadTimedOut, ReadNoMemory
    <2> QED
      BY <1>7, <2>1, <2>2, <2>3, <2>4, <2>5 DEF Capture
  <1>8. ASSUME NEW g \in Callers, Close(g) PROVE PixelInv'
    BY <1>1, <1>8 DEF Close, LockClose, StopLoop, Destroy, CloseSession
  <1> QED
    BY <1>2, <1>3, <1>4, <1>5, <1>6, <1>7, <1>8 DEF Next

LEMMA AlwaysWhole ==
    ASSUME FullChunks
    PROVE  Spec => []PixelInv
  <1>1. Init => PixelInv
    BY DEF Init, PixelInv, Whole, IdleJob, NoFrame, NoTornImage
  <1>2. Typed /\ CallInv /\ PixelInv /\ [Next]_vars => PixelInv'
    BY PixelStep
  <1> QED
    BY <1>1, <1>2, AlwaysCall, PTL DEF Spec

\* When the server delivers whole frames, no image mixes the pixels of two.
THEOREM NoTearing ==
    ASSUME FullChunks
    PROVE  Spec => []NoTornImage
  <1>1. PixelInv => NoTornImage
    BY DEF PixelInv
  <1> QED
    BY <1>1, AlwaysWhole, PTL

\* Only a successful conversion shows another frame, and always a later one.
LEMMA ShowsLater ==
    ASSUME Typed, LockInv, CallInv, [Next]_vars, lastSeq' # lastSeq
    PROVE  lastSeq' > lastSeq /\ lastSeq' > 0
  <1> USE DEF streamVars, dataVars, goVars, callVars
  <1>1. ASSUME NEW g \in Callers, Convert(g) PROVE lastSeq' > lastSeq /\ lastSeq' > 0
    <2>1. lastSeq' = out.seq /\ out.seq > lastSeq /\ lastSeq \in Nat
          /\ out.seq \in start[g] .. seq /\ start[g] \in Nat /\ seq \in Nat
      BY <1>1 DEF Convert, CallInv, Typed, TypeOK
    <2> QED
      BY <2>1
  <1>2. ~(StreamError \/ ParamChanged \/ Drop \/ Publish \/ UNCHANGED vars)
    BY DEF StreamError, ParamChanged, Drop, Publish, vars
  <1>3. ASSUME NEW c \in Chunks PROVE ~Dequeue(c)
    BY DEF Dequeue
  <1>4. ASSUME NEW g \in Callers
        PROVE  ~(CallCapture(g) \/ CallClose(g) \/ SpuriousWakeup(g) \/ Expire(g) \/ Close(g))
    BY DEF CallCapture, CallClose, SpuriousWakeup, Expire, Close, LockClose, StopLoop,
           Destroy, CloseSession
  <1>5. ASSUME NEW g \in Callers, Capture(g) PROVE Convert(g)
    BY <1>5 DEF Capture, LockCapture, NotInitialized, ReadError, ReadPoll, ReadWait,
                ReadTimedOut, ReadNoMemory, ReadCopy, ConvertFails
  <1> QED
    BY <1>1, <1>2, <1>3, <1>4, <1>5 DEF Next

\* When the server delivers whole frames, a frame reported as new brings new
\* pixels: what PipewireShortChunk finds needs a chunk shorter than its frame.
THEOREM NewFramesBringNewPixels ==
    ASSUME FullChunks
    PROVE  Spec => FreshMeansNew
  <1>1. ASSUME Typed, LockInv, CallInv, CallInv', PixelInv', [Next]_vars,
               lastSeq' # lastSeq
        PROVE  \E tag \in lastImage'.tags : tag > lastSeq
    <2>1. lastSeq' > lastSeq /\ lastSeq' > 0
      BY <1>1, ShowsLater
    <2>2. lastImage'.tags = {lastSeq'}
      BY <1>1, <2>1 DEF CallInv, PixelInv, NoTornImage, NoImage
    <2> QED
      BY <2>1, <2>2
  <1>2. Typed /\ LockInv /\ CallInv /\ CallInv' /\ PixelInv' /\ [Next]_vars
            => [lastImage # NoImage /\ lastSeq' # lastSeq =>
                    \E tag \in lastImage'.tags : tag > lastSeq]_vars
    BY <1>1
  <1> QED
    BY <1>2, AlwaysCall, AlwaysWhole, PTL DEF Spec, FreshMeansNew

(***************************************************************************)
(* Refinement: every step is a step of CaptureContract or a stutter.       *)
(***************************************************************************)
calls == [g \in Callers |-> CallOf(pc[g])]

InCapture == {"capture", "convert"} \cup InRead

LEMMA CallOfPoint ==
    /\ CallOf("idle") = "none"
    /\ \A point \in InCapture : CallOf(point) = "Capture"
    /\ \A point \in {"close"} \cup InClose : CallOf(point) = "Close"
  BY DEF CallOf, InCapture, InRead, InClose

LEMMA CallMoves ==
    ASSUME Typed, NEW g \in Callers, NEW point, Goto(g, point)
    PROVE  /\ calls' = [calls EXCEPT ![g] = CallOf(point)]
           /\ calls[g] = CallOf(pc[g])
           /\ CallOf(point) = CallOf(pc[g]) => UNCHANGED calls
  BY DEF Goto, Typed, TypeOK, calls

LEMMA CallsOnReturn ==
    ASSUME Typed, NEW g \in Callers, NEW kind, NEW n, Return(g, kind, n)
    PROVE  /\ calls' = [calls EXCEPT ![g] = "none"]
           /\ start' = [start EXCEPT ![g] = 0]
           /\ ret' = [ret EXCEPT ![g] = [kind |-> kind, seq |-> n]]
           /\ calls[g] = CallOf(pc[g])
  BY CallMoves, CallOfPoint DEF Return

\* A return with an error, at any point of a Capture.
LEMMA FailRefines ==
    ASSUME Typed, NEW g \in Callers, pc[g] \in InCapture, Return(g, "error", 0),
           UNCHANGED <<seq, lastSeq, stage>>
    PROVE  Contract!Fail(g)
  BY CallsOnReturn, CallOfPoint DEF Contract!Fail, Contract!Leave, calls

\* ret == 1 of pw_capture_read is a repetition or a timeout of the contract.
LEMMA NothingNewRefines ==
    ASSUME Typed, CallInv, NEW g \in Callers, pc[g] \in InRead, NothingNew(g),
           stage # "freed", UNCHANGED <<seq, lastSeq, stage>>,
           lastSeq = 0 => start[g] = 0,
           lastSeq > 0 => lastSeq >= start[g]
    PROVE  Contract!Repeated(g) \/ Contract!TimedOut(g)
  <1>1. pc[g] \in InCapture /\ lastSeq \in Nat
    BY DEF InCapture, Typed, TypeOK
  <1>2. CASE lastImage # NoImage
    <2>1. Return(g, "repeated", lastSeq) /\ lastSeq > 0
      BY <1>2 DEF NothingNew, CallInv
    <2> QED
      BY <1>1, <2>1, CallsOnReturn, CallOfPoint
      DEF Contract!Repeated, Contract!NothingNew, Contract!Leave, calls
  <1>3. CASE lastImage = NoImage
    <2>1. Return(g, "timeout", 0) /\ lastSeq = 0
      BY <1>1, <1>3 DEF NothingNew, CallInv
    <2> QED
      BY <1>1, <2>1, CallsOnReturn, CallOfPoint
      DEF Contract!TimedOut, Contract!NothingNew, Contract!Leave, calls
  <1> QED
    BY <1>2, <1>3

LEMMA ConvertRefines ==
    ASSUME Typed, StageInv, CallInv, NEW g \in Callers, Convert(g)
    PROVE  Contract!Fresh(g)
  <1>1. pc[g] = "convert" /\ pc[g] \in InCapture /\ pc[g] \in Alive
    BY DEF Convert, InCapture, Alive
  <1>2. /\ stage # "freed" /\ UNCHANGED <<seq, stage>> /\ lastSeq' = out.seq
        /\ Return(g, "fresh", out.seq)
    BY <1>1 DEF Convert, StageInv, streamVars
  <1>3. out.seq \in start[g] .. seq /\ out.seq > lastSeq
    BY <1>1 DEF CallInv
  <1> QED
    BY <1>1, <1>2, <1>3, CallsOnReturn, CallOfPoint
    DEF Contract!Fresh, Contract!Leave, calls

\* A step of which the contract sees nothing.
LEMMA Stutters ==
    UNCHANGED <<seq, lastSeq, stage, calls, start, ret>> => UNCHANGED Contract!vars
  BY DEF Contract!vars, calls

LEMMA CaptureRefines ==
    ASSUME Typed, StageInv, CallInv, NEW g \in Callers, Capture(g)
    PROVE  [Contract!Next]_(Contract!vars)
  <1> USE DEF streamVars, dataVars, goVars
  <1>0. /\ {"capture", "read", "waiting", "woken", "convert"} \subseteq InCapture
        /\ {"read", "waiting", "woken", "expired"} = InRead
        /\ InRead \subseteq InCapture
    BY DEF InCapture, InRead
  <1>1. pc[g] \in InRead => stage # "freed"
    BY DEF StageInv, Alive
  <1>2. CASE LockCapture(g) \/ ReadWait(g) \/ ReadCopy(g)
    <2>1. \E point \in {"read", "waiting", "convert"} : Goto(g, point)
      BY <1>2 DEF LockCapture, ReadWait, ReadCopy
    <2>2. pc[g] \in InCapture
      BY <1>0, <1>2 DEF LockCapture, ReadWait, ReadCopy, CanCopy
    <2>3. UNCHANGED calls
      BY <1>0, <2>1, <2>2, CallMoves, CallOfPoint
    <2> QED
      BY <1>2, <2>3, Stutters DEF LockCapture, ReadWait, ReadCopy
  <1>3. CASE NotInitialized(g) \/ ReadError(g) \/ ReadNoMemory(g) \/ ConvertFails(g)
    <2>1. Contract!Fail(g)
      BY <1>0, <1>3, FailRefines
      DEF NotInitialized, ReadError, ReadNoMemory, CanCopy, ConvertFails
    <2> QED
      BY <2>1 DEF Contract!Next
  <1>4. CASE ReadPoll(g)
    <2>1. /\ seq = 0 \/ seq = lastSeq
          /\ start[g] <= seq /\ lastSeq <= seq
          /\ start[g] \in Nat /\ lastSeq \in Nat /\ seq \in Nat
      BY <1>4 DEF ReadPoll, Ready, CallInv, Typed, TypeOK
    <2>2. Contract!Repeated(g) \/ Contract!TimedOut(g)
      BY <1>0, <1>1, <1>4, <2>1, NothingNewRefines DEF ReadPoll
    <2> QED
      BY <2>2 DEF Contract!Next
  <1>5. CASE ReadTimedOut(g)
    <2>1. lastSeq = 0 /\ start[g] = 0
      BY <1>5 DEF ReadTimedOut, CallInv, Sleeping
    <2>2. Contract!Repeated(g) \/ Contract!TimedOut(g)
      BY <1>0, <1>1, <1>5, <2>1, NothingNewRefines DEF ReadTimedOut
    <2> QED
      BY <2>2 DEF Contract!Next
  <1>6. CASE Convert(g)
    BY <1>6, ConvertRefines DEF Contract!Next
  <1> QED
    BY <1>2, <1>3, <1>4, <1>5, <1>6 DEF Capture

LEMMA CloseRefines ==
    ASSUME Typed, StageInv, NEW g \in Callers, Close(g)
    PROVE  [Contract!Next]_(Contract!vars)
  <1> USE DEF streamVars, dataVars, goVars
  <1>0. {"stopping", "stopped", "closing"} = InClose
    BY DEF InClose
  <1>1. CASE LockClose(g) \/ StopLoop(g)
    <2>1. \E point \in InClose : Goto(g, point)
      BY <1>0, <1>1 DEF LockClose, StopLoop
    <2>2. pc[g] \in {"close"} \cup InClose
      BY <1>0, <1>1 DEF LockClose, StopLoop
    <2>3. UNCHANGED calls
      BY <2>1, <2>2, CallMoves, CallOfPoint
    <2>4. (stage' # "freed") = (stage # "freed")
      BY <1>1 DEF LockClose, StopLoop, StageInv, Alive
    <2> QED
      BY <1>1, <2>3, <2>4 DEF LockClose, StopLoop, Contract!vars, calls
  <1>2. CASE Destroy(g)
    <2>1. Goto(g, "closing") /\ pc[g] = "stopped" /\ stage' = "freed"
      BY <1>2 DEF Destroy
    <2>2. UNCHANGED calls /\ calls[g] = "Close"
      BY <1>0, <2>1, CallMoves, CallOfPoint
    <2>3. stage # "freed"
      BY <2>1 DEF StageInv, Alive
    <2>4. Contract!TearDown
      BY <1>2, <2>1, <2>2, <2>3 DEF Destroy, Contract!TearDown, calls
    <2> QED
      BY <2>4 DEF Contract!Next
  <1>3. CASE CloseSession(g)
    <2>1. /\ pc[g] = "closing" /\ Return(g, "closed", 0) /\ stage = "freed"
          /\ UNCHANGED <<seq, lastSeq, stage>>
      BY <1>3 DEF CloseSession, StageInv
    <2>2. Contract!CloseReturns(g)
      BY <1>0, <2>1, CallsOnReturn, CallOfPoint
      DEF Contract!CloseReturns, Contract!Leave, calls
    <2> QED
      BY <2>2 DEF Contract!Next
  <1> QED
    BY <1>1, <1>2, <1>3 DEF Close

LEMMA StepRefines ==
    Typed /\ StageInv /\ CallInv /\ [Next]_vars => [Contract!Next]_(Contract!vars)
  <1> SUFFICES ASSUME Typed, StageInv, CallInv, [Next]_vars
               PROVE  [Contract!Next]_(Contract!vars)
    OBVIOUS
  <1> USE DEF streamVars, dataVars, goVars, callVars
  <1>0. /\ "capture" \in InCapture /\ InRead \subseteq InCapture
        /\ {"waiting", "woken", "expired"} \subseteq InRead
    BY DEF InCapture, InRead
  <1>1. ASSUME Broadcast PROVE UNCHANGED calls
    <2>1. \A g \in Callers : CallOf(pc'[g]) = CallOf(pc[g])
      BY <1>0, <1>1, CallOfPoint DEF Broadcast, Typed, TypeOK
    <2> QED
      BY <2>1 DEF calls
  <1>2. CASE StreamError
    BY <1>1, <1>2, Stutters DEF StreamError
  <1>3. CASE ParamChanged \/ Drop \/ UNCHANGED vars
    BY <1>3, Stutters DEF ParamChanged, Drop, vars, calls
  <1>4. ASSUME NEW c \in Chunks, Dequeue(c) PROVE UNCHANGED Contract!vars
    BY <1>4, Stutters DEF Dequeue, calls
  <1>5. CASE Publish
    <2>1. stage # "freed"
      BY <1>5 DEF Publish, StageInv
    <2>2. Contract!Publish
      BY <1>1, <1>5, <2>1 DEF Publish, Contract!Publish, calls
    <2> QED
      BY <2>2 DEF Contract!Next
  <1>6. ASSUME NEW g \in Callers, CallCapture(g) PROVE Contract!Enter(g, "Capture")
    <2>1. Goto(g, "capture") /\ pc[g] = "idle"
      BY <1>6 DEF CallCapture, Goto
    <2>2. calls' = [calls EXCEPT ![g] = "Capture"] /\ calls[g] = "none"
      BY <1>0, <2>1, CallMoves, CallOfPoint
    <2>3. Contract!NoResult = NoResult
      BY DEF Contract!NoResult, NoResult
    <2> QED
      BY <1>6, <2>2, <2>3 DEF CallCapture, Contract!Enter, calls
  <1>7. ASSUME NEW g \in Callers, CallClose(g) PROVE Contract!Enter(g, "Close")
    <2>1. Goto(g, "close") /\ pc[g] = "idle"
      BY <1>7 DEF CallClose, Goto
    <2>2. calls' = [calls EXCEPT ![g] = "Close"] /\ calls[g] = "none"
      BY <2>1, CallMoves, CallOfPoint
    <2>3. Contract!NoResult = NoResult
      BY DEF Contract!NoResult, NoResult
    <2>4. start' = [start EXCEPT ![g] = 0]
      <3>1. start[g] = 0 /\ UNCHANGED start /\ start \in [Callers -> Nat]
        BY <1>7, <2>1 DEF CallClose, CallInv, NotReading, Typed, TypeOK
      <3> QED
        BY <3>1
    <2> QED
      BY <1>7, <2>2, <2>3, <2>4 DEF CallClose, Contract!Enter, calls
  <1>8. ASSUME NEW g \in Callers, SpuriousWakeup(g) \/ Expire(g)
        PROVE  UNCHANGED Contract!vars
    <2>1. \E point \in InRead : Goto(g, point)
      BY <1>0, <1>8 DEF SpuriousWakeup, Expire
    <2>2. pc[g] \in InRead
      BY <1>0, <1>8 DEF SpuriousWakeup, Expire
    <2>3. UNCHANGED calls
      BY <1>0, <2>1, <2>2, CallMoves, CallOfPoint
    <2> QED
      BY <1>8, <2>3, Stutters DEF SpuriousWakeup, Expire
  <1>9. ASSUME NEW g \in Callers, Capture(g) \/ Close(g)
        PROVE  [Contract!Next]_(Contract!vars)
    BY <1>9, CaptureRefines, CloseRefines
  <1> QED
    BY <1>2, <1>3, <1>4, <1>5, <1>6, <1>7, <1>8, <1>9 DEF Next, Contract!Next

\* The capturer implements the contract of the interface for its callers, with
\* whole chunks or not, whatever the threads and whatever fails.
THEOREM Implements == Spec => ContractSpec
  <1>1. Init => Contract!Init
    <2> SUFFICES ASSUME Init PROVE Contract!Init
      OBVIOUS
    <2>1. calls = [g \in Callers |-> "none"]
      BY CallOfPoint DEF Init, calls
    <2> QED
      BY <2>1 DEF Init, Contract!Init, Contract!NoResult, NoResult, calls
  <1> QED
    BY <1>1, StepRefines, AlwaysCall, PTL DEF Spec, ContractSpec, Contract!Spec

(***************************************************************************)
(* What the promise gives the callers together.                            *)
(***************************************************************************)
LEMMA ResultsStep ==
    ASSUME Contract!ResultsInv, [Contract!Next]_(Contract!vars)
    PROVE  Contract!ResultsInv' /\ Contract!InOrder /\ Contract!StaysClosed
  <1> DEFINE Good == Contract!ResultsInv' /\ Contract!InOrder /\ Contract!StaysClosed
  <1> USE DEF Contract!ResultsInv, Contract!InOrder, Contract!StaysClosed,
              Contract!Images, Contract!Kinds, Contract!NoResult, Contract!Leave
  <1>1. CASE Contract!Publish \/ Contract!TearDown \/ UNCHANGED Contract!vars
    BY <1>1 DEF Contract!Publish, Contract!TearDown, Contract!vars
  <1>2. ASSUME NEW g \in Callers, Contract!Enter(g, "Capture") \/ Contract!Enter(g, "Close")
        PROVE  Good
    <2>1. /\ ret' = [ret EXCEPT ![g] = [kind |-> "none", seq |-> 0]]
          /\ start' \in [Callers -> Nat]
      BY <1>2 DEF Contract!Enter
    <2> QED
      BY <1>2, <2>1 DEF Contract!Enter
  <1>3. ASSUME NEW g \in Callers, Contract!Fresh(g) PROVE Good
    <2>1. lastSeq' \in Nat /\ lastSeq' > lastSeq
      BY <1>3 DEF Contract!Fresh
    <2>2. ret' = [ret EXCEPT ![g] = [kind |-> "fresh", seq |-> lastSeq']]
      BY <1>3 DEF Contract!Fresh
    <2> QED
      BY <1>3, <2>1, <2>2 DEF Contract!Fresh
  <1>4. ASSUME NEW g \in Callers, Contract!Repeated(g) PROVE Good
    BY <1>4 DEF Contract!Repeated
  <1>5. ASSUME NEW g \in Callers, Contract!TimedOut(g) PROVE Good
    BY <1>5 DEF Contract!TimedOut
  <1>6. ASSUME NEW g \in Callers, Contract!Fail(g) PROVE Good
    BY <1>6 DEF Contract!Fail
  <1>7. ASSUME NEW g \in Callers, Contract!CloseReturns(g) PROVE Good
    BY <1>7 DEF Contract!CloseReturns
  <1> QED
    BY <1>1, <1>2, <1>3, <1>4, <1>5, <1>6, <1>7 DEF Contract!Next

LEMMA ResultsAlways == ContractSpec => []Contract!ResultsInv
  <1>1. Contract!Init => Contract!ResultsInv
    BY DEF Contract!Init, Contract!ResultsInv, Contract!NoResult, Contract!Images,
           Contract!Kinds
  <1>2. Contract!ResultsInv /\ [Contract!Next]_(Contract!vars) => Contract!ResultsInv'
    BY ResultsStep
  <1> QED
    BY <1>1, <1>2, PTL DEF ContractSpec, Contract!Spec

\* The images that the callers get, all of them together, never go back: one
\* caller's Capture returns nothing older than what another has already.
THEOREM ImagesInOrder == Spec => Contract!ResultsInOrder
  <1>1. Contract!ResultsInv /\ [Contract!Next]_(Contract!vars)
            => [Contract!InOrder]_(Contract!vars)
    BY ResultsStep
  <1> QED
    BY <1>1, Implements, ResultsAlways, PTL
    DEF ContractSpec, Contract!Spec, Contract!ResultsInOrder

\* After a Close returned to anybody nobody gets an image or waits for one.
THEOREM ClosedIsFinal == Spec => Contract!ClosedForEver
  <1>1. Contract!ResultsInv /\ [Contract!Next]_(Contract!vars)
            => [Contract!StaysClosed]_(Contract!vars)
    BY ResultsStep
  <1> QED
    BY <1>1, Implements, ResultsAlways, PTL
    DEF ContractSpec, Contract!Spec, Contract!ClosedForEver
=============================================================================
