-------------------------- MODULE GdiCapture_proofs --------------------------
(***************************************************************************)
(* Proofs about GdiCapture, for every set of callers and of threads, and   *)
(* any number of changes of the screen and of moves between threads.       *)
(***************************************************************************)
EXTENDS GdiCapture, SequenceTheorems, TLAPS

Points == {"idle", "capture"} \cup InMu
Results == [kind : {"none", "fail", "succeed"},
            shown : 0 .. MaxVersions, start : 0 .. MaxVersions]

\* The chain as the proofs use it: the k-th object and what is done after it.
LEMMA ChainFacts ==
    /\ Len(Chain) = 4
    /\ Chain[1] = "screenDC" /\ Chain[2] = "memDC"
    /\ Chain[3] = "bitmap" /\ Chain[4] = "selected"
    /\ Objects = {"screenDC", "memDC", "bitmap", "selected"}
    /\ Head(Chain) = "screenDC"
  <1>1. Len(Chain) = 4 /\ Head(Chain) = "screenDC"
    BY DEF Chain
  <1>2. /\ Chain[1] = "screenDC" /\ Chain[2] = "memDC"
        /\ Chain[3] = "bitmap" /\ Chain[4] = "selected"
    BY DEF Chain
  <1>3. 1 .. 4 = {1, 2, 3, 4}
    BY SMT
  <1>4. Objects = {"screenDC", "memDC", "bitmap", "selected"}
    BY <1>1, <1>2, <1>3 DEF Objects
  <1> QED
    BY <1>1, <1>2, <1>4

LEMMA Distinct ==
    /\ \A j, k \in 1 .. 4 : Chain[j] = Chain[k] => j = k
    /\ \A k \in 1 .. 4 : Chain[k] \in Objects
    /\ \A o \in Objects : \E k \in 1 .. 4 : o = Chain[k]
  BY ChainFacts

LEMMA AfterFacts ==
    ASSUME NEW k \in 1 .. 4
    PROVE  After(Chain[k]) = IF k = 4 THEN "blit" ELSE Chain[k + 1]
  <1> DEFINE m == CHOOSE m \in 1 .. Len(Chain) : Chain[m] = Chain[k]
  <1>1. m \in 1 .. 4 /\ Chain[m] = Chain[k]
    BY ChainFacts
  <1>2. m = k
    BY <1>1, Distinct
  <1> QED
    BY <1>2, ChainFacts DEF After

LEMMA PointFacts ==
    /\ InMu = {"screenDC", "memDC", "bitmap", "selected",
               "blit", "convert", "fail", "succeed"}
    /\ Points = {"idle", "capture", "screenDC", "memDC", "bitmap", "selected",
                 "blit", "convert", "fail", "succeed"}
    /\ \A k \in 1 .. 4 : Chain[k] \in InMu /\ After(Chain[k]) \in InMu
    /\ MaxVersions \in Nat \ {0} /\ 0 \in 0 .. MaxVersions
  <1>1. InMu = Objects \cup {"blit", "convert", "fail", "succeed"}
    BY DEF InMu
  <1>2. \A k \in 1 .. 4 : Chain[k] \in InMu /\ After(Chain[k]) \in InMu
    BY <1>1, Distinct, AfterFacts, ChainFacts
  <1> QED
    BY <1>1, <1>2, ChainFacts, InputAssumption DEF Points

(***************************************************************************)
(* The deferred calls: a Capture that has obtained the first k objects has *)
(* them on its stack of defers, the last of them on top.                   *)
(***************************************************************************)
Stack(k) == [i \in 1 .. k |-> Chain[k + 1 - i]]

LEMMA StackFacts ==
    ASSUME NEW k \in 0 .. 4
    PROVE  /\ Stack(k) \in Seq(Objects)
           /\ Len(Stack(k)) = k
           /\ Stack(k) = <<>> <=> k = 0
  <1>1. k \in Nat /\ \A i \in 1 .. k : Chain[k + 1 - i] \in Objects
    <2>1. \A i \in 1 .. k : k + 1 - i \in 1 .. 4
      OBVIOUS
    <2> QED
      BY <2>1, Distinct
  <1>2. Stack(k) \in [1 .. k -> Objects]
    BY <1>1 DEF Stack
  <1>3. Stack(k) \in Seq(Objects) /\ Len(Stack(k)) = k
    BY <1>1, <1>2, SeqDef, LenProperties
  <1>4. Stack(k) = <<>> <=> k = 0
    BY <1>1, <1>3, EmptySeq
  <1> QED
    BY <1>3, <1>4

LEMMA Push ==
    ASSUME NEW k \in 1 .. 4
    PROVE  <<Chain[k]>> \o Stack(k - 1) = Stack(k)
  <1>0. k \in 0 .. 4 /\ k - 1 \in 0 .. 4 /\ k # 0
    OBVIOUS
  <1> DEFINE s == Stack(k - 1)
             t == <<Chain[k]>> \o s
  <1>1. s \in Seq(Objects) /\ Len(s) = k - 1
    BY <1>0, StackFacts
  <1>2. <<Chain[k]>> \in Seq(Objects) /\ Len(<<Chain[k]>>) = 1
    BY Distinct
  <1>3. t \in Seq(Objects) /\ Len(t) = k
    BY <1>1, <1>2, ConcatProperties
  <1>4. ASSUME NEW i \in 1 .. k PROVE t[i] = Chain[k + 1 - i]
    <2>1. CASE i = 1
      BY <1>1, <1>2, <2>1, ConcatProperties
    <2>2. CASE i # 1
      <3>1. t[i] = s[i - 1] /\ i - 1 \in 1 .. k - 1
        BY <1>1, <1>2, <2>2, ConcatProperties
      <3>2. s[i - 1] = Chain[(k - 1) + 1 - (i - 1)]
        BY <3>1 DEF Stack
      <3>3. (k - 1) + 1 - (i - 1) = k + 1 - i
        OBVIOUS
      <3> QED
        BY <3>1, <3>2, <3>3
    <2> QED
      BY <2>1, <2>2
  <1>5. Stack(k) \in Seq(Objects) /\ Len(Stack(k)) = k
    BY <1>0, StackFacts
  <1>6. \A i \in 1 .. k : Stack(k)[i] = Chain[k + 1 - i]
    BY DEF Stack
  <1> QED
    BY <1>3, <1>4, <1>5, <1>6, SeqEqual

LEMMA Pop ==
    ASSUME NEW k \in 1 .. 4
    PROVE  Head(Stack(k)) = Chain[k] /\ Tail(Stack(k)) = Stack(k - 1)
  <1>0. k \in 0 .. 4 /\ k - 1 \in 0 .. 4 /\ k # 0
    OBVIOUS
  <1>1. Stack(k) \in Seq(Objects) /\ Stack(k) # <<>> /\ Len(Stack(k)) = k
    BY <1>0, StackFacts
  <1>2. Head(Stack(k)) = Stack(k)[1]
    BY <1>1, HeadTailProperties
  <1>3. Stack(k)[1] = Chain[k]
    BY DEF Stack
  <1> DEFINE t == Tail(Stack(k))
  <1>4. t \in Seq(Objects) /\ Len(t) = k - 1
        /\ \A i \in 1 .. k - 1 : t[i] = Stack(k)[i + 1]
    BY <1>1, HeadTailProperties
  <1>5. \A i \in 1 .. k - 1 : t[i] = Chain[(k - 1) + 1 - i]
    <2>1. \A i \in 1 .. k - 1 : i + 1 \in 1 .. k /\ k + 1 - (i + 1) = (k - 1) + 1 - i
      OBVIOUS
    <2>2. \A i \in 1 .. k : Stack(k)[i] = Chain[k + 1 - i]
      BY DEF Stack
    <2> HIDE DEF t
    <2> QED
      BY <1>4, <2>1, <2>2
  <1>6. Stack(k - 1) \in Seq(Objects) /\ Len(Stack(k - 1)) = k - 1
    BY <1>0, StackFacts
  <1>7. \A i \in 1 .. k - 1 : Stack(k - 1)[i] = Chain[(k - 1) + 1 - i]
    BY DEF Stack
  <1>8. t = Stack(k - 1)
    BY <1>4, <1>5, <1>6, <1>7, SeqEqual
  <1> QED
    BY <1>2, <1>3, <1>8

(***************************************************************************)
(* Types.                                                                  *)
(***************************************************************************)
LEMMA GotoFacts ==
    ASSUME TypeOK, NEW g \in Callers, NEW point \in Points, Goto(g, point)
    PROVE  /\ pc' \in [Callers -> Points]
           /\ \A h \in Callers : pc'[h] = IF h = g THEN point ELSE pc[h]
  BY DEF TypeOK, Goto, Points

\* The deferred calls a Capture can have: none, or those of a part of the chain.
Depth == Len(defers)
Stacked == Depth \in 0 .. 4 /\ defers = Stack(Depth)

Typed == TypeOK /\ Stacked

\* What TypeOK says of the stack follows from its form.
LEMMA StackTyped ==
    ASSUME NEW s, NEW k \in 0 .. 4, s = Stack(k)
    PROVE  s \in Seq(Objects) /\ Len(s) <= Len(Chain)
  <1>1. Len(Chain) = 4
    BY ChainFacts
  <1>2. Len(Stack(k)) = k
    BY StackFacts
  <1>3. Stack(k) \in Seq(Objects)
    BY StackFacts
  <1>4. Len(s) <= Len(Chain)
    BY <1>1, <1>2
  <1> QED
    BY <1>3, <1>4

LEMMA Pushed ==
    ASSUME Stacked, NEW k \in 1 .. 4, Depth = k - 1, defers' = <<Chain[k]>> \o defers
    PROVE  Stacked' /\ Depth' = k
  <1>0. defers = Stack(k - 1)
    BY DEF Stacked
  <1>1. defers' = Stack(k)
    <2>1. defers' = <<Chain[k]>> \o Stack(k - 1)
      BY <1>0
    <2> QED
      BY <2>1, Push, Zenon
  <1>2. k \in 0 .. 4
    OBVIOUS
  <1>3. Len(defers') = k
    BY <1>1, <1>2, StackFacts
  <1> QED
    BY <1>1, <1>2, <1>3 DEF Stacked, Depth

LEMMA Popped ==
    ASSUME Stacked, defers # <<>>
    PROVE  /\ Depth \in 1 .. 4 /\ Head(defers) = Chain[Depth]
           /\ defers' = Tail(defers) => Stacked' /\ Depth' = Depth - 1
  <1>1. Depth \in 1 .. 4 /\ defers = Stack(Depth)
    BY StackFacts DEF Stacked, Depth
  <1>2. Head(defers) = Chain[Depth] /\ Tail(defers) = Stack(Depth - 1)
    BY <1>1, Pop
  <1>3. Depth - 1 \in 0 .. 4
    BY <1>1
  <1>4. Len(Stack(Depth - 1)) = Depth - 1
    BY <1>3, StackFacts
  <1>5. ASSUME defers' = Tail(defers) PROVE Stacked' /\ Depth' = Depth - 1
    <2>1. defers' = Stack(Depth - 1)
      BY <1>2, <1>5
    <2>2. Len(defers') = Depth - 1
      BY <1>4, <2>1
    <2> QED
      BY <1>3, <2>1, <2>2 DEF Stacked, Depth
  <1> QED
    BY <1>1, <1>2, <1>5

LEMMA Same == Stacked /\ UNCHANGED defers => Stacked' /\ Depth' = Depth
  BY DEF Stacked, Depth

(***************************************************************************)
(* The invariant.                                                          *)
(***************************************************************************)
LockInv ==
    /\ \A g \in Callers : g \in mu <=> pc[g] \in InMu
    /\ \A g, h \in mu : g = h

\* How far a caller has come in the chain is how many calls it has deferred.
DeferredAt(g) ==
    /\ \A k \in 1 .. 4 : pc[g] = Chain[k] => Depth = k - 1
    /\ pc[g] \in {"blit", "convert"} => Depth = 4

DeferInv ==
    /\ mu = {} => Depth = 0
    /\ \A g \in Callers : DeferredAt(g)

\* What is deferred exists when something obtained later rests on it, and what
\* exists is deferred, but for a bitmap without bits and a context that could
\* not be released.
HandleInv ==
    /\ Depth >= 2 => "memDC" \in handles
    /\ Depth >= 3 => "bitmap" \in handles
    /\ "selected" \in handles => Depth = 4
    /\ {"bits", "thread"} \cap faults = {} =>
          \A o \in handles : \E k \in 1 .. 4 : k <= Depth /\ o = Chain[k]

\* A version that a Capture which began at version s may show.
Shows(v, s) == v \in s .. screen \/ (v = 0 /\ "select" \in faults)

\* The bits are cleared when the section begins and written once, by BitBlt.
ImageAt(g) ==
    /\ start[g] <= screen
    /\ pc[g] \in Objects \cup {"blit"} => bits = 0
    /\ pc[g] = "blit" => "selected" \in handles \/ "select" \in faults
    /\ pc[g] = "convert" => Shows(bits, start[g])
    /\ pc[g] = "succeed" => Shows(image, start[g])

ImageInv == CurrentImage /\ \A g \in Callers : ImageAt(g)

IInv == Typed /\ LockInv /\ DeferInv /\ HandleInv /\ ImageInv

LEMMA InitIInv == Init => IInv
  <1> SUFFICES ASSUME Init PROVE IInv
    OBVIOUS
  <1>1. Depth = 0 /\ Stacked
    <2>1. 0 \in 0 .. 4
      OBVIOUS
    <2>2. defers = Stack(0) /\ Len(defers) = 0
      BY <2>1, StackFacts DEF Init
    <2> QED
      BY <2>1, <2>2 DEF Stacked, Depth
  <1>2. TypeOK
    <2>1. screen \in 1 .. MaxVersions /\ moves \in 0 .. MaxMoves
      BY InputAssumption DEF Init
    <2>2. NoResult \in Results
      BY PointFacts DEF NoResult, Results
    <2>3. ret \in [Callers -> Results]
      BY <2>2 DEF Init
    <2>4. pc \in [Callers -> Points] /\ start \in [Callers -> 0 .. MaxVersions]
      BY PointFacts DEF Init
    <2>5. defers \in Seq(Objects) /\ Len(defers) <= Len(Chain)
      BY <1>1, StackTyped DEF Stacked
    <2> QED
      BY <1>1, <2>1, <2>3, <2>4, <2>5, PointFacts DEF Init, TypeOK, Results, Points
  <1>3. \A g \in Callers : pc[g] = "idle" /\ start[g] = 0 /\ ret[g].kind = "none"
    BY DEF Init, NoResult
  <1>4. LockInv /\ DeferInv
    BY <1>1, <1>3, PointFacts DEF Init, LockInv, DeferInv, DeferredAt
  <1>5. HandleInv
    BY <1>1 DEF Init, HandleInv
  <1>6. ImageInv
    <2>1. screen = 1 /\ "idle" \notin Objects
      BY ChainFacts DEF Init
    <2> QED
      BY <1>3, <2>1 DEF ImageInv, CurrentImage, ImageAt
  <1> QED
    BY <1>1, <1>2, <1>4, <1>5, <1>6 DEF IInv, Typed

LEMMA LockMoves ==
    ASSUME TypeOK, LockInv, NEW g \in Callers, NEW point \in Points, Goto(g, point),
           \/ mu = {} /\ mu' = {g} /\ point \in InMu
           \/ mu' = mu \ {g} /\ point \notin InMu
           \/ mu' = mu /\ (pc[g] \in InMu <=> point \in InMu)
    PROVE  LockInv'
  BY GotoFacts DEF LockInv

LEMMA Alone ==
    ASSUME LockInv, NEW g \in Callers, pc[g] \in InMu \/ mu = {}
    PROVE  \A h \in Callers \ {g} : pc[h] \notin InMu
  BY DEF LockInv

(***************************************************************************)
(* The steps.                                                              *)
(***************************************************************************)

\* A later screen and another fault only add to what a Capture may show.
LEMMA ShowsGrows ==
    ASSUME screen \in Nat, screen' \in Nat, screen <= screen', faults \subseteq faults'
    PROVE  \A v, s : s \in Nat /\ Shows(v, s) => Shows(v, s)'
  BY DEF Shows

\* What CurrentImage says of the latest call of one caller.
ResultAt(g) == ret[g].kind = "succeed" => Shows(ret[g].shown, ret[g].start)

LEMMA ResultsKept ==
    ASSUME TypeOK, CurrentImage, screen' \in Nat, screen <= screen', faults \subseteq faults',
           \A h \in Callers : ret'[h] = ret[h] \/ ResultAt(h)'
    PROVE  CurrentImage'
  <1>1. ASSUME NEW h \in Callers PROVE ResultAt(h)'
    <2>1. CASE ret'[h] = ret[h] /\ ret[h].kind = "succeed"
      <3>1. Shows(ret[h].shown, ret[h].start)
        BY <2>1 DEF CurrentImage, Shows
      <3>2. screen \in Nat /\ ret[h].start \in Nat
        BY PointFacts DEF TypeOK
      <3> QED
        BY <2>1, <3>1, <3>2 DEF ResultAt, Shows
    <2> QED
      BY <2>1 DEF ResultAt
  <1> QED
    BY <1>1 DEF CurrentImage, ResultAt, Shows

\* The screen changes, or a goroutine its thread: no variable of a Capture does.
LEMMA EnvironmentStep ==
    ASSUME IInv, ScreenChanges \/ \E g \in Callers, t \in Threads : Migrate(g, t)
    PROVE  IInv'
  <1> USE DEF IInv, Typed, gdiVars, callVars
  <1>1. UNCHANGED <<mu, image, handles, defers, origin, bits, faults, pc, start, ret>>
    BY DEF ScreenChanges, Migrate
  <1>2. screen' \in 1 .. MaxVersions /\ screen <= screen' /\ screen \in Nat /\ screen' \in Nat
    BY PointFacts DEF ScreenChanges, Migrate, TypeOK
  <1>3. thread' \in [Callers -> Threads] /\ moves' \in 0 .. MaxMoves
    <2>1. CASE ScreenChanges
      BY <2>1 DEF ScreenChanges, TypeOK
    <2>2. ASSUME NEW g \in Callers, NEW t \in Threads, Migrate(g, t)
          PROVE  thread' \in [Callers -> Threads] /\ moves' \in 0 .. MaxMoves
      <3>1. thread' = [thread EXCEPT ![g] = t] /\ thread \in [Callers -> Threads]
        BY <2>2 DEF Migrate, TypeOK
      <3>2. moves' \in 0 .. MaxMoves
        BY <2>2, InputAssumption DEF Migrate, TypeOK
      <3> QED
        BY <3>1, <3>2
    <2> QED
      BY <2>1, <2>2
  <1>4. TypeOK' /\ Stacked' /\ Depth' = Depth
    BY <1>1, <1>2, <1>3, Same DEF TypeOK
  <1>5. LockInv' /\ DeferInv' /\ HandleInv'
    BY <1>1, <1>4 DEF LockInv, DeferInv, DeferredAt, HandleInv
  <1>6. CurrentImage'
    BY <1>1, <1>2, ResultsKept DEF ImageInv
  <1>7. ASSUME NEW h \in Callers PROVE ImageAt(h)'
    <2>1. start[h] \in Nat /\ start'[h] = start[h]
      BY <1>1, PointFacts DEF TypeOK
    <2>2. \A v, s : s \in Nat /\ Shows(v, s) => Shows(v, s)'
      BY <1>1, <1>2, ShowsGrows
    <2> QED
      BY <1>1, <1>2, <2>1, <2>2 DEF ImageInv, ImageAt
  <1> QED
    BY <1>4, <1>5, <1>6, <1>7 DEF ImageInv

LEMMA EnterStep ==
    ASSUME IInv, NEW g \in Callers, CallCapture(g)
    PROVE  IInv'
  <1> USE DEF IInv, Typed, gdiVars
  <1>1. UNCHANGED <<screen, thread, moves, mu, image, handles, defers, origin, bits, faults>>
    BY DEF CallCapture
  <1>2. /\ pc' \in [Callers -> Points]
        /\ \A h \in Callers : pc'[h] = IF h = g THEN "capture" ELSE pc[h]
    BY GotoFacts, PointFacts DEF CallCapture
  <1>3. screen \in 0 .. MaxVersions /\ screen \in Nat /\ screen <= screen
    BY PointFacts DEF TypeOK
  <1>4. /\ start' \in [Callers -> 0 .. MaxVersions]
        /\ \A h \in Callers : start'[h] = IF h = g THEN screen ELSE start[h]
    BY <1>3 DEF CallCapture, TypeOK
  <1>5. /\ ret' \in [Callers -> Results]
        /\ \A h \in Callers : ret'[h] = IF h = g THEN NoResult ELSE ret[h]
    <2>1. NoResult \in Results
      BY PointFacts DEF NoResult, Results
    <2>2. ret' = [ret EXCEPT ![g] = NoResult] /\ ret \in [Callers -> Results]
      BY DEF CallCapture, TypeOK, Results
    <2> QED
      BY <2>1, <2>2
  <1>6. TypeOK' /\ Stacked' /\ Depth' = Depth
    BY <1>1, <1>2, <1>4, <1>5, Same DEF TypeOK, Points, Results
  <1>7. LockInv'
    BY <1>1, LockMoves, PointFacts DEF CallCapture
  <1>8. pc'[g] \notin InMu
    BY <1>2, PointFacts
  <1>9. DeferInv' /\ HandleInv'
    <2>1. ASSUME NEW h \in Callers PROVE DeferredAt(h)'
      <3>1. CASE h = g
        BY <1>2, <3>1, PointFacts DEF DeferredAt
      <3>2. CASE h # g
        BY <1>2, <1>6, <3>2 DEF DeferInv, DeferredAt
      <3> QED
        BY <3>1, <3>2
    <2> QED
      BY <1>1, <1>6, <2>1 DEF DeferInv, HandleInv
  <1>10. CurrentImage'
    <2>1. NoResult.kind # "succeed"
      BY DEF NoResult
    <2>2. \A h \in Callers : ret'[h] = ret[h] \/ ResultAt(h)'
      BY <1>5, <2>1 DEF ResultAt
    <2> QED
      BY <1>1, <1>3, <2>2, ResultsKept DEF ImageInv
  <1>11. ASSUME NEW h \in Callers PROVE ImageAt(h)'
    <2>1. CASE h = g
      BY <1>1, <1>2, <1>3, <1>4, <2>1, ChainFacts DEF ImageAt
    <2>2. CASE h # g
      BY <1>1, <1>2, <1>4, <2>2 DEF ImageInv, ImageAt, Shows
    <2> QED
      BY <2>1, <2>2
  <1> QED
    BY <1>6, <1>7, <1>9, <1>10, <1>11 DEF ImageInv

\* A step of the Capture that holds c.mu, or comes to hold it: what it must show
\* of itself.  The other callers are outside.
LEMMA InsideStep ==
    ASSUME IInv, NEW g \in Callers, NEW point \in InMu, Goto(g, point),
           \/ mu = {} /\ mu' = {g}
           \/ mu' = mu /\ pc[g] \in InMu,
           UNCHANGED <<screen, thread, moves, start, ret>>,
           image' \in 0 .. MaxVersions, bits' \in 0 .. MaxVersions,
           handles' \subseteq Objects, origin' \in Threads,
           faults' \subseteq {"bits", "select", "thread"}, faults \subseteq faults',
           Stacked', HandleInv', DeferredAt(g)', ImageAt(g)'
    PROVE  IInv'
  <1> USE DEF IInv, Typed
  <1>1. point \in Points
    BY DEF Points
  <1>2. /\ pc' \in [Callers -> Points]
        /\ \A h \in Callers : pc'[h] = IF h = g THEN point ELSE pc[h]
    BY <1>1, GotoFacts
  <1>3. TypeOK'
    <2>1. defers' \in Seq(Objects) /\ Len(defers') <= Len(Chain)
      BY StackTyped DEF Stacked
    <2>2. mu' \subseteq Callers
      BY DEF TypeOK
    <2> QED
      BY <1>2, <2>1, <2>2 DEF TypeOK, Points
  <1>4. LockInv'
    BY <1>1, LockMoves
  <1>5. \A h \in Callers \ {g} : pc'[h] \notin InMu /\ start'[h] <= screen'
    <2>1. \A h \in Callers \ {g} : pc[h] \notin InMu
      BY Alone
    <2> QED
      BY <1>2, <2>1 DEF ImageInv, ImageAt
  <1>6. \A h \in Callers \ {g} : DeferredAt(h)' /\ ImageAt(h)'
    BY <1>5, PointFacts, ChainFacts DEF DeferredAt, ImageAt
  <1>7. mu' # {}
    BY DEF LockInv
  <1>8. DeferInv'
    BY <1>6, <1>7 DEF DeferInv
  <1>9. CurrentImage'
    <2>1. screen' \in Nat /\ screen <= screen'
      BY PointFacts DEF TypeOK
    <2> QED
      BY <2>1, ResultsKept DEF ImageInv
  <1> QED
    BY <1>3, <1>4, <1>6, <1>8, <1>9 DEF ImageInv

LEMMA LockStep ==
    ASSUME IInv, NEW g \in Callers, Lock(g)
    PROVE  IInv'
  <1> USE DEF IInv, Typed, callVars
  <1>1. /\ mu = {} /\ mu' = {g} /\ bits' = 0 /\ Goto(g, "screenDC") /\ pc[g] = "capture"
        /\ UNCHANGED <<screen, thread, moves, image, handles, defers, origin, faults,
                       start, ret>>
    BY ChainFacts DEF Lock
  <1>2. pc'[g] = "screenDC"
    BY <1>1, GotoFacts, PointFacts
  <1>3. Stacked' /\ Depth' = Depth /\ Depth = 0
    BY <1>1, Same DEF DeferInv
  <1>4. DeferredAt(g)'
    <2>1. \A k \in 1 .. 4 : "screenDC" = Chain[k] => k = 1
      BY ChainFacts
    <2> QED
      BY <1>2, <1>3, <2>1 DEF DeferredAt
  <1>5. ImageAt(g)'
    BY <1>1, <1>2, ChainFacts DEF ImageInv, ImageAt
  <1>6. HandleInv'
    BY <1>1, <1>3 DEF HandleInv
  <1>7. "screenDC" \in InMu /\ 0 \in 0 .. MaxVersions
    BY PointFacts
  <1> QED
    BY <1>1, <1>3, <1>4, <1>5, <1>6, <1>7, InsideStep DEF TypeOK

\* The caller is at the k-th object; then it has deferred k - 1 calls.
LEMMA AtObject ==
    ASSUME IInv, NEW g \in Callers, NEW k \in 1 .. 4, pc[g] = Chain[k]
    PROVE  /\ Depth = k - 1 /\ bits = 0 /\ pc[g] \in InMu
           /\ start[g] <= screen
           /\ \A i \in 1 .. 4 : After(Chain[k]) = Chain[i] => i = k + 1
           /\ After(Chain[k]) = "blit" <=> k = 4
           /\ After(Chain[k]) \in Objects \cup {"blit"}
           /\ After(Chain[k]) \in InMu
  <1>1. Depth = k - 1
    BY DEF IInv, DeferInv, DeferredAt
  <1>2. bits = 0 /\ start[g] <= screen
    BY Distinct DEF IInv, ImageInv, ImageAt
  <1>3. pc[g] \in InMu /\ After(Chain[k]) \in InMu
    BY PointFacts
  <1>4. \A i \in 1 .. 4 : Chain[i] # "blit"
    BY ChainFacts
  <1>5. CASE k = 4
    BY <1>1, <1>2, <1>3, <1>4, <1>5, AfterFacts
  <1>6. CASE k # 4
    <2>1. k + 1 \in 1 .. 4 /\ After(Chain[k]) = Chain[k + 1]
      BY <1>6, AfterFacts
    <2>2. Chain[k + 1] \in Objects /\ \A i \in 1 .. 4 : Chain[k + 1] = Chain[i] => i = k + 1
      BY <2>1, Distinct
    <2> QED
      BY <1>1, <1>2, <1>3, <1>4, <1>6, <2>1, <2>2
  <1> QED
    BY <1>5, <1>6

\* An object and its defer: the next point has one more call deferred.
LEMMA ObtainStep ==
    ASSUME IInv, NEW g \in Callers, NEW o \in Objects, Obtain(g, o)
    PROVE  IInv'
  <1> USE DEF IInv, Typed, callVars
  <1>1. PICK k \in 1 .. 4 : o = Chain[k]
    BY Distinct
  <1>2. /\ pc[g] = Chain[k] /\ Goto(g, After(Chain[k])) /\ handles' = handles \cup {Chain[k]}
        /\ defers' = <<Chain[k]>> \o defers
        /\ UNCHANGED <<screen, thread, moves, mu, image, bits, faults, start, ret>>
    BY <1>1 DEF Obtain
  <1>3. /\ Depth = k - 1 /\ bits = 0 /\ pc[g] \in InMu /\ start[g] <= screen
        /\ After(Chain[k]) \in InMu
    BY <1>2, AtObject
  <1>4. Stacked' /\ Depth' = k
    BY <1>2, <1>3, Pushed
  <1>5. pc'[g] = After(Chain[k])
    BY <1>2, <1>3, GotoFacts DEF Points
  <1>6. DeferredAt(g)'
    <2>1. ASSUME NEW i \in 1 .. 4, pc'[g] = Chain[i] PROVE Depth' = i - 1
      <3>1. i = k + 1
        BY <1>2, <1>5, <2>1, AtObject
      <3> QED
        BY <1>4, <3>1
    <2>2. pc'[g] \in {"blit", "convert"} => Depth' = 4
      <3>1. pc'[g] # "convert"
        BY <1>2, <1>5, AtObject, ChainFacts
      <3> QED
        BY <1>2, <1>4, <1>5, <3>1, AtObject
    <2> QED
      BY <2>1, <2>2 DEF DeferredAt
  <1>7. HandleInv'
    <2>1. k = 1 <=> Chain[k] = "screenDC"
      BY ChainFacts
    <2>2. k = 2 <=> Chain[k] = "memDC"
      BY ChainFacts
    <2>3. k = 3 <=> Chain[k] = "bitmap"
      BY ChainFacts
    <2>4. k = 4 <=> Chain[k] = "selected"
      BY ChainFacts
    <2>5. Depth' >= 2 => "memDC" \in handles'
      BY <1>2, <1>3, <1>4, <2>2 DEF HandleInv
    <2>6. Depth' >= 3 => "bitmap" \in handles'
      BY <1>2, <1>3, <1>4, <2>3 DEF HandleInv
    <2>7. "selected" \in handles' => Depth' = 4
      BY <1>2, <1>3, <1>4, <2>4 DEF HandleInv
    <2>8. ASSUME {"bits", "thread"} \cap faults' = {}, NEW p \in handles'
          PROVE  \E i \in 1 .. 4 : i <= Depth' /\ p = Chain[i]
      <3>1. CASE p = Chain[k]
        BY <1>4, <3>1
      <3>2. CASE p # Chain[k]
        <4>1. PICK i \in 1 .. 4 : i <= Depth /\ p = Chain[i]
          BY <1>2, <2>8, <3>2 DEF HandleInv
        <4> QED
          BY <1>3, <1>4, <4>1
      <3> QED
        BY <3>1, <3>2
    <2> QED
      BY <2>5, <2>6, <2>7, <2>8 DEF HandleInv
  <1>8. ImageAt(g)'
    <2>1. pc'[g] \notin {"convert", "succeed"}
      BY <1>2, <1>5, AtObject, ChainFacts
    <2>2. pc'[g] = "blit" => "selected" \in handles'
      BY <1>2, <1>5, AtObject, ChainFacts
    <2> QED
      BY <1>2, <1>3, <2>1, <2>2 DEF ImageAt
  <1>9. /\ handles' \subseteq Objects /\ origin' \in Threads
        /\ image' \in 0 .. MaxVersions /\ bits' \in 0 .. MaxVersions
        /\ faults' \subseteq {"bits", "select", "thread"}
    BY <1>1, <1>2 DEF Obtain, TypeOK
  <1> QED
    BY <1>2, <1>3, <1>4, <1>6, <1>7, <1>8, <1>9, InsideStep

\* A call that fails turns its Capture to the deferred calls.
LEMMA FailStep ==
    ASSUME IInv, NEW g \in Callers,
           \/ \E o \in Objects : ObtainFails(g, o)
           \/ BitmapWithoutBits(g) \/ BitBltFails(g)
    PROVE  IInv'
  <1> USE DEF IInv, Typed, callVars, gdiVars
  <1>1. /\ pc[g] \in InMu /\ Goto(g, "fail")
        /\ UNCHANGED <<screen, thread, moves, mu, image, defers, origin, bits, start, ret>>
    BY PointFacts, ChainFacts DEF ObtainFails, BitmapWithoutBits, BitBltFails
  <1>2. \/ UNCHANGED <<handles, faults>>
        \/ handles' = handles \cup {"bitmap"} /\ faults' = faults \cup {"bits"}
    BY DEF ObtainFails, BitmapWithoutBits, BitBltFails
  <1>3. "fail" \in InMu /\ pc'[g] = "fail"
    BY <1>1, GotoFacts, PointFacts
  <1>4. Stacked' /\ Depth' = Depth
    BY <1>1, Same
  <1>5. DeferredAt(g)' /\ ImageAt(g)'
    BY <1>1, <1>3, ChainFacts DEF DeferredAt, ImageInv, ImageAt
  <1>6. HandleInv'
    BY <1>2, <1>4 DEF HandleInv
  <1>7. handles' \subseteq Objects /\ faults \subseteq faults'
        /\ faults' \subseteq {"bits", "select", "thread"}
    BY <1>2, ChainFacts DEF TypeOK
  <1> QED
    BY <1>1, <1>3, <1>4, <1>5, <1>6, <1>7, InsideStep DEF TypeOK

\* SelectObject fails: the deselection is deferred all the same.
LEMMA SelectFailsStep ==
    ASSUME IInv, NEW g \in Callers, SelectFails(g)
    PROVE  IInv'
  <1> USE DEF IInv, Typed, callVars
  <1>1. /\ pc[g] = Chain[4] /\ Goto(g, "blit") /\ defers' = <<Chain[4]>> \o defers
        /\ faults' = faults \cup {"select"}
        /\ UNCHANGED <<screen, thread, moves, mu, image, handles, origin, bits, start, ret>>
    BY ChainFacts DEF SelectFails
  <1>2. 4 \in 1 .. 4 /\ Depth = 3 /\ bits = 0 /\ pc[g] \in InMu /\ start[g] <= screen
    BY <1>1, AtObject
  <1>3. Stacked' /\ Depth' = 4
    BY <1>1, <1>2, Pushed
  <1>4. "blit" \in InMu /\ pc'[g] = "blit"
    BY <1>1, GotoFacts, PointFacts
  <1>5. DeferredAt(g)' /\ ImageAt(g)'
    BY <1>1, <1>2, <1>3, <1>4, ChainFacts DEF DeferredAt, ImageAt
  <1>6. HandleInv'
    <2>1. ASSUME {"bits", "thread"} \cap faults' = {}, NEW p \in handles'
          PROVE  \E i \in 1 .. 4 : i <= Depth' /\ p = Chain[i]
      <3>1. PICK i \in 1 .. 4 : i <= Depth /\ p = Chain[i]
        BY <1>1, <2>1 DEF HandleInv
      <3> QED
        BY <1>2, <1>3, <3>1
    <2>2. "memDC" \in handles /\ "bitmap" \in handles
      BY <1>2 DEF HandleInv
    <2> QED
      BY <1>1, <1>3, <2>1, <2>2 DEF HandleInv
  <1>7. faults' \subseteq {"bits", "select", "thread"}
    BY <1>1 DEF TypeOK
  <1> QED
    BY <1>1, <1>2, <1>3, <1>4, <1>5, <1>6, <1>7, InsideStep DEF TypeOK

\* The copy of the screen, and the copy into the image.
LEMMA CopyStep ==
    ASSUME IInv, NEW g \in Callers, BitBlt(g) \/ Convert(g)
    PROVE  IInv'
  <1> USE DEF IInv, Typed, callVars, gdiVars
  <1>1. PICK point \in {"convert", "succeed"} :
           /\ Goto(g, point) /\ pc[g] \in InMu
           /\ point = "convert" => Depth = 4
    BY PointFacts DEF BitBlt, Convert, DeferInv, DeferredAt
  <1>2. UNCHANGED <<screen, thread, moves, mu, handles, defers, origin, faults, start, ret>>
    BY DEF BitBlt, Convert
  <1>3. point \in InMu /\ pc'[g] = point
    BY <1>1, GotoFacts, PointFacts
  <1>4. Stacked' /\ Depth' = Depth
    BY <1>2, Same
  <1>5. DeferredAt(g)'
    BY <1>1, <1>3, <1>4, ChainFacts DEF DeferredAt
  <1>6. HandleInv'
    BY <1>2, <1>4 DEF HandleInv
  <1>7. ImageAt(g)' /\ image' \in 0 .. MaxVersions /\ bits' \in 0 .. MaxVersions
    <2>1. /\ start[g] <= screen /\ start[g] \in Nat /\ screen \in 0 .. MaxVersions
          /\ screen \in Nat
      BY PointFacts DEF ImageInv, ImageAt, TypeOK
    <2>2. CASE BitBlt(g)
      <3>1. pc'[g] = "convert"
        BY <2>2, GotoFacts, PointFacts DEF BitBlt
      <3>2. bits' = IF "selected" \in handles THEN screen ELSE bits
        BY <2>2 DEF BitBlt
      <3>3. bits = 0 /\ ("selected" \in handles \/ "select" \in faults)
        BY <2>2 DEF BitBlt, ImageInv, ImageAt
      <3>4. Shows(bits', start[g])
        BY <2>1, <3>2, <3>3 DEF Shows
      <3>5. image' \in 0 .. MaxVersions /\ bits' \in 0 .. MaxVersions
        BY <2>1, <2>2, <3>2 DEF BitBlt, TypeOK
      <3> QED
        BY <1>2, <2>1, <3>1, <3>4, <3>5, ChainFacts DEF ImageAt, Shows
    <2>3. CASE Convert(g)
      <3>1. pc'[g] = "succeed" /\ pc[g] = "convert" /\ image' = bits /\ bits' = bits
        BY <2>3, GotoFacts, PointFacts DEF Convert
      <3>2. Shows(bits, start[g])
        BY <3>1 DEF ImageInv, ImageAt
      <3> QED
        BY <1>2, <2>1, <3>1, <3>2, ChainFacts DEF ImageAt, Shows, TypeOK
    <2> QED
      BY <2>2, <2>3
  <1> QED
    BY <1>1, <1>2, <1>3, <1>4, <1>5, <1>6, <1>7, InsideStep DEF TypeOK

\* The last of the objects obtained goes first.
LEMMA DeferredStep ==
    ASSUME IInv, NEW g \in Callers, Deferred(g)
    PROVE  IInv'
  <1> USE DEF IInv, Typed, callVars
  <1>1. /\ pc[g] \in {"fail", "succeed"} /\ defers # <<>> /\ defers' = Tail(defers)
        /\ UNCHANGED <<screen, thread, moves, mu, image, origin, bits, pc, start, ret>>
    BY DEF Deferred
  <1>2. pc[g] \in InMu /\ pc[g] \notin Objects \cup {"blit", "convert"}
    BY <1>1, PointFacts, ChainFacts
  <1>3. Goto(g, pc[g])
    <2>1. pc \in [Callers -> Points]
      BY DEF TypeOK, Points
    <2> QED
      BY <1>1, <2>1 DEF Goto
  <1>4. Depth \in 1 .. 4 /\ Head(defers) = Chain[Depth] /\ Stacked' /\ Depth' = Depth - 1
    BY <1>1, Popped
  <1>5. \/ handles' = handles \ {Chain[Depth]} /\ faults' = faults
        \/ handles' = handles /\ faults' = faults \cup {"thread"} /\ Depth = 1
    <2>1. Chain[Depth] = "screenDC" => Depth = 1
      BY <1>4, ChainFacts
    <2> QED
      BY <1>4, <2>1 DEF Deferred
  <1>6. HandleInv'
    <2>1. ASSUME Depth' >= 2 PROVE "memDC" \in handles'
      <3>1. Depth \in {3, 4}
        BY <1>4, <2>1
      <3> QED
        BY <1>5, <3>1, ChainFacts DEF HandleInv
    <2>2. ASSUME Depth' >= 3 PROVE "bitmap" \in handles'
      <3>1. Depth = 4
        BY <1>4, <2>2
      <3> QED
        BY <1>5, <3>1, ChainFacts DEF HandleInv
    <2>3. "selected" \notin handles'
      BY <1>5, ChainFacts DEF HandleInv
    <2>4. ASSUME {"bits", "thread"} \cap faults' = {}, NEW p \in handles'
          PROVE  \E i \in 1 .. 4 : i <= Depth' /\ p = Chain[i]
      <3>1. handles' = handles \ {Chain[Depth]} /\ faults' = faults
        BY <1>5, <2>4
      <3>2. PICK i \in 1 .. 4 : i <= Depth /\ p = Chain[i]
        BY <2>4, <3>1 DEF HandleInv
      <3>3. i # Depth
        BY <2>4, <3>1, <3>2
      <3>4. i <= Depth'
        BY <1>4, <3>2, <3>3
      <3> QED
        BY <3>2, <3>4
    <2> QED
      BY <2>1, <2>2, <2>3, <2>4 DEF HandleInv
  <1>7. DeferredAt(g)'
    BY <1>1, <1>2, Distinct DEF DeferredAt
  <1>8. faults \subseteq faults' /\ faults' \subseteq {"bits", "select", "thread"}
        /\ handles' \subseteq Objects
    BY <1>5 DEF TypeOK
  <1>9. ImageAt(g)'
    BY <1>1, <1>2, <1>8 DEF ImageInv, ImageAt, Shows
  <1>10. /\ image' \in 0 .. MaxVersions /\ bits' \in 0 .. MaxVersions
         /\ origin' \in Threads
    BY <1>1 DEF TypeOK
  <1> QED
    BY <1>1, <1>2, <1>3, <1>4, <1>6, <1>7, <1>8, <1>9, <1>10, InsideStep

\* The Capture returns when nothing is deferred any more.
LEMMA ReturnStep ==
    ASSUME IInv, NEW g \in Callers, Return(g)
    PROVE  IInv'
  <1> USE DEF IInv, Typed, gdiVars
  <1>1. /\ pc[g] \in {"fail", "succeed"} /\ defers = <<>> /\ mu' = mu \ {g}
        /\ Goto(g, "idle")
        /\ UNCHANGED <<screen, thread, moves, image, handles, defers, origin, bits, faults>>
    BY DEF Return
  <1>2. /\ pc' \in [Callers -> Points]
        /\ \A h \in Callers : pc'[h] = IF h = g THEN "idle" ELSE pc[h]
    BY <1>1, GotoFacts, PointFacts
  <1>3. Stacked' /\ Depth' = Depth /\ Depth = 0
    BY <1>1, Same, StackFacts DEF Stacked
  <1>4. screen \in Nat /\ screen \in 0 .. MaxVersions /\ 0 \in 0 .. MaxVersions
    BY PointFacts DEF TypeOK
  <1>5. /\ start' \in [Callers -> 0 .. MaxVersions]
        /\ \A h \in Callers : start'[h] = IF h = g THEN 0 ELSE start[h]
    BY <1>4 DEF Return, TypeOK
  <1> DEFINE r == [kind |-> pc[g], shown |-> image, start |-> start[g]]
  <1>6. /\ ret' \in [Callers -> Results]
        /\ \A h \in Callers : ret'[h] = IF h = g THEN r ELSE ret[h]
    <2>1. r \in Results
      BY <1>1 DEF TypeOK, Results
    <2>2. ret' = [ret EXCEPT ![g] = r] /\ ret \in [Callers -> Results]
      BY DEF Return, TypeOK, Results
    <2> HIDE DEF r
    <2> QED
      BY <2>1, <2>2
  <1>7. TypeOK'
    <2>1. mu' \subseteq Callers
      BY <1>1 DEF TypeOK
    <2> QED
      BY <1>1, <1>2, <1>5, <1>6, <2>1 DEF TypeOK, Points, Results
  <1>8. pc[g] \in InMu /\ "idle" \notin InMu /\ "idle" \in Points
    BY <1>1, PointFacts
  <1>9. LockInv'
    BY <1>1, <1>8, LockMoves
  <1>10. \A h \in Callers : pc'[h] \notin InMu
    BY <1>2, <1>8, Alone
  <1>11. DeferInv' /\ HandleInv'
    <2>1. \A h \in Callers : DeferredAt(h)'
      BY <1>10, PointFacts DEF DeferredAt
    <2> QED
      BY <1>1, <1>3, <2>1 DEF DeferInv, HandleInv
  <1>12. CurrentImage'
    <2>1. pc[g] = "succeed" => Shows(image, start[g])
      BY DEF ImageInv, ImageAt
    <2>2. ResultAt(g)'
      BY <1>1, <1>6, <2>1 DEF ResultAt, Shows
    <2>3. \A h \in Callers : ret'[h] = ret[h] \/ ResultAt(h)'
      BY <1>6, <2>2
    <2> QED
      BY <1>1, <1>4, <2>3, ResultsKept DEF ImageInv
  <1>13. ASSUME NEW h \in Callers PROVE ImageAt(h)'
    <2>1. start'[h] <= screen'
      BY <1>1, <1>4, <1>5 DEF ImageInv, ImageAt
    <2> QED
      BY <1>10, <2>1, PointFacts, ChainFacts DEF ImageAt
  <1> QED
    BY <1>3, <1>7, <1>9, <1>11, <1>12, <1>13 DEF ImageInv

LEMMA NextIInv == IInv /\ [Next]_vars => IInv'
  <1> SUFFICES ASSUME IInv, [Next]_vars PROVE IInv'
    OBVIOUS
  <1>1. CASE UNCHANGED vars
    <2>1. UNCHANGED <<screen, thread, moves, mu, image, handles, defers, origin, bits, faults,
                      pc, start, ret>>
      BY <1>1 DEF vars, gdiVars, callVars
    <2> QED
      BY <2>1 DEF IInv, Typed, TypeOK, Stacked, Depth, LockInv, DeferInv, DeferredAt,
                  HandleInv, ImageInv, CurrentImage, ImageAt, Shows
  <1>2. CASE ScreenChanges
    BY <1>2, EnvironmentStep
  <1>3. ASSUME NEW g \in Callers, NEW t \in Threads, Migrate(g, t) PROVE IInv'
    BY <1>3, EnvironmentStep
  <1>4. ASSUME NEW g \in Callers, CallCapture(g) PROVE IInv'
    BY <1>4, EnterStep
  <1>5. ASSUME NEW g \in Callers, Capture(g) PROVE IInv'
    <2>1. CASE Lock(g)
      BY <2>1, LockStep
    <2>2. ASSUME NEW o \in Objects, Obtain(g, o) PROVE IInv'
      BY <2>2, ObtainStep
    <2>3. ASSUME NEW o \in Objects, ObtainFails(g, o) PROVE IInv'
      BY <2>3, FailStep
    <2>4. CASE BitmapWithoutBits(g) \/ BitBltFails(g)
      BY <2>4, FailStep
    <2>5. CASE SelectFails(g)
      BY <2>5, SelectFailsStep
    <2>6. CASE BitBlt(g) \/ Convert(g)
      BY <2>6, CopyStep
    <2>7. CASE Deferred(g)
      BY <2>7, DeferredStep
    <2>8. CASE Return(g)
      BY <2>8, ReturnStep
    <2> QED
      BY <1>5, <2>1, <2>2, <2>3, <2>4, <2>5, <2>6, <2>7, <2>8 DEF Capture
  <1> QED
    BY <1>1, <1>2, <1>3, <1>4, <1>5 DEF Next

LEMMA Inductive == Spec => []IInv
  BY InitIInv, NextIInv, PTL DEF Spec

(***************************************************************************)
(* The theorems.                                                           *)
(***************************************************************************)

\* Every variable keeps its type; no call defers more than the four objects.
THEOREM TypeCorrect == Spec => []TypeOK
  <1>1. IInv => TypeOK
    BY DEF IInv, Typed
  <1> QED
    BY <1>1, Inductive, PTL

\* When no Capture runs, nothing is deferred and every GDI object has been
\* released, on every path through CaptureWithInfo and whichever call failed;
\* only a bitmap without bits, or a thread other than GetDC's, leaves one.
THEOREM AllReturned == Spec => []HandlesReturned
  <1>1. IInv => HandlesReturned
    <2> SUFFICES ASSUME IInv, mu = {}, {"bits", "thread"} \cap faults = {}
                 PROVE  handles = {} /\ defers = <<>>
      BY DEF HandlesReturned
    <2>1. Depth = 0 /\ defers = Stack(0) /\ 0 \in 0 .. 4
      BY DEF IInv, Typed, Stacked, DeferInv
    <2>2. defers = <<>>
      BY <2>1, StackFacts
    <2>3. handles = {}
      BY <2>1 DEF IInv, HandleInv
    <2> QED
      BY <2>2, <2>3
  <1> QED
    BY <1>1, Inductive, PTL

\* The defers never delete a bitmap that is still selected into the memory
\* context, nor the context while the bitmap is in it.
THEOREM ReleasedInOrder == Spec => []ReleaseOrder
  <1>1. IInv => ReleaseOrder
    <2>1. IInv /\ "selected" \in handles => Depth >= 2 /\ Depth >= 3
      BY DEF IInv, HandleInv
    <2> QED
      BY <2>1 DEF IInv, HandleInv, ReleaseOrder
  <1> QED
    BY <1>1, Inductive, PTL

\* A Capture that succeeds returns what the screen showed between its call and
\* its return, whoever else captures into the same image; the one exception is
\* the blank image after a SelectObject that failed.
THEOREM ImageCurrent == Spec => []CurrentImage
  <1>1. IInv => CurrentImage
    BY DEF IInv, ImageInv
  <1> QED
    BY <1>1, Inductive, PTL
=============================================================================
