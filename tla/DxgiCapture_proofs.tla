-------------------------- MODULE DxgiCapture_proofs --------------------------
(***************************************************************************)
(* Proofs about DxgiCapture, for every set of callers, every set of        *)
(* texture descriptions and any number of presented images.                *)
(***************************************************************************)
EXTENDS DxgiCapture, TLAPS

(***************************************************************************)
(* Types.  The image numbers in circulation are bounded by `presented`;    *)
(* that refs stays in range rests on the balance of frames.                *)
(***************************************************************************)
Numbers ==
    /\ held # NoFrame => held.n \in 0 .. presented
    /\ staging # NoTexture => staging.n \in 0 .. presented

Typed == TypeOK /\ Numbers

LockInv ==
    /\ \A g \in Callers : g \in mu <=> pc[g] \in InMu
    /\ \A g, h \in mu : g = h

\* What a caller in readFrame can rely on, and what the others must not see.
ReadInv ==
    /\ FrameBalance
    /\ ObjectsAlive
    /\ CopyFits
    /\ staging # NoTexture => staging.desc = stagingDesc

IInv == Typed /\ LockInv /\ ReadInv

LEMMA InitIInv == Init => IInv
  <1> SUFFICES ASSUME Init PROVE IInv
    OBVIOUS
  <1> USE DEF Init
  <1>1. /\ pc \in [Callers -> Points] /\ start \in [Callers -> Nat]
        /\ ret \in [Callers -> [kind : Kinds, seq : Nat]]
    BY DEF Points, NoResult, Kinds
  <1>2. refs \in [resource : {0, 1}, texture : {0, 1}]
    BY DEF NoRefs
  <1>3. fetched \in 0 .. presented /\ lastImage \in 0 .. presented /\ presented \in Nat
    OBVIOUS
  <1>4. TypeOK
    BY <1>1, <1>2, <1>3 DEF TypeOK
  <1>5. Typed
    BY <1>4 DEF Typed, Numbers
  <1>6. \A g \in Callers : pc[g] = "idle"
    OBVIOUS
  <1>7. LockInv
    BY <1>6 DEF LockInv, InMu, Acquiring, Reading
  <1>8. ReadInv
    BY <1>6 DEF ReadInv, FrameBalance, ObjectsAlive, CopyFits, NoRefs, Acquiring, Reading
  <1> QED
    BY <1>5, <1>7, <1>8 DEF IInv

\* The sets of points, spelled out once.
LEMMA PointFacts ==
    /\ InMu \subseteq Points /\ Acquiring \subseteq InMu /\ Reading \subseteq InMu
    /\ {"idle", "capture", "close"} \subseteq Points
    /\ {"idle", "capture", "close"} \cap InMu = {}
    /\ {"releasing", "released"} \subseteq InMu
    /\ Acquiring = {"poll", "enter", "wait"}
    /\ Reading = {"acquired", "texture", "copy"}
    /\ Kinds = {"none", "fresh", "repeated", "timeout", "error", "closed"}
  BY DEF Points, InMu, Acquiring, Reading, Kinds

\* A step of g to another point, seen by everybody.
LEMMA GotoFacts ==
    ASSUME Typed, NEW g \in Callers, NEW point \in Points, Goto(g, point)
    PROVE  /\ pc' \in [Callers -> Points]
           /\ \A h \in Callers : pc'[h] = IF h = g THEN point ELSE pc[h]
  BY DEF Typed, TypeOK, Goto

LEMMA ReturnFacts ==
    ASSUME Typed, NEW g \in Callers, NEW kind \in Kinds, NEW n \in Nat, Return(g, kind, n)
    PROVE  /\ pc' \in [Callers -> Points]
           /\ \A h \in Callers : pc'[h] = IF h = g THEN "idle" ELSE pc[h]
           /\ start' \in [Callers -> Nat]
           /\ ret' \in [Callers -> [kind : Kinds, seq : Nat]]
           /\ mu' \in SUBSET Callers
           /\ mu' = mu \ {g}
  <1>1. "idle" \in Points
    BY DEF Points
  <1>2. Goto(g, "idle")
    BY DEF Return
  <1>3. start' \in [Callers -> Nat]
    BY DEF Return, Typed, TypeOK
  <1>4. ret' \in [Callers -> [kind : Kinds, seq : Nat]]
    BY DEF Return, Typed, TypeOK
  <1>5. mu' = mu \ {g} /\ mu' \in SUBSET Callers
    BY DEF Return, Unlock, Typed, TypeOK
  <1> QED
    BY <1>1, <1>2, <1>3, <1>4, <1>5, GotoFacts

\* Who is inside: the holder of c.mu and nobody else.
LEMMA Alone ==
    ASSUME LockInv, NEW g \in Callers, pc[g] \in InMu \/ mu = {}
    PROVE  \A h \in Callers \ {g} : pc[h] \notin InMu
  BY DEF LockInv

\* c.mu after a step: taken, given back, or unchanged with its holder.
LEMMA LockMoves ==
    ASSUME Typed, LockInv, NEW g \in Callers, NEW point \in Points, Goto(g, point),
           \/ mu = {} /\ mu' = {g} /\ point \in InMu
           \/ mu' = mu \ {g} /\ point \notin InMu
           \/ mu' = mu /\ (pc[g] \in InMu <=> point \in InMu)
    PROVE  LockInv'
  BY GotoFacts DEF LockInv

\* Nobody reads: then holding nothing is all that FrameBalance asks for.
LEMMA NobodyReads ==
    ASSUME held' = NoFrame, refs' = NoRefs, \A h \in Callers : pc'[h] \notin Reading,
           \A h \in Callers : pc'[h] \in Acquiring => duplication',
           staging' # NoTexture => staging'.desc = stagingDesc'
    PROVE  ReadInv'
  BY PointFacts DEF ReadInv, FrameBalance, ObjectsAlive, CopyFits, NoRefs

\* The frame stays where it is and so does its reader, if there is one.
LEMMA KeepsReading ==
    ASSUME ReadInv, UNCHANGED <<held, duplication, staging, stagingDesc, refs>>,
           \A h \in Callers : pc'[h] \in Acquiring => duplication,
           \A h \in Callers : pc[h] \in Reading \/ pc'[h] \in Reading => pc'[h] = pc[h]
    PROVE  ReadInv'
  BY PointFacts DEF ReadInv, FrameBalance, ObjectsAlive, CopyFits

LEMMA DesktopStep ==
    ASSUME IInv, Desktop
    PROVE  IInv'
  <1> USE DEF IInv, Typed, TypeOK, Numbers, desktop, stagings, callVars
  <1>1. UNCHANGED <<held, duplication, staging, stagingDesc, refs, lastImage, mu,
                    pc, start, ret>>
    <2>1. CASE Present
      BY <2>1 DEF Present
    <2>2. CASE MovePointer
      BY <2>2 DEF MovePointer
    <2>3. CASE LoseAccess
      BY <2>3 DEF LoseAccess
    <2> QED
      BY <2>1, <2>2, <2>3 DEF Desktop
  <1>2. /\ presented' \in Nat /\ presented <= presented'
        /\ fetched' = fetched /\ missed' = missed
        /\ pointer' \in BOOLEAN /\ lost' \in BOOLEAN
    <2>1. CASE Present
      BY <2>1 DEF Present
    <2>2. CASE MovePointer
      BY <2>2 DEF MovePointer
    <2>3. CASE LoseAccess
      BY <2>3 DEF LoseAccess
    <2> QED
      BY <2>1, <2>2, <2>3 DEF Desktop
  <1>3. Typed'
    BY <1>1, <1>2
  <1>4. LockInv'
    BY <1>1 DEF LockInv
  <1>5. ReadInv'
    BY <1>1, KeepsReading DEF ReadInv, ObjectsAlive
  <1> QED
    BY <1>3, <1>4, <1>5

LEMMA CallStep ==
    ASSUME IInv, NEW g \in Callers, CallCapture(g) \/ CallClose(g)
    PROVE  IInv'
  <1> USE DEF IInv, Typed, TypeOK, Numbers, desktop, stagings
  <1>0. UNCHANGED <<desktop, held, duplication, stagings, refs, lastImage, mu>>
    BY DEF CallCapture, CallClose
  <1>1. PICK point \in {"capture", "close"} : Goto(g, point) /\ pc[g] = "idle"
    BY DEF CallCapture, CallClose
  <1>2. /\ pc' \in [Callers -> Points]
        /\ \A h \in Callers : pc'[h] = IF h = g THEN point ELSE pc[h]
    BY <1>1, GotoFacts, PointFacts
  <1>3. start' \in [Callers -> Nat] /\ ret' \in [Callers -> [kind : Kinds, seq : Nat]]
    <2>1. NoResult \in [kind : Kinds, seq : Nat]
      BY PointFacts DEF NoResult
    <2>2. start' \in [Callers -> Nat]
      BY DEF CallCapture, CallClose
    <2>3. ret' = [ret EXCEPT ![g] = NoResult]
      BY DEF CallCapture, CallClose
    <2> QED
      BY <2>1, <2>2, <2>3
  <1>4. Typed'
    BY <1>0, <1>2, <1>3
  <1>5. LockInv'
    BY <1>0, <1>1, PointFacts, LockMoves
  <1>6. ReadInv'
    BY <1>0, <1>1, <1>2, KeepsReading, PointFacts DEF ReadInv, ObjectsAlive
  <1> QED
    BY <1>4, <1>5, <1>6

\* Steps that take or drop c.mu, or wait, without a frame changing hands.
LEMMA IdleStep ==
    ASSUME IInv, NEW g \in Callers,
           \/ LockCapture(g) \/ NotInitialized(g) \/ LockClose(g)
           \/ AcquireTimesOut(g) \/ DeadlinePassed(g) \/ AcquireFails(g)
           \/ CloseReturns(g)
    PROVE  IInv'
  <1> USE DEF IInv, Typed, TypeOK, Numbers, desktop, stagings
  <1>0. UNCHANGED <<desktop, held, duplication, stagings, refs, lastImage>>
    BY DEF LockCapture, NotInitialized, LockClose, AcquireTimesOut,
           DeadlinePassed, AcquireFails, CloseReturns
  <1>1. pc[g] \notin Reading
    BY PointFacts
    DEF LockCapture, NotInitialized, LockClose, AcquireTimesOut,
        DeadlinePassed, AcquireFails, CloseReturns
  <1>2. CASE LockCapture(g) \/ LockClose(g)
    <2>1. PICK point \in {"poll", "enter", "releasing"} :
              Goto(g, point) /\ (point \in Acquiring => duplication)
      BY <1>2, PointFacts DEF LockCapture, LockClose
    <2>2. mu = {} /\ mu' = {g} /\ UNCHANGED <<start, ret>>
      BY <1>2 DEF LockCapture, LockClose
    <2>3. point \in Points /\ point \in InMu /\ point \notin Reading
      BY PointFacts
    <2>4. /\ pc' \in [Callers -> Points]
          /\ \A h \in Callers : pc'[h] = IF h = g THEN point ELSE pc[h]
      BY <2>1, <2>3, GotoFacts
    <2>5. Typed'
      BY <1>0, <2>2, <2>4
    <2>6. LockInv'
      BY <2>1, <2>2, <2>3, LockMoves
    <2>7. ReadInv'
      BY <1>0, <1>1, <2>1, <2>3, <2>4, KeepsReading DEF ReadInv, ObjectsAlive
    <2> QED
      BY <2>5, <2>6, <2>7
  <1>3. CASE \/ NotInitialized(g) \/ CloseReturns(g)
             \/ AcquireTimesOut(g) \/ DeadlinePassed(g) \/ AcquireFails(g)
    <2>1. PICK kind \in Kinds, n \in Nat : Return(g, kind, n)
      <3>1. {"error", "closed", "repeated", "timeout"} \subseteq Kinds /\ lastImage \in Nat
        BY PointFacts
      <3> QED
        BY <1>3, <3>1
        DEF NotInitialized, CloseReturns, AcquireTimesOut, DeadlinePassed, AcquireFails
    <2>2. /\ pc' \in [Callers -> Points]
          /\ \A h \in Callers : pc'[h] = IF h = g THEN "idle" ELSE pc[h]
          /\ start' \in [Callers -> Nat]
          /\ ret' \in [Callers -> [kind : Kinds, seq : Nat]]
          /\ mu' \in SUBSET Callers /\ mu' = mu \ {g}
      BY <2>1, ReturnFacts
    <2>3. Typed'
      BY <1>0, <2>2
    <2>4. LockInv'
      BY <2>1, <2>2, PointFacts, LockMoves DEF Return
    <2>5. ReadInv'
      BY <1>0, <1>1, <2>2, KeepsReading, PointFacts DEF ReadInv, ObjectsAlive
    <2> QED
      BY <2>3, <2>4, <2>5
  <1> QED
    BY <1>2, <1>3

\* readFrame and the method around it give everything back and return, or go
\* back to the head of the loop.
LEMMA GivenBack ==
    ASSUME IInv, NEW g \in Callers, pc[g] \in Reading, GiveBack,
           UNCHANGED <<presented, fetched, pointer, lost, duplication>>,
           missed' \in 0 .. presented,
           NEW point \in {"idle", "wait"}, Goto(g, point),
           IF point = "idle" THEN \E kind \in Kinds, n \in Nat : Return(g, kind, n)
                             ELSE UNCHANGED <<mu, start, ret>>,
           staging' \in Textures \cup {NoTexture},
           stagingDesc' \in Descs \cup {NoDesc},
           staging' # NoTexture => /\ staging'.desc = stagingDesc'
                                   /\ staging'.n \in 0 .. presented,
           lastImage' \in 0 .. presented
    PROVE  IInv'
  <1> USE DEF IInv
  <1>0. point \in Points /\ point \notin Reading /\ pc[g] \in InMu
        /\ "idle" \notin InMu /\ "wait" \in InMu /\ "idle" \in Points
    BY PointFacts
  <1>1. /\ pc' \in [Callers -> Points]
        /\ \A h \in Callers : pc'[h] = IF h = g THEN point ELSE pc[h]
    BY <1>0, GotoFacts
  <1>2. /\ start' \in [Callers -> Nat]
        /\ ret' \in [Callers -> [kind : Kinds, seq : Nat]]
        /\ mu' \in SUBSET Callers
        /\ point = "idle" => mu' = mu \ {g}
        /\ point = "wait" => mu' = mu
    <2>1. CASE point = "idle"
      BY <2>1, ReturnFacts
    <2>2. CASE point = "wait"
      BY <2>2 DEF Typed, TypeOK
    <2> QED
      BY <2>1, <2>2
  <1>3. held' = NoFrame /\ refs' = NoRefs
    BY DEF GiveBack
  <1>4. NoRefs \in [resource : {0, 1}, texture : {0, 1}]
    BY DEF NoRefs
  <1>5. TypeOK'
    BY <1>1, <1>2, <1>3, <1>4 DEF Typed, TypeOK
  <1>6. Typed'
    BY <1>3, <1>5 DEF Typed, Numbers
  <1>7. LockInv'
    BY <1>0, <1>2, LockMoves
  <1>8. \A h \in Callers \ {g} : pc[h] \notin InMu
    BY <1>0, Alone
  <1>9. ReadInv'
    <2>1. \A h \in Callers : pc'[h] \notin Reading
      BY <1>0, <1>1, <1>8, PointFacts
    <2>2. \A h \in Callers : pc'[h] \in Acquiring => duplication'
      BY <1>1, <1>8, PointFacts DEF ReadInv, ObjectsAlive
    <2> QED
      BY <1>3, <2>1, <2>2, NobodyReads
  <1> QED
    BY <1>6, <1>7, <1>9

\* What the frame and the textures of a reader look like.
LEMMA ReaderFacts ==
    ASSUME IInv, NEW g \in Callers, pc[g] \in Reading
    PROVE  /\ held \in Frames /\ held.n \in 0 .. presented
           /\ refs.resource = 1
           /\ refs.texture = 1 <=> pc[g] \in {"texture", "copy"}
           /\ lastImage \in 0 .. presented /\ presented \in Nat
           /\ duplication
           /\ staging # NoTexture => /\ staging \in Textures
                                     /\ staging.desc = stagingDesc
                                     /\ staging.n \in 0 .. presented
           /\ stagingDesc \in Descs \cup {NoDesc}
           /\ pc[g] = "copy" => staging # NoTexture /\ staging.desc = held.desc
           /\ \A h \in Callers \ {g} : pc[h] \notin InMu
           /\ mu = {g}
  <1> USE DEF IInv
  <1>1. held # NoFrame /\ refs.resource = 1
    BY DEF ReadInv, FrameBalance
  <1>2. \A h \in Callers \ {g} : pc[h] \notin InMu
    BY PointFacts, Alone
  <1>3. refs.texture = 1 <=> pc[g] \in {"texture", "copy"}
    BY <1>2, PointFacts DEF ReadInv, FrameBalance
  <1>4. held \in Frames /\ held.n \in 0 .. presented
    BY <1>1 DEF Typed, TypeOK, Numbers
  <1>5. lastImage \in 0 .. presented /\ presented \in Nat /\ stagingDesc \in Descs \cup {NoDesc}
    BY DEF Typed, TypeOK
  <1>6. staging # NoTexture => /\ staging \in Textures
                               /\ staging.desc = stagingDesc
                               /\ staging.n \in 0 .. presented
    BY DEF Typed, TypeOK, Numbers, ReadInv
  <1>7. duplication /\ (pc[g] = "copy" => staging # NoTexture /\ staging.desc = held.desc)
    BY DEF ReadInv, ObjectsAlive, CopyFits
  <1>8. mu = {g}
    BY PointFacts DEF LockInv, Typed, TypeOK
  <1> QED
    BY <1>1, <1>2, <1>3, <1>4, <1>5, <1>6, <1>7, <1>8

\* A step from one point of a read to the next.
LEMMA ReadsOn ==
    ASSUME IInv, NEW g \in Callers, NEW point \in Reading, Goto(g, point),
           pc[g] \in Reading \/ (pc[g] \in Acquiring /\ held = NoFrame),
           UNCHANGED <<presented, lost, missed, duplication, lastImage, mu, start, ret>>,
           fetched' \in 0 .. presented, pointer' \in BOOLEAN,
           held' \in Frames, held'.n \in 0 .. presented,
           refs' \in [resource : {0, 1}, texture : {0, 1}], refs'.resource = 1,
           refs'.texture = 1 <=> point \in {"texture", "copy"},
           staging' \in Textures \cup {NoTexture},
           stagingDesc' \in Descs \cup {NoDesc},
           staging' # NoTexture => /\ staging'.desc = stagingDesc'
                                   /\ staging'.n \in 0 .. presented,
           point = "copy" => staging' # NoTexture /\ staging'.desc = held'.desc
    PROVE  IInv'
  <1> USE DEF IInv
  <1>0. pc[g] \in InMu /\ point \in InMu /\ point \in Points
    BY PointFacts
  <1>1. /\ pc' \in [Callers -> Points]
        /\ \A h \in Callers : pc'[h] = IF h = g THEN point ELSE pc[h]
    BY <1>0, GotoFacts
  <1>2. TypeOK'
    BY <1>1 DEF Typed, TypeOK
  <1>3. Typed'
    BY <1>2 DEF Typed, Numbers
  <1>4. LockInv'
    BY <1>0, LockMoves
  <1>5. \A h \in Callers \ {g} : pc[h] \notin InMu
    BY <1>0, Alone
  <1>6. \A h \in Callers : pc'[h] \in InMu => h = g
    BY <1>1, <1>5
  <1>7. duplication'
    BY PointFacts DEF ReadInv, ObjectsAlive
  <1>8. held' # NoFrame
    BY InputAssumption
  <1>9. FrameBalance'
    BY <1>1, <1>6, <1>8, PointFacts DEF FrameBalance
  <1>10. ObjectsAlive' /\ CopyFits'
    BY <1>1, <1>6, <1>7, PointFacts DEF ObjectsAlive, CopyFits
  <1> QED
    BY <1>3, <1>4, <1>9, <1>10 DEF ReadInv

LEMMA AcquireStep ==
    ASSUME IInv, NEW g \in Callers, Acquire(g)
    PROVE  IInv'
  <1> USE DEF IInv
  <1>1. pc[g] \in Acquiring /\ held = NoFrame /\ Goto(g, "acquired") /\ "acquired" \in Reading
    BY PointFacts DEF Acquire
  <1>2. PICK d \in Descs : held' = [n |-> presented, new |-> HasImage, desc |-> d]
    BY DEF Acquire
  <1>3. presented \in Nat /\ presented \in 0 .. presented /\ HasImage \in BOOLEAN
    BY DEF Typed, TypeOK, HasImage, Pending
  <1>4. held' \in Frames /\ held'.n \in 0 .. presented
    BY <1>2, <1>3 DEF Frames
  <1>5. refs.resource = 0 /\ refs.texture = 0
    <2>1. \A h \in Callers : pc[h] \notin Reading
      BY <1>1 DEF ReadInv, FrameBalance
    <2>2. refs.resource # 1 /\ refs.texture # 1
      BY <2>1, PointFacts DEF ReadInv, FrameBalance
    <2> QED
      BY <2>2 DEF Typed, TypeOK
  <1>6. refs' \in [resource : {0, 1}, texture : {0, 1}] /\ refs'.resource = 1 /\ refs'.texture = 0
    BY <1>5 DEF Acquire, Typed, TypeOK
  <1>7. /\ UNCHANGED <<presented, lost, missed, duplication, staging, stagingDesc,
                       lastImage, mu, start, ret>>
        /\ fetched' = presented /\ pointer' = FALSE
    BY DEF Acquire, stagings
  <1>8. /\ staging \in Textures \cup {NoTexture} /\ stagingDesc \in Descs \cup {NoDesc}
        /\ staging # NoTexture => staging.desc = stagingDesc /\ staging.n \in 0 .. presented
    BY DEF Typed, TypeOK, Numbers, ReadInv
  <1>9. fetched' \in 0 .. presented /\ pointer' \in BOOLEAN
    BY <1>3, <1>7
  <1>10. refs'.texture = 1 <=> "acquired" \in {"texture", "copy"}
    BY <1>6
  <1>11. /\ staging' \in Textures \cup {NoTexture} /\ stagingDesc' \in Descs \cup {NoDesc}
         /\ staging' # NoTexture => staging'.desc = stagingDesc' /\ staging'.n \in 0 .. presented
    BY <1>7, <1>8
  <1>12. UNCHANGED <<presented, lost, missed, duplication, lastImage, mu, start, ret>>
    BY <1>7
  <1>13. "acquired" = "copy" => staging' # NoTexture /\ staging'.desc = held'.desc
    OBVIOUS
  <1> HIDE DEF IInv
  <1> QED
    BY <1>1, <1>4, <1>6, <1>9, <1>10, <1>11, <1>12, <1>13, ReadsOn

LEMMA ReadingStep ==
    ASSUME IInv, NEW g \in Callers,
           GetTexture(g) \/ KeepStaging(g) \/ CreateStaging(g)
    PROVE  IInv'
  <1>0. pc[g] \in Reading
    BY PointFacts DEF GetTexture, KeepStaging, CreateStaging
  <1>1. /\ UNCHANGED <<presented, fetched, pointer, lost, missed, duplication, lastImage,
                       mu, start, ret, held>>
    BY DEF GetTexture, KeepStaging, CreateStaging, desktop
  <1>2. fetched \in 0 .. presented /\ pointer \in BOOLEAN
        /\ refs \in [resource : {0, 1}, texture : {0, 1}]
        /\ staging \in Textures \cup {NoTexture}
    BY DEF IInv, Typed, TypeOK
  <1>3. CASE GetTexture(g)
    <2>1. pc[g] = "acquired" /\ Goto(g, "texture") /\ "texture" \in Reading
          /\ UNCHANGED <<staging, stagingDesc>>
      BY <1>3, PointFacts DEF GetTexture, stagings
    <2>2. refs' \in [resource : {0, 1}, texture : {0, 1}] /\ refs'.resource = 1 /\ refs'.texture = 1
      BY <1>0, <1>2, <1>3, <2>1, ReaderFacts DEF GetTexture
    <2> QED
      BY <1>0, <1>1, <1>2, <2>1, <2>2, ReaderFacts, ReadsOn
  <1>4. CASE KeepStaging(g)
    <2>1. pc[g] = "texture" /\ Goto(g, "copy") /\ "copy" \in Reading
          /\ UNCHANGED <<staging, stagingDesc, refs>>
          /\ staging # NoTexture /\ stagingDesc = held.desc
      BY <1>4, PointFacts DEF KeepStaging, StagingMatches, stagings
    <2>2. refs.resource = 1 /\ refs.texture = 1
      BY <1>0, <2>1, ReaderFacts
    <2> QED
      BY <1>0, <1>1, <1>2, <2>1, <2>2, ReaderFacts, ReadsOn
  <1>5. CASE CreateStaging(g)
    <2>1. pc[g] = "texture" /\ Goto(g, "copy") /\ "copy" \in Reading /\ UNCHANGED refs
          /\ staging' = [desc |-> held.desc, n |-> 0] /\ stagingDesc' = held.desc
      BY <1>5, PointFacts DEF CreateStaging
    <2>2. held \in Frames /\ presented \in Nat /\ refs.resource = 1 /\ refs.texture = 1
      BY <1>0, <2>1, ReaderFacts
    <2>3. staging' \in Textures /\ staging'.desc = stagingDesc' /\ staging'.n \in 0 .. presented
          /\ stagingDesc' \in Descs
      BY <2>1, <2>2 DEF Textures, Frames
    <2>4. staging' # NoTexture
      BY <2>3, InputAssumption
    <2> QED
      BY <1>0, <1>1, <1>2, <2>1, <2>2, <2>3, <2>4, ReaderFacts, ReadsOn
  <1> QED
    BY <1>3, <1>4, <1>5

\* The five ways out of a read.
LEMMA ReadEnds ==
    ASSUME IInv, NEW g \in Callers,
           \/ Empty(g) \/ GetTextureFails(g) \/ CreateStagingFails(g)
           \/ Convert(g) \/ ConvertFails(g)
    PROVE  IInv'
  <1>0. pc[g] \in Reading /\ GiveBack
    BY PointFacts DEF Empty, GetTextureFails, CreateStagingFails, Convert, ConvertFails
  <1>1. UNCHANGED <<presented, fetched, pointer, lost, duplication>>
    BY DEF Empty, GetTextureFails, CreateStagingFails, Convert, ConvertFails, Miss, desktop
  <1>2. missed' \in 0 .. presented
    <2>1. missed' \in {missed, held.n}
      BY DEF Empty, GetTextureFails, CreateStagingFails, Convert, ConvertFails, Miss, desktop
    <2>2. held.n \in 0 .. presented /\ missed \in 0 .. presented
      BY <1>0, ReaderFacts DEF IInv, Typed, TypeOK
    <2> QED
      BY <2>1, <2>2
  <1>3. staging \in Textures \cup {NoTexture} /\ stagingDesc \in Descs \cup {NoDesc}
    BY DEF IInv, Typed, TypeOK
  <1>4. {"error", "repeated", "fresh"} \subseteq Kinds /\ lastImage \in Nat
    BY <1>0, ReaderFacts, PointFacts
  <1>5. CASE Empty(g)
    <2>0. UNCHANGED <<staging, stagingDesc, lastImage>>
      BY <1>5 DEF Empty, stagings
    <2>1. CASE lastImage # 0
      <3>1. Return(g, "repeated", lastImage) /\ Goto(g, "idle")
        BY <1>5, <2>1 DEF Empty, Return
      <3> QED
        BY <1>0, <1>1, <1>2, <1>3, <1>4, <2>0, <3>1, ReaderFacts, GivenBack
    <2>2. CASE lastImage = 0
      <3>1. Goto(g, "wait") /\ UNCHANGED <<mu, start, ret>>
        BY <1>5, <2>2 DEF Empty
      <3> QED
        BY <1>0, <1>1, <1>2, <1>3, <2>0, <3>1, ReaderFacts, GivenBack
    <2> QED
      BY <2>1, <2>2
  <1>6. CASE GetTextureFails(g)
    <2>1. Return(g, "error", 0) /\ Goto(g, "idle")
          /\ UNCHANGED <<staging, stagingDesc, lastImage>>
      BY <1>6 DEF GetTextureFails, Miss, Return, stagings
    <2> QED
      BY <1>0, <1>1, <1>2, <1>3, <1>4, <2>1, ReaderFacts, GivenBack
  <1>7. CASE CreateStagingFails(g)
    <2>1. Return(g, "error", 0) /\ Goto(g, "idle") /\ UNCHANGED lastImage
          /\ staging' = NoTexture /\ stagingDesc' = NoDesc
      BY <1>7 DEF CreateStagingFails, Miss, Return
    <2> QED
      BY <1>0, <1>1, <1>2, <1>4, <2>1, ReaderFacts, GivenBack
  <1>8. CASE Convert(g) \/ ConvertFails(g)
    <2>0. /\ pc[g] = "copy" /\ staging' = [staging EXCEPT !.n = Copied]
          /\ UNCHANGED stagingDesc
          /\ lastImage' \in {lastImage, Copied}
      BY <1>8 DEF Convert, ConvertFails
    <2>1. staging \in Textures /\ staging.desc = held.desc /\ staging.desc = stagingDesc
      BY <1>0, <2>0, ReaderFacts
    <2>2. Copied = held.n /\ held.n \in 0 .. presented /\ held.n \in Nat
      BY <1>0, <2>1, ReaderFacts DEF Copied
    <2>3. staging' \in Textures /\ staging'.desc = stagingDesc' /\ staging'.n \in 0 .. presented
      BY <2>0, <2>1, <2>2 DEF Textures
    <2>4. lastImage' \in 0 .. presented
      BY <1>0, <2>0, <2>2, ReaderFacts
    <2>5. \E kind \in Kinds, n \in Nat : Return(g, kind, n)
      BY <1>4, <1>8, <2>2 DEF Convert, ConvertFails, Miss
    <2>6. Goto(g, "idle")
      BY <2>5 DEF Return
    <2> QED
      BY <1>0, <1>1, <1>2, <1>3, <2>0, <2>3, <2>4, <2>5, <2>6, GivenBack
  <1> QED
    BY <1>5, <1>6, <1>7, <1>8

LEMMA ReleaseStep ==
    ASSUME IInv, NEW g \in Callers, ReleaseObjects(g)
    PROVE  IInv'
  <1> USE DEF IInv
  <1>1. /\ pc[g] = "releasing" /\ Goto(g, "released")
        /\ UNCHANGED <<presented, fetched, pointer, lost, missed, held, stagingDesc, refs,
                       lastImage, mu, start, ret>>
        /\ staging' = NoTexture /\ duplication' = FALSE
    BY DEF ReleaseObjects, desktop
  <1>2. /\ pc' \in [Callers -> Points]
        /\ \A h \in Callers : pc'[h] = IF h = g THEN "released" ELSE pc[h]
    BY <1>1, PointFacts, GotoFacts
  <1>3. TypeOK'
    BY <1>1, <1>2 DEF Typed, TypeOK
  <1>4. Typed'
    BY <1>1, <1>3 DEF Typed, Numbers
  <1>5. LockInv'
    BY <1>1, PointFacts, LockMoves
  <1>6. \A h \in Callers : pc[h] \notin Reading /\ (pc'[h] \in InMu => h = g)
    BY <1>1, <1>2, PointFacts, Alone
  <1>7. held = NoFrame /\ refs.resource # 1 /\ refs.texture # 1
    BY <1>6, PointFacts DEF ReadInv, FrameBalance
  <1>8. refs = NoRefs
    BY <1>7 DEF Typed, TypeOK, NoRefs
  <1>9. ReadInv'
    BY <1>1, <1>2, <1>6, <1>7, <1>8, NobodyReads, PointFacts
  <1> QED
    BY <1>4, <1>5, <1>9

LEMMA NextIInv == IInv /\ [Next]_vars => IInv'
  <1> SUFFICES ASSUME IInv, [Next]_vars PROVE IInv'
    OBVIOUS
  <1>1. CASE Desktop
    BY <1>1, DesktopStep
  <1>2. ASSUME NEW g \in Callers, CallCapture(g) \/ CallClose(g) \/ Lock(g) PROVE IInv'
    BY <1>2, CallStep, IdleStep DEF Lock
  <1>3. ASSUME NEW g \in Callers, Poll(g) PROVE IInv'
    BY <1>3, IdleStep, AcquireStep, ReadEnds DEF Poll
  <1>4. ASSUME NEW g \in Callers, ReadFrame(g) PROVE IInv'
    BY <1>4, ReadingStep, ReadEnds DEF ReadFrame
  <1>5. ASSUME NEW g \in Callers, Close(g) PROVE IInv'
    BY <1>5, ReleaseStep, IdleStep DEF Close
  <1>6. CASE UNCHANGED vars
    BY <1>6 DEF vars, desktop, stagings, callVars, IInv, Typed, TypeOK, Numbers, LockInv,
                ReadInv, FrameBalance, ObjectsAlive, CopyFits
  <1> QED
    BY <1>1, <1>2, <1>3, <1>4, <1>5, <1>6 DEF Next

LEMMA Inductive == Spec => []IInv
  BY InitIInv, NextIInv, PTL DEF Spec

\* Types; in particular no reference is released twice.
THEOREM TypeCorrect == Spec => []TypeOK
  <1>1. IInv => TypeOK
    BY DEF IInv, Typed
  <1> QED
    BY <1>1, Inductive, PTL

\* One caller at a time uses the immediate context.
THEOREM Exclusion == Spec => []MutualExclusion
  <1>1. IInv => MutualExclusion
    BY DEF IInv, LockInv, MutualExclusion
  <1> QED
    BY <1>1, Inductive, PTL

\* A read never meets an object that Close has released.
THEOREM NoUseAfterRelease == Spec => []ObjectsAlive
  <1>1. IInv => ObjectsAlive
    BY DEF IInv, ReadInv
  <1> QED
    BY <1>1, Inductive, PTL

\* Every path out of a read gives the frame and its references back.
THEOREM FramesAreBalanced == Spec => []FrameBalance
  <1>1. IInv => FrameBalance
    BY DEF IInv, ReadInv
  <1> QED
    BY <1>1, Inductive, PTL

\* CopyResource is never asked to copy between textures that differ.
THEOREM CopiesFit == Spec => []CopyFits
  <1>1. IInv => CopyFits
    BY DEF IInv, ReadInv
  <1> QED
    BY <1>1, Inductive, PTL

(***************************************************************************)
(* Refinement: whatever fails, every step is a step of CaptureContract or  *)
(* a stutter.  It needs to know which image each variable shows: between   *)
(* reads the newest image acquired is the last image, or a failed read     *)
(* consumed it; within a read it is the held frame.                        *)
(***************************************************************************)
InCapture == {"capture"} \cup Acquiring \cup Reading
InClose   == {"close", "releasing", "released"}

HeldInv ==
    /\ lastImage <= fetched /\ missed <= fetched
    /\ held = NoFrame => fetched \in {lastImage, missed}
    /\ held # NoFrame =>
          /\ held.n = fetched
          /\ held.new => held.n > lastImage
          /\ ~held.new => held.n \in {lastImage, missed}

\* What a caller may say about the images it has seen so far.
CallerInv(g) ==
    /\ start[g] <= presented
    /\ pc[g] \notin InCapture => start[g] = 0
    /\ pc[g] \in Reading => start[g] <= held.n
    /\ pc[g] \in {"enter", "wait"} => lastImage = 0
    /\ pc[g] = "wait" => start[g] <= missed
    /\ pc[g] \in {"texture", "copy"} => held.new
    /\ pc[g] = "released" => ~duplication

NewestInv == HeldInv /\ \A g \in Callers : CallerInv(g)

LEMMA InitNewest == Init => NewestInv
  BY DEF Init, NewestInv, HeldInv, CallerInv, InCapture, Acquiring, Reading

LEMMA CaptureFacts ==
    /\ InCapture = {"capture", "poll", "enter", "wait", "acquired", "texture", "copy"}
    /\ "idle" \notin InCapture /\ InCapture \cap InClose = {}
    /\ InClose = {"close", "releasing", "released"}
  BY DEF InCapture, InClose, Acquiring, Reading

\* A caller that stays where it is is disturbed by nothing it may be told.
LEMMA CallerStays ==
    ASSUME IInv, NEW h \in Callers, CallerInv(h),
           pc'[h] = pc[h], start'[h] = start[h],
           presented' \in Nat, presented <= presented',
           pc[h] \in InMu => UNCHANGED <<held, lastImage, missed, duplication>>
    PROVE  CallerInv(h)'
  <1>1. start[h] \in Nat /\ presented \in Nat
    BY DEF IInv, Typed, TypeOK
  <1>2. Reading \subseteq InMu /\ {"enter", "wait", "texture", "copy", "released"} \subseteq InMu
    BY PointFacts
  <1> QED
    BY <1>1, <1>2 DEF CallerInv

\* A step of g under c.mu, or that does not touch what c.mu protects.
LEMMA OthersStay ==
    ASSUME IInv, NewestInv, NEW g \in Callers, UNCHANGED presented,
           \A h \in Callers \ {g} : pc'[h] = pc[h] /\ start'[h] = start[h],
           \/ pc[g] \in InMu
           \/ UNCHANGED <<held, lastImage, missed, duplication>>,
           CallerInv(g)'
    PROVE  \A h \in Callers : CallerInv(h)'
  <1> SUFFICES ASSUME NEW h \in Callers \ {g} PROVE CallerInv(h)'
    OBVIOUS
  <1>1. pc[h] \in InMu => UNCHANGED <<held, lastImage, missed, duplication>>
    BY Alone DEF IInv
  <1>2. presented' \in Nat /\ presented <= presented'
    BY DEF IInv, Typed, TypeOK
  <1> QED
    BY <1>1, <1>2, CallerStays DEF NewestInv

\* Every return: the caller is idle again and has nothing to compare with.
LEMMA ReturnKeepsCallers ==
    ASSUME IInv, NewestInv, NEW g \in Callers, NEW kind \in Kinds, NEW n \in Nat,
           Return(g, kind, n), UNCHANGED presented,
           \/ pc[g] \in InMu
           \/ UNCHANGED <<held, lastImage, missed, duplication>>
    PROVE  \A h \in Callers : CallerInv(h)'
  <1>1. \A h \in Callers : pc'[h] = IF h = g THEN "idle" ELSE pc[h]
    BY ReturnFacts DEF IInv
  <1>2. \A h \in Callers : start'[h] = IF h = g THEN 0 ELSE start[h]
    BY DEF Return, IInv, Typed, TypeOK
  <1>3. presented' \in Nat
    BY DEF IInv, Typed, TypeOK
  <1>4. CallerInv(g)'
    BY <1>1, <1>2, <1>3, PointFacts DEF CallerInv
  <1> QED
    BY <1>1, <1>2, <1>4, OthersStay

\* A step of g to another point of its method.
LEMMA MoveKeepsCallers ==
    ASSUME IInv, NewestInv, NEW g \in Callers, NEW point \in Points, Goto(g, point),
           UNCHANGED <<presented, start>>,
           \/ pc[g] \in InMu
           \/ UNCHANGED <<held, lastImage, missed, duplication>>,
           point \notin InCapture => start[g] = 0,
           point \in Reading => start[g] <= held'.n,
           point \in {"enter", "wait"} => lastImage' = 0,
           point = "wait" => start[g] <= missed',
           point \in {"texture", "copy"} => held'.new,
           point = "released" => ~duplication'
    PROVE  \A h \in Callers : CallerInv(h)'
  <1>1. \A h \in Callers : pc'[h] = IF h = g THEN point ELSE pc[h]
    BY GotoFacts DEF IInv
  <1>2. start[g] <= presented
    BY DEF NewestInv, CallerInv
  <1>3. CallerInv(g)'
    BY <1>1, <1>2 DEF CallerInv
  <1> QED
    BY <1>1, <1>3, OthersStay

LEMMA QuietSteps ==
    ASSUME IInv, NewestInv, NEW g \in Callers,
           \/ CallCapture(g) \/ CallClose(g) \/ Lock(g) \/ Close(g)
           \/ AcquireTimesOut(g) \/ DeadlinePassed(g) \/ AcquireFails(g)
    PROVE  NewestInv'
  <1>1. UNCHANGED <<presented, fetched, missed, held, lastImage>>
    BY DEF CallCapture, CallClose, Lock, Close, LockCapture, NotInitialized, LockClose,
           ReleaseObjects, CloseReturns, AcquireTimesOut, DeadlinePassed, AcquireFails,
           desktop
  <1>2. HeldInv'
    BY <1>1 DEF NewestInv, HeldInv
  <1>3. CallerInv(g) /\ start[g] \in Nat /\ presented \in Nat /\ lastImage \in Nat
    BY DEF NewestInv, IInv, Typed, TypeOK
  <1>4. CASE CallCapture(g)
    <2>1. Goto(g, "capture") /\ start' = [start EXCEPT ![g] = presented]
          /\ UNCHANGED duplication
      BY <1>4 DEF CallCapture
    <2>2. \A h \in Callers : /\ pc'[h] = IF h = g THEN "capture" ELSE pc[h]
                             /\ start'[h] = IF h = g THEN presented ELSE start[h]
      BY <2>1, GotoFacts, PointFacts DEF IInv, Typed, TypeOK
    <2>3. CallerInv(g)'
      BY <1>1, <1>3, <2>2, PointFacts DEF CallerInv, InCapture
    <2>4. \A h \in Callers : CallerInv(h)'
      BY <1>1, <2>1, <2>2, <2>3, OthersStay
    <2> QED
      BY <1>2, <2>4 DEF NewestInv
  <1>5. CASE CallClose(g) \/ LockClose(g) \/ ReleaseObjects(g)
    <2>1. PICK point \in InClose :
              /\ Goto(g, point)
              /\ pc[g] \in {"idle", "close", "releasing"}
              /\ pc[g] = "releasing" \/ UNCHANGED duplication
              /\ point = "released" => ~duplication'
      BY <1>5, CaptureFacts DEF CallClose, LockClose, ReleaseObjects
    <2>2. UNCHANGED start
      BY <1>5 DEF CallClose, LockClose, ReleaseObjects
    <2>3. start[g] = 0 /\ point \notin InCapture /\ point \in Points
      BY <1>3, <2>1, CaptureFacts, PointFacts DEF CallerInv
    <2>4. point \notin Reading /\ point \notin {"enter", "wait", "texture", "copy"}
      BY <2>3, CaptureFacts, PointFacts
    <2>5. \A h \in Callers : CallerInv(h)'
      BY <1>1, <2>1, <2>2, <2>3, <2>4, PointFacts, MoveKeepsCallers
    <2> QED
      BY <1>2, <2>5 DEF NewestInv
  <1>6. CASE LockCapture(g)
    <2>1. PICK point \in {"poll", "enter"} :
              Goto(g, point) /\ (point = "enter" => lastImage = 0)
      BY <1>6 DEF LockCapture
    <2>2. UNCHANGED <<start, duplication>>
      BY <1>6 DEF LockCapture
    <2>3. point \in InCapture /\ point \in Points /\ point \notin Reading
      BY CaptureFacts, PointFacts
    <2>4. \A h \in Callers : CallerInv(h)'
      BY <1>1, <2>1, <2>2, <2>3, MoveKeepsCallers
    <2> QED
      BY <1>2, <2>4 DEF NewestInv
  <1>7. CASE \/ NotInitialized(g) \/ CloseReturns(g)
             \/ AcquireTimesOut(g) \/ DeadlinePassed(g) \/ AcquireFails(g)
    <2>1. UNCHANGED duplication
      BY <1>7 DEF NotInitialized, CloseReturns, AcquireTimesOut, DeadlinePassed, AcquireFails
    <2>2. PICK kind \in Kinds, n \in Nat : Return(g, kind, n)
      BY <1>3, <1>7, PointFacts
      DEF NotInitialized, CloseReturns, AcquireTimesOut, DeadlinePassed, AcquireFails
    <2>3. \A h \in Callers : CallerInv(h)'
      BY <1>1, <2>1, <2>2, ReturnKeepsCallers
    <2> QED
      BY <1>2, <2>3 DEF NewestInv
  <1> QED
    BY <1>4, <1>5, <1>6, <1>7 DEF Lock, Close

\* Acquiring a frame: what the last image shows has been overtaken, or not.
LEMMA AcquireNewest ==
    ASSUME IInv, NewestInv, NEW g \in Callers, Acquire(g)
    PROVE  NewestInv'
  <1>1. PICK d \in Descs : held' = [n |-> presented, new |-> HasImage, desc |-> d]
    BY DEF Acquire
  <1>2. /\ pc[g] \in Acquiring /\ held = NoFrame /\ fetched' = presented
        /\ Goto(g, "acquired") /\ UNCHANGED <<presented, start, lastImage, missed>>
    BY DEF Acquire
  <1>3. /\ presented \in Nat /\ fetched \in 0 .. presented
        /\ lastImage \in Nat /\ missed \in Nat
        /\ fetched \in {lastImage, missed} /\ lastImage <= fetched /\ missed <= fetched
        /\ start[g] <= presented
    BY <1>2 DEF IInv, Typed, TypeOK, NewestInv, HeldInv, CallerInv
  <1>4. HeldInv'
    <2>0. HasImage \in BOOLEAN
      BY <1>3 DEF HasImage, Pending
    <2>1. held' # NoFrame
      BY <1>1, <1>3, <2>0, InputAssumption DEF Frames
    <2>2. held'.n = presented /\ (held'.new <=> presented > fetched)
      BY <1>1 DEF HasImage, Pending
    <2> QED
      BY <1>2, <1>3, <2>1, <2>2 DEF HeldInv
  <1>5. \A h \in Callers : CallerInv(h)'
    <2>1. "acquired" \in Points /\ "acquired" \in InCapture /\ pc[g] \in InMu
      BY <1>2, CaptureFacts, PointFacts
    <2>2. start[g] <= held'.n
      BY <1>1, <1>3
    <2> QED
      BY <1>2, <2>1, <2>2, MoveKeepsCallers
  <1> QED
    BY <1>4, <1>5 DEF NewestInv

\* What a reader knows of the frame it holds.
LEMMA ReaderNewest ==
    ASSUME IInv, NewestInv, NEW g \in Callers, pc[g] \in Reading
    PROVE  /\ held \in Frames /\ held # NoFrame /\ held.n = fetched
           /\ held.n \in 0 .. presented /\ presented \in Nat
           /\ held.new => held.n > lastImage
           /\ ~held.new => held.n \in {lastImage, missed}
           /\ lastImage <= held.n /\ missed \in 0 .. held.n
           /\ start[g] \in 0 .. held.n /\ lastImage \in Nat
           /\ pc[g] \in {"texture", "copy"} => held.new
           /\ duplication /\ pc[g] \in InMu
  <1>1. held \in Frames /\ held.n \in 0 .. presented /\ presented \in Nat /\ duplication
        /\ lastImage \in 0 .. presented
    BY ReaderFacts
  <1>2. held # NoFrame
    BY <1>1, InputAssumption
  <1>3. start[g] \in Nat /\ start[g] <= held.n /\ held.n \in Nat /\ missed \in Nat
    BY <1>1 DEF NewestInv, CallerInv, IInv, Typed, TypeOK
  <1> QED
    BY <1>1, <1>2, <1>3, PointFacts DEF NewestInv, HeldInv, CallerInv

LEMMA ReadingNewest ==
    ASSUME IInv, NewestInv, NEW g \in Callers,
           GetTexture(g) \/ KeepStaging(g) \/ CreateStaging(g)
    PROVE  NewestInv'
  <1>1. PICK point \in {"texture", "copy"} :
            Goto(g, point) /\ pc[g] \in Reading /\ (pc[g] = "acquired" => held.new)
    BY PointFacts DEF GetTexture, KeepStaging, CreateStaging
  <1>2. UNCHANGED <<presented, fetched, missed, start, held, lastImage>>
    BY DEF GetTexture, KeepStaging, CreateStaging, desktop
  <1>3. held.new /\ start[g] <= held.n /\ pc[g] \in InMu
    BY <1>1, ReaderNewest, PointFacts
  <1>4. point \in Points /\ point \in InCapture /\ point \notin {"enter", "wait", "released"}
    BY CaptureFacts, PointFacts
  <1>5. \A h \in Callers : CallerInv(h)'
    BY <1>1, <1>2, <1>3, <1>4, MoveKeepsCallers
  <1>6. HeldInv'
    BY <1>2 DEF NewestInv, HeldInv
  <1> QED
    BY <1>5, <1>6 DEF NewestInv

\* The frame is given back: its image is shown, or lost, or there was none.
LEMMA ReadEndsNewest ==
    ASSUME IInv, NewestInv, NEW g \in Callers,
           \/ Empty(g) \/ GetTextureFails(g) \/ CreateStagingFails(g)
           \/ Convert(g) \/ ConvertFails(g)
    PROVE  NewestInv'
  <1> USE DEF Empty, GetTextureFails, CreateStagingFails, Convert, ConvertFails, Miss
  <1>1. pc[g] \in Reading /\ held' = NoFrame /\ UNCHANGED <<presented, fetched, duplication>>
    BY PointFacts DEF GiveBack, desktop
  <1>2. /\ lastImage \in 0 .. fetched /\ missed \in 0 .. fetched /\ fetched \in Nat
        /\ held.n = fetched /\ start[g] \in 0 .. held.n
        /\ pc[g] = "copy" => Copied = fetched
    BY <1>1, ReaderNewest, ReaderFacts DEF Copied
  <1>3. /\ lastImage' \in 0 .. fetched /\ missed' \in 0 .. fetched
        /\ fetched \in {lastImage', missed'}
    <2>1. CASE Empty(g)
      BY <1>1, <1>2, <2>1, ReaderNewest DEF desktop
    <2>2. CASE Convert(g)
      BY <1>2, <2>2 DEF desktop
    <2>3. CASE GetTextureFails(g) \/ CreateStagingFails(g) \/ ConvertFails(g)
      BY <1>2, <2>3
    <2> QED
      BY <2>1, <2>2, <2>3
  <1>4. HeldInv'
    BY <1>1, <1>2, <1>3 DEF HeldInv
  <1>5. \A h \in Callers : CallerInv(h)'
    <2>1. CASE \E kind \in Kinds, n \in Nat : Return(g, kind, n)
      BY <1>1, <2>1, ReaderNewest, ReturnKeepsCallers
    <2>2. CASE Goto(g, "wait") /\ UNCHANGED start /\ Empty(g) /\ lastImage = 0
      <3>1. start[g] <= missed' /\ lastImage' = 0
        BY <1>1, <1>2, <2>2, ReaderNewest DEF desktop
      <3>2. "wait" \in Points /\ "wait" \notin Reading
        BY PointFacts
      <3> QED
        BY <1>1, <2>2, <3>1, <3>2, CaptureFacts, ReaderNewest, MoveKeepsCallers
    <2>3. Copied \in Nat \/ ~Convert(g)
      BY <1>2
    <2>4. lastImage \in Nat /\ {"repeated", "fresh", "error"} \subseteq Kinds
      BY <1>2, PointFacts
    <2> QED
      BY <2>1, <2>2, <2>3, <2>4
  <1> QED
    BY <1>4, <1>5 DEF NewestInv

LEMMA NextNewest == IInv /\ NewestInv /\ [Next]_vars => NewestInv'
  <1> SUFFICES ASSUME IInv, NewestInv, [Next]_vars PROVE NewestInv'
    OBVIOUS
  <1>1. CASE Desktop
    <2>1. UNCHANGED <<fetched, missed, held, duplication, lastImage, pc, start>>
      BY <1>1 DEF Desktop, Present, MovePointer, LoseAccess, callVars
    <2>2. presented' \in Nat /\ presented <= presented'
      BY <1>1 DEF Desktop, Present, MovePointer, LoseAccess, IInv, Typed, TypeOK
    <2>3. \A h \in Callers : CallerInv(h)'
      BY <2>1, <2>2, CallerStays DEF NewestInv
    <2> QED
      BY <2>1, <2>3 DEF NewestInv, HeldInv
  <1>2. CASE UNCHANGED vars
    BY <1>2 DEF vars, desktop, callVars, NewestInv, HeldInv, CallerInv
  <1>3. ASSUME NEW g \in Callers, CallCapture(g) \/ CallClose(g) \/ Lock(g) \/ Close(g)
        PROVE  NewestInv'
    BY <1>3, QuietSteps
  <1>4. ASSUME NEW g \in Callers, Poll(g) PROVE NewestInv'
    BY <1>4, QuietSteps, AcquireNewest, ReadEndsNewest DEF Poll
  <1>5. ASSUME NEW g \in Callers, ReadFrame(g) PROVE NewestInv'
    BY <1>5, ReadingNewest, ReadEndsNewest DEF ReadFrame
  <1> QED
    BY <1>1, <1>2, <1>3, <1>4, <1>5 DEF Next

LEMMA NewestAlways == Spec => []NewestInv
  BY InitNewest, NextNewest, Inductive, PTL DEF Spec

calls == [g \in Callers |-> CallOf(pc[g])]

LEMMA CallOfPoint ==
    /\ CallOf("idle") = "none"
    /\ \A point \in InCapture : CallOf(point) = "Capture"
    /\ \A point \in InClose : CallOf(point) = "Close"
  BY CaptureFacts DEF CallOf

LEMMA CallMoves ==
    ASSUME IInv, NEW g \in Callers, NEW point, Goto(g, point)
    PROVE  /\ calls' = [calls EXCEPT ![g] = CallOf(point)]
           /\ calls[g] = CallOf(pc[g])
           /\ CallOf(point) = CallOf(pc[g]) => UNCHANGED calls
  BY DEF Goto, IInv, Typed, TypeOK, calls

LEMMA CallsOnReturn ==
    ASSUME IInv, NEW g \in Callers, NEW kind, NEW n, Return(g, kind, n)
    PROVE  /\ calls' = [calls EXCEPT ![g] = "none"]
           /\ start' = [start EXCEPT ![g] = 0]
           /\ ret' = [ret EXCEPT ![g] = [kind |-> kind, seq |-> n]]
           /\ calls[g] = CallOf(pc[g])
  BY CallMoves, CallOfPoint DEF Return

\* A step of which the contract sees nothing.
LEMMA Stutters ==
    UNCHANGED <<presented, lastImage, missed, duplication, calls, start, ret>>
        => UNCHANGED Contract!vars
  BY DEF Contract!vars, calls

\* A step from one point of a method to another of the same method.
LEMMA MoveRefines ==
    ASSUME IInv, NEW g \in Callers,
           UNCHANGED <<presented, lastImage, missed, duplication, start, ret>>,
           NEW point, Goto(g, point),
           \/ point \in InCapture /\ pc[g] \in InCapture
           \/ point \in InClose /\ pc[g] \in InClose
    PROVE  UNCHANGED Contract!vars
  <1>1. UNCHANGED calls
    BY CallMoves, CallOfPoint
  <1> QED
    BY <1>1, Stutters

LEMMA EntersRefine ==
    ASSUME IInv, NewestInv, NEW g \in Callers, CallCapture(g) \/ CallClose(g)
    PROVE  Contract!Next
  <1>1. Contract!NoResult = NoResult
    BY DEF Contract!NoResult, NoResult
  <1>2. ASSUME CallCapture(g) PROVE Contract!Enter(g, "Capture")
    <2>1. Goto(g, "capture") /\ pc[g] = "idle"
      BY <1>2 DEF CallCapture
    <2>2. calls' = [calls EXCEPT ![g] = "Capture"] /\ calls[g] = "none"
      BY <2>1, CallMoves, CallOfPoint, CaptureFacts
    <2> QED
      BY <1>1, <1>2, <2>2 DEF CallCapture, Contract!Enter, calls, desktop
  <1>3. ASSUME CallClose(g) PROVE Contract!Enter(g, "Close")
    <2>1. Goto(g, "close") /\ pc[g] = "idle"
      BY <1>3 DEF CallClose
    <2>2. calls' = [calls EXCEPT ![g] = "Close"] /\ calls[g] = "none"
      BY <2>1, CallMoves, CallOfPoint, CaptureFacts
    <2>3. start' = [start EXCEPT ![g] = 0]
      <3>1. start[g] = 0 /\ UNCHANGED start /\ start \in [Callers -> Nat]
        BY <1>3, <2>1, CaptureFacts DEF CallClose, NewestInv, CallerInv, IInv, Typed, TypeOK
      <3> QED
        BY <3>1
    <2> QED
      BY <1>1, <1>3, <2>2, <2>3 DEF CallClose, Contract!Enter, calls, desktop
  <1> QED
    BY <1>2, <1>3 DEF Contract!Next

\* A caller that waits for a frame: the newest image acquired was shown or lost.
LEMMA WaitingFacts ==
    ASSUME IInv, NewestInv, NEW g \in Callers, pc[g] \in Acquiring
    PROVE  /\ duplication /\ fetched \in {lastImage, missed} /\ fetched \in 0 .. presented
           /\ lastImage \in Nat /\ missed \in Nat
           /\ start[g] \in 0 .. presented /\ presented \in Nat /\ pc[g] \in InCapture
  <1>1. \A h \in Callers : pc[h] \notin Reading
    BY Alone, PointFacts DEF IInv
  <1>2. held = NoFrame /\ duplication
    BY <1>1 DEF IInv, ReadInv, FrameBalance, ObjectsAlive
  <1> QED
    BY <1>2, CaptureFacts, PointFacts
    DEF NewestInv, HeldInv, CallerInv, IInv, Typed, TypeOK

\* Nothing new: a repetition or a timeout of the contract.
LEMMA NothingNewRefines ==
    ASSUME IInv, NEW g \in Callers, pc[g] \in InCapture, duplication,
           start[g] \in Nat, lastImage \in Nat, start[g] <= lastImage \/ start[g] <= missed,
           UNCHANGED <<presented, lastImage, missed, duplication>>,
           IF lastImage # 0 THEN Return(g, "repeated", lastImage)
                            ELSE Return(g, "timeout", 0)
    PROVE  Contract!Repeated(g) \/ Contract!TimedOut(g)
  BY CallsOnReturn, CallOfPoint
  DEF Contract!Repeated, Contract!TimedOut, Contract!NothingNew, Contract!Leave, calls

LEMMA PollRefines ==
    ASSUME IInv, NewestInv, NEW g \in Callers, Poll(g)
    PROVE  [Contract!Next]_(Contract!vars)
  <1>1. CASE AcquireTimesOut(g)
    <2>1. /\ start[g] \in Nat /\ lastImage \in Nat
          /\ start[g] <= lastImage \/ start[g] <= missed
          /\ duplication /\ pc[g] \in InCapture
      BY <1>1, WaitingFacts DEF AcquireTimesOut, Pending
    <2>2. Contract!Repeated(g) \/ Contract!TimedOut(g)
      BY <1>1, <2>1, NothingNewRefines DEF AcquireTimesOut, desktop
    <2> QED
      BY <2>2 DEF Contract!Next
  <1>2. CASE DeadlinePassed(g)
    <2>1. lastImage = 0 /\ (~Prompt \/ start[g] <= missed)
          /\ duplication /\ pc[g] \in InCapture
      BY <1>2, WaitingFacts, PointFacts DEF DeadlinePassed, NewestInv, CallerInv
    <2>2. Contract!TimedOut(g)
      BY <1>2, <2>1, CallsOnReturn, CallOfPoint
      DEF DeadlinePassed, Contract!TimedOut, Contract!NothingNew, Contract!Leave, calls, desktop
    <2> QED
      BY <2>2 DEF Contract!Next
  <1>3. CASE AcquireFails(g)
    <2>1. pc[g] \in InCapture
      BY <1>3, WaitingFacts DEF AcquireFails
    <2>2. Contract!Fail(g)
      BY <1>3, <2>1, CallsOnReturn, CallOfPoint
      DEF AcquireFails, Contract!Fail, Contract!Leave, calls, desktop
    <2> QED
      BY <2>2 DEF Contract!Next
  <1>4. CASE Acquire(g)
    <2>1. pc[g] \in InCapture /\ "acquired" \in InCapture
      BY <1>4, WaitingFacts, CaptureFacts DEF Acquire
    <2> QED
      BY <1>4, <2>1, MoveRefines DEF Acquire
  <1>5. CASE Empty(g)
    <2>1. /\ pc[g] \in InCapture /\ duplication
          /\ start[g] \in Nat /\ lastImage \in Nat
          /\ start[g] <= lastImage \/ start[g] <= missed
      BY <1>5, ReaderNewest, CaptureFacts, PointFacts DEF Empty
    <2>2. UNCHANGED <<presented, lastImage, missed, duplication>>
      BY <1>5 DEF Empty, desktop
    <2>3. CASE lastImage # 0
      <3>1. Return(g, "repeated", lastImage)
        BY <1>5, <2>3 DEF Empty
      <3>2. Contract!Repeated(g) \/ Contract!TimedOut(g)
        BY <2>1, <2>2, <2>3, <3>1, NothingNewRefines
      <3> QED
        BY <3>2 DEF Contract!Next
    <2>4. CASE lastImage = 0
      <3>1. Goto(g, "wait") /\ UNCHANGED <<start, ret>> /\ "wait" \in InCapture
        BY <1>5, <2>4, CaptureFacts DEF Empty
      <3> QED
        BY <2>1, <2>2, <3>1, MoveRefines
    <2> QED
      BY <2>3, <2>4
  <1> QED
    BY <1>1, <1>2, <1>3, <1>4, <1>5 DEF Poll

LEMMA ReadFrameRefines ==
    ASSUME IInv, NewestInv, NEW g \in Callers, ReadFrame(g)
    PROVE  [Contract!Next]_(Contract!vars)
  <1>1. CASE GetTexture(g) \/ KeepStaging(g) \/ CreateStaging(g)
    <2>1. PICK point \in {"texture", "copy"} : Goto(g, point) /\ pc[g] \in InCapture
      BY <1>1, CaptureFacts DEF GetTexture, KeepStaging, CreateStaging
    <2>2. UNCHANGED <<presented, lastImage, missed, duplication, start, ret>>
      BY <1>1 DEF GetTexture, KeepStaging, CreateStaging, desktop
    <2>3. point \in InCapture
      BY CaptureFacts
    <2> QED
      BY <2>1, <2>2, <2>3, MoveRefines
  <1>2. CASE Convert(g)
    <2>1. pc[g] \in Reading /\ pc[g] \in InCapture /\ held.new
      BY <1>2, ReaderNewest, CaptureFacts, PointFacts DEF Convert
    <2>2. Copied = held.n
      BY <1>2, <2>1, ReaderFacts DEF Convert, Copied
    <2>3. Copied \in start[g] .. presented /\ Copied > lastImage /\ duplication
      BY <2>1, <2>2, ReaderNewest
    <2>4. /\ lastImage' = Copied /\ Return(g, "fresh", Copied)
          /\ UNCHANGED <<presented, missed, duplication>>
      BY <1>2 DEF Convert, desktop
    <2>5. Contract!Fresh(g)
      BY <2>1, <2>3, <2>4, CallsOnReturn, CallOfPoint
      DEF Contract!Fresh, Contract!Leave, calls
    <2> QED
      BY <2>5 DEF Contract!Next
  <1>3. CASE GetTextureFails(g) \/ CreateStagingFails(g) \/ ConvertFails(g)
    <2>1. pc[g] \in Reading /\ pc[g] \in InCapture
      BY <1>3, CaptureFacts, PointFacts DEF GetTextureFails, CreateStagingFails, ConvertFails
    <2>2. held.n \in start[g] .. presented /\ duplication
      BY <2>1, ReaderNewest
    <2>3. /\ Return(g, "error", 0) /\ missed' = held.n
          /\ UNCHANGED <<presented, lastImage, duplication>>
      BY <1>3 DEF GetTextureFails, CreateStagingFails, ConvertFails, Miss
    <2>4. Contract!Fail(g)
      BY <2>1, <2>2, <2>3, CallsOnReturn, CallOfPoint
      DEF Contract!Fail, Contract!Leave, calls
    <2> QED
      BY <2>4 DEF Contract!Next
  <1> QED
    BY <1>1, <1>2, <1>3 DEF ReadFrame

LEMMA LockAndCloseRefine ==
    ASSUME IInv, NewestInv, NEW g \in Callers, Lock(g) \/ Close(g)
    PROVE  [Contract!Next]_(Contract!vars)
  <1>1. CASE LockCapture(g) \/ LockClose(g)
    <2>1. PICK point \in {"poll", "enter", "releasing"} :
              /\ Goto(g, point)
              /\ \/ point \in InCapture /\ pc[g] \in InCapture
                 \/ point \in InClose /\ pc[g] \in InClose
      BY <1>1, CaptureFacts DEF LockCapture, LockClose
    <2>2. UNCHANGED <<presented, lastImage, missed, duplication, start, ret>>
      BY <1>1 DEF LockCapture, LockClose, desktop
    <2> QED
      BY <2>1, <2>2, MoveRefines
  <1>2. CASE NotInitialized(g)
    <2>1. Contract!Fail(g)
      BY <1>2, CallsOnReturn, CallOfPoint, CaptureFacts
      DEF NotInitialized, Contract!Fail, Contract!Leave, calls, desktop
    <2> QED
      BY <2>1 DEF Contract!Next
  <1>3. CASE ReleaseObjects(g)
    <2>1. Goto(g, "released") /\ pc[g] = "releasing" /\ duplication' = FALSE
          /\ UNCHANGED <<presented, lastImage, missed, start, ret>>
      BY <1>3 DEF ReleaseObjects, desktop
    <2>2. UNCHANGED calls /\ calls[g] = "Close"
      BY <2>1, CallMoves, CallOfPoint, CaptureFacts
    <2>3. CASE duplication
      <3>1. Contract!TearDown
        BY <2>1, <2>2, <2>3 DEF Contract!TearDown, calls
      <3> QED
        BY <3>1 DEF Contract!Next
    <2>4. CASE ~duplication
      BY <2>1, <2>2, <2>4, Stutters DEF IInv, Typed, TypeOK
    <2> QED
      BY <2>3, <2>4
  <1>4. CASE CloseReturns(g)
    <2>1. ~duplication /\ pc[g] \in InClose
      BY <1>4, CaptureFacts DEF CloseReturns, NewestInv, CallerInv
    <2>2. Contract!CloseReturns(g)
      BY <1>4, <2>1, CallsOnReturn, CallOfPoint
      DEF CloseReturns, Contract!CloseReturns, Contract!Leave, calls, desktop
    <2> QED
      BY <2>2 DEF Contract!Next
  <1> QED
    BY <1>1, <1>2, <1>3, <1>4 DEF Lock, Close

LEMMA StepRefines ==
    IInv /\ NewestInv /\ [Next]_vars => [Contract!Next]_(Contract!vars)
  <1> SUFFICES ASSUME IInv, NewestInv, [Next]_vars
               PROVE  [Contract!Next]_(Contract!vars)
    OBVIOUS
  <1>1. CASE Present
    <2>1. Contract!Publish
      BY <1>1 DEF Present, Contract!Publish, callVars
    <2> QED
      BY <2>1 DEF Contract!Next
  <1>2. CASE MovePointer \/ LoseAccess \/ UNCHANGED vars
    BY <1>2, Stutters DEF MovePointer, LoseAccess, vars, callVars, desktop, calls
  <1>3. ASSUME NEW g \in Callers, CallCapture(g) \/ CallClose(g) PROVE Contract!Next
    BY <1>3, EntersRefine
  <1>4. ASSUME NEW g \in Callers, Lock(g) \/ Poll(g) \/ ReadFrame(g) \/ Close(g)
        PROVE  [Contract!Next]_(Contract!vars)
    BY <1>4, LockAndCloseRefine, PollRefines, ReadFrameRefines
  <1> QED
    BY <1>1, <1>2, <1>3, <1>4 DEF Next, Desktop

\* The capturer keeps the promise of the interface, however pointer updates and
\* images are merged into one frame, whichever call into DXGI fails and whatever
\* format the desktop has: only an image that a failed read consumed may go
\* unseen, and only a deadline too short for one look for a frame ends a call
\* although there is one.
THEOREM Implements == Spec => ContractSpec
  <1>1. Init => Contract!Init
    <2> SUFFICES ASSUME Init PROVE Contract!Init
      OBVIOUS
    <2>1. calls = [g \in Callers |-> "none"]
      BY CallOfPoint DEF Init, calls
    <2> QED
      BY <2>1 DEF Init, Contract!Init, Contract!NoResult, NoResult, calls
  <1> QED
    BY <1>1, StepRefines, NewestAlways, Inductive, PTL DEF Spec, ContractSpec, Contract!Spec

(***************************************************************************)
(* What the promise gives the callers together.                            *)
(***************************************************************************)
LEMMA ResultsStep ==
    ASSUME Contract!ResultsInv, [Contract!Next]_(Contract!vars)
    PROVE  Contract!ResultsInv' /\ Contract!InOrder /\ Contract!StaysClosed
  <1> DEFINE Good == Contract!ResultsInv' /\ Contract!InOrder /\ Contract!StaysClosed
  <1> USE DEF Contract!ResultsInv, Contract!InOrder, Contract!StaysClosed,
              Contract!Images, Contract!Kinds, Contract!NoResult, Contract!Leave
  <1>1. CASE Contract!Publish \/ Contract!TearDown \/ UNCHANGED Contract!vars
    BY <1>1 DEF Contract!Publish, Contract!TearDown, Contract!vars
  <1>2. ASSUME NEW g \in Callers, Contract!Enter(g, "Capture") \/ Contract!Enter(g, "Close")
        PROVE  Good
    <2>1. /\ ret' = [ret EXCEPT ![g] = [kind |-> "none", seq |-> 0]]
          /\ start' \in [Callers -> Nat]
      BY <1>2 DEF Contract!Enter
    <2> QED
      BY <1>2, <2>1 DEF Contract!Enter
  <1>3. ASSUME NEW g \in Callers, Contract!Fresh(g) PROVE Good
    <2>1. lastImage' \in Nat /\ lastImage' > lastImage
      BY <1>3 DEF Contract!Fresh
    <2>2. ret' = [ret EXCEPT ![g] = [kind |-> "fresh", seq |-> lastImage']]
      BY <1>3 DEF Contract!Fresh
    <2> QED
      BY <1>3, <2>1, <2>2 DEF Contract!Fresh
  <1>4. ASSUME NEW g \in Callers, Contract!Repeated(g) PROVE Good
    BY <1>4 DEF Contract!Repeated
  <1>5. ASSUME NEW g \in Callers, Contract!TimedOut(g) PROVE Good
    BY <1>5 DEF Contract!TimedOut
  <1>6. ASSUME NEW g \in Callers, Contract!Fail(g) PROVE Good
    BY <1>6 DEF Contract!Fail
  <1>7. ASSUME NEW g \in Callers, Contract!CloseReturns(g) PROVE Good
    BY <1>7 DEF Contract!CloseReturns
  <1> QED
    BY <1>1, <1>2, <1>3, <1>4, <1>5, <1>6, <1>7 DEF Contract!Next

LEMMA ResultsAlways == ContractSpec => []Contract!ResultsInv
  <1>1. Contract!Init => Contract!ResultsInv
    BY DEF Contract!Init, Contract!ResultsInv, Contract!NoResult, Contract!Images,
           Contract!Kinds
  <1>2. Contract!ResultsInv /\ [Contract!Next]_(Contract!vars) => Contract!ResultsInv'
    BY ResultsStep
  <1> QED
    BY <1>1, <1>2, PTL DEF ContractSpec, Contract!Spec

\* The images that the callers get, all of them together, never go back: one
\* caller's Capture returns nothing older than what another has already.
THEOREM ImagesInOrder == Spec => Contract!ResultsInOrder
  <1>1. Contract!ResultsInv /\ [Contract!Next]_(Contract!vars)
            => [Contract!InOrder]_(Contract!vars)
    BY ResultsStep
  <1> QED
    BY <1>1, Implements, ResultsAlways, PTL
    DEF ContractSpec, Contract!Spec, Contract!ResultsInOrder

\* After a Close returned to anybody nobody gets an image or waits for one.
THEOREM ClosedIsFinal == Spec => Contract!ClosedForEver
  <1>1. Contract!ResultsInv /\ [Contract!Next]_(Contract!vars)
            => [Contract!StaysClosed]_(Contract!vars)
    BY ResultsStep
  <1> QED
    BY <1>1, Implements, ResultsAlways, PTL
    DEF ContractSpec, Contract!Spec, Contract!ClosedForEver

(***************************************************************************)
(* Without failures nothing is missed.  A failure is a call into DXGI that *)
(* fails but for a lost duplication, a format that readFrame does not      *)
(* convert, or a deadline that passes before AcquireNextFrame was called   *)
(* once.                                                                   *)
(***************************************************************************)
Reliable == Failures = FALSE /\ Prompt = TRUE /\ Supported = Descs

NoneMissed == missed = 0

\* The contract the PipeWire and the ScreenCaptureKit capturer are held to.
Strict == INSTANCE CaptureContract WITH
    Hasty <- FALSE,
    missed <- 0,
    avail <- presented,
    last  <- lastImage,
    open  <- duplication,
    call  <- calls

LEMMA NoMisses ==
    ASSUME Reliable, IInv, NEW g \in Callers
    PROVE  ~GetTextureFails(g) /\ ~CreateStagingFails(g) /\ ~ConvertFails(g)
  <1>1. pc[g] = "copy" => held.desc \in Supported
    <2>1. pc[g] = "copy" => held \in Frames
      BY ReaderFacts, PointFacts
    <2> QED
      BY <2>1 DEF Frames, Reliable
  <1> QED
    BY <1>1 DEF GetTextureFails, CreateStagingFails, ConvertFails, Reliable

\* As long as no read fails, no image is lost.
THEOREM NothingIsMissed ==
    ASSUME Reliable
    PROVE  Spec => []NoneMissed
  <1>1. Init => NoneMissed
    BY DEF Init, NoneMissed
  <1>2. IInv /\ NoneMissed /\ [Next]_vars => NoneMissed'
    <2> SUFFICES ASSUME IInv, [Next]_vars PROVE missed' = missed
      BY DEF NoneMissed
    <2>1. CASE Desktop \/ UNCHANGED vars
      BY <2>1 DEF Desktop, Present, MovePointer, LoseAccess, vars, desktop
    <2>2. ASSUME NEW g \in Callers,
                 CallCapture(g) \/ CallClose(g) \/ Lock(g) \/ Poll(g) \/ Close(g)
          PROVE  missed' = missed
      BY <2>2 DEF CallCapture, CallClose, Lock, LockCapture, NotInitialized, LockClose,
                  Poll, AcquireTimesOut, DeadlinePassed, AcquireFails, Acquire, Empty,
                  Close, ReleaseObjects, CloseReturns, desktop
    <2>3. ASSUME NEW g \in Callers, ReadFrame(g) PROVE missed' = missed
      BY <2>3, NoMisses DEF ReadFrame, GetTexture, KeepStaging, CreateStaging, Convert, desktop
    <2> QED
      BY <2>1, <2>2, <2>3 DEF Next
  <1> QED
    BY <1>1, <1>2, Inductive, PTL DEF Spec

\* A step of the contract that misses nothing is one of the strict contract.
LEMMA StrictStep ==
    ASSUME Reliable, NoneMissed, NoneMissed', [Contract!Next]_(Contract!vars)
    PROVE  [Strict!Next]_(Strict!vars)
  <1> USE DEF calls, NoneMissed
  <1>1. CASE UNCHANGED Contract!vars
    BY <1>1 DEF Contract!vars, Strict!vars
  <1>2. CASE Contract!Publish
    BY <1>2 DEF Contract!Publish, Strict!Publish, Strict!Next
  <1>3. CASE Contract!TearDown
    BY <1>3 DEF Contract!TearDown, Strict!TearDown, Strict!Next
  <1>4. ASSUME NEW g \in Callers, Contract!Enter(g, "Capture") \/ Contract!Enter(g, "Close")
        PROVE  Strict!Next
    BY <1>4
    DEF Contract!Enter, Strict!Enter, Contract!NoResult, Strict!NoResult, Strict!Next
  <1>5. ASSUME NEW g \in Callers, Contract!Fresh(g) PROVE Strict!Fresh(g)
    BY <1>5 DEF Contract!Fresh, Strict!Fresh, Contract!Leave, Strict!Leave
  <1>6. ASSUME NEW g \in Callers, Contract!Repeated(g) PROVE Strict!Repeated(g)
    BY <1>6 DEF Contract!Repeated, Strict!Repeated, Contract!NothingNew, Strict!NothingNew,
                Contract!Leave, Strict!Leave
  <1>7. ASSUME NEW g \in Callers, Contract!TimedOut(g) PROVE Strict!TimedOut(g)
    BY <1>7 DEF Contract!TimedOut, Strict!TimedOut, Contract!NothingNew, Strict!NothingNew,
                Contract!Leave, Strict!Leave, Reliable
  <1>8. ASSUME NEW g \in Callers, Contract!Fail(g) PROVE Strict!Fail(g)
    BY <1>8 DEF Contract!Fail, Strict!Fail, Contract!Leave, Strict!Leave
  <1>9. ASSUME NEW g \in Callers, Contract!CloseReturns(g) PROVE Strict!CloseReturns(g)
    BY <1>9 DEF Contract!CloseReturns, Strict!CloseReturns, Contract!Leave, Strict!Leave
  <1> QED
    BY <1>1, <1>2, <1>3, <1>4, <1>5, <1>6, <1>7, <1>8, <1>9 DEF Contract!Next, Strict!Next

\* When no call into DXGI fails but for a lost duplication, every format is one
\* that readFrame converts and no deadline passes before the first acquire, the
\* capturer keeps the whole promise, as the streaming capturers do.
THEOREM ImplementsStrictly ==
    ASSUME Reliable
    PROVE  Spec => Strict!Spec
  <1>1. Contract!Init => Strict!Init
    BY DEF Contract!Init, Strict!Init, Contract!NoResult, Strict!NoResult, calls
  <1>2. NoneMissed /\ NoneMissed' /\ [Contract!Next]_(Contract!vars)
            => [Strict!Next]_(Strict!vars)
    BY StrictStep
  <1>3. Spec => []NoneMissed
    BY NothingIsMissed
  <1> QED
    BY <1>1, <1>2, <1>3, Implements, PTL
    DEF ContractSpec, Contract!Spec, Strict!Spec
\* A step after which a caller holds the last image again follows a look at the
\* output that found no image.
LEMMA RepeatsTheNewest ==
    ASSUME IInv, NewestInv, [Next]_vars, NEW g \in Callers,
           ret[g].kind = "none", ret'[g].kind = "repeated"
    PROVE  start[g] <= lastImage \/ start[g] <= missed
  <1>1. CASE Desktop \/ UNCHANGED vars
    BY <1>1 DEF Desktop, Present, MovePointer, LoseAccess, vars, callVars
  <1>2. ASSUME NEW h \in Callers, NEW kind, NEW n, Return(h, kind, n)
        PROVE  h = g /\ kind = "repeated"
    BY <1>2 DEF Return, IInv, Typed, TypeOK
  <1>3. ASSUME NEW h \in Callers, CallCapture(h) \/ CallClose(h) PROVE FALSE
    BY <1>3 DEF CallCapture, CallClose, NoResult, IInv, Typed, TypeOK
  <1>4. ASSUME NEW h \in Callers, Lock(h) \/ Close(h) PROVE FALSE
    BY <1>2, <1>4 DEF Lock, LockCapture, NotInitialized, LockClose, Close, ReleaseObjects,
                      CloseReturns
  <1>5. ASSUME NEW h \in Callers, ReadFrame(h) PROVE FALSE
    BY <1>2, <1>5 DEF ReadFrame, GetTexture, GetTextureFails, KeepStaging, CreateStaging,
                      CreateStagingFails, Convert, ConvertFails, Miss
  <1>6. ASSUME NEW h \in Callers, Poll(h)
        PROVE  start[g] <= lastImage \/ start[g] <= missed
    <2>1. CASE AcquireTimesOut(h)
      <3>1. h = g
        BY <1>2, <2>1 DEF AcquireTimesOut
      <3> QED
        BY <2>1, <3>1, WaitingFacts DEF AcquireTimesOut, Pending
    <2>2. CASE Empty(h)
      <3>1. h = g
        BY <1>2, <2>2 DEF Empty
      <3> QED
        BY <2>2, <3>1, ReaderNewest, PointFacts DEF Empty
    <2>3. CASE DeadlinePassed(h) \/ AcquireFails(h) \/ Acquire(h)
      BY <1>2, <2>3 DEF DeadlinePassed, AcquireFails, Acquire
    <2> QED
      BY <1>6, <2>1, <2>2, <2>3 DEF Poll
  <1> QED
    BY <1>1, <1>3, <1>4, <1>5, <1>6 DEF Next

\* When no read fails, a capture reports a repetition only if no image arrived
\* before the call: what DxgiFailedRead finds needs a failed read.
THEOREM OnlyAFailedReadHidesAnImage ==
    ASSUME Reliable
    PROVE  Spec => RepeatedMeansNoNewFrame
  <1>1. ASSUME IInv, NewestInv, NoneMissed, [Next]_vars, NEW g \in Callers,
               ret[g].kind = "none", ret'[g].kind = "repeated"
        PROVE  lastImage >= start[g]
    <2>1. /\ start[g] \in Nat /\ lastImage \in Nat
          /\ start[g] <= lastImage \/ start[g] <= 0
      BY <1>1, RepeatsTheNewest DEF NoneMissed, IInv, Typed, TypeOK
    <2> QED
      BY <2>1
  <1>2. IInv /\ NewestInv /\ NoneMissed /\ [Next]_vars
            => [\A g \in Callers :
                  ret[g].kind = "none" /\ ret'[g].kind = "repeated"
                      => lastImage >= start[g]]_vars
    BY <1>1
  <1> QED
    BY <1>2, Inductive, NewestAlways, NothingIsMissed, PTL
    DEF Spec, RepeatedMeansNoNewFrame
=============================================================================
