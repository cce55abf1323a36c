--------------------------- MODULE X11Capture_proofs ---------------------------
(***************************************************************************)
(* Proofs about X11Capture, for every set of callers, any number of rows   *)
(* and any number of changes of the screen.                                *)
(***************************************************************************)
EXTENDS X11Capture, TLAPS

LockInv ==
    /\ \A g \in Callers : g \in mu <=> pc[g] \in InMu
    /\ \A g, h \in mu : g = h

\* Where the capturer and its connection are, and who can be inside.
StageInv ==
    /\ stage \in {"new", "connected", "failed"} => \A g \in Callers : pc[g] = "idle"
    /\ stage = "new" => conn = "none"
    /\ stage \in {"connected", "open"} => conn = "open"
    /\ stage = "closed" => conn = "closed"
    /\ stage = "failed" => conn # "open"
    /\ \A g \in Callers : pc[g] \in {"reply", "convert"} => conn = "open"

\* The rows converted so far are of the reply, which is no older than the call.
RowsInv ==
    \A g \in Callers :
       /\ start[g] <= screen
       /\ pc[g] = "convert" =>
             /\ reply[g] \in start[g] .. screen
             /\ \A r \in 1 .. row[g] : image[r] = reply[g]

IInv == TypeOK /\ LockInv /\ StageInv /\ RowsInv

Kinds == {"none", "fresh", "error", "panic", "closed"}
Results == [kind : Kinds, shown : SUBSET (0 .. MaxVersions), start : 0 .. MaxVersions]

Points == {"idle", "capture", "close"} \cup InMu

LEMMA PointFacts ==
    /\ Points = {"idle", "capture", "close", "request", "reply", "convert"}
    /\ InMu = {"request", "reply", "convert"}
    /\ Rows \in Nat \ {0} /\ MaxVersions \in Nat \ {0}
  BY InputAssumption DEF Points, InMu

LEMMA InitIInv == Init => IInv
  <1> SUFFICES ASSUME Init PROVE IInv
    OBVIOUS
  <1>1. TypeOK
    <2>1. screen \in 1 .. MaxVersions /\ 0 \in 0 .. MaxVersions /\ 0 \in 0 .. Rows
      BY PointFacts DEF Init
    <2>2. NoResult \in Results
      BY <2>1 DEF NoResult, Results, Kinds
    <2>3. image \in [1 .. Rows -> 0 .. MaxVersions] /\ start \in [Callers -> 0 .. MaxVersions]
      BY <2>1 DEF Init
    <2>4. reply \in [Callers -> 0 .. MaxVersions] /\ row \in [Callers -> 0 .. Rows]
      BY <2>1 DEF Init, NoReply
    <2>5. ret \in [Callers -> Results]
      BY <2>2 DEF Init
    <2>6. pc \in [Callers -> Points] /\ supported \in BOOLEAN
      BY PointFacts, InputAssumption DEF Init
    <2> QED
      BY <2>1, <2>3, <2>4, <2>5, <2>6 DEF Init, TypeOK, Points, Results, Kinds
  <1>2. \A g \in Callers : pc[g] = "idle" /\ start[g] = 0
    BY DEF Init
  <1>3. LockInv /\ StageInv /\ RowsInv
    BY <1>2, PointFacts DEF Init, LockInv, StageInv, RowsInv
  <1> QED
    BY <1>1, <1>3 DEF IInv

LEMMA GotoFacts ==
    ASSUME TypeOK, NEW g \in Callers, NEW point \in Points, Goto(g, point)
    PROVE  /\ pc' \in [Callers -> Points]
           /\ \A h \in Callers : pc'[h] = IF h = g THEN point ELSE pc[h]
  BY DEF TypeOK, Goto, Points

\* What a return shows, and that it disturbs no other caller.
LEMMA ReturnFacts ==
    ASSUME TypeOK, NEW g \in Callers, NEW kind \in Kinds, Return(g, kind)
    PROVE  /\ pc' \in [Callers -> Points]
           /\ \A h \in Callers : pc'[h] = IF h = g THEN "idle" ELSE pc[h]
           /\ start' \in [Callers -> 0 .. MaxVersions]
           /\ \A h \in Callers : start'[h] = IF h = g THEN 0 ELSE start[h]
           /\ ret' \in [Callers -> Results]
           /\ \A h \in Callers \ {g} : ret'[h] = ret[h]
           /\ ret'[g] = [kind |-> kind, shown |-> { image[r] : r \in 1 .. Rows },
                         start |-> start[g]]
           /\ mu' = mu \ {g} /\ mu' \subseteq Callers
  <1> DEFINE result == [kind |-> kind, shown |-> { image[r] : r \in 1 .. Rows },
                        start |-> start[g]]
  <1>1. result \in Results
    <2>1. { image[r] : r \in 1 .. Rows } \subseteq 0 .. MaxVersions
      BY DEF TypeOK
    <2>2. start[g] \in 0 .. MaxVersions
      BY DEF TypeOK
    <2> QED
      BY <2>1, <2>2 DEF Results
  <1>2. ret \in [Callers -> Results] /\ ret' = [ret EXCEPT ![g] = result]
    BY DEF TypeOK, Return, Results, Kinds
  <1> HIDE DEF result
  <1>3. ret' \in [Callers -> Results] /\ ret'[g] = result
        /\ \A h \in Callers \ {g} : ret'[h] = ret[h]
    BY <1>1, <1>2
  <1>4. start' \in [Callers -> 0 .. MaxVersions]
        /\ \A h \in Callers : start'[h] = IF h = g THEN 0 ELSE start[h]
    BY PointFacts DEF TypeOK, Return
  <1>5. mu' = mu \ {g} /\ mu' \subseteq Callers
    BY DEF TypeOK, Return, Unlock
  <1>6. Goto(g, "idle") /\ "idle" \in Points
    BY PointFacts DEF Return
  <1> QED
    BY <1>3, <1>4, <1>5, <1>6, GotoFacts DEF result

LEMMA LockMoves ==
    ASSUME TypeOK, LockInv, NEW g \in Callers, NEW point \in Points, Goto(g, point),
           \/ mu = {} /\ mu' = {g} /\ point \in InMu
           \/ mu' = mu \ {g} /\ point \notin InMu
           \/ mu' = mu /\ (pc[g] \in InMu <=> point \in InMu)
    PROVE  LockInv'
  BY GotoFacts DEF LockInv

LEMMA Alone ==
    ASSUME LockInv, NEW g \in Callers, pc[g] \in InMu \/ mu = {}
    PROVE  \A h \in Callers \ {g} : pc[h] \notin InMu
  BY DEF LockInv

\* Steps that move no caller: the server, and the constructor.
LEMMA OutsideStep ==
    ASSUME IInv, ScreenChanges \/ ServerGoes \/ Construct
    PROVE  IInv'
  <1> USE DEF IInv, goVars, callVars
  <1>1. UNCHANGED <<supported, mu, image, reply, row, pc, start, ret>>
    BY DEF ScreenChanges, ServerGoes, Construct, ConnectFails, Connect, NoScreens, Constructed
  <1>2. screen' \in 1 .. MaxVersions /\ screen <= screen' /\ screen \in Nat
    BY PointFacts
    DEF ScreenChanges, ServerGoes, Construct, ConnectFails, Connect, NoScreens, Constructed,
        TypeOK
  <1>3. /\ server' \in BOOLEAN /\ conn' \in {"none", "open", "closed"}
        /\ stage' \in {"new", "connected", "open", "closed", "failed"}
    BY DEF ScreenChanges, ServerGoes, Construct, ConnectFails, Connect, NoScreens, Constructed,
           TypeOK
  <1>4. TypeOK'
    BY <1>1, <1>2, <1>3 DEF TypeOK
  <1>5. LockInv'
    BY <1>1 DEF LockInv
  <1>6. RowsInv'
    <2> SUFFICES ASSUME NEW g \in Callers
                 PROVE  /\ start[g] <= screen'
                        /\ pc[g] = "convert" =>
                              /\ reply[g] \in start[g] .. screen'
                              /\ \A r \in 1 .. row[g] : image[r] = reply[g]
      BY <1>1 DEF RowsInv
    <2>1. start[g] \in Nat /\ screen' \in Nat
      BY <1>2 DEF TypeOK
    <2> QED
      BY <1>2, <2>1 DEF RowsInv
  <1>7. StageInv'
    <2>1. CASE ScreenChanges \/ ServerGoes
      BY <2>1 DEF ScreenChanges, ServerGoes, StageInv
    <2>2. CASE Construct
      BY <1>1, <2>2 DEF Construct, ConnectFails, Connect, NoScreens, Constructed, StageInv
    <2> QED
      BY <2>1, <2>2
  <1> QED
    BY <1>4, <1>5, <1>6, <1>7

LEMMA EnterStep ==
    ASSUME IInv, NEW g \in Callers, CallCapture(g) \/ CallClose(g)
    PROVE  IInv'
  <1> USE DEF IInv, goVars
  <1>1. UNCHANGED <<screen, server, stage, conn, supported, mu, image, reply, row>>
    BY DEF CallCapture, CallClose
  <1>2. PICK point \in {"capture", "close"} : Goto(g, point)
    BY DEF CallCapture, CallClose
  <1>3. pc[g] = "idle" /\ stage \in {"open", "closed"}
    BY DEF CallCapture, CallClose
  <1>4. /\ pc' \in [Callers -> Points]
        /\ \A h \in Callers : pc'[h] = IF h = g THEN point ELSE pc[h]
    BY <1>2, GotoFacts, PointFacts
  <1>5. /\ start' \in [Callers -> 0 .. MaxVersions]
        /\ \A h \in Callers : h # g => start'[h] = start[h]
        /\ start'[g] = start[g] \/ start'[g] = screen
    <2>1. screen \in 0 .. MaxVersions
      BY PointFacts DEF TypeOK
    <2> QED
      BY <2>1 DEF CallCapture, CallClose, TypeOK
  <1>6. ret' \in [Callers -> Results]
    <2>1. NoResult \in Results
      BY PointFacts DEF NoResult, Results, Kinds
    <2>2. ret' = [ret EXCEPT ![g] = NoResult] /\ ret \in [Callers -> Results]
      BY DEF CallCapture, CallClose, TypeOK, Results, Kinds
    <2> QED
      BY <2>1, <2>2
  <1>7. TypeOK'
    BY <1>1, <1>4, <1>5, <1>6 DEF TypeOK, Points, Results, Kinds
  <1>8. LockInv'
    BY <1>1, <1>2, <1>3, LockMoves, PointFacts
  <1>9. StageInv'
    BY <1>1, <1>3, <1>4 DEF StageInv
  <1>10. RowsInv'
    <2>1. \A h \in Callers : start'[h] <= screen
      <3>1. screen \in Nat
        BY PointFacts DEF TypeOK
      <3>2. screen <= screen
        BY <3>1
      <3> QED
        BY <1>5, <3>2 DEF RowsInv
    <2>2. \A h \in Callers : pc'[h] = "convert" => pc[h] = "convert" /\ start'[h] = start[h]
      BY <1>4, <1>5
    <2> QED
      BY <1>1, <2>1, <2>2 DEF RowsInv
  <1> QED
    BY <1>7, <1>8, <1>9, <1>10

LEMMA LockStep ==
    ASSUME IInv, NEW g \in Callers, LockCapture(g) \/ Request(g)
    PROVE  IInv'
  <1> USE DEF IInv, goVars, callVars
  <1>1. UNCHANGED <<screen, server, stage, conn, supported, image, reply, row, start, ret>>
    BY DEF LockCapture, Request
  <1>2. PICK point \in {"request", "reply"} :
            Goto(g, point) /\ (point = "reply" => conn = "open")
    BY DEF LockCapture, Request
  <1>3. pc[g] # "idle" /\ ((mu = {} /\ mu' = {g}) \/ (mu' = mu /\ pc[g] \in InMu))
    BY PointFacts DEF LockCapture, Request
  <1>4. /\ pc' \in [Callers -> Points]
        /\ \A h \in Callers : pc'[h] = IF h = g THEN point ELSE pc[h]
    BY <1>2, GotoFacts, PointFacts
  <1>5. TypeOK'
    BY <1>1, <1>3, <1>4 DEF TypeOK, Points
  <1>6. LockInv'
    BY <1>2, <1>3, LockMoves, PointFacts
  <1>7. StageInv'
    BY <1>1, <1>2, <1>3, <1>4 DEF StageInv
  <1>8. RowsInv'
    BY <1>1, <1>4 DEF RowsInv
  <1> QED
    BY <1>5, <1>6, <1>7, <1>8

\* A method returns: its caller is idle again, and what it shared with others
\* it has not touched since.
LEMMA ReturnStep ==
    ASSUME IInv, NEW g \in Callers, NEW kind \in Kinds, Return(g, kind), pc[g] # "idle",
           pc[g] \in InMu \/ mu = {},
           UNCHANGED <<screen, server, supported, image>>,
           \/ UNCHANGED <<stage, conn>>
           \/ stage' = "closed" /\ conn' = "closed" /\ mu = {},
           reply' \in [Callers -> 0 .. MaxVersions], row' \in [Callers -> 0 .. Rows],
           \A h \in Callers \ {g} : reply'[h] = reply[h] /\ row'[h] = row[h]
    PROVE  IInv'
  <1> USE DEF IInv
  <1>1. /\ pc' \in [Callers -> Points]
        /\ \A h \in Callers : pc'[h] = IF h = g THEN "idle" ELSE pc[h]
        /\ start' \in [Callers -> 0 .. MaxVersions]
        /\ \A h \in Callers : start'[h] = IF h = g THEN 0 ELSE start[h]
        /\ ret' \in [Callers -> Results]
        /\ mu' = mu \ {g} /\ mu' \subseteq Callers
    BY ReturnFacts
  <1>2. TypeOK'
    BY <1>1 DEF TypeOK, Points, Results, Kinds
  <1>3. LockInv'
    <2>1. Goto(g, "idle") /\ "idle" \in Points /\ "idle" \notin InMu
      BY PointFacts DEF Return
    <2> QED
      BY <1>1, <2>1, LockMoves
  <1>4. \A h \in Callers \ {g} : pc[h] \notin InMu
    BY Alone
  <1>5. StageInv'
    <2>1. stage \in {"open", "closed"}
      BY DEF StageInv, TypeOK
    <2>2. \A h \in Callers : pc'[h] \notin {"reply", "convert"}
      BY <1>1, <1>4, PointFacts
    <2> QED
      BY <2>1, <2>2 DEF StageInv
  <1>6. RowsInv'
    <2>1. \A h \in Callers : pc'[h] # "convert"
      BY <1>1, <1>4, PointFacts
    <2>2. \A h \in Callers : start'[h] <= screen'
      <3>1. 0 <= screen
        BY PointFacts DEF TypeOK
      <3> QED
        BY <1>1, <3>1 DEF RowsInv
    <2> QED
      BY <2>1, <2>2 DEF RowsInv
  <1> QED
    BY <1>2, <1>3, <1>5, <1>6

LEMMA ReturningStep ==
    ASSUME IInv, NEW g \in Callers,
           Panic(g) \/ ReplyFails(g) \/ ConvertFails(g) \/ Converted(g) \/ Close(g)
    PROVE  IInv'
  <1> USE DEF callVars
  <1>1. PICK kind \in Kinds : Return(g, kind)
    BY DEF Panic, ReplyFails, ConvertFails, Converted, Close, Kinds
  <1>2. pc[g] # "idle" /\ (pc[g] \in InMu \/ mu = {})
    BY PointFacts DEF Panic, ReplyFails, ConvertFails, Converted, Close
  <1>3. /\ UNCHANGED <<screen, server, supported, image>>
        /\ \/ UNCHANGED <<stage, conn>>
           \/ stage' = "closed" /\ conn' = "closed" /\ mu = {}
    BY DEF Panic, ReplyFails, ConvertFails, Converted, Close
  <1>4. /\ reply' = reply \/ reply' = [reply EXCEPT ![g] = 0]
        /\ row' = row \/ row' = [row EXCEPT ![g] = 0]
    BY DEF Panic, ReplyFails, ConvertFails, Converted, Close
  <1>5. /\ reply' \in [Callers -> 0 .. MaxVersions] /\ row' \in [Callers -> 0 .. Rows]
        /\ \A h \in Callers \ {g} : reply'[h] = reply[h] /\ row'[h] = row[h]
    <2>1. 0 \in 0 .. MaxVersions /\ 0 \in 0 .. Rows
      BY PointFacts
    <2>2. reply \in [Callers -> 0 .. MaxVersions] /\ row \in [Callers -> 0 .. Rows]
      BY DEF IInv, TypeOK
    <2>3. reply' \in [Callers -> 0 .. MaxVersions]
          /\ \A h \in Callers \ {g} : reply'[h] = reply[h]
      BY <1>4, <2>1, <2>2
    <2>4. row' \in [Callers -> 0 .. Rows] /\ \A h \in Callers \ {g} : row'[h] = row[h]
      BY <1>4, <2>1, <2>2
    <2> QED
      BY <2>3, <2>4
  <1> QED
    BY <1>1, <1>2, <1>3, <1>5, ReturnStep

LEMMA ReplyStep ==
    ASSUME IInv, NEW g \in Callers, Reply(g)
    PROVE  IInv'
  <1> USE DEF IInv, goVars, callVars
  <1>1. /\ UNCHANGED <<screen, server, stage, conn, supported, mu, image, start, ret>>
        /\ pc[g] = "reply" /\ Goto(g, "convert")
        /\ reply' = [reply EXCEPT ![g] = screen] /\ row' = [row EXCEPT ![g] = 0]
    BY DEF Reply
  <1>2. /\ pc' \in [Callers -> Points]
        /\ \A h \in Callers : pc'[h] = IF h = g THEN "convert" ELSE pc[h]
    BY <1>1, GotoFacts, PointFacts
  <1>3. screen \in 0 .. MaxVersions /\ 0 \in 0 .. Rows
    BY PointFacts DEF TypeOK
  <1>4. TypeOK'
    BY <1>1, <1>2, <1>3 DEF TypeOK, Points
  <1>5. LockInv'
    BY <1>1, LockMoves, PointFacts
  <1>6. StageInv'
    BY <1>1, <1>2 DEF StageInv
  <1>7. RowsInv'
    <2>1. /\ \A h \in Callers : reply'[h] = IF h = g THEN screen ELSE reply[h]
          /\ \A h \in Callers : row'[h] = IF h = g THEN 0 ELSE row[h]
      BY <1>1 DEF TypeOK
    <2>2. start[g] <= screen /\ start[g] \in Nat /\ screen \in Nat
      BY DEF RowsInv, TypeOK
    <2> QED
      BY <1>1, <1>2, <2>1, <2>2 DEF RowsInv
  <1> QED
    BY <1>4, <1>5, <1>6, <1>7

LEMMA ConvertRowStep ==
    ASSUME IInv, NEW g \in Callers, ConvertRow(g)
    PROVE  IInv'
  <1> USE DEF IInv, goVars, callVars
  <1>1. /\ UNCHANGED <<screen, server, stage, conn, supported, mu, pc, reply, start, ret>>
        /\ pc[g] = "convert" /\ row[g] < Rows
        /\ row' = [row EXCEPT ![g] = row[g] + 1]
        /\ image' = [image EXCEPT ![row[g] + 1] = reply[g]]
    BY DEF ConvertRow
  <1>2. row[g] \in 0 .. Rows /\ row[g] + 1 \in 1 .. Rows /\ row[g] + 1 \in 0 .. Rows
        /\ reply[g] \in 0 .. MaxVersions
    BY <1>1, PointFacts DEF TypeOK
  <1>3. row' \in [Callers -> 0 .. Rows] /\ image' \in [1 .. Rows -> 0 .. MaxVersions]
    BY <1>1, <1>2 DEF TypeOK
  <1>4. TypeOK'
    BY <1>1, <1>3 DEF TypeOK
  <1>5. LockInv' /\ StageInv'
    BY <1>1 DEF LockInv, StageInv
  <1>6. RowsInv'
    <2>1. \A h \in Callers \ {g} : pc[h] # "convert"
      BY <1>1, Alone, PointFacts
    <2>2. \A r \in 1 .. row'[g] : image'[r] = reply[g]
      <3> SUFFICES ASSUME NEW r \in 1 .. row[g] + 1 PROVE image'[r] = reply[g]
        BY <1>1 DEF TypeOK
      <3>1. r \in 1 .. Rows
        BY <1>2, PointFacts
      <3>2. r = row[g] + 1 \/ r \in 1 .. row[g]
        BY <1>2, PointFacts
      <3> QED
        BY <1>1, <3>1, <3>2 DEF RowsInv, TypeOK
    <2> QED
      BY <1>1, <2>1, <2>2 DEF RowsInv
  <1> QED
    BY <1>4, <1>5, <1>6

LEMMA NextIInv == IInv /\ [Next]_vars => IInv'
  <1> SUFFICES ASSUME IInv, [Next]_vars PROVE IInv'
    OBVIOUS
  <1>1. CASE ScreenChanges \/ ServerGoes \/ Construct
    BY <1>1, OutsideStep
  <1>2. ASSUME NEW g \in Callers,
               CallCapture(g) \/ CallClose(g) \/ LockCapture(g) \/ Proceed(g) \/ Answer(g)
                  \/ Close(g)
        PROVE  IInv'
    BY <1>2, EnterStep, LockStep, ReturningStep, ReplyStep, ConvertRowStep
    DEF Proceed, Answer
  <1>3. CASE UNCHANGED vars
    BY <1>3 DEF vars, goVars, callVars, IInv, TypeOK, LockInv, StageInv, RowsInv
  <1> QED
    BY <1>1, <1>2, <1>3 DEF Next

LEMMA Inductive == Spec => []IInv
  BY InitIInv, NextIInv, PTL DEF Spec

\* A failed constructor leaves no connection, and Close never closes one that
\* a request is waiting on.
THEOREM ConnectionIsReleased == Spec => []ConnectionReleased
  <1>1. IInv => ConnectionReleased
    BY DEF IInv, StageInv, ConnectionReleased
  <1> QED
    BY <1>1, Inductive, PTL

\* The image of a call shows one version, and shows all of it.
LEMMA ConvertedShows ==
    ASSUME IInv, NEW g \in Callers, Converted(g)
    PROVE  \E v \in start[g] .. screen : { image[r] : r \in 1 .. Rows } = {v}
  <1>1. reply[g] \in start[g] .. screen /\ \A r \in 1 .. Rows : image[r] = reply[g]
    BY DEF Converted, IInv, RowsInv
  <1>2. 1 \in 1 .. Rows
    BY PointFacts
  <1>3. { image[r] : r \in 1 .. Rows } = {reply[g]}
    BY <1>1, <1>2
  <1> QED
    BY <1>1, <1>3

LEMMA NextWhole == IInv /\ WholeAndCurrent /\ [Next]_vars => WholeAndCurrent'
  <1> SUFFICES ASSUME IInv, WholeAndCurrent, [Next]_vars, NEW h \in Callers,
                      ret'[h].kind = "fresh"
               PROVE  \E v \in ret'[h].start .. screen' : ret'[h].shown = {v}
    BY DEF WholeAndCurrent
  <1> USE DEF goVars, callVars
  <1>0. TypeOK /\ ret \in [Callers -> Results] /\ screen \in Nat
    BY DEF IInv, TypeOK, Results, Kinds
  <1>1. ASSUME ret'[h] = ret[h], screen' \in Nat, screen <= screen'
        PROVE  \E v \in ret'[h].start .. screen' : ret'[h].shown = {v}
    <2>1. PICK v \in ret[h].start .. screen : ret[h].shown = {v}
      BY <1>1 DEF WholeAndCurrent
    <2>2. ret[h].start \in Nat
      BY <1>0 DEF Results
    <2> QED
      BY <1>0, <1>1, <2>1, <2>2
  <1>2. CASE ScreenChanges \/ ServerGoes \/ Construct \/ UNCHANGED vars
    <2>1. UNCHANGED ret /\ screen' \in {screen, screen + 1}
      BY <1>2
      DEF ScreenChanges, ServerGoes, Construct, ConnectFails, Connect, NoScreens, Constructed,
          vars
    <2> QED
      BY <1>0, <1>1, <2>1
  <1>3. ASSUME NEW g \in Callers,
               CallCapture(g) \/ CallClose(g) \/ LockCapture(g) \/ Request(g) \/ Reply(g)
                  \/ ConvertRow(g)
        PROVE  \E v \in ret'[h].start .. screen' : ret'[h].shown = {v}
    <2>1. /\ UNCHANGED screen
          /\ UNCHANGED ret \/ ret' = [ret EXCEPT ![g] = NoResult]
      BY <1>3 DEF CallCapture, CallClose, LockCapture, Request, Reply, ConvertRow
    <2>2. ret'[h] = ret[h] \/ ret'[h] = NoResult
      BY <1>0, <2>1
    <2>3. ret'[h] = ret[h]
      BY <2>2 DEF NoResult
    <2> QED
      BY <1>0, <1>1, <2>1, <2>3
  <1>4. ASSUME NEW g \in Callers, NEW kind \in Kinds, Return(g, kind), UNCHANGED screen,
               kind = "fresh" => Converted(g)
        PROVE  \E v \in ret'[h].start .. screen' : ret'[h].shown = {v}
    <2>1. CASE h # g
      <3>1. ret'[h] = ret[h]
        BY <1>0, <1>4, <2>1, ReturnFacts, Zenon
      <3>2. screen' \in Nat /\ screen <= screen'
        BY <1>0, <1>4
      <3> QED
        BY <1>1, <3>1, <3>2
    <2>2. CASE h = g
      <3>1. ret'[g] = [kind |-> kind, shown |-> { image[r] : r \in 1 .. Rows },
                       start |-> start[g]]
        BY <1>0, <1>4, ReturnFacts
      <3>2. kind = "fresh" /\ ret'[h].start = start[g]
            /\ ret'[h].shown = { image[r] : r \in 1 .. Rows }
        BY <2>2, <3>1
      <3>3. \E v \in start[g] .. screen : { image[r] : r \in 1 .. Rows } = {v}
        BY <1>4, <3>2, ConvertedShows
      <3> QED
        BY <1>4, <3>2, <3>3
    <2> QED
      BY <2>1, <2>2
  <1>5. ASSUME NEW g \in Callers,
               Panic(g) \/ ReplyFails(g) \/ ConvertFails(g) \/ Converted(g) \/ Close(g)
        PROVE  \E v \in ret'[h].start .. screen' : ret'[h].shown = {v}
    <2>1. \E kind \in Kinds : Return(g, kind) /\ (kind = "fresh" => Converted(g))
      BY <1>5 DEF Panic, ReplyFails, ConvertFails, Converted, Close, Kinds
    <2>2. UNCHANGED screen
      BY <1>5 DEF Panic, ReplyFails, ConvertFails, Converted, Close
    <2> QED
      BY <1>4, <2>1, <2>2
  <1> QED
    BY <1>2, <1>3, <1>5 DEF Next, Proceed, Answer

\* A Capture returns a whole image of one moment, and of none before the call.
THEOREM ImagesAreWhole == Spec => []WholeAndCurrent
  <1>1. Init => WholeAndCurrent
    BY DEF Init, WholeAndCurrent, NoResult
  <1> QED
    BY <1>1, NextWhole, Inductive, PTL DEF Spec
=============================================================================
