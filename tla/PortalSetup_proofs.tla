-------------------------- MODULE PortalSetup_proofs --------------------------
(***************************************************************************)
(* Proofs about PortalSetup, for any set of requested outputs and any      *)
(* number of offered streams.                                              *)
(***************************************************************************)
EXTENDS PortalSetup, SequenceTheorems, TLAPS

LEMMA PointFacts ==
    /\ Points = {"start", "call", "subscribe", "wait", "remote", "build", "run", "undo",
                 "closeSession", "closeConn", "done", "failed", "closed"}
    /\ Methods = {1, 2, 3}
    /\ Objects = {"memory", "loop", "lock", "context", "core", "stream", "thread"}
    /\ DOMAIN Undo = {"memory", "loop", "context", "core", "stream", "link"}
    /\ 1 \in 1 .. MaxStreams
  BY InputAssumption DEF Points, Methods, Objects, Undo

LEMMA AnswerFacts ==
    \A m \in Methods : Answers(m) \subseteq {"granted", "refused", "unnamed", "streamless"}
  BY DEF Answers, Methods

\* What each failed rung of pw_capture_new releases.
LEMMA UndoFacts ==
    /\ Undo["memory"] = <<>>
    /\ Undo["loop"] = <<"memory">>
    /\ Undo["context"] = <<"lock", "loop", "memory">>
    /\ Undo["core"] = <<"context", "lock", "loop", "memory">>
    /\ Undo["stream"] = <<"core", "context", "lock", "loop", "memory">>
    /\ Undo["link"] = <<"stream", "core", "context", "lock", "loop", "memory">>
    /\ \A o \in DOMAIN Undo : Undo[o] \in Seq(Objects)
  <1>1. /\ Undo["memory"] = <<>> /\ Undo["loop"] = <<"memory">>
        /\ Undo["context"] = <<"lock", "loop", "memory">>
    BY DEF Undo
  <1>2. /\ Undo["core"] = <<"context", "lock", "loop", "memory">>
        /\ Undo["stream"] = <<"core", "context", "lock", "loop", "memory">>
        /\ Undo["link"] = <<"stream", "core", "context", "lock", "loop", "memory">>
    BY DEF Undo
  <1>3. /\ <<>> \in Seq(Objects) /\ <<"memory">> \in Seq(Objects)
        /\ <<"lock", "loop", "memory">> \in Seq(Objects)
    BY PointFacts
  <1>4. /\ <<"context", "lock", "loop", "memory">> \in Seq(Objects)
        /\ <<"core", "context", "lock", "loop", "memory">> \in Seq(Objects)
        /\ <<"stream", "core", "context", "lock", "loop", "memory">> \in Seq(Objects)
    BY PointFacts
  <1>5. \A o \in DOMAIN Undo : o = "memory" \/ o = "loop" \/ o = "context" \/ o = "core"
                              \/ o = "stream" \/ o = "link"
    BY PointFacts
  <1>6. \A o \in DOMAIN Undo : Undo[o] \in Seq(Objects)
    BY <1>1, <1>2, <1>3, <1>4, <1>5, Zenon
  <1> QED
    BY <1>1, <1>2, <1>6

\* The ladder, rung by rung.
LEMMA RungFacts ==
    ASSUME NEW o, NextRung(o)
    PROVE  \/ o = "memory" /\ objects = {}
           \/ o = "loop" /\ objects = {"memory"}
           \/ o = "lock" /\ objects = {"memory", "loop"}
           \/ o = "context" /\ objects = {"memory", "loop", "lock"}
           \/ o = "core" /\ objects = {"memory", "loop", "lock", "context"}
           \/ o = "stream" /\ objects = {"memory", "loop", "lock", "context", "core"}
           \/ o = "link" /\ objects = {"memory", "loop", "lock", "context", "core", "stream"}
  <1>1. PICK k \in 1 .. 7 : Ladder[k] = o /\ objects = { Ladder[j] : j \in 1 .. k - 1 }
    BY DEF NextRung, Ladder
  <1>2. /\ Ladder[1] = "memory" /\ Ladder[2] = "loop" /\ Ladder[3] = "lock"
        /\ Ladder[4] = "context" /\ Ladder[5] = "core" /\ Ladder[6] = "stream"
        /\ Ladder[7] = "link"
    BY DEF Ladder
  <1>3. CASE k = 1
    BY <1>1, <1>2, <1>3
  <1>4. CASE k = 2
    BY <1>1, <1>2, <1>4
  <1>5. CASE k = 3
    <2>1. 1 .. k - 1 = {1, 2}
      BY <1>5
    <2> QED
      BY <1>1, <1>2, <1>5, <2>1
  <1>6. CASE k = 4
    <2>1. 1 .. k - 1 = {1, 2, 3}
      BY <1>6
    <2> QED
      BY <1>1, <1>2, <1>6, <2>1
  <1>7. CASE k = 5
    <2>1. 1 .. k - 1 = {1, 2, 3, 4}
      BY <1>7
    <2> QED
      BY <1>1, <1>2, <1>7, <2>1
  <1>8. CASE k = 6
    <2>1. 1 .. k - 1 = {1, 2, 3, 4, 5}
      BY <1>8
    <2> QED
      BY <1>1, <1>2, <1>8, <2>1
  <1>9. CASE k = 7
    <2>1. 1 .. k - 1 = {1, 2, 3, 4, 5, 6}
      BY <1>9
    <2> QED
      BY <1>1, <1>2, <1>9, <2>1
  <1>10. k = 1 \/ k = 2 \/ k = 3 \/ k = 4 \/ k = 5 \/ k = 6 \/ k = 7
    BY <1>1
  <1> QED
    BY <1>3, <1>4, <1>5, <1>6, <1>7, <1>8, <1>9, <1>10, Zenon

LEMMA InitTypes == Init => TypeOK
  <1> SUFFICES ASSUME Init PROVE TypeOK
    OBVIOUS
  <1>1. -1 \in -1 .. MaxStreams - 1
    BY InputAssumption
  <1>2. node \in -1 .. MaxStreams - 1 /\ todo \in Seq(Objects)
    BY <1>1 DEF Init
  <1> QED
    BY <1>2, PointFacts DEF Init, TypeOK

LEMMA OutsideTypes ==
    ASSUME TypeOK, Outside
    PROVE  TypeOK'
  <1> USE DEF goVars, native, portalVars
  <1>1. ASSUME NEW answer \in Answers(method), NEW n \in 1 .. MaxStreams, Respond(answer, n)
        PROVE  TypeOK'
    <2>1. [name |-> "Response", method |-> method, answer |-> answer, streams |-> n] \in Signals
      BY AnswerFacts DEF TypeOK, Signals
    <2>2. chan' \subseteq Signals
      BY <1>1, <2>1 DEF Respond, Deliver, TypeOK
    <2> QED
      BY <1>1, <2>2 DEF Respond, TypeOK
  <1>2. CASE SessionEnds
    <2>1. [name |-> "Closed"] \in Signals
      BY DEF Signals
    <2> QED
      BY <1>2, <2>1 DEF SessionEnds, Deliver, TypeOK
  <1>3. CASE BusBreaks
    BY <1>3 DEF BusBreaks, TypeOK
  <1> QED
    BY <1>1, <1>2, <1>3 DEF Outside

LEMMA HandshakeTypes ==
    ASSUME TypeOK, Handshake \/ TimerFires
    PROVE  TypeOK'
  <1> USE PointFacts DEF goVars, native, portalVars
  <1>1. CASE ConnectFails \/ Connect \/ CallReturns \/ Subscribe
    BY <1>1, Zenon DEF ConnectFails, Connect, CallReturns, Subscribe, TypeOK
  <1>2. CASE CallFails \/ TimerFires \/ OpenFails
    BY <1>2, Zenon DEF CallFails, TimerFires, OpenFails, Abandon, TypeOK
  <1>3. CASE OpenPipeWireRemote
    BY <1>3 DEF OpenPipeWireRemote, TypeOK
  <1>4. ASSUME NEW s \in chan, Ignore(s) \/ Refused(s)
        PROVE  TypeOK'
    BY <1>4, Zenon DEF Ignore, Refused, Abandon, TypeOK
  <1>5. ASSUME NEW s \in chan, NextRequest(s)
        PROVE  TypeOK'
    BY <1>5 DEF NextRequest, TypeOK
  <1>6. ASSUME NEW s \in chan, Started(s)
        PROVE  TypeOK'
    <2>1. s \in Signals /\ s.name = "Response"
      BY <1>6 DEF Started, Accepts, TypeOK
    <2>2. s.streams \in 1 .. MaxStreams
      BY <2>1 DEF Signals
    <2>3. node' \in -1 .. MaxStreams - 1
      BY <1>6, <2>2, InputAssumption DEF Started, Chosen, TypeOK
    <2> QED
      BY <1>6, <2>3 DEF Started, TypeOK
  <1> QED
    BY <1>1, <1>2, <1>3, <1>4, <1>5, <1>6 DEF Handshake

LEMMA NativeTypes ==
    ASSUME TypeOK, Build \/ Cleanup \/ Close
    PROVE  TypeOK'
  <1> USE PointFacts DEF goVars, native, portalVars
  <1>1. ASSUME NEW o, Obtain(o)
        PROVE  TypeOK'
    <2>1. objects' \subseteq Objects
      BY <1>1, RungFacts DEF Obtain, TypeOK
    <2> QED
      BY <1>1, <2>1 DEF Obtain, TypeOK
  <1>2. ASSUME NEW o, ObtainFails(o)
        PROVE  TypeOK'
    BY <1>2, UndoFacts DEF ObtainFails, TypeOK
  <1>3. ASSUME NEW started \in BOOLEAN, Run(started)
        PROVE  TypeOK'
    BY <1>3 DEF Run, TypeOK
  <1>4. CASE Close
    <2>1. <<"thread", "stream", "core", "context", "loop", "memory">> \in Seq(Objects)
      OBVIOUS
    <2> QED
      BY <1>4, <2>1 DEF Close, TypeOK
  <1>5. CASE Release
    <2>1. todo' \in Seq(Objects)
      BY <1>5, HeadTailProperties DEF Release, TypeOK
    <2> QED
      BY <1>5, <2>1 DEF Release, TypeOK
  <1>6. CASE Released \/ CloseSession \/ CloseSessionFails \/ CloseConn
    BY <1>6, Zenon DEF Released, CloseSession, CloseSessionFails, CloseConn, TypeOK
  <1> QED
    BY <1>1, <1>2, <1>3, <1>4, <1>5, <1>6 DEF Build, Cleanup

LEMMA NextTypes == TypeOK /\ [Next]_vars => TypeOK'
  <1> SUFFICES ASSUME TypeOK, [Next]_vars PROVE TypeOK'
    OBVIOUS
  <1>1. CASE UNCHANGED vars
    BY <1>1 DEF vars, goVars, native, portalVars, TypeOK
  <1> QED
    BY <1>1, OutsideTypes, HandshakeTypes, NativeTypes DEF Next, Step

LEMMA Types == Spec => []TypeOK
  BY InitTypes, NextTypes, PTL DEF Spec

(***************************************************************************)
(* Consent: what the portal has granted by the time of each step.          *)
(***************************************************************************)
ConsentInv ==
    /\ \A s \in chan : s.name = "Response" /\ s.answer = "granted" => s.method \in granted
    /\ 1 .. method - 1 \subseteq granted
    /\ pc \in {"remote", "build", "run", "done", "undo"} => granted = Methods
    /\ ConsentFirst

LEMMA ConsentOutside ==
    ASSUME TypeOK, ConsentInv, Outside
    PROVE  ConsentInv'
  <1> USE DEF goVars, native, portalVars
  <1>1. ASSUME NEW answer \in Answers(method), NEW n \in 1 .. MaxStreams, Respond(answer, n)
        PROVE  ConsentInv'
    <2>1. granted \subseteq granted' /\ granted' \subseteq Methods
      BY <1>1 DEF Respond, TypeOK
    <2>2. answer = "granted" => method \in granted'
      BY <1>1 DEF Respond
    <2>3. \A s \in chan' : s.name = "Response" /\ s.answer = "granted" => s.method \in granted'
      BY <1>1, <2>1, <2>2 DEF Respond, Deliver, ConsentInv
    <2>4. UNCHANGED <<pc, method, node, fd, objects, given>>
      BY <1>1 DEF Respond
    <2>5. granted = Methods => granted' = Methods
      BY <2>1
    <2>6. 1 .. method' - 1 \subseteq granted'
      BY <2>1, <2>4 DEF ConsentInv
    <2> QED
      BY <2>3, <2>4, <2>5, <2>6 DEF ConsentInv, ConsentFirst
  <1>2. CASE SessionEnds
    <2>1. \A s \in chan' : s.name = "Response" => s \in chan
      BY <1>2 DEF SessionEnds, Deliver
    <2> QED
      BY <1>2, <2>1 DEF SessionEnds, ConsentInv, ConsentFirst
  <1>3. CASE BusBreaks
    BY <1>3 DEF BusBreaks, ConsentInv, ConsentFirst
  <1> QED
    BY <1>1, <1>2, <1>3 DEF Outside

LEMMA NextConsent == TypeOK /\ ConsentInv /\ [Next]_vars => ConsentInv'
  <1> SUFFICES ASSUME TypeOK, ConsentInv, [Next]_vars PROVE ConsentInv'
    OBVIOUS
  <1> USE DEF goVars, native, portalVars
  <1>1. CASE Outside
    BY <1>1, ConsentOutside
  <1>2. CASE ConnectFails \/ Connect \/ CallReturns \/ Subscribe
    BY <1>2 DEF ConnectFails, Connect, CallReturns, Subscribe, ConsentInv, ConsentFirst
  <1>3. CASE CallFails \/ TimerFires \/ OpenFails
    BY <1>3 DEF CallFails, TimerFires, OpenFails, Abandon, ConsentInv, ConsentFirst
  <1>4. ASSUME NEW s \in chan, Ignore(s) \/ Refused(s) PROVE ConsentInv'
    BY <1>4 DEF Ignore, Refused, Abandon, ConsentInv, ConsentFirst
  <1>5. ASSUME NEW s \in chan, NextRequest(s) \/ Started(s) PROVE ConsentInv'
    <2>1. method \in granted /\ method \in 1 .. 3 /\ UNCHANGED granted /\ chan' = {}
      BY <1>5 DEF NextRequest, Started, Receive, Accepts, ConsentInv, TypeOK, Methods
    <2>2. 1 .. method \subseteq granted
      BY <2>1 DEF ConsentInv
    <2>3. CASE NextRequest(s)
      <3>1. 1 .. method' - 1 \subseteq granted
        BY <2>1, <2>2, <2>3 DEF NextRequest
      <3> QED
        BY <2>1, <2>3, <3>1 DEF NextRequest, ConsentInv, ConsentFirst
    <2>4. CASE Started(s)
      <3>1. granted = Methods
        BY <2>2, <2>4 DEF Started, TypeOK, Methods
      <3> QED
        BY <2>1, <2>4, <3>1 DEF Started, ConsentInv, ConsentFirst
    <2> QED
      BY <1>5, <2>3, <2>4
  <1>6. CASE OpenPipeWireRemote
    BY <1>6 DEF OpenPipeWireRemote, ConsentInv, ConsentFirst
  <1>7. CASE Build
    <2>1. ASSUME NEW o, Obtain(o) \/ ObtainFails(o) PROVE ConsentInv'
      BY <2>1 DEF Obtain, ObtainFails, ConsentInv, ConsentFirst
    <2>2. ASSUME NEW started \in BOOLEAN, Run(started) PROVE ConsentInv'
      BY <2>2 DEF Run, ConsentInv, ConsentFirst
    <2> QED
      BY <1>7, <2>1, <2>2 DEF Build
  <1>8. CASE Cleanup \/ Close
    BY <1>8
    DEF Cleanup, Close, Release, Released, CloseSession, CloseSessionFails, CloseConn,
        ConsentInv, ConsentFirst
  <1>9. CASE UNCHANGED vars
    BY <1>9 DEF vars, ConsentInv, ConsentFirst
  <1> QED
    BY <1>1, <1>2, <1>3, <1>4, <1>5, <1>6, <1>7, <1>8, <1>9 DEF Next, Step, Handshake

\* Nothing is captured before the portal granted all three requests.
THEOREM ConsentComesFirst == Spec => []ConsentFirst
  <1>1. Init => ConsentInv
    BY DEF Init, ConsentInv, ConsentFirst
  <1>2. ConsentInv => ConsentFirst
    BY DEF ConsentInv
  <1> QED
    BY <1>1, <1>2, NextConsent, Types, PTL DEF Spec

(***************************************************************************)
(* Blame: while nothing went wrong elsewhere the answer is on its way.     *)
(***************************************************************************)
FaultInv ==
    /\ conn = "broken" => faults # {}
    /\ \A s \in chan : s.name = "Response" /\ s.answer # "granted" => faults # {}
    /\ pc \in {"undo", "closeSession", "closeConn", "failed"} /\ ~given => faults # {}
    /\ pc = "done" => given
    /\ given => pc \in {"done", "undo", "closeSession", "closeConn", "closed"}
    /\ pc = "subscribe" /\ faults = {} => asked /\ conn = "open"
    /\ pc = "wait" /\ faults = {} => conn = "open" /\ (asked \/ \E s \in chan : Accepts(s))

LEMMA NextFault == TypeOK /\ FaultInv /\ [Next]_vars => FaultInv'
  <1> SUFFICES ASSUME TypeOK, FaultInv, [Next]_vars PROVE FaultInv'
    OBVIOUS
  <1> USE DEF goVars, native, portalVars
  <1>0. /\ conn \in {"none", "open", "broken", "closed"} /\ given \in BOOLEAN
        /\ asked \in BOOLEAN
    BY DEF TypeOK
  <1>1. ASSUME NEW answer \in Answers(method), NEW n \in 1 .. MaxStreams, Respond(answer, n)
        PROVE  FaultInv'
    <2> DEFINE r == [name |-> "Response", method |-> method, answer |-> answer, streams |-> n]
    <2>1. /\ UNCHANGED <<pc, conn, given, method>> /\ faults \subseteq faults'
          /\ answer # "granted" => faults' # {}
          /\ pc = "subscribe" => faults' # {}
      BY <1>1 DEF Respond
    <2>2. chan' = IF pc = "wait" /\ conn = "open" THEN chan \cup {r} ELSE chan
      BY <1>1 DEF Respond, Deliver
    <2>3. \A s \in chan' : s.name = "Response" /\ s.answer # "granted" => faults' # {}
      BY <2>1, <2>2 DEF FaultInv
    <2>4. pc' = "wait" /\ faults' = {} => conn' = "open" /\ \E s \in chan' : Accepts(s)'
      <3> SUFFICES ASSUME pc = "wait", faults' = {}
                   PROVE  conn = "open" /\ \E s \in chan' : Accepts(s)'
        BY <2>1
      <3>1. conn = "open" /\ answer = "granted"
        BY <2>1 DEF FaultInv
      <3>2. r \in chan'
        BY <2>2, <3>1
      <3>3. r.name = "Response" /\ r.method = method' /\ r.answer = "granted"
        BY <2>1, <3>1
      <3> QED
        BY <3>1, <3>2, <3>3 DEF Accepts
    <2> QED
      BY <2>1, <2>3, <2>4 DEF FaultInv
  <1>2. CASE SessionEnds \/ BusBreaks
    <2>1. /\ faults' # {} /\ UNCHANGED <<pc, given>>
      BY <1>2 DEF SessionEnds, BusBreaks
    <2> QED
      BY <2>1 DEF FaultInv
  <1>3. CASE ConnectFails \/ Connect \/ CallReturns
    BY <1>0, <1>3 DEF ConnectFails, Connect, CallReturns, FaultInv
  <1>4. CASE Subscribe
    BY <1>0, <1>4 DEF Subscribe, FaultInv
  <1>5. CASE CallFails \/ OpenFails
    BY <1>5 DEF CallFails, OpenFails, Abandon, FaultInv
  <1>6. CASE TimerFires
    <2>1. faults' # {}
      BY <1>6 DEF TimerFires, Late, FaultInv
    <2> QED
      BY <1>6, <2>1 DEF TimerFires, Abandon, FaultInv
  <1>7. ASSUME NEW s \in chan, Ignore(s) PROVE FaultInv'
    <2>1. ~Accepts(s) /\ chan' = chan \ {s} /\ UNCHANGED <<pc, conn, asked, given, faults, method>>
      BY <1>7 DEF Ignore
    <2>2. (\E t \in chan : Accepts(t)) => \E t \in chan' : Accepts(t)'
      BY <2>1 DEF Accepts
    <2> QED
      BY <2>1, <2>2 DEF FaultInv
  <1>8. ASSUME NEW s \in chan, Refused(s) PROVE FaultInv'
    <2>1. faults # {} /\ UNCHANGED faults
      BY <1>8 DEF Refused, Rejects, FaultInv
    <2> QED
      BY <1>8, <2>1 DEF Refused, Receive, Abandon, FaultInv
  <1>9. ASSUME NEW s \in chan, NextRequest(s) \/ Started(s) PROVE FaultInv'
    BY <1>9 DEF NextRequest, Started, Receive, FaultInv
  <1>10. CASE OpenPipeWireRemote
    BY <1>10 DEF OpenPipeWireRemote, FaultInv
  <1>11. ASSUME NEW o, Obtain(o) PROVE FaultInv'
    BY <1>11 DEF Obtain, FaultInv
  <1>12. ASSUME NEW o, ObtainFails(o) PROVE FaultInv'
    BY <1>12 DEF ObtainFails, FaultInv
  <1>13. ASSUME NEW started \in BOOLEAN, Run(started) PROVE FaultInv'
    <2>1. faults \subseteq faults'
      BY <1>13 DEF Run
    <2> QED
      BY <1>13, <2>1 DEF Run, FaultInv
  <1>14. CASE Cleanup
    <2>1. /\ faults \subseteq faults' /\ UNCHANGED <<chan, given>>
          /\ conn' \in {conn, "closed"}
          /\ pc \in {"undo", "closeSession", "closeConn"}
          /\ \/ pc' \in {"undo", "closeSession", "closeConn"}
             \/ pc' = (IF given THEN "closed" ELSE "failed")
      BY <1>14 DEF Cleanup, Release, Released, CloseSession, CloseSessionFails, CloseConn
    <2> QED
      BY <1>0, <2>1 DEF FaultInv
  <1>15. CASE Close
    <2>1. pc = "done" /\ pc' = "undo" /\ UNCHANGED <<faults, chan, given, conn>>
      BY <1>15 DEF Close
    <2>2. given
      BY <2>1 DEF FaultInv
    <2> QED
      BY <2>1, <2>2 DEF FaultInv
  <1>16. CASE UNCHANGED vars
    BY <1>16 DEF vars, FaultInv, Accepts
  <1> QED
    BY <1>1, <1>2, <1>3, <1>4, <1>5, <1>6, <1>7, <1>8, <1>9, <1>10, <1>11, <1>12, <1>13,
       <1>14, <1>15, <1>16
    DEF Next, Step, Outside, Handshake, Build

\* The constructor fails only when something outside it went wrong.
THEOREM GrantedSucceeds == Spec => []GrantedMeansDone
  <1>1. Init => FaultInv
    BY DEF Init, FaultInv
  <1>2. FaultInv => GrantedMeansDone
    BY DEF FaultInv, GrantedMeansDone
  <1> QED
    BY <1>1, <1>2, NextFault, Types, PTL DEF Spec

(***************************************************************************)
(* What is left: the objects of the capture are on the list of those to    *)
(* release, and whoever still owns the descriptor or the session is known. *)
(***************************************************************************)
Listed(x) == \E i \in 1 .. Len(todo) : todo[i] = x

CleanInv ==
    /\ objects # {} => pc \in {"build", "run", "done", "undo"}
    /\ pc = "undo" => \A x \in objects : Listed(x)
    /\ pc \in {"run", "done"} => "core" \in objects
    /\ pc = "done" => "lock" \notin objects
    /\ path <=> method > 1
    /\ pc = "start" => method = 1 /\ conn = "none"
    /\ Ended => conn \in {"none", "closed"}
    /\ fd = "open" => \/ pc = "build" /\ "core" \notin objects
                      \/ faults \cap {"memory", "loop", "context"} # {}
    /\ pc \in {"closeConn", "failed", "closed"} /\ path /\ session = "open"
          => faults \cap {"bus", "close"} # {}

\* Taking the first object off the list of those to release.
LEMMA ListedTail ==
    ASSUME NEW list \in Seq(Objects), list # <<>>, NEW x, x # Head(list),
           \E i \in 1 .. Len(list) : list[i] = x
    PROVE  \E i \in 1 .. Len(Tail(list)) : Tail(list)[i] = x
  <1>1. PICK i \in 1 .. Len(list) : list[i] = x
    OBVIOUS
  <1>2. i # 1 /\ Len(list) \in Nat
    BY <1>1
  <1>3. i - 1 \in 1 .. Len(Tail(list)) /\ Tail(list)[i - 1] = list[i]
    BY <1>1, <1>2, HeadTailProperties
  <1> QED
    BY <1>1, <1>3

\* Every rung's list names all that was obtained before it.
LEMMA UndoListsAll ==
    ASSUME NEW o \in DOMAIN Undo, NextRung(o)
    PROVE  \A x \in objects : \E i \in 1 .. Len(Undo[o]) : Undo[o][i] = x
  <1> DEFINE Lists(list) == \A x \in objects : \E i \in 1 .. Len(list) : list[i] = x
  <1>1. CASE o = "memory"
    BY <1>1, RungFacts
  <1>2. CASE o = "loop"
    <2>1. objects = {"memory"}
      BY <1>2, RungFacts
    <2>2. Lists(<<"memory">>)
      BY <2>1
    <2> QED
      BY <1>2, <2>2, UndoFacts
  <1>3. CASE o = "context"
    <2> DEFINE list == <<"lock", "loop", "memory">>
    <2>1. objects = {"memory", "loop", "lock"}
      BY <1>3, RungFacts
    <2>2. Len(list) = 3 /\ list[1] = "lock" /\ list[2] = "loop" /\ list[3] = "memory"
      OBVIOUS
    <2>3. Lists(list)
      BY <2>1, <2>2
    <2> QED
      BY <1>3, <2>3, UndoFacts
  <1>4. CASE o = "core"
    <2> DEFINE list == <<"context", "lock", "loop", "memory">>
    <2>1. objects = {"memory", "loop", "lock", "context"}
      BY <1>4, RungFacts
    <2>2. /\ Len(list) = 4 /\ list[1] = "context" /\ list[2] = "lock" /\ list[3] = "loop"
          /\ list[4] = "memory"
      OBVIOUS
    <2>3. Lists(list)
      BY <2>1, <2>2
    <2> QED
      BY <1>4, <2>3, UndoFacts
  <1>5. CASE o = "stream"
    <2> DEFINE list == <<"core", "context", "lock", "loop", "memory">>
    <2>1. objects = {"memory", "loop", "lock", "context", "core"}
      BY <1>5, RungFacts
    <2>2. /\ Len(list) = 5 /\ list[1] = "core" /\ list[2] = "context" /\ list[3] = "lock"
          /\ list[4] = "loop" /\ list[5] = "memory"
      OBVIOUS
    <2>3. Lists(list)
      BY <2>1, <2>2
    <2> QED
      BY <1>5, <2>3, UndoFacts
  <1>6. CASE o = "link"
    <2> DEFINE list == <<"stream", "core", "context", "lock", "loop", "memory">>
    <2>1. objects = {"memory", "loop", "lock", "context", "core", "stream"}
      BY <1>6, RungFacts
    <2>2. /\ Len(list) = 6 /\ list[1] = "stream" /\ list[2] = "core" /\ list[3] = "context"
          /\ list[4] = "lock" /\ list[5] = "loop" /\ list[6] = "memory"
      OBVIOUS
    <2>3. Lists(list)
      BY <2>1, <2>2
    <2> QED
      BY <1>6, <2>3, UndoFacts
  <1> QED
    BY <1>1, <1>2, <1>3, <1>4, <1>5, <1>6, PointFacts

LEMMA NextClean == TypeOK /\ CleanInv /\ [Next]_vars => CleanInv'
  <1> SUFFICES ASSUME TypeOK, CleanInv, [Next]_vars PROVE CleanInv'
    OBVIOUS
  <1> USE DEF goVars, native, portalVars, Ended, Listed
  <1>0. method \in 1 .. 3 /\ path \in BOOLEAN /\ pc \in Points
    BY DEF TypeOK, Methods
  <1>1. ASSUME NEW answer \in Answers(method), NEW n \in 1 .. MaxStreams, Respond(answer, n)
        PROVE  CleanInv'
    <2>1. /\ UNCHANGED <<pc, method, path, conn, fd, objects, todo>> /\ faults \subseteq faults'
          /\ path => session' = session
      BY <1>0, <1>1 DEF Respond, CleanInv
    <2> QED
      BY <2>1 DEF CleanInv
  <1>2. CASE SessionEnds \/ BusBreaks
    <2>1. /\ UNCHANGED <<pc, method, path, fd, objects, todo>> /\ faults \subseteq faults'
          /\ conn' = conn \/ (conn = "open" /\ conn' = "broken")
          /\ session' = session \/ session' = "closed"
      BY <1>2 DEF SessionEnds, BusBreaks
    <2> QED
      BY <2>1 DEF CleanInv
  <1>3. CASE ConnectFails \/ Connect \/ CallReturns \/ Subscribe
    BY <1>3 DEF ConnectFails, Connect, CallReturns, Subscribe, CleanInv
  <1>4. ASSUME Abandon, pc \in {"call", "wait", "remote"}, faults \subseteq faults',
               UNCHANGED <<method, path, conn, fd, objects, todo, session>>
        PROVE  CleanInv'
    <2>1. objects = {} /\ pc' \in {"closeSession", "closeConn"} /\ (path => pc' = "closeSession")
      BY <1>4 DEF CleanInv, Abandon
    <2> QED
      BY <1>4, <2>1 DEF CleanInv
  <1>5. CASE CallFails \/ TimerFires \/ OpenFails
    BY <1>4, <1>5 DEF CallFails, TimerFires, OpenFails
  <1>6. ASSUME NEW s \in chan, Ignore(s) \/ Refused(s) PROVE CleanInv'
    <2>1. CASE Ignore(s)
      BY <2>1 DEF Ignore, CleanInv
    <2>2. CASE Refused(s)
      BY <1>4, <2>2 DEF Refused, Receive
    <2> QED
      BY <1>6, <2>1, <2>2
  <1>7. ASSUME NEW s \in chan, NextRequest(s) \/ Started(s) PROVE CleanInv'
    BY <1>0, <1>7 DEF NextRequest, Started, Receive, CleanInv
  <1>8. CASE OpenPipeWireRemote
    BY <1>8 DEF OpenPipeWireRemote, CleanInv
  <1>9. ASSUME NEW o, Obtain(o) PROVE CleanInv'
    <2>1. /\ pc = "build" /\ NextRung(o)
          /\ pc' = IF o = "link" THEN "run" ELSE pc
          /\ objects' = IF o = "link" THEN objects ELSE objects \cup {o}
          /\ fd' = IF o = "core" THEN "owned" ELSE fd
          /\ UNCHANGED <<method, path, conn, todo, session, faults>>
      BY <1>9 DEF Obtain
    <2>2. o = "link" => "core" \in objects
      BY <2>1, RungFacts
    <2> QED
      BY <2>1, <2>2 DEF CleanInv
  <1>10. ASSUME NEW o, ObtainFails(o) PROVE CleanInv'
    <2>1. /\ pc = "build" /\ NextRung(o) /\ o \in DOMAIN Undo
          /\ pc' = "undo" /\ todo' = Undo[o] /\ faults' = faults \cup {o}
          /\ fd' = IF o = "core" THEN "closed" ELSE fd
          /\ UNCHANGED <<method, path, conn, objects, session>>
      BY <1>10 DEF ObtainFails
    <2>2. \A x \in objects' : \E i \in 1 .. Len(todo') : todo'[i] = x
      BY <2>1, UndoListsAll
    <2>3. o \in {"stream", "link"} => "core" \in objects
      BY <2>1, RungFacts
    <2>4. fd' = "open" => faults' \cap {"memory", "loop", "context"} # {}
      BY <2>1, <2>3, PointFacts DEF CleanInv
    <2> QED
      BY <2>1, <2>2, <2>4 DEF CleanInv
  <1>11. ASSUME NEW started \in BOOLEAN, Run(started) PROVE CleanInv'
    <2>1. faults \subseteq faults'
      BY <1>11 DEF Run
    <2> QED
      BY <1>11, <2>1 DEF Run, CleanInv
  <1>12. CASE Close
    <2> DEFINE list == <<"thread", "stream", "core", "context", "loop", "memory">>
    <2>1. /\ Len(list) = 6 /\ list[1] = "thread" /\ list[2] = "stream" /\ list[3] = "core"
          /\ list[4] = "context" /\ list[5] = "loop" /\ list[6] = "memory"
      OBVIOUS
    <2>2. objects \subseteq {"thread", "stream", "core", "context", "loop", "memory"}
      BY <1>12, PointFacts DEF Close, CleanInv, TypeOK
    <2>3. \A x \in objects : \E i \in 1 .. Len(list) : list[i] = x
      BY <2>1, <2>2
    <2>4. /\ todo' = list /\ pc = "done" /\ pc' = "undo"
          /\ UNCHANGED <<method, path, conn, fd, objects, session, faults>>
      BY <1>12 DEF Close
    <2> HIDE DEF list
    <2> QED
      BY <2>3, <2>4 DEF CleanInv
  <1>13. CASE Release
    <2>1. /\ pc = "undo" /\ todo # <<>> /\ todo \in Seq(Objects)
          /\ objects' = objects \ {Head(todo)} /\ todo' = Tail(todo)
          /\ fd' \in {fd, "closed"}
          /\ UNCHANGED <<pc, method, path, conn, session, faults>>
      BY <1>13 DEF Release, TypeOK
    <2>2. \A x \in objects' : \E i \in 1 .. Len(todo') : todo'[i] = x
      BY <2>1, ListedTail DEF CleanInv
    <2> QED
      BY <2>1, <2>2 DEF CleanInv
  <1>14. CASE Released
    <2>1. objects = {}
      BY <1>14 DEF Released, CleanInv
    <2> QED
      BY <1>14, <2>1 DEF Released, CleanInv
  <1>15. CASE CloseSession \/ CloseSessionFails
    <2>1. faults \subseteq faults'
      BY <1>15 DEF CloseSession, CloseSessionFails
    <2>2. session' = "closed" \/ "close" \in faults'
      BY <1>15 DEF CloseSession, CloseSessionFails
    <2> QED
      BY <1>15, <2>1, <2>2 DEF CloseSession, CloseSessionFails, CleanInv
  <1>16. CASE CloseConn
    BY <1>16 DEF CloseConn, CleanInv
  <1>17. CASE UNCHANGED vars
    BY <1>17 DEF vars, CleanInv
  <1> QED
    BY <1>1, <1>2, <1>3, <1>5, <1>6, <1>7, <1>8, <1>9, <1>10, <1>11, <1>12, <1>13, <1>14,
       <1>15, <1>16, <1>17
    DEF Next, Step, Outside, Handshake, Build, Cleanup

\* A failed constructor and Close leave nothing of their own behind.
THEOREM NothingIsLeft == Spec => []NothingLeft
  <1>1. Init => CleanInv
    BY DEF Init, CleanInv, Ended
  <1>2. CleanInv => NothingLeft
    BY DEF CleanInv, NothingLeft, Ended
  <1> QED
    BY <1>1, <1>2, NextClean, Types, PTL DEF Spec

(***************************************************************************)
(* The order of the release: what depends on an object stands before it on *)
(* every list.                                                             *)
(***************************************************************************)
Rank == [thread |-> 1, stream |-> 2, core |-> 3, context |-> 4, lock |-> 5, loop |-> 6,
         memory |-> 7]

Sorted(list) == \A i, j \in 1 .. Len(list) : i < j => Rank[list[i]] < Rank[list[j]]

OrderInv ==
    /\ TeardownOrder
    /\ pc = "run" => objects = {"memory", "loop", "lock", "context", "core", "stream"}
    /\ pc = "done" => objects \ {"thread"} = {"memory", "loop", "context", "core", "stream"}
    /\ pc = "undo" => Sorted(todo)

LEMMA RankFacts ==
    /\ Rank["thread"] = 1 /\ Rank["stream"] = 2 /\ Rank["core"] = 3 /\ Rank["context"] = 4
    /\ Rank["lock"] = 5 /\ Rank["loop"] = 6 /\ Rank["memory"] = 7
    /\ \A x \in Objects : Rank[x] \in 1 .. 7
  BY DEF Rank, Objects

\* Every rung's list is sorted.
LEMMA UndoSorted == \A o \in DOMAIN Undo : Sorted(Undo[o])
  <1>1. Sorted(<<>>)
    BY DEF Sorted
  <1>2. Sorted(<<"memory">>)
    BY DEF Sorted
  <1>3. Sorted(<<"lock", "loop", "memory">>)
    <2> DEFINE list == <<"lock", "loop", "memory">>
    <2>1. Len(list) = 3 /\ list[1] = "lock" /\ list[2] = "loop" /\ list[3] = "memory"
      OBVIOUS
    <2> QED
      BY <2>1, RankFacts DEF Sorted
  <1>4. Sorted(<<"context", "lock", "loop", "memory">>)
    <2> DEFINE list == <<"context", "lock", "loop", "memory">>
    <2>1. /\ Len(list) = 4 /\ list[1] = "context" /\ list[2] = "lock" /\ list[3] = "loop"
          /\ list[4] = "memory"
      OBVIOUS
    <2> QED
      BY <2>1, RankFacts DEF Sorted
  <1>5. Sorted(<<"core", "context", "lock", "loop", "memory">>)
    <2> DEFINE list == <<"core", "context", "lock", "loop", "memory">>
    <2>1. /\ Len(list) = 5 /\ list[1] = "core" /\ list[2] = "context" /\ list[3] = "lock"
          /\ list[4] = "loop" /\ list[5] = "memory"
      OBVIOUS
    <2> QED
      BY <2>1, RankFacts DEF Sorted
  <1>6. Sorted(<<"stream", "core", "context", "lock", "loop", "memory">>)
    <2> DEFINE list == <<"stream", "core", "context", "lock", "loop", "memory">>
    <2>1. /\ Len(list) = 6 /\ list[1] = "stream" /\ list[2] = "core" /\ list[3] = "context"
          /\ list[4] = "lock" /\ list[5] = "loop" /\ list[6] = "memory"
      OBVIOUS
    <2> QED
      BY <2>1, RankFacts DEF Sorted
  <1>7. \A o \in DOMAIN Undo : o = "memory" \/ o = "loop" \/ o = "context" \/ o = "core"
                              \/ o = "stream" \/ o = "link"
    BY PointFacts
  <1> QED
    BY <1>1, <1>2, <1>3, <1>4, <1>5, <1>6, <1>7, UndoFacts, Zenon

LEMMA CloseSorted == Sorted(<<"thread", "stream", "core", "context", "loop", "memory">>)
  <1> DEFINE list == <<"thread", "stream", "core", "context", "loop", "memory">>
  <1>1. /\ Len(list) = 6 /\ list[1] = "thread" /\ list[2] = "stream" /\ list[3] = "core"
        /\ list[4] = "context" /\ list[5] = "loop" /\ list[6] = "memory"
    OBVIOUS
  <1> QED
    BY <1>1, RankFacts DEF Sorted

\* The head of a sorted list is of lowest rank, and its tail is sorted.
LEMMA SortedTail ==
    ASSUME NEW list \in Seq(Objects), list # <<>>, Sorted(list)
    PROVE  /\ Sorted(Tail(list))
           /\ \A i \in 1 .. Len(list) : Rank[Head(list)] <= Rank[list[i]]
  <1>1. /\ Len(list) \in Nat \ {0} /\ Head(list) = list[1]
        /\ Len(Tail(list)) = Len(list) - 1
        /\ \A i \in 1 .. Len(Tail(list)) : Tail(list)[i] = list[i + 1]
    BY HeadTailProperties
  <1>2. Sorted(Tail(list))
    BY <1>1 DEF Sorted
  <1>3. ASSUME NEW i \in 1 .. Len(list) PROVE Rank[Head(list)] <= Rank[list[i]]
    <2>1. CASE i = 1
      <3>1. Head(list) \in Objects
        BY HeadTailProperties
      <3> QED
        BY <1>1, <2>1, <3>1, RankFacts
    <2>2. CASE i # 1
      <3>1. Rank[list[1]] < Rank[list[i]]
        BY <1>1, <2>2 DEF Sorted
      <3>2. list[1] \in Objects /\ list[i] \in Objects
        BY <1>1
      <3> QED
        BY <1>1, <3>1, <3>2, RankFacts
    <2> QED
      BY <2>1, <2>2
  <1> QED
    BY <1>2, <1>3

\* Releasing an object of lowest rank leaves nothing that was made from it.
LEMMA LowestGoesFirst ==
    ASSUME TeardownOrder, NEW o \in Objects, objects \subseteq Objects,
           \A x \in objects : Rank[o] <= Rank[x],
           objects' = objects \ {o}
    PROVE  TeardownOrder'
  <1>1. CASE o = "thread"
    BY <1>1 DEF TeardownOrder
  <1>2. CASE o = "stream"
    <2>1. "thread" \notin objects
      BY <1>2, RankFacts
    <2> QED
      BY <1>2, <2>1 DEF TeardownOrder
  <1>3. CASE o = "core"
    <2>1. "thread" \notin objects /\ "stream" \notin objects
      BY <1>3, RankFacts
    <2> QED
      BY <1>3, <2>1 DEF TeardownOrder
  <1>4. CASE o = "context"
    <2>1. "thread" \notin objects /\ "stream" \notin objects /\ "core" \notin objects
      BY <1>4, RankFacts
    <2> QED
      BY <1>4, <2>1 DEF TeardownOrder
  <1>5. CASE o = "lock"
    <2>1. /\ "thread" \notin objects /\ "stream" \notin objects /\ "core" \notin objects
      BY <1>5, RankFacts
    <2> QED
      BY <1>5, <2>1 DEF TeardownOrder
  <1>6. CASE o = "loop" \/ o = "memory"
    <2>1. /\ "thread" \notin objects /\ "stream" \notin objects /\ "core" \notin objects
          /\ "context" \notin objects /\ "lock" \notin objects
      BY <1>6, RankFacts
    <2>2. o = "memory" => "loop" \notin objects
      BY RankFacts
    <2> QED
      BY <1>6, <2>1, <2>2 DEF TeardownOrder
  <1> QED
    BY <1>1, <1>2, <1>3, <1>4, <1>5, <1>6, PointFacts

LEMMA NextOrder == TypeOK /\ CleanInv /\ OrderInv /\ [Next]_vars => OrderInv'
  <1> SUFFICES ASSUME TypeOK, CleanInv, OrderInv, [Next]_vars PROVE OrderInv'
    OBVIOUS
  <1> USE DEF goVars, native, portalVars
  <1>1. ASSUME UNCHANGED objects, pc' \notin {"run", "done", "undo"} PROVE OrderInv'
    BY <1>1 DEF OrderInv, TeardownOrder
  <1>2. ASSUME UNCHANGED <<pc, objects, todo>> PROVE OrderInv'
    BY <1>2 DEF OrderInv, TeardownOrder, Sorted
  <1>3. CASE Outside
    BY <1>2, <1>3 DEF Outside, Respond, SessionEnds, BusBreaks
  <1>4. CASE Handshake \/ TimerFires
    <2>1. CASE ConnectFails \/ Connect \/ CallReturns \/ Subscribe \/ OpenPipeWireRemote
      BY <1>1, <2>1 DEF ConnectFails, Connect, CallReturns, Subscribe, OpenPipeWireRemote
    <2>2. CASE CallFails \/ TimerFires \/ OpenFails
      BY <1>1, <2>2 DEF CallFails, TimerFires, OpenFails, Abandon
    <2>3. ASSUME NEW s \in chan, Ignore(s) PROVE OrderInv'
      BY <1>2, <2>3 DEF Ignore
    <2>4. ASSUME NEW s \in chan, Refused(s) \/ NextRequest(s) \/ Started(s) PROVE OrderInv'
      BY <1>1, <2>4 DEF Refused, NextRequest, Started, Abandon
    <2> QED
      BY <1>4, <2>1, <2>2, <2>3, <2>4 DEF Handshake
  <1>5. ASSUME NEW o, Obtain(o) PROVE OrderInv'
    <2>1. /\ pc = "build" /\ NextRung(o)
          /\ pc' = IF o = "link" THEN "run" ELSE pc
          /\ objects' = IF o = "link" THEN objects ELSE objects \cup {o}
      BY <1>5 DEF Obtain
    <2>2. TeardownOrder'
      BY <2>1, RungFacts DEF OrderInv, TeardownOrder
    <2>3. pc' = "run" => objects' = {"memory", "loop", "lock", "context", "core", "stream"}
      BY <2>1, RungFacts
    <2> QED
      BY <2>1, <2>2, <2>3 DEF OrderInv
  <1>6. ASSUME NEW o, ObtainFails(o) PROVE OrderInv'
    <2>1. pc' = "undo" /\ UNCHANGED objects /\ todo' = Undo[o] /\ o \in DOMAIN Undo
      BY <1>6 DEF ObtainFails
    <2>2. Sorted(Undo[o])
      BY <2>1, UndoSorted
    <2> QED
      BY <2>1, <2>2 DEF OrderInv, TeardownOrder, Sorted
  <1>7. ASSUME NEW started \in BOOLEAN, Run(started) PROVE OrderInv'
    <2>1. /\ objects = {"memory", "loop", "lock", "context", "core", "stream"}
          /\ objects' = (objects \ {"lock"}) \cup (IF started THEN {"thread"} ELSE {})
          /\ pc' = "done"
      BY <1>7 DEF Run, OrderInv
    <2> QED
      BY <2>1 DEF OrderInv, TeardownOrder
  <1>8. CASE Close
    <2>1. /\ pc' = "undo" /\ UNCHANGED objects
          /\ todo' = <<"thread", "stream", "core", "context", "loop", "memory">>
      BY <1>8 DEF Close
    <2>2. Sorted(todo)'
      BY <2>1, CloseSorted DEF Sorted
    <2> QED
      BY <2>1, <2>2 DEF OrderInv, TeardownOrder
  <1>9. CASE Release
    <2>1. /\ pc = "undo" /\ pc' = "undo" /\ todo # <<>> /\ todo \in Seq(Objects)
          /\ objects' = objects \ {Head(todo)} /\ todo' = Tail(todo)
          /\ objects \subseteq Objects /\ Head(todo) \in Objects
      BY <1>9, HeadTailProperties DEF Release, TypeOK
    <2>2. \A x \in objects : Rank[Head(todo)] <= Rank[x]
      BY <2>1, SortedTail DEF OrderInv, CleanInv, Listed
    <2>3. TeardownOrder'
      BY <2>1, <2>2, LowestGoesFirst DEF OrderInv
    <2>4. Sorted(todo)'
      BY <2>1, SortedTail DEF OrderInv, Sorted
    <2> QED
      BY <2>1, <2>3, <2>4 DEF OrderInv
  <1>10. CASE Released \/ CloseSession \/ CloseSessionFails \/ CloseConn
    <2>1. pc' \in {"closeSession", "closeConn", "closed", "failed"} /\ UNCHANGED objects
      BY <1>10 DEF Released, CloseSession, CloseSessionFails, CloseConn
    <2> QED
      BY <1>1, <2>1
  <1>11. CASE UNCHANGED vars
    BY <1>2, <1>11 DEF vars
  <1> QED
    BY <1>3, <1>4, <1>5, <1>6, <1>7, <1>8, <1>9, <1>10, <1>11
    DEF Next, Step, Build, Cleanup

\* No object of the capture outlives one it was made from, on any path.
THEOREM TeardownIsOrdered == Spec => []TeardownOrder
  <1>1. Init => CleanInv /\ OrderInv
    BY DEF Init, CleanInv, OrderInv, TeardownOrder, Ended
  <1>2. OrderInv => TeardownOrder
    BY DEF OrderInv
  <1> QED
    BY <1>1, <1>2, NextClean, NextOrder, Types, PTL DEF Spec
=============================================================================
