----------------------------- MODULE PortalSetup -----------------------------
(***************************************************************************)
(* How a PipeWire capturer comes to be and goes away (pipewire_linux.go):  *)
(* newPipewireCapturer, the screen-cast handshake of portalCreateStream    *)
(* with its three requests, the ladder of pw_capture_new, and Close with   *)
(* pw_capture_destroy.                                                     *)
(*                                                                         *)
(* A request is a D-Bus call whose reply names a Request object; its       *)
(* result comes later, as a signal.  A signal reaches the constructor only *)
(* while its channel is registered; the default handler of the bus library *)
(* delivers into a full channel from another goroutine, so signals wait in *)
(* no order.                                                               *)
(***************************************************************************)
EXTENDS Integers, Sequences

CONSTANTS
    Outputs,            \* values of Options.OutputIndex
    MaxStreams          \* most streams the portal offers

ASSUME InputAssumption ==
    /\ Outputs \subseteq Int
    /\ MaxStreams \in Nat \ {0}

VARIABLES
    \* newPipewireCapturer
    pc,                 \* where it is
    method,             \* the request it is at: 1 CreateSession,
                        \* 2 SelectSources, 3 Start
    output,             \* opts.OutputIndex
    conn,               \* the session bus connection
    path,               \* sessionPath is known
    chan,               \* signals waiting in ch
    node,               \* index of the chosen stream, -1 before
    given,              \* the constructor returned the capturer
    \* pw_capture
    fd,                 \* the descriptor of the PipeWire remote
    objects,            \* what pw_capture_new has obtained
    todo,               \* what is left to release
    \* portal
    session,            \* the session, as the portal sees it
    asked,              \* it has a request to answer
    granted,            \* requests it granted
    faults              \* what went wrong on the other side

goVars     == <<method, output, path, given>>
native     == <<fd, objects, todo>>
portalVars == <<session, asked, granted>>
vars == <<pc, goVars, conn, chan, node, native, portalVars, faults>>

Methods == 1 .. 3

\* Answers besides "granted": a refusal or a response that cannot be decoded,
\* and granted results without the session handle or without a stream.
Answers(m) ==
    {"granted", "refused"} \cup (CASE m = 1 -> {"unnamed"} [] m = 3 -> {"streamless"} [] OTHER -> {})

Signals ==
    [name : {"Response"}, method : Methods,
     answer : {"granted", "refused", "unnamed", "streamless"}, streams : 1 .. MaxStreams]
    \cup [name : {"Closed"}]

\* The rungs of pw_capture_new, each with what its failure releases.
Ladder == <<"memory", "loop", "lock", "context", "core", "stream", "link">>

Undo ==
    [ memory  |-> <<>>,
      loop    |-> <<"memory">>,
      context |-> <<"lock", "loop", "memory">>,
      core    |-> <<"context", "lock", "loop", "memory">>,
      stream  |-> <<"core", "context", "lock", "loop", "memory">>,
      link    |-> <<"stream", "core", "context", "lock", "loop", "memory">> ]

Objects == {"memory", "loop", "lock", "context", "core", "stream", "thread"}

Points == {"start", "call", "subscribe", "wait", "remote", "build", "run", "undo",
           "closeSession", "closeConn", "done", "failed", "closed"}

Init ==
    /\ pc = "start"
    /\ method = 1
    /\ output \in Outputs
    /\ conn = "none"
    /\ path = FALSE
    /\ chan = {}
    /\ node = -1
    /\ given = FALSE
    /\ fd = "none"
    /\ objects = {}
    /\ todo = <<>>
    /\ session = "none"
    /\ asked = FALSE
    /\ granted = {}
    /\ faults = {}

-----------------------------------------------------------------------------
(* The portal and the bus.                                                 *)

\* A signal is lost on a connection without a registered channel.
Deliver(signals) == chan' = IF pc = "wait" /\ conn = "open" THEN chan \cup signals ELSE chan

\* Nothing keeps the response back until the channel is registered.
Respond(answer, n) ==
    /\ asked
    /\ answer \in Answers(method)
    /\ asked' = FALSE
    /\ granted' = IF answer = "refused" THEN granted ELSE granted \cup {method}
    /\ session' = IF method = 1 /\ answer # "refused" THEN "open" ELSE session
    /\ Deliver({[name |-> "Response", method |-> method, answer |-> answer, streams |-> n]})
    /\ faults' = faults \cup (IF answer = "granted" THEN {} ELSE {"portal"})
                        \cup (IF pc = "subscribe" THEN {"early"} ELSE {})
    /\ UNCHANGED <<pc, goVars, conn, node, native>>

\* The user stops the sharing, or the portal goes away.
SessionEnds ==
    /\ session = "open"
    /\ session' = "closed"
    /\ asked' = FALSE
    /\ Deliver({[name |-> "Closed"]})
    /\ faults' = faults \cup {"session"}
    /\ UNCHANGED <<pc, goVars, conn, node, native, granted>>

BusBreaks ==
    /\ conn = "open"
    /\ conn' = "broken"
    /\ faults' = faults \cup {"bus"}
    /\ UNCHANGED <<pc, goVars, chan, node, native, portalVars>>

Outside ==
    \/ \E answer \in Answers(method), n \in 1 .. MaxStreams : Respond(answer, n)
    \/ SessionEnds
    \/ BusBreaks

-----------------------------------------------------------------------------
(* portalCreateStream and portalRequest.                                   *)

\* Seeded fault: a failed request of a known session leaves without closing it.
AbandonForgetsSession == pc' = "closeConn"

\* Every error return: the session is closed once its path is known.
Abandon == pc' = IF path THEN "closeSession" ELSE "closeConn"

ConnectFails ==
    /\ pc = "start"
    /\ pc' = "failed"
    /\ faults' = faults \cup {"bus"}
    /\ UNCHANGED <<goVars, conn, chan, node, native, portalVars>>

Connect ==
    /\ pc = "start"
    /\ conn' = "open"
    /\ pc' = "call"
    /\ UNCHANGED <<goVars, chan, node, native, portalVars, faults>>

CallReturns ==
    /\ pc = "call"
    /\ conn = "open"
    /\ method = 1 \/ session = "open"
    /\ asked' = TRUE
    /\ pc' = "subscribe"
    /\ UNCHANGED <<goVars, conn, chan, node, native, session, granted, faults>>

\* An error reply, a broken connection, or a reply without a request path.
CallFails ==
    /\ pc = "call"
    /\ Abandon
    /\ faults' = faults \cup {"portal"}
    /\ UNCHANGED <<goVars, conn, chan, node, native, portalVars>>

\* conn.Signal and AddMatch, whose error is ignored.
Subscribe ==
    /\ pc = "subscribe"
    /\ chan' = {}
    /\ pc' = "wait"
    /\ UNCHANGED <<goVars, conn, node, native, portalVars, faults>>

\* Seeded fault: any Response will do, whatever its code.
AcceptsAny(s) == s.name = "Response" /\ s.answer \in {"granted", "refused"}

\* The Response to this request, with code 0 and usable results.
Accepts(s) == s.name = "Response" /\ s.method = method /\ s.answer = "granted"

\* Seeded fault: code 0 is taken for a failure.
RejectsGranted(s) == s.name = "Response" /\ s.method = method

Rejects(s) == s.name = "Response" /\ s.method = method /\ s.answer # "granted"

Receive(s) == pc = "wait" /\ s \in chan

Ignore(s) ==
    /\ Receive(s)
    /\ ~Accepts(s) /\ ~Rejects(s)
    /\ chan' = chan \ {s}
    /\ UNCHANGED <<pc, goVars, conn, node, native, portalVars, faults>>

Refused(s) ==
    /\ Receive(s)
    /\ Rejects(s)
    /\ Abandon
    /\ chan' = {}
    /\ UNCHANGED <<goVars, conn, node, native, portalVars, faults>>

NextRequest(s) ==
    /\ Receive(s)
    /\ Accepts(s)
    /\ method < 3
    /\ method' = method + 1
    /\ path' = TRUE
    /\ chan' = {}
    /\ pc' = "call"
    /\ UNCHANGED <<output, given, conn, node, native, portalVars, faults>>

\* Start: choose the stream.
Chosen(n) == IF output > 0 /\ output < n THEN output ELSE 0

Started(s) ==
    /\ Receive(s)
    /\ Accepts(s)
    /\ method = 3
    /\ node' = Chosen(s.streams)
    /\ chan' = {}
    /\ pc' = "remote"
    /\ UNCHANGED <<goVars, conn, native, portalVars, faults>>

Late == asked \/ \E s \in chan : Accepts(s)

\* Seeded fault: the timer is only looked at when a signal arrives.
TimerFiresOnSignal ==
    /\ pc = "wait" /\ chan # {}
    /\ Abandon
    /\ chan' = {}
    /\ UNCHANGED <<goVars, conn, node, native, portalVars, faults>>

\* 30 s without the response.  A channel closed by a broken connection yields
\* nil until then.
TimerFires ==
    /\ pc = "wait"
    /\ Abandon
    /\ chan' = {}
    /\ faults' = IF Late THEN faults \cup {"slow"} ELSE faults
    /\ UNCHANGED <<goVars, conn, node, native, portalVars>>

OpenPipeWireRemote ==
    /\ pc = "remote"
    /\ conn = "open" /\ session = "open"
    /\ fd' = "open"
    /\ pc' = "build"
    /\ UNCHANGED <<goVars, conn, chan, node, objects, todo, portalVars, faults>>

OpenFails ==
    /\ pc = "remote"
    /\ Abandon
    /\ faults' = faults \cup {"portal"}
    /\ UNCHANGED <<goVars, conn, chan, node, native, portalVars>>

-----------------------------------------------------------------------------
(* pw_capture_new.                                                         *)

\* The rungs are taken in order; "link" is pw_stream_connect.
NextRung(o) ==
    \E k \in 1 .. Len(Ladder) :
       /\ Ladder[k] = o
       /\ objects = { Ladder[j] : j \in 1 .. k - 1 }

\* pw_context_connect_fd takes the descriptor and closes it with the core.
Obtain(o) ==
    /\ pc = "build"
    /\ NextRung(o)
    /\ objects' = IF o = "link" THEN objects ELSE objects \cup {o}
    /\ fd' = IF o = "core" THEN "owned" ELSE fd
    /\ pc' = IF o = "link" THEN "run" ELSE pc
    /\ UNCHANGED <<goVars, conn, chan, node, todo, portalVars, faults>>

\* Seeded fault: a failed pw_stream_connect cleans up like a failed pw_stream_new.
ObtainFailsLeaks(o) ==
    /\ pc = "build"
    /\ NextRung(o)
    /\ o \in DOMAIN Undo
    /\ todo' = IF o = "link" THEN Undo["stream"] ELSE Undo[o]
    /\ fd' = IF o = "core" THEN "closed" ELSE fd
    /\ pc' = "undo"
    /\ faults' = faults \cup {o}
    /\ UNCHANGED <<goVars, conn, chan, node, objects, portalVars>>

ObtainFails(o) ==
    /\ pc = "build"
    /\ NextRung(o)
    /\ o \in DOMAIN Undo
    /\ todo' = Undo[o]
    /\ fd' = IF o = "core" THEN "closed" ELSE fd
    /\ pc' = "undo"
    /\ faults' = faults \cup {o}
    /\ UNCHANGED <<goVars, conn, chan, node, objects, portalVars>>

\* pw_thread_loop_start, whose result is ignored, and unlock.
Run(started) ==
    /\ pc = "run"
    /\ objects' = (objects \ {"lock"}) \cup (IF started THEN {"thread"} ELSE {})
    /\ faults' = IF started THEN faults ELSE faults \cup {"thread"}
    /\ given' = TRUE
    /\ pc' = "done"
    /\ UNCHANGED <<method, output, path, conn, chan, node, fd, todo, portalVars>>

-----------------------------------------------------------------------------
(* Close, and what failure and Close share.                                *)

\* pw_capture_destroy
Close ==
    /\ pc = "done"
    /\ todo' = <<"thread", "stream", "core", "context", "loop", "memory">>
    /\ pc' = "undo"
    /\ UNCHANGED <<goVars, conn, chan, node, fd, objects, portalVars, faults>>

Release ==
    /\ pc = "undo" /\ todo # <<>>
    /\ objects' = objects \ {Head(todo)}
    /\ todo' = Tail(todo)
    /\ fd' = IF Head(todo) = "core" THEN "closed" ELSE fd
    /\ UNCHANGED <<pc, goVars, conn, chan, node, portalVars, faults>>

Released ==
    /\ pc = "undo" /\ todo = <<>>
    /\ pc' = "closeSession"
    /\ UNCHANGED <<goVars, conn, chan, node, native, portalVars, faults>>

\* closePortalSession: its error is ignored.
CloseSession ==
    /\ pc = "closeSession"
    /\ conn = "open"
    /\ session' = "closed"
    /\ asked' = FALSE
    /\ pc' = "closeConn"
    /\ UNCHANGED <<goVars, conn, chan, node, native, granted, faults>>

CloseSessionFails ==
    /\ pc = "closeSession"
    /\ faults' = faults \cup {"close"}
    /\ pc' = "closeConn"
    /\ UNCHANGED <<goVars, conn, chan, node, native, portalVars>>

\* The last step of a failed constructor and of Close.
CloseConn ==
    /\ pc = "closeConn"
    /\ conn' = "closed"
    /\ pc' = IF given THEN "closed" ELSE "failed"
    /\ UNCHANGED <<goVars, chan, node, native, portalVars, faults>>

Handshake ==
    \/ ConnectFails \/ Connect \/ CallReturns \/ CallFails \/ Subscribe
    \/ \E s \in chan : Ignore(s) \/ Refused(s) \/ NextRequest(s) \/ Started(s)
    \/ OpenPipeWireRemote \/ OpenFails

Build == (\E o \in {Ladder[k] : k \in 1 .. Len(Ladder)} : Obtain(o) \/ ObtainFails(o)) \/ \E started \in BOOLEAN : Run(started)

Cleanup == Release \/ Released \/ CloseSession \/ CloseSessionFails \/ CloseConn

\* What the constructor and Close do by themselves.
Step == Handshake \/ TimerFires \/ Build \/ Cleanup

Next == Outside \/ Step \/ Close

Spec == Init /\ [][Next]_vars

\* A call of the bus library returns, with a result or with an error, and the
\* timer fires.  Nobody has to answer a request and nobody has to call Close.
FairSpec == Spec /\ WF_vars(Step)

-----------------------------------------------------------------------------
(* Properties.                                                             *)

Ended == pc \in {"failed", "closed"}

TypeOK ==
    /\ pc \in Points
    /\ method \in Methods
    /\ output \in Outputs
    /\ conn \in {"none", "open", "broken", "closed"}
    /\ path \in BOOLEAN /\ given \in BOOLEAN
    /\ chan \subseteq Signals
    /\ node \in -1 .. MaxStreams - 1
    /\ fd \in {"none", "open", "owned", "closed"}
    /\ objects \subseteq Objects
    /\ todo \in Seq(Objects)
    /\ session \in {"none", "open", "closed"}
    /\ asked \in BOOLEAN
    /\ granted \subseteq Methods
    /\ faults \subseteq {"bus", "portal", "early", "session", "slow", "close", "thread"} \cup DOMAIN Undo

\* On no path of pw_capture_new or pw_capture_destroy does an object outlive
\* one it was made from; the lock goes before its loop, and the loop thread
\* never runs beside the making or the release of an object it works on.
TeardownOrder ==
    /\ "stream" \in objects => "core" \in objects
    /\ "core" \in objects => "context" \in objects
    /\ objects \cap {"context", "lock"} # {} => "loop" \in objects
    /\ "loop" \in objects => "memory" \in objects
    /\ "thread" \in objects => {"memory", "loop", "context", "core", "stream"} \subseteq objects

\* A failed constructor and Close leave no native object and no connection.
\* They leave the portal's descriptor open only when pw_capture_new failed
\* before it handed it to PipeWire, and a session whose handle the constructor
\* was given only when the bus or the call that closes it failed.
NothingLeft ==
    Ended =>
      /\ objects = {}
      /\ conn \in {"none", "closed"}
      /\ fd = "open" => faults \cap {"memory", "loop", "context"} # {}
      /\ path /\ session = "open" => faults \cap {"bus", "close"} # {}

\* Nothing is read from the screen, and no descriptor for it is held, before
\* the portal granted all three requests.
ConsentFirst ==
    node # -1 \/ fd # "none" \/ objects # {} \/ given => granted = Methods

\* When the portal grants everything, after it was listened to and in time,
\* and nothing breaks, the constructor succeeds.
GrantedMeansDone == pc = "failed" => faults # {}

\* The portal may answer at once.  PipeWire is preferred on Wayland
\* (capturer_linux.go:8): a request granted before its channel is registered is
\* no reason to do without it.
PromptAnswerHeard == pc = "failed" => faults \ {"early"} # {}

\* The constructor and Close return, whatever the portal answers or omits.
Terminates ==
    pc \notin {"done", "failed", "closed"} ~> pc \in {"done", "failed", "closed"}
=============================================================================
