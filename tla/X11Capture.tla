----------------------------- MODULE X11Capture -----------------------------
(***************************************************************************)
(* The X11 capturer (x11_linux.go): newX11Capturer, CaptureWithInfo and    *)
(* Close.  A Capture is one GetImage request and its reply; the reply is   *)
(* converted, row after row, into an image the capturer keeps and hands    *)
(* out again and again.                                                    *)
(*                                                                         *)
(* The screen is a version number that grows with every change, and a row  *)
(* is the version it was copied from.                                      *)
(***************************************************************************)
EXTENDS Integers

CONSTANTS
    Callers,            \* goroutines that share the Capturer
    Rows,               \* rows of the screen
    Depths,             \* whether x11ToRGBA knows the bytes per pixel
    MaxVersions         \* bound: changes of the screen

ASSUME InputAssumption ==
    /\ Rows \in Nat \ {0}
    /\ Depths \subseteq BOOLEAN
    /\ MaxVersions \in Nat \ {0}

VARIABLES
    screen,             \* version of what the screen shows
    server,             \* the X server is there
    stage,              \* of the capturer
    conn,               \* the connection
    supported,          \* bpp / 8 is 3 or 4
    mu,                 \* holder of c.mu, {} when free
    image,              \* version of each row of c.img, 0 before the first
    reply,              \* version in the reply a caller converts, 0 = none
    row,                \* rows converted
    pc,                 \* where each caller is
    start,              \* screen when the current Capture began
    ret                 \* result of the latest call

goVars   == <<stage, conn, supported, mu>>
callVars == <<start, ret>>
vars == <<screen, server, goVars, image, reply, row, pc, callVars>>

NoReply  == [g \in Callers |-> 0]
NoResult == [kind |-> "none", shown |-> {}, start |-> 0]

InMu == {"request", "reply", "convert"}

Init ==
    /\ screen = 1
    /\ server = TRUE
    /\ stage = "new"
    /\ conn = "none"
    /\ supported \in Depths
    /\ mu = {}
    /\ image = [r \in 1 .. Rows |-> 0]
    /\ reply = NoReply
    /\ row = NoReply
    /\ pc = [g \in Callers |-> "idle"]
    /\ start = [g \in Callers |-> 0]
    /\ ret = [g \in Callers |-> NoResult]

-----------------------------------------------------------------------------
(* The X server.                                                           *)

ScreenChanges ==
    /\ screen < MaxVersions
    /\ screen' = screen + 1
    /\ UNCHANGED <<server, goVars, image, reply, row, pc, callVars>>

ServerGoes ==
    /\ server
    /\ server' = FALSE
    /\ UNCHANGED <<screen, goVars, image, reply, row, pc, callVars>>

-----------------------------------------------------------------------------
(* newX11Capturer                                                          *)

ConnectFails ==
    /\ stage = "new"
    /\ stage' = "failed"
    /\ UNCHANGED <<screen, server, conn, supported, mu, image, reply, row, pc, callVars>>

Connect ==
    /\ stage = "new" /\ server
    /\ conn' = "open"
    /\ stage' = "connected"
    /\ UNCHANGED <<screen, server, supported, mu, image, reply, row, pc, callVars>>

\* A display without screens.
NoScreens ==
    /\ stage = "connected"
    /\ conn' = "closed"
    /\ stage' = "failed"
    /\ UNCHANGED <<screen, server, supported, mu, image, reply, row, pc, callVars>>

\* The choice of a Xinerama screen only ever falls back to the whole screen.
Constructed ==
    /\ stage = "connected"
    /\ stage' = "open"
    /\ UNCHANGED <<screen, server, conn, supported, mu, image, reply, row, pc, callVars>>

-----------------------------------------------------------------------------
(* CaptureWithInfo                                                         *)

Goto(g, point) == pc' = [pc EXCEPT ![g] = point]

CallCapture(g) ==
    /\ stage \in {"open", "closed"}
    /\ pc[g] = "idle"
    /\ Goto(g, "capture")
    /\ start' = [start EXCEPT ![g] = screen]
    /\ ret' = [ret EXCEPT ![g] = NoResult]
    /\ UNCHANGED <<screen, server, goVars, image, reply, row>>

\* Seeded fault: a return that leaves the mutex locked.
UnlockForgotten(g) == UNCHANGED mu

\* c.mu.Unlock(), deferred by both methods
Unlock(g) == mu' = mu \ {g}

Return(g, kind) ==
    /\ Goto(g, "idle")
    /\ ret' = [ret EXCEPT ![g] =
                 [kind |-> kind, shown |-> { image[r] : r \in 1 .. Rows }, start |-> start[g]]]
    /\ start' = [start EXCEPT ![g] = 0]
    /\ Unlock(g)

LockCapture(g) ==
    /\ pc[g] = "capture"
    /\ mu = {}
    /\ mu' = {g}
    /\ Goto(g, "request")
    /\ UNCHANGED <<screen, server, stage, conn, supported, image, reply, row, callVars>>

\* xproto.GetImage
Request(g) ==
    /\ pc[g] = "request"
    /\ conn = "open"
    /\ Goto(g, "reply")
    /\ UNCHANGED <<screen, server, goVars, image, reply, row, callVars>>

\* After Close the connection is nil, and GetImage panics; the deferred unlock
\* still runs.
Panic(g) ==
    /\ pc[g] = "request"
    /\ conn = "closed"
    /\ Return(g, "panic")
    /\ UNCHANGED <<screen, server, stage, conn, supported, image, reply, row>>

\* The server handles a request as a whole, so the reply is one version.
Reply(g) ==
    /\ pc[g] = "reply"
    /\ server
    /\ reply' = [reply EXCEPT ![g] = screen]
    /\ row' = [row EXCEPT ![g] = 0]
    /\ Goto(g, "convert")
    /\ UNCHANGED <<screen, server, goVars, image, callVars>>

\* An X error, or the connection breaks.
ReplyFails(g) ==
    /\ pc[g] = "reply"
    /\ Return(g, "error")
    /\ UNCHANGED <<screen, server, stage, conn, supported, image, reply, row>>

\* x11ToRGBA
ConvertFails(g) ==
    /\ pc[g] = "convert"
    /\ ~supported
    /\ Return(g, "error")
    /\ reply' = [reply EXCEPT ![g] = 0]
    /\ UNCHANGED <<screen, server, stage, conn, supported, image, row>>

ConvertRow(g) ==
    /\ pc[g] = "convert"
    /\ supported
    /\ row[g] < Rows
    /\ row' = [row EXCEPT ![g] = row[g] + 1]
    /\ image' = [image EXCEPT ![row[g] + 1] = reply[g]]
    /\ UNCHANGED <<screen, server, goVars, reply, pc, callVars>>

\* Seeded fault: the loop over the rows stops one row early.
ConvertedEarly(g) ==
    /\ pc[g] = "convert"
    /\ supported
    /\ row[g] >= Rows - 1
    /\ Return(g, "fresh")
    /\ row' = [row EXCEPT ![g] = 0]
    /\ reply' = [reply EXCEPT ![g] = 0]
    /\ UNCHANGED <<screen, server, stage, conn, supported, image>>

\* (img, false, nil), always.
Converted(g) ==
    /\ pc[g] = "convert"
    /\ row[g] = Rows
    /\ Return(g, "fresh")
    /\ row' = [row EXCEPT ![g] = 0]
    /\ reply' = [reply EXCEPT ![g] = 0]
    /\ UNCHANGED <<screen, server, stage, conn, supported, image>>

-----------------------------------------------------------------------------
(* Close                                                                   *)

CallClose(g) ==
    /\ stage \in {"open", "closed"}
    /\ pc[g] = "idle"
    /\ Goto(g, "close")
    /\ ret' = [ret EXCEPT ![g] = NoResult]
    /\ UNCHANGED <<screen, server, goVars, image, reply, row, start>>

\* Seeded fault: Close does not take c.mu.
CloseUnlocked(g) ==
    /\ pc[g] = "close"
    /\ conn' = "closed"
    /\ stage' = "closed"
    /\ Return(g, "closed")
    /\ UNCHANGED <<screen, server, supported, image, reply, row>>

Close(g) ==
    /\ pc[g] = "close"
    /\ mu = {}
    /\ conn' = "closed"
    /\ stage' = "closed"
    /\ Return(g, "closed")
    /\ UNCHANGED <<screen, server, supported, image, reply, row>>

-----------------------------------------------------------------------------

Construct == ConnectFails \/ Connect \/ NoScreens \/ Constructed

\* What a caller does once it has the lock, whatever the server does.
Proceed(g) ==
    \/ Request(g) \/ Panic(g)
    \/ ConvertFails(g) \/ ConvertRow(g) \/ Converted(g)

Answer(g) == Reply(g) \/ ReplyFails(g)

Next ==
    \/ ScreenChanges \/ ServerGoes
    \/ Construct
    \/ \E g \in Callers :
          \/ CallCapture(g) \/ CallClose(g)
          \/ LockCapture(g) \/ Proceed(g) \/ Answer(g)
          \/ Close(g)

Spec == Init /\ [][Next]_vars

\* The callers' own steps, and c.mu handed over fairly.  A request is waited for
\* without a deadline: it ends when the server answers it, or is gone.
Fairness ==
    \A g \in Callers :
       /\ WF_vars(Proceed(g))
       /\ SF_vars(LockCapture(g) \/ Close(g))
       /\ WF_vars(Answer(g))

FairSpec == Spec /\ Fairness

-----------------------------------------------------------------------------
(* Properties.                                                             *)

TypeOK ==
    /\ screen \in 1 .. MaxVersions
    /\ server \in BOOLEAN /\ supported \in BOOLEAN
    /\ stage \in {"new", "connected", "open", "closed", "failed"}
    /\ conn \in {"none", "open", "closed"}
    /\ mu \subseteq Callers
    /\ image \in [1 .. Rows -> 0 .. MaxVersions]
    /\ reply \in [Callers -> 0 .. MaxVersions]
    /\ row \in [Callers -> 0 .. Rows]
    /\ pc \in [Callers -> {"idle", "capture", "close"} \cup InMu]
    /\ start \in [Callers -> 0 .. MaxVersions]
    /\ ret \in [Callers -> [kind : {"none", "fresh", "error", "panic", "closed"},
                            shown : SUBSET (0 .. MaxVersions), start : 0 .. MaxVersions]]

\* A Capture returns a whole image of one moment of the screen, although all
\* callers share the image it is written into, and of no moment before the call.
WholeAndCurrent ==
    \A g \in Callers :
       ret[g].kind = "fresh" =>
          \E v \in ret[g].start .. screen : ret[g].shown = {v}

\* A failed constructor leaves no connection open, and Close closes it under
\* the callers' lock, never while a request is on its way.
ConnectionReleased ==
    /\ stage = "failed" => conn # "open"
    /\ conn = "closed" => \A g \in Callers : pc[g] # "reply"

\* Every call returns if the server answers or goes.
CallsReturn == \A g \in Callers : pc[g] # "idle" ~> pc[g] = "idle"
=============================================================================
