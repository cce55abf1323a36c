----------------------------- MODULE SckCapture -----------------------------
(***************************************************************************)
(* The ScreenCaptureKit capturer (sckit_darwin.m, sckit_darwin.go), from   *)
(* sc_capture_new to sc_capture_destroy.                                   *)
(*                                                                         *)
(* Two waits of the constructor are bounded: for the shareable content and *)
(* for the start of the stream.  A start that takes longer counts as a     *)
(* success, and its outcome comes while the capturer is already in use.    *)
(* Samples arrive on a serial dispatch queue; each brings its own size.    *)
(*                                                                         *)
(* As in PipewireCapture, a critical section of c->lock is one action, c.mu*)
(* is the variable mu, and a pixel is the number of the frame it is from.  *)
(***************************************************************************)
EXTENDS Integers

CONSTANTS
    Callers,            \* goroutines that share the Capturer
    Samples,            \* sizes a sample may have: w, h, stride in pixels,
                        \* and whether its pixel format is a known one
    Timeouts,           \* values of Options.Timeout, in microseconds
    MaxFrames           \* bound: samples published

ASSUME InputAssumption ==
    /\ Samples \subseteq [w : Nat \ {0}, h : Nat \ {0}, stride : Nat, known : BOOLEAN]
    /\ \A s \in Samples : s.stride >= s.w
    /\ Timeouts \subseteq Nat \ {0}
    /\ MaxFrames \in Nat

VARIABLES
    stage,              \* of the capture: being made, in use, gone
    live,               \* of the SCStream
    output,             \* the handler is registered with the stream
    job,                \* the sample on the handler's queue, {} when none
    pub,                \* c->width, c->height, c->stride, c->format
    frame,              \* c->frame: frame[i] is the tag of the i-th pixel
    frameSize,          \* c->frame_size, the capacity of c->frame
    seq,                \* c->seq
    crashed,            \* the process is gone
    timeout,            \* c.timeout
    mu,                 \* holder of c.mu, {} when free
    lastImage,          \* the pixels of c.lastImage, {} when nil
    lastSeq,            \* c.lastSeq
    out,                \* the sc_frame of the caller that holds mu
    pc,                 \* where each caller is
    start,              \* seq when the current Capture began
    ret                 \* result of the latest call

capVars   == <<stage, live, output>>
frameVars == <<pub, frame, frameSize, seq>>
goVars    == <<crashed, timeout, lastImage, lastSeq>>
callVars  == <<pc, start, ret>>
vars == <<capVars, job, frameVars, goVars, mu, out, callVars>>

NoSample == [w |-> 0, h |-> 0, stride |-> 0, known |-> FALSE]
NoFrame  == [pub |-> NoSample, size |-> 0, seq |-> 0, cells |-> <<>>]
NoResult == [kind |-> "none", seq |-> 0]

Kinds == {"none", "fresh", "repeated", "timeout", "error", "closed"}

InRead == {"read", "waiting", "woken", "expired"}
InMu   == InRead \cup {"convert", "stop", "destroy", "closing"}

Init ==
    /\ stage = "content"
    /\ live = "none"
    /\ output = FALSE
    /\ job = {}
    /\ pub = NoSample
    /\ frame = <<>>
    /\ frameSize = 0
    /\ seq = 0
    /\ crashed = FALSE
    /\ timeout \in Timeouts
    /\ mu = {}
    /\ lastImage = {}
    /\ lastSeq = 0
    /\ out = NoFrame
    /\ pc = [g \in Callers |-> "idle"]
    /\ start = [g \in Callers |-> 0]
    /\ ret = [g \in Callers |-> NoResult]

-----------------------------------------------------------------------------
(* sc_capture_new                                                          *)

Constructing == stage \in {"content", "output", "start"}

\* The completion handler is called in time, with displays to choose from.
ContentArrives ==
    /\ stage = "content"
    /\ stage' = "output"
    /\ UNCHANGED <<live, output, job, frameVars, goVars, mu, out, callVars>>

\* No framework, no memory, an error, no displays, or no answer for 5 s.
ContentFails ==
    /\ stage = "content"
    /\ stage' = "failed"
    /\ UNCHANGED <<live, output, job, frameVars, goVars, mu, out, callVars>>

\* initWithFilter and addStreamOutput, then startCapture.
AddOutput ==
    /\ stage = "output"
    /\ stage' = "start"
    /\ output' = TRUE
    /\ live' = "starting"
    /\ UNCHANGED <<job, frameVars, goVars, mu, out, callVars>>

AddOutputFails ==
    /\ stage = "output"
    /\ stage' = "failed"
    /\ UNCHANGED <<live, output, job, frameVars, goVars, mu, out, callVars>>

\* The start succeeds or fails at any time, in time or not: a stop that was
\* asked for before ends what begins after it.
StartCompletes(result) ==
    /\ ~crashed
    /\ live = "starting"
    /\ live' = result
    /\ UNCHANGED <<stage, output, job, frameVars, goVars, mu, out, callVars>>

\* The wait ends: the constructor fails only if an error has come by then.
StartWaited ==
    /\ stage = "start"
    /\ stage' = IF live = "failed" THEN "failed" ELSE "running"
    /\ UNCHANGED <<live, output, job, frameVars, goVars, mu, out, callVars>>

-----------------------------------------------------------------------------
(* The sample handler.  A sample on its serial queue may be waiting or in  *)
(* work; there is one at a time.                                           *)

Sample(s) ==
    /\ live = "running" /\ output
    /\ job = {}
    /\ seq < MaxFrames
    /\ job' = {s}
    /\ UNCHANGED <<capVars, frameVars, goVars, mu, out, callVars>>

\* A sample of another type or without pixels, or no memory for it.
Drop ==
    /\ job # {}
    /\ job' = {}
    /\ UNCHANGED <<capVars, frameVars, goVars, mu, out, callVars>>

\* Seeded fault: the broadcast is forgotten.
NoBroadcast == UNCHANGED pc

\* pthread_cond_broadcast(&self.cap->cond)
Broadcast == pc' = [g \in Callers |-> IF pc[g] = "waiting" THEN "woken" ELSE pc[g]]

Capacity(bytes) == IF bytes > frameSize THEN bytes ELSE frameSize

\* Seeded fault: a frame is copied only when the buffer had to grow.
WrittenIfGrown(bytes) ==
    IF bytes > frameSize THEN [i \in 1 .. bytes |-> seq + 1] ELSE frame

Written(bytes) ==
    [i \in 1 .. Capacity(bytes) |-> IF i <= bytes THEN seq + 1 ELSE frame[i]]

Publish ==
    /\ stage # "freed"
    /\ \E s \in job :
          /\ frame' = Written(s.stride * s.h)
          /\ frameSize' = Capacity(s.stride * s.h)
          /\ pub' = s
    /\ seq' = seq + 1
    /\ Broadcast
    /\ job' = {}
    /\ UNCHANGED <<capVars, goVars, mu, out, start, ret>>

\* A sample still on the queue when the capture was freed: nothing waits for it.
\* What the handler does with freed memory is undefined: nobody sees anything of
\* it, or it is the end of the process.
HandlerOnFreed ==
    /\ stage = "freed" /\ job # {}
    /\ job' = {}
    /\ crashed' \in BOOLEAN
    /\ UNCHANGED <<capVars, frameVars, timeout, lastImage, lastSeq, mu, out, callVars>>

-----------------------------------------------------------------------------
(* CaptureWithInfo and sc_capture_read.                                    *)

Goto(g, point) == pc' = [pc EXCEPT ![g] = point]

CallCapture(g) ==
    /\ ~crashed
    /\ stage \in {"running", "freed"}
    /\ pc[g] = "idle"
    /\ Goto(g, "capture")
    /\ start' = [start EXCEPT ![g] = seq]
    /\ ret' = [ret EXCEPT ![g] = NoResult]
    /\ UNCHANGED <<capVars, job, frameVars, goVars, mu, out>>

Return(g, kind, n) ==
    /\ Goto(g, "idle")
    /\ start' = [start EXCEPT ![g] = 0]
    /\ ret' = [ret EXCEPT ![g] = [kind |-> kind, seq |-> n]]
    /\ mu' = mu \ {g}

LockCapture(g) ==
    /\ ~crashed
    /\ pc[g] = "capture"
    /\ mu = {}
    /\ IF stage = "freed"
         THEN Return(g, "error", 0)
         ELSE Goto(g, "read") /\ mu' = {g} /\ UNCHANGED <<start, ret>>
    /\ UNCHANGED <<capVars, job, frameVars, goVars, out>>

\* Seeded fault: the frame that is already shown counts as new.
ReadyAlways == seq # 0

Ready == seq # 0 /\ seq # lastSeq

MayWait == lastImage = {} /\ timeout \div 1000 # 0

NothingNew(g) ==
    /\ IF lastImage # {} THEN Return(g, "repeated", lastSeq) ELSE Return(g, "timeout", 0)
    /\ UNCHANGED <<capVars, job, frameVars, goVars, out>>

ReadPoll(g) == pc[g] = "read" /\ ~Ready /\ ~MayWait /\ NothingNew(g)

\* pthread_cond_timedwait; a woken caller that finds nothing sleeps again.
ReadWait(g) ==
    /\ \/ pc[g] = "read" /\ MayWait
       \/ pc[g] = "woken"
    /\ ~Ready
    /\ Goto(g, "waiting")
    /\ UNCHANGED <<capVars, job, frameVars, goVars, mu, out, start, ret>>

\* Seeded fault: a wait without a deadline.
RouseWithoutDeadline(g, point) ==
    /\ point = "woken"
    /\ pc[g] = "waiting"
    /\ Goto(g, point)
    /\ UNCHANGED <<capVars, job, frameVars, goVars, mu, out, start, ret>>

\* A spurious wake-up, or the deadline; c->lock is still to be taken.
Rouse(g, point) ==
    /\ pc[g] = "waiting"
    /\ Goto(g, point)
    /\ UNCHANGED <<capVars, job, frameVars, goVars, mu, out, start, ret>>

\* ETIMEDOUT returns without another look at c->seq.
ReadTimedOut(g) == pc[g] = "expired" /\ NothingNew(g)

\* out->size is the capacity, whatever the size of this frame.
ReadCopy(g) ==
    /\ pc[g] \in {"read", "woken"} /\ Ready
    /\ out' = [pub |-> pub, size |-> frameSize, seq |-> seq, cells |-> frame]
    /\ Goto(g, "convert")
    /\ UNCHANGED <<capVars, job, frameVars, goVars, mu, start, ret>>

ReadNoMemory(g) ==
    /\ pc[g] \in {"read", "woken"} /\ Ready
    /\ Return(g, "error", 0)
    /\ UNCHANGED <<capVars, job, frameVars, goVars, out>>

\* convertMacFrame: the rows of the copy, without their padding.
PixelsOf(f) ==
    { f.cells[y * f.pub.stride + x + 1] : x \in 0 .. f.pub.w - 1, y \in 0 .. f.pub.h - 1 }

Convertible(f) == f.pub.stride * f.pub.h <= f.size /\ f.pub.known

Convert(g) ==
    /\ pc[g] = "convert"
    /\ lastImage' = IF Convertible(out) THEN PixelsOf(out) ELSE lastImage
    /\ lastSeq' = IF Convertible(out) THEN out.seq ELSE lastSeq
    /\ IF Convertible(out) THEN Return(g, "fresh", out.seq) ELSE Return(g, "error", 0)
    /\ out' = NoFrame
    /\ UNCHANGED <<capVars, job, frameVars, crashed, timeout>>

-----------------------------------------------------------------------------
(* Close and sc_capture_destroy.                                           *)

CallClose(g) ==
    /\ ~crashed
    /\ stage \in {"running", "freed"}
    /\ pc[g] = "idle"
    /\ Goto(g, "close")
    /\ ret' = [ret EXCEPT ![g] = NoResult]
    /\ UNCHANGED <<capVars, job, frameVars, goVars, mu, out, start>>

LockClose(g) ==
    /\ ~crashed
    /\ pc[g] = "close"
    /\ mu = {}
    /\ IF stage = "freed"
         THEN Return(g, "closed", 0)
         ELSE Goto(g, "stop") /\ mu' = {g} /\ UNCHANGED <<start, ret>>
    /\ UNCHANGED <<capVars, job, frameVars, goVars, out>>

\* Seeded fault: the handler stays registered.
StopKeepsOutput(g) ==
    /\ pc[g] = "stop"
    /\ Goto(g, "destroy")
    /\ UNCHANGED <<capVars, job, frameVars, goVars, mu, out, start, ret>>

\* The stop is not waited for, so samples may still come; once the output is
\* removed none is put on the queue, which is taken from ScreenCaptureKit.
Stop(g) ==
    /\ pc[g] = "stop"
    /\ output' = FALSE
    /\ Goto(g, "destroy")
    /\ UNCHANGED <<stage, live, job, frameVars, goVars, mu, out, start, ret>>

\* At once, whatever the handler is doing on its queue.
Destroy(g) ==
    /\ pc[g] = "destroy"
    /\ stage' = "freed"
    /\ Goto(g, "closing")
    /\ UNCHANGED <<live, output, job, frameVars, goVars, mu, out, start, ret>>

\* c.cap = nil and the unlock.
CloseReturns(g) ==
    /\ ~crashed
    /\ pc[g] = "closing"
    /\ Return(g, "closed", 0)
    /\ UNCHANGED <<capVars, job, frameVars, goVars, out>>

-----------------------------------------------------------------------------

Construct == ContentArrives \/ ContentFails \/ AddOutput \/ AddOutputFails \/ StartWaited

Capture(g) ==
    \/ LockCapture(g) \/ ReadPoll(g) \/ ReadWait(g) \/ ReadTimedOut(g)
    \/ ReadCopy(g) \/ ReadNoMemory(g) \/ Convert(g)

Close(g) == LockClose(g) \/ Stop(g) \/ Destroy(g) \/ CloseReturns(g)

Next ==
    \/ Construct
    \/ \E result \in {"running", "failed"} : StartCompletes(result)
    \/ \E s \in Samples : Sample(s)
    \/ Drop \/ Publish \/ HandlerOnFreed
    \/ \E g \in Callers :
          \/ CallCapture(g) \/ CallClose(g)
          \/ Rouse(g, "woken") \/ Rouse(g, "expired")
          \/ Capture(g) \/ Close(g)

Spec == Init /\ [][Next]_vars

\* The two deadlines of the constructor pass (ContentFails, StartWaited); a
\* thread that can run does; c.mu is handed over fairly; the deadline of a wait
\* is absolute.  Nothing is assumed of the completion and sample handlers.
Fairness ==
    /\ WF_vars(ContentFails) /\ WF_vars(AddOutput \/ AddOutputFails) /\ WF_vars(StartWaited)
    /\ \A g \in Callers :
          /\ SF_vars(LockCapture(g) \/ LockClose(g))
          /\ SF_vars(Rouse(g, "expired"))
          /\ WF_vars(pc[g] \in InMu /\ (Capture(g) \/ Close(g)))

FairSpec == Spec /\ Fairness

-----------------------------------------------------------------------------
(* Properties.                                                             *)

TypeOK ==
    /\ stage \in {"content", "output", "start", "running", "freed", "failed"}
    /\ live \in {"none", "starting", "running", "failed"}
    /\ output \in BOOLEAN
    /\ job \subseteq Samples
    /\ pub \in Samples \cup {NoSample}
    /\ frameSize \in Nat
    /\ frame \in [1 .. frameSize -> Nat]
    /\ seq \in 0 .. MaxFrames
    /\ crashed \in BOOLEAN
    /\ timeout \in Timeouts
    /\ mu \subseteq Callers
    /\ lastImage \subseteq Nat
    /\ lastSeq \in Nat
    /\ out.pub \in Samples \cup {NoSample}
    /\ out.size \in Nat /\ out.seq \in Nat
    /\ out.cells \in [1 .. out.size -> Nat]
    /\ pc \in [Callers -> {"idle", "capture", "close"} \cup InMu]
    /\ start \in [Callers -> Nat]
    /\ ret \in [Callers -> [kind : Kinds, seq : Nat]]

\* A caller asleep on c->cond has not missed the frame it waits for.
NoLostWakeup == \A g \in Callers : pc[g] = "waiting" => ~Ready

Gone == stage \in {"freed", "failed"}

\* A capture that sc_capture_destroy or a failed sc_capture_new has freed is
\* entered by nobody: no caller is in sc_capture_read, and no sample is put on the
\* handler's queue, although the stream was not waited for, may start only after
\* the free, and keeps the handler after a failed start.  A sample put there
\* before the free is not excluded, and nothing in the code excludes it.
NothingEntersFreed ==
    [][Gone => /\ job' \subseteq job
               /\ \A g \in Callers : pc[g] \notin InRead /\ pc'[g] \notin InRead]_vars

\* Every pixel of the image is from the one frame lastSeq, although c->frame
\* keeps the pixels of earlier, larger frames and is copied in its whole
\* capacity with the geometry of the newest.
NoTornImage == lastImage # {} => lastImage = {lastSeq}

\* The constructor returns within its two deadlines, even when no completion
\* handler is ever called; and every call returns, also when the stream never
\* starts, unless a handler on freed memory has ended the process.
CallsReturn ==
    /\ <>~Constructing
    /\ \A g \in Callers : pc[g] # "idle" ~> pc[g] = "idle" \/ crashed

Contract == INSTANCE CaptureContract WITH
    Hasty <- FALSE,
    missed <- 0,
    avail <- seq,
    last  <- lastSeq,
    open  <- stage # "freed",
    call  <- [g \in Callers |->
                CASE pc[g] = "idle" -> "none"
                  [] pc[g] \in {"close", "stop", "destroy", "closing"} -> "Close"
                  [] OTHER -> "Capture"]

\* The capturer keeps the promise of the Capturer interface, the one the
\* PipeWire capturer is held to (capturer.go:13-15 and 31-32).
ContractSpec == Contract!Spec
=============================================================================
