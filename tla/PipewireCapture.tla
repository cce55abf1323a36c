--------------------------- MODULE PipewireCapture ---------------------------
(***************************************************************************)
(* A constructed PipeWire capturer (pipewire_linux.go): the C side         *)
(* pw_capture, shared by three kinds of threads, and the Go methods        *)
(* CaptureWithInfo and Close on top of it.                                 *)
(*                                                                         *)
(*   loop thread   on_state_changed, on_param_changed                      *)
(*   data thread   on_process (PW_STREAM_FLAG_RT_PROCESS)                  *)
(*   callers       goroutines in Capture/CaptureWithInfo or Close          *)
(*                                                                         *)
(* A critical section of the pthread mutex c->lock is one action; a wait   *)
(* on c->cond splits pw_capture_read into the sections around it.  The Go  *)
(* mutex c.mu is held over several actions and is the variable mu.         *)
(*                                                                         *)
(* Pixels are abstracted to one tag: the number of the frame that wrote    *)
(* them.  A buffer cell is a pixel, so strides and sizes count pixels.     *)
(***************************************************************************)
EXTENDS Integers

CONSTANTS
    Callers,            \* goroutines that share the Capturer
    Infos,              \* video sizes the server may negotiate
    Chunks,             \* (stride, size) pairs a delivered chunk may carry
    FullChunks,         \* TRUE: every chunk holds its whole frame
    Timeouts,           \* values of Options.Timeout, in microseconds
    Buffers,            \* buffers of the stream's pool
    MaxFrames           \* bound: frames the server delivers

ASSUME InputAssumption ==
    /\ Infos \subseteq [w : Nat, h : Nat]
    /\ Chunks \subseteq [stride : Nat, size : Nat]
    /\ FullChunks \in BOOLEAN
    /\ Timeouts \subseteq Nat \ {0}         \* normalizeOptions
    /\ Buffers \in Nat \ {0}
    /\ MaxFrames \in Nat

VARIABLES
    \* pw_capture
    info,               \* c->info.size, 0 x 0 until a format is negotiated
    pub,                \* c->width, c->height, c->stride
    frame,              \* c->frame: frame[i] is the tag of the i-th pixel
    frameSize,          \* c->frame_size, the capacity of c->frame
    seq,                \* c->seq
    error,              \* c->error
    stage,              \* how far pw_capture_destroy has come
    \* data thread
    job,                \* on_process' locals while it holds a buffer
    queued,             \* buffers not dequeued
    \* pipewireCapturer
    timeout,            \* c.timeout
    mu,                 \* holder of c.mu, {} when free
    lastImage,          \* c.lastImage
    lastSeq,            \* c.lastSeq
    conn,               \* c.conn # nil
    out,                \* the pw_frame of the caller that holds mu
    \* callers
    pc,                 \* where each caller is
    start,              \* seq when the current Capture began
    ret                 \* result of the latest call

streamVars == <<info, pub, frame, frameSize, seq, error>>
dataVars   == <<job, queued>>
goVars     == <<timeout, lastImage, lastSeq, conn>>
callVars   == <<pc, start, ret>>
vars == <<streamVars, stage, dataVars, goVars, mu, out, callVars>>

NoImage == [w |-> 0, h |-> 0, tags |-> {}]
NoFrame == [w |-> 0, h |-> 0, stride |-> 0, size |-> 0, seq |-> 0, cells |-> <<>>]
IdleJob == [busy |-> FALSE, w |-> 0, h |-> 0, stride |-> 0, bytes |-> 0]
NoResult == [kind |-> "none", seq |-> 0]

Kinds == {"none", "fresh", "repeated", "timeout", "error", "closed"}

\* Program points at which a caller holds mu; in the first four it is inside
\* pw_capture_read, in the last three inside Close.
InRead  == {"read", "waiting", "woken", "expired"}
InClose == {"stopping", "stopped", "closing"}
InMu    == InRead \cup {"convert"} \cup InClose
Points  == {"idle", "capture", "close"} \cup InMu

Init ==
    /\ info = [w |-> 0, h |-> 0]
    /\ pub = [w |-> 0, h |-> 0, stride |-> 0]
    /\ frame = <<>>
    /\ frameSize = 0
    /\ seq = 0
    /\ error = FALSE
    /\ stage = "running"
    /\ job = IdleJob
    /\ queued = Buffers
    /\ timeout \in Timeouts
    /\ mu = {}
    /\ lastImage = NoImage
    /\ lastSeq = 0
    /\ conn = TRUE
    /\ out = NoFrame
    /\ pc = [g \in Callers |-> "idle"]
    /\ start = [g \in Callers |-> 0]
    /\ ret = [g \in Callers |-> NoResult]

-----------------------------------------------------------------------------
(* The loop thread.  pw_thread_loop_stop joins it, so it runs only before. *)

\* Seeded fault: the broadcast is forgotten.
NoBroadcast == UNCHANGED pc

\* pthread_cond_broadcast(&c->cond)
Broadcast ==
    pc' = [g \in Callers |-> IF pc[g] = "waiting" THEN "woken" ELSE pc[g]]

StreamError ==
    /\ stage = "running"
    /\ error' = TRUE
    /\ Broadcast
    /\ UNCHANGED <<info, pub, frame, frameSize, seq, stage, dataVars, goVars,
                   mu, out, start, ret>>

\* c->info is written without c->lock.  Its fields change together here: a
\* format is renegotiated with the node suspended, and on_process does not run.
ParamChanged ==
    /\ stage = "running"
    /\ info' \in Infos
    /\ UNCHANGED <<pub, frame, frameSize, seq, error, stage, dataVars, goVars,
                   mu, out, callVars>>

-----------------------------------------------------------------------------
(* The data thread: on_process.  pw_stream_destroy waits for it.           *)

Streaming == stage \in {"running", "stopped"}

\* The size on_process works with: the negotiated one, else the last one.
Negotiated == info.w # 0 /\ info.h # 0
Width  == IF Negotiated THEN info.w ELSE pub.w
Height == IF Negotiated THEN info.h ELSE pub.h
Stride(c) == IF c.stride = 0 THEN Width ELSE c.stride

Minimum(a, b) == IF a <= b THEN a ELSE b

\* What SPA guarantees of a chunk: a row fits its stride; with FullChunks the
\* chunk also holds every row.
Delivers(c) ==
    /\ Stride(c) >= Width
    /\ FullChunks => c.size >= Stride(c) * Height

Dequeue(c) ==
    /\ Streaming
    /\ ~job.busy
    /\ queued > 0
    /\ seq < MaxFrames
    /\ Delivers(c)
    /\ job' = [busy |-> TRUE, w |-> Width, h |-> Height, stride |-> Stride(c),
               bytes |-> Minimum(Stride(c) * Height, c.size)]
    /\ queued' = queued - 1
    /\ UNCHANGED <<streamVars, stage, goVars, mu, out, callVars>>

\* pw_stream_queue_buffer(c->stream, b), the last thing every path does.
Requeue ==
    /\ job' = IdleJob
    /\ queued' = queued + 1

\* Seeded fault: the buffer is queued again on the early return and at the end.
DropRequeuesTwice ==
    /\ job.busy
    /\ job' = IdleJob
    /\ queued' = queued + 2
    /\ UNCHANGED <<streamVars, stage, goVars, mu, out, callVars>>

\* Seeded fault: a path that forgets to give the buffer back.
DropLeaksBuffer ==
    /\ job.busy
    /\ job' = IdleJob
    /\ UNCHANGED <<queued, streamVars, stage, goVars, mu, out, callVars>>

\* Nothing is published: no size is known yet, the buffer is empty or cannot
\* be mapped, or realloc failed.
Drop ==
    /\ job.busy
    /\ Requeue
    /\ UNCHANGED <<streamVars, stage, goVars, mu, out, callVars>>

\* c->frame after realloc and memcpy: it grows and never shrinks, and only its
\* first `bytes` cells are written.
Capacity(bytes) == IF bytes > frameSize THEN bytes ELSE frameSize

Written(bytes) ==
    [i \in 1 .. Capacity(bytes) |-> IF i <= bytes THEN seq + 1 ELSE frame[i]]

Publish ==
    /\ job.busy
    /\ job.w # 0 /\ job.h # 0 /\ job.stride # 0
    /\ frame' = Written(job.bytes)
    /\ frameSize' = Capacity(job.bytes)
    /\ pub' = [w |-> job.w, h |-> job.h, stride |-> job.stride]
    /\ seq' = seq + 1
    /\ Broadcast
    /\ Requeue
    /\ UNCHANGED <<info, error, stage, goVars, mu, out, start, ret>>

-----------------------------------------------------------------------------
(* Callers: Capture and CaptureWithInfo.                                   *)

CallCapture(g) ==
    /\ pc[g] = "idle"
    /\ pc' = [pc EXCEPT ![g] = "capture"]
    /\ start' = [start EXCEPT ![g] = seq]
    /\ ret' = [ret EXCEPT ![g] = NoResult]
    /\ UNCHANGED <<streamVars, stage, dataVars, goVars, mu, out>>

Goto(g, point) == pc' = [pc EXCEPT ![g] = point]

\* Seeded fault: a return that leaves the mutex locked.
UnlockForgotten(g) == UNCHANGED mu

\* c.mu.Unlock(), deferred by both methods
Unlock(g) == mu' = mu \ {g}

Return(g, kind, n) ==
    /\ Goto(g, "idle")
    /\ start' = [start EXCEPT ![g] = 0]
    /\ ret' = [ret EXCEPT ![g] = [kind |-> kind, seq |-> n]]
    /\ Unlock(g)

\* c.mu.Lock(), then the c.pw == nil test.
LockCapture(g) ==
    /\ pc[g] = "capture"
    /\ mu = {}
    /\ stage # "freed"
    /\ mu' = {g}
    /\ Goto(g, "read")
    /\ UNCHANGED <<streamVars, stage, dataVars, goVars, out, start, ret>>

NotInitialized(g) ==
    /\ pc[g] = "capture"
    /\ mu = {}
    /\ stage = "freed"
    /\ Return(g, "error", 0)
    /\ UNCHANGED <<streamVars, stage, dataVars, goVars, out>>

\* Seeded fault: the frame that is already shown counts as new.
ReadyAlways == seq # 0

\* A frame the last image does not show yet.
Ready == seq # 0 /\ seq # lastSeq

\* CaptureWithInfo waits only until it has a first image; the timeout reaches
\* C as whole milliseconds.
MayWait == lastImage = NoImage /\ timeout \div 1000 # 0

\* ret == 1: nothing new.
NothingNew(g) ==
    IF lastImage # NoImage THEN Return(g, "repeated", lastSeq)
                           ELSE Return(g, "timeout", 0)

ReadError(g) ==
    /\ pc[g] \in {"read", "woken"}
    /\ error
    /\ Return(g, "error", 0)
    /\ UNCHANGED <<streamVars, stage, dataVars, goVars, out>>

ReadPoll(g) ==
    /\ pc[g] = "read"
    /\ ~error /\ ~Ready /\ ~MayWait
    /\ NothingNew(g)
    /\ UNCHANGED <<streamVars, stage, dataVars, goVars, out>>

\* pthread_cond_timedwait releases c->lock and sleeps; a woken caller that
\* finds nothing sleeps again.
ReadWait(g) ==
    /\ \/ pc[g] = "read" /\ MayWait
       \/ pc[g] = "woken"
    /\ ~error /\ ~Ready
    /\ Goto(g, "waiting")
    /\ UNCHANGED <<streamVars, stage, dataVars, goVars, mu, out, start, ret>>

SpuriousWakeup(g) ==
    /\ pc[g] = "waiting"
    /\ Goto(g, "woken")
    /\ UNCHANGED <<streamVars, stage, dataVars, goVars, mu, out, start, ret>>

\* The deadline passes; c->lock is still to be taken again, and a frame or an
\* error may come in before it is.
Expire(g) ==
    /\ pc[g] = "waiting"
    /\ Goto(g, "expired")
    /\ UNCHANGED <<streamVars, stage, dataVars, goVars, mu, out, start, ret>>

ReadTimedOut(g) ==
    /\ pc[g] = "expired"
    /\ NothingNew(g)
    /\ UNCHANGED <<streamVars, stage, dataVars, goVars, out>>

CanCopy(g) == pc[g] \in {"read", "woken"} /\ ~error /\ Ready

\* The copy taken under c->lock.
ReadCopy(g) ==
    /\ CanCopy(g)
    /\ out' = [w |-> pub.w, h |-> pub.h, stride |-> pub.stride,
               size |-> frameSize, seq |-> seq, cells |-> frame]
    /\ Goto(g, "convert")
    /\ UNCHANGED <<streamVars, stage, dataVars, goVars, mu, start, ret>>

ReadNoMemory(g) ==
    /\ CanCopy(g)
    /\ frameSize > 0
    /\ Return(g, "error", 0)
    /\ UNCHANGED <<streamVars, stage, dataVars, goVars, out>>

\* convertPipewireFrame: the rows of the copy, without their padding.
PixelsOf(f) == { f.cells[y * f.stride + x + 1] : x \in 0 .. f.w - 1, y \in 0 .. f.h - 1 }

Convertible(f) == f.stride * f.h <= f.size

\* The image is overwritten in place or replaced (ensureImage); either way the
\* capturer then shows the frame in `out`.
Convert(g) ==
    /\ pc[g] = "convert"
    /\ Convertible(out)
    /\ lastImage' = [w |-> out.w, h |-> out.h, tags |-> PixelsOf(out)]
    /\ lastSeq' = out.seq
    /\ Return(g, "fresh", out.seq)
    /\ out' = NoFrame
    /\ UNCHANGED <<streamVars, stage, dataVars, timeout, conn>>

ConvertFails(g) ==
    /\ pc[g] = "convert"
    /\ ~Convertible(out)
    /\ Return(g, "error", 0)
    /\ out' = NoFrame
    /\ UNCHANGED <<streamVars, stage, dataVars, goVars>>

-----------------------------------------------------------------------------
(* Callers: Close.                                                         *)

CallClose(g) ==
    /\ pc[g] = "idle"
    /\ pc' = [pc EXCEPT ![g] = "close"]
    /\ ret' = [ret EXCEPT ![g] = NoResult]
    /\ UNCHANGED <<streamVars, stage, dataVars, goVars, mu, out, start>>

\* c.mu.Lock(), then the c.pw != nil test.
LockClose(g) ==
    /\ pc[g] = "close"
    /\ mu = {}
    /\ mu' = {g}
    /\ Goto(g, IF stage = "freed" THEN "closing" ELSE "stopping")
    /\ UNCHANGED <<streamVars, stage, dataVars, goVars, out, start, ret>>

\* pw_thread_loop_stop: joins the loop thread.
StopLoop(g) ==
    /\ pc[g] = "stopping"
    /\ stage' = "stopped"
    /\ Goto(g, "stopped")
    /\ UNCHANGED <<streamVars, dataVars, goVars, mu, out, start, ret>>

\* Seeded fault: the memory is freed while on_process may still be running.
DestroyEarly(g) ==
    /\ pc[g] = "stopped"
    /\ stage' = "freed"
    /\ Goto(g, "closing")
    /\ UNCHANGED <<streamVars, dataVars, goVars, mu, out, start, ret>>

\* pw_stream_destroy removes the node from the data loop, which waits for a
\* running on_process; then everything is freed and c.pw is nil.
Destroy(g) ==
    /\ pc[g] = "stopped"
    /\ ~job.busy
    /\ stage' = "freed"
    /\ Goto(g, "closing")
    /\ UNCHANGED <<streamVars, dataVars, goVars, mu, out, start, ret>>

\* Seeded fault: an error of Session.Close returns before the connection is
\* closed.
CloseSessionMayFail(g) ==
    /\ pc[g] = "closing"
    /\ conn' \in {FALSE, conn}
    /\ Return(g, "closed", 0)
    /\ UNCHANGED <<streamVars, stage, dataVars, timeout, lastImage, lastSeq, out>>

\* The portal session and the bus connection go last; c.conn is nil then.
\* An error of Session.Close is ignored.
CloseSession(g) ==
    /\ pc[g] = "closing"
    /\ conn' = FALSE
    /\ Return(g, "closed", 0)
    /\ UNCHANGED <<streamVars, stage, dataVars, timeout, lastImage, lastSeq, out>>

-----------------------------------------------------------------------------

Capture(g) ==
    \/ LockCapture(g)
    \/ NotInitialized(g)
    \/ ReadError(g)
    \/ ReadPoll(g)
    \/ ReadWait(g)
    \/ ReadTimedOut(g)
    \/ ReadCopy(g)
    \/ ReadNoMemory(g)
    \/ Convert(g)
    \/ ConvertFails(g)

Close(g) ==
    \/ LockClose(g)
    \/ StopLoop(g)
    \/ Destroy(g)
    \/ CloseSession(g)

Next ==
    \/ StreamError
    \/ ParamChanged
    \/ \E c \in Chunks : Dequeue(c)
    \/ Drop
    \/ Publish
    \/ \E g \in Callers :
          \/ CallCapture(g)
          \/ CallClose(g)
          \/ SpuriousWakeup(g)
          \/ Expire(g)
          \/ Capture(g)
          \/ Close(g)

Spec == Init /\ [][Next]_vars

\* A thread that can run does.  c.mu is handed over fairly (sync.Mutex turns
\* to FIFO order after 1 ms); the deadline of a wait is absolute, so that
\* spurious wake-ups do not postpone it; and the data loop serves the removal
\* of the node between two runs of on_process.
Fairness ==
    /\ WF_vars(Drop \/ Publish)
    /\ \A g \in Callers :
          /\ SF_vars(LockCapture(g) \/ NotInitialized(g) \/ LockClose(g))
          /\ SF_vars(Expire(g))
          /\ SF_vars(Destroy(g))
          /\ WF_vars(pc[g] \in InMu /\ (Capture(g) \/ Close(g)))

FairSpec == Spec /\ Fairness

-----------------------------------------------------------------------------

Geometry == [w : Nat, h : Nat]

TypeOK ==
    /\ info \in Geometry
    /\ pub \in [w : Nat, h : Nat, stride : Nat]
    /\ frameSize \in Nat
    /\ frame \in [1 .. frameSize -> Nat]
    /\ seq \in Nat
    /\ error \in BOOLEAN
    /\ stage \in {"running", "stopped", "freed"}
    /\ job \in [busy : BOOLEAN, w : Nat, h : Nat, stride : Nat, bytes : Nat]
    /\ queued \in 0 .. Buffers
    /\ timeout \in Timeouts
    /\ mu \in SUBSET Callers
    /\ lastImage \in [w : Nat, h : Nat, tags : SUBSET Nat]
    /\ lastSeq \in Nat
    /\ conn \in BOOLEAN
    /\ out.w \in Nat /\ out.h \in Nat /\ out.stride \in Nat
    /\ out.size \in Nat /\ out.seq \in Nat
    /\ out.cells \in [1 .. out.size -> Nat]
    /\ pc \in [Callers -> Points]
    /\ start \in [Callers -> Nat]
    /\ ret \in [Callers -> [kind : Kinds, seq : Nat]]

\* c.mu admits one caller at a time to the capturer: a Capture never overlaps
\* another Capture or a Close (the c.mu.Lock of CaptureWithInfo and Close).
MutualExclusion ==
    \A g, h \in Callers : pc[g] \in InMu /\ pc[h] \in InMu => g = h

\* A caller asleep on c->cond has nothing to wake up for: no frame it has not
\* seen and no error came in after it tested for them (on_process and
\* on_state_changed broadcast under the lock that pw_capture_read tests under).
NoLostWakeup ==
    \A g \in Callers : pc[g] = "waiting" => ~Ready /\ ~error

\* Once pw_capture_destroy has freed the capture, no thread is inside code
\* that uses it: neither a caller in pw_capture_read nor on_process.
NoUseAfterFree ==
    stage = "freed" => ~job.busy /\ \A g \in Callers : pc[g] \notin InRead

\* on_process returns every buffer it dequeued, on each of its paths: while it
\* is not running, the stream has its whole pool.
BuffersReturned == queued = Buffers - (IF job.busy THEN 1 ELSE 0)

\* When a Close has returned, the stream is gone and so is the connection that
\* carries the portal session, also for the second of two concurrent Closes.
CloseReleasesAll ==
    \A g \in Callers : ret[g].kind = "closed" => stage = "freed" /\ ~conn

\* No tearing: every pixel of the image is from the one frame lastSeq, although
\* c->frame keeps the pixels of earlier, larger frames and the image is reused.
NoTornImage == lastImage # NoImage => lastImage.tags = {lastSeq}

\* repeated = false is for new pixels: when a Capture replaces the last image by
\* a frame it reports as new, some pixel of it was written after the frame the
\* last image showed (capturer.go:13-15: without a new frame, repeated = true).
FreshMeansNew ==
    [][lastImage # NoImage /\ lastSeq' # lastSeq =>
          \E tag \in lastImage'.tags : tag > lastSeq]_vars

\* Every call returns: a waiting caller within its timeout, the ones queued for
\* c.mu after it, and Close once the data thread has left on_process.
CallsReturn == \A g \in Callers : pc[g] # "idle" ~> pc[g] = "idle"

CallOf(point) ==
    CASE point = "idle" -> "none"
      [] point \in {"close"} \cup InClose -> "Close"
      [] OTHER -> "Capture"

Contract == INSTANCE CaptureContract WITH
    Hasty <- FALSE,
    missed <- 0,
    avail <- seq,
    last  <- lastSeq,
    open  <- stage # "freed",
    call  <- [g \in Callers |-> CallOf(pc[g])]

\* The capturer keeps the promise of the Capturer interface to every caller:
\* fresh frames in increasing order, none older than the call, ErrTimeout only
\* when there was no frame (capturer.go:13-15 and 31-32).
ContractSpec == Contract!Spec
=============================================================================
