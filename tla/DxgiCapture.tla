----------------------------- MODULE DxgiCapture -----------------------------
(***************************************************************************)
(* A constructed DXGI capturer (dxgi_windows.go): CaptureWithInfo with its *)
(* fast path, its waiting loop, readFrame and ensureStaging, and Close.    *)
(*                                                                         *)
(* Everything a method does happens under c.mu.  What runs beside it is    *)
(* the desktop: it presents images, moves the pointer and may withdraw the *)
(* duplication between any two calls into DXGI.  One action is one such    *)
(* call with the code up to the next one.                                  *)
(*                                                                         *)
(* An image is known by its number: the n-th image the desktop presented.  *)
(***************************************************************************)
EXTENDS Integers

CONSTANTS
    Callers,            \* goroutines that share the Capturer
    Descs,              \* (format, width, height) a desktop texture may have
    Supported,          \* those whose format readFrame converts
    Failures,           \* TRUE: calls into DXGI and D3D11 may fail
    Prompt,             \* TRUE: no deadline passes before the first acquire
    MaxPresents,        \* bound: images the desktop presents
    NoFrame, NoTexture, NoDesc      \* nil

\* A frame: the newest image, whether that is new, and its texture.
Frames == [n : Nat, new : BOOLEAN, desc : Descs]
Textures == [desc : Descs, n : Nat]

ASSUME InputAssumption ==
    /\ Supported \subseteq Descs
    /\ Failures \in BOOLEAN
    /\ Prompt \in BOOLEAN
    /\ MaxPresents \in Nat
    /\ NoFrame \notin Frames
    /\ NoTexture \notin Textures
    /\ NoDesc \notin Descs

VARIABLES
    \* the desktop and its duplication
    presented,          \* number of the newest image
    fetched,            \* number of the newest image acquired
    pointer,            \* a pointer update is waiting
    lost,               \* AcquireNextFrame returns DXGI_ERROR_ACCESS_LOST
    missed,             \* history: number of the newest image a failed read consumed
    held,               \* the frame between AcquireNextFrame and ReleaseFrame
    \* dxgiCapturer
    duplication,        \* c.duplication # nil
    staging,            \* c.staging: its description and the image in it
    stagingDesc,        \* c.stagingFormat, c.stagingWidth, c.stagingHeight
    refs,               \* references readFrame and its callers still own
    lastImage,          \* number of the image c.lastImage shows, 0 = nil
    mu,                 \* holder of c.mu, {} when free
    \* callers
    pc, start, ret

desktop  == <<presented, fetched, pointer, lost, missed>>
stagings == <<staging, stagingDesc>>
callVars == <<pc, start, ret>>
vars == <<desktop, held, duplication, stagings, refs, lastImage, mu, callVars>>

NoRefs == [resource |-> 0, texture |-> 0]
NoResult == [kind |-> "none", seq |-> 0]

Kinds == {"none", "fresh", "repeated", "timeout", "error", "closed"}

\* Where AcquireNextFrame is called: the fast path, and the first and the later
\* rounds of the waiting loop.
Acquiring == {"poll", "enter", "wait"}
Reading   == {"acquired", "texture", "copy"}
InMu      == Acquiring \cup Reading \cup {"releasing", "released"}
Points    == {"idle", "capture", "close"} \cup InMu

\* newDXGICapturer has succeeded.
Init ==
    /\ presented = 0
    /\ fetched = 0
    /\ pointer = FALSE
    /\ lost = FALSE
    /\ missed = 0
    /\ held = NoFrame
    /\ duplication = TRUE
    /\ staging = NoTexture
    /\ stagingDesc = NoDesc
    /\ refs = NoRefs
    /\ lastImage = 0
    /\ mu = {}
    /\ pc = [g \in Callers |-> "idle"]
    /\ start = [g \in Callers |-> 0]
    /\ ret = [g \in Callers |-> NoResult]

-----------------------------------------------------------------------------
(* The desktop.                                                            *)

Present ==
    /\ duplication /\ ~lost
    /\ presented < MaxPresents
    /\ presented' = presented + 1
    /\ UNCHANGED <<fetched, pointer, lost, missed, held, duplication, stagings, refs,
                   lastImage, mu, callVars>>

MovePointer ==
    /\ duplication /\ ~lost
    /\ pointer' = TRUE
    /\ UNCHANGED <<presented, fetched, lost, missed, held, duplication, stagings, refs,
                   lastImage, mu, callVars>>

\* A mode change, a full-screen switch or the secure desktop.  The duplication
\* never comes back: nothing in the code duplicates the output again.
LoseAccess ==
    /\ duplication
    /\ lost' = TRUE
    /\ UNCHANGED <<presented, fetched, pointer, missed, held, duplication, stagings,
                   refs, lastImage, mu, callVars>>

Desktop == Present \/ MovePointer \/ LoseAccess

-----------------------------------------------------------------------------
(* CaptureWithInfo.                                                        *)

Goto(g, point) == pc' = [pc EXCEPT ![g] = point]

\* c.mu.Unlock(), deferred by both methods
Unlock(g) == mu' = mu \ {g}

Return(g, kind, n) ==
    /\ Goto(g, "idle")
    /\ start' = [start EXCEPT ![g] = 0]
    /\ ret' = [ret EXCEPT ![g] = [kind |-> kind, seq |-> n]]
    /\ Unlock(g)

CallCapture(g) ==
    /\ pc[g] = "idle"
    /\ Goto(g, "capture")
    /\ start' = [start EXCEPT ![g] = presented]
    /\ ret' = [ret EXCEPT ![g] = NoResult]
    /\ UNCHANGED <<desktop, held, duplication, stagings, refs, lastImage, mu>>

\* Seeded fault: the test for a closed capturer is dropped.
LockCaptureUnchecked(g) ==
    /\ pc[g] = "capture"
    /\ mu = {}
    /\ mu' = {g}
    /\ Goto(g, IF lastImage # 0 THEN "poll" ELSE "enter")
    /\ UNCHANGED <<desktop, held, duplication, stagings, refs, lastImage, start, ret>>

LockCapture(g) ==
    /\ pc[g] = "capture"
    /\ mu = {}
    /\ duplication
    /\ mu' = {g}
    /\ Goto(g, IF lastImage # 0 THEN "poll" ELSE "enter")
    /\ UNCHANGED <<desktop, held, duplication, stagings, refs, lastImage, start, ret>>

NotInitialized(g) ==
    /\ pc[g] = "capture"
    /\ mu = {}
    /\ ~duplication
    /\ Return(g, "error", 0)
    /\ UNCHANGED <<desktop, held, duplication, stagings, refs, lastImage>>

Pending == presented > fetched

\* DXGI_ERROR_WAIT_TIMEOUT: nothing to acquire for a poll, or for as long as
\* the rest of the timeout.
AcquireTimesOut(g) ==
    /\ pc[g] \in Acquiring
    /\ ~lost /\ ~Pending /\ ~pointer
    /\ IF lastImage # 0 THEN Return(g, "repeated", lastImage)
                        ELSE Return(g, "timeout", 0)
    /\ UNCHANGED <<desktop, held, duplication, stagings, refs, lastImage>>

\* Seeded fault: the deadline is tested before the first round only.
DeadlineTestedOnce(g) ==
    /\ pc[g] = "enter" /\ ~Prompt
    /\ Return(g, "timeout", 0)
    /\ UNCHANGED <<desktop, held, duplication, stagings, refs, lastImage>>

\* The deadline test at the head of the loop.
DeadlinePassed(g) ==
    /\ \/ pc[g] = "wait"
       \/ pc[g] = "enter" /\ ~Prompt
    /\ Return(g, "timeout", 0)
    /\ UNCHANGED <<desktop, held, duplication, stagings, refs, lastImage>>

\* Access is lost, a frame is still held, or the call fails.
AcquireFails(g) ==
    /\ pc[g] \in Acquiring
    /\ lost \/ held # NoFrame \/ Failures
    /\ Return(g, "error", 0)
    /\ UNCHANGED <<desktop, held, duplication, stagings, refs, lastImage>>

\* Seeded fault: a frame that moves the pointer is taken to have no image.
HasImageUnlessPointer == Pending /\ ~pointer

\* LastPresentTime # 0 or AccumulatedFrames # 0
HasImage == Pending

\* All that happened since the last acquire comes as one frame.
Acquire(g) ==
    /\ pc[g] \in Acquiring
    /\ ~lost /\ held = NoFrame
    /\ Pending \/ pointer
    /\ \E d \in Descs : held' = [n |-> presented, new |-> HasImage, desc |-> d]
    /\ fetched' = presented
    /\ pointer' = FALSE
    /\ refs' = [refs EXCEPT !.resource = @ + 1]
    /\ Goto(g, "acquired")
    /\ UNCHANGED <<presented, lost, missed, duplication, stagings, lastImage, mu,
                   start, ret>>

\* Seeded fault: the caller of readFrame releases the resource as well.
GiveBackTwice ==
    /\ held' = NoFrame
    /\ refs' = [resource |-> refs.resource - 2, texture |-> 0]

\* resource.Release() and ReleaseFrame(), and tex.Release() where a texture
\* was obtained: explicit for a frame without an image, deferred in readFrame.
GiveBack ==
    /\ held' = NoFrame
    /\ refs' = NoRefs

\* Only the pointer moved.
Empty(g) ==
    /\ pc[g] = "acquired"
    /\ ~held.new
    /\ GiveBack
    /\ IF lastImage # 0 THEN Return(g, "repeated", lastImage)
                        ELSE Goto(g, "wait") /\ UNCHANGED <<mu, start, ret>>
    /\ UNCHANGED <<desktop, duplication, stagings, lastImage>>

-----------------------------------------------------------------------------
(* readFrame.  Its error returns run the deferred releases.                *)

\* An error return: DXGI will not give the image again.
Miss(g) ==
    /\ Return(g, "error", 0)
    /\ missed' = held.n
    /\ UNCHANGED <<presented, fetched, pointer, lost>>

GetTexture(g) ==
    /\ pc[g] = "acquired"
    /\ held.new
    /\ refs' = [refs EXCEPT !.texture = @ + 1]
    /\ Goto(g, "texture")
    /\ UNCHANGED <<desktop, held, duplication, stagings, lastImage, mu, start, ret>>

GetTextureFails(g) ==
    /\ pc[g] = "acquired"
    /\ held.new
    /\ Failures
    /\ GiveBack
    /\ Miss(g)
    /\ UNCHANGED <<duplication, stagings, lastImage>>

\* Seeded fault: a texture of another size is taken for a match.
StagingExists == staging # NoTexture

\* The first test of ensureStaging.
StagingMatches == staging # NoTexture /\ stagingDesc = held.desc

KeepStaging(g) ==
    /\ pc[g] = "texture"
    /\ StagingMatches
    /\ Goto(g, "copy")
    /\ UNCHANGED <<desktop, held, duplication, stagings, refs, lastImage, mu, start, ret>>

CreateStaging(g) ==
    /\ pc[g] = "texture"
    /\ ~StagingMatches
    /\ staging' = [desc |-> held.desc, n |-> 0]
    /\ stagingDesc' = held.desc
    /\ Goto(g, "copy")
    /\ UNCHANGED <<desktop, held, duplication, refs, lastImage, mu, start, ret>>

\* Seeded fault: the error return skips ReleaseFrame.
CreateStagingLeaks(g) ==
    /\ pc[g] = "texture"
    /\ ~StagingMatches
    /\ Failures
    /\ staging' = NoTexture
    /\ stagingDesc' = NoDesc
    /\ refs' = NoRefs
    /\ Miss(g)
    /\ UNCHANGED <<held, duplication, lastImage>>

\* The old staging texture is gone by the time CreateTexture2D fails.
CreateStagingFails(g) ==
    /\ pc[g] = "texture"
    /\ ~StagingMatches
    /\ Failures
    /\ staging' = NoTexture
    /\ stagingDesc' = NoDesc
    /\ GiveBack
    /\ Miss(g)
    /\ UNCHANGED <<duplication, lastImage>>

\* CopyResource does nothing when the two textures differ.
Copied == IF staging.desc = held.desc THEN held.n ELSE staging.n

\* CopyResource, Map, the conversion into the image, Unmap.
Convert(g) ==
    /\ pc[g] = "copy"
    /\ held.desc \in Supported
    /\ staging' = [staging EXCEPT !.n = Copied]
    /\ lastImage' = Copied
    /\ GiveBack
    /\ Return(g, "fresh", Copied)
    /\ UNCHANGED <<desktop, duplication, stagingDesc>>

\* Map fails, or the format is none of the four.
ConvertFails(g) ==
    /\ pc[g] = "copy"
    /\ Failures \/ held.desc \notin Supported
    /\ staging' = [staging EXCEPT !.n = Copied]
    /\ GiveBack
    /\ Miss(g)
    /\ UNCHANGED <<duplication, stagingDesc, lastImage>>

-----------------------------------------------------------------------------
(* Close.                                                                  *)

CallClose(g) ==
    /\ pc[g] = "idle"
    /\ Goto(g, "close")
    /\ ret' = [ret EXCEPT ![g] = NoResult]
    /\ UNCHANGED <<desktop, held, duplication, stagings, refs, lastImage, mu, start>>

LockClose(g) ==
    /\ pc[g] = "close"
    /\ mu = {}
    /\ mu' = {g}
    /\ Goto(g, "releasing")
    /\ UNCHANGED <<desktop, held, duplication, stagings, refs, lastImage, start, ret>>

\* releaseDXGIObjects(true); a second Close finds every field nil.
ReleaseObjects(g) ==
    /\ pc[g] = "releasing"
    /\ staging' = NoTexture
    /\ duplication' = FALSE
    /\ Goto(g, "released")
    /\ UNCHANGED <<desktop, held, stagingDesc, refs, lastImage, mu, start, ret>>

CloseReturns(g) ==
    /\ pc[g] = "released"
    /\ Return(g, "closed", 0)
    /\ UNCHANGED <<desktop, held, duplication, stagings, refs, lastImage>>

-----------------------------------------------------------------------------

Lock(g) == LockCapture(g) \/ NotInitialized(g) \/ LockClose(g)

Poll(g) == AcquireTimesOut(g) \/ DeadlinePassed(g) \/ AcquireFails(g) \/ Acquire(g) \/ Empty(g)

ReadFrame(g) ==
    \/ GetTexture(g)
    \/ GetTextureFails(g)
    \/ KeepStaging(g)
    \/ CreateStaging(g)
    \/ CreateStagingFails(g)
    \/ Convert(g)
    \/ ConvertFails(g)

Close(g) == ReleaseObjects(g) \/ CloseReturns(g)

Next ==
    \/ Desktop
    \/ \E g \in Callers :
          \/ CallCapture(g)
          \/ CallClose(g)
          \/ Lock(g)
          \/ Poll(g)
          \/ ReadFrame(g)
          \/ Close(g)

Spec == Init /\ [][Next]_vars

\* A goroutine that holds c.mu runs on, c.mu is handed over fairly, and time
\* passes: a loop that comes back to its head often enough finds it too late.
Fairness ==
    \A g \in Callers :
       /\ SF_vars(Lock(g))
       /\ SF_vars(DeadlinePassed(g))
       /\ WF_vars(Poll(g) \/ ReadFrame(g) \/ Close(g))

FairSpec == Spec /\ Fairness

-----------------------------------------------------------------------------

TypeOK ==
    /\ presented \in Nat
    /\ fetched \in 0 .. presented
    /\ missed \in 0 .. presented
    /\ pointer \in BOOLEAN
    /\ lost \in BOOLEAN
    /\ held \in Frames \cup {NoFrame}
    /\ duplication \in BOOLEAN
    /\ staging \in Textures \cup {NoTexture}
    /\ stagingDesc \in Descs \cup {NoDesc}
    /\ refs \in [resource : {0, 1}, texture : {0, 1}]
    /\ lastImage \in 0 .. presented
    /\ mu \in SUBSET Callers
    /\ pc \in [Callers -> Points]
    /\ start \in [Callers -> Nat]
    /\ ret \in [Callers -> [kind : Kinds, seq : Nat]]

\* "The mutex keeps the D3D11 immediate context single-threaded"
\* (dxgi_windows.go:18): one caller at a time is past c.mu.Lock.
MutualExclusion ==
    \A g, h \in Callers : pc[g] \in InMu /\ pc[h] \in InMu => g = h

\* A Capture that is past its nil test never finds the duplication or, after
\* ensureStaging, the staging texture released by a Close.
ObjectsAlive ==
    \A g \in Callers :
       /\ pc[g] \in Acquiring \cup Reading => duplication
       /\ pc[g] = "copy" => staging # NoTexture

\* Every acquired frame and every reference is given back on every path out of
\* the method, early returns and errors included: outside of a read nothing is
\* held, so the next AcquireNextFrame is legal.
FrameBalance ==
    /\ held # NoFrame <=> \E g \in Callers : pc[g] \in Reading
    /\ refs.resource = 1 <=> \E g \in Callers : pc[g] \in Reading
    /\ refs.texture = 1 <=> \E g \in Callers : pc[g] \in {"texture", "copy"}

\* CopyResource gets two textures of one format and size, although the desktop
\* may change them from frame to frame and creating the texture may have failed.
CopyFits == \A g \in Callers : pc[g] = "copy" => staging.desc = held.desc

\* repeated = true is for a desktop without a new frame (capturer.go:13-15): no
\* image presented before the call is newer than the one returned.
RepeatedMeansNoNewFrame ==
    [][\A g \in Callers :
          ret[g].kind = "none" /\ ret'[g].kind = "repeated" => lastImage >= start[g]]_vars

\* Every call returns, whatever the desktop does: the waiting loop ends at its
\* deadline even when pointer updates keep waking it.
CallsReturn == \A g \in Callers : pc[g] # "idle" ~> pc[g] = "idle"

CallOf(point) ==
    CASE point = "idle" -> "none"
      [] point \in {"close", "releasing", "released"} -> "Close"
      [] OTHER -> "Capture"

Contract == INSTANCE CaptureContract WITH
    Hasty <- ~Prompt,
    avail <- presented,
    last  <- lastImage,
    open  <- duplication,
    call  <- [g \in Callers |-> CallOf(pc[g])]

\* Whatever fails, the capturer keeps the promise of the Capturer interface
\* (capturer.go:13-15 and 31-32) but for the images that failed reads consumed,
\* and for timeouts too short to look for an image at all.
ContractSpec == Contract!Spec
=============================================================================
