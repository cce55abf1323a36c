# goscap in TLA+

Models, model-checking runs and machine-checked proofs for goscap, a Go library that
captures the desktop on Windows, Linux and macOS. Paths are relative to the repository
(`src/` here).

## 1. The system

A program asks `NewCapturer*` (capturer.go) for a `Capturer` and calls, possibly from several
goroutines, `Capture`, `CaptureWithInfo` and `Close`. Which back end answers depends on the
platform. Every back end keeps the image it returned last. The interface says
(capturer.go:13-15, 26, 31-32): a new frame comes with `repeated = false`; without one the last
image comes with `repeated = true`; a call waits at most `Timeout` and then returns `ErrTimeout`.

### Inventory

| Component | State | Operations | Interacts through | Modelled in |
|---|---|---|---|---|
| Interface and options, capturer.go | options | `NewCapturer*`, `normalizeOptions` | calls the platform's selection | `CaptureContract`, `Selection` |
| Selection, capturer_linux.go, capturer_windows.go, capturer_darwin.go, capturer_other.go | none | first back end that can be constructed | calls the constructors | `Selection` |
| PipeWire construction and portal, pipewire_linux.go:159-246, 310-335, 360-385, 431-447, 496-636 | bus connection, portal session, descriptor, signal channel, native objects | the three portal requests, `pw_capture_new`, `Close` | D-Bus calls and signals, a 30 s timer | `PortalSetup` |
| PipeWire capture, pipewire_linux.go:20-150, 248-335, 387-494 | C: size, frame buffer and capacity, `seq`, `error`, `lock`/`cond`; Go: `mu`, `lastImage`, `lastSeq` | stream callbacks, `pw_capture_read`, `CaptureWithInfo`, `Close` | two PipeWire threads and the callers share `pw_capture`; the callers share `mu` | `PipewireCapture` |
| DXGI setup, dxgi_windows.go:632-774, 1038-1071 | the COM fields of `dxgiCapturer` | `newDXGICapturer`, `initFactory`, `tryOutput`, `initDeviceAndDuplication`, `releaseDXGIObjects` | COM references | `DxgiSetup` |
| DXGI capture, dxgi_windows.go:786-1036 | `mu`, duplication, staging texture and its description, `lastImage` | `CaptureWithInfo`, `readFrame`, `ensureStaging`, `Close` | COM calls; the desktop changes between any two | `DxgiCapture` |
| DXGI bindings, the rest of dxgi_windows.go | none | syscall wrappers | | not modelled |
| GDI capture, gdi_windows.go | rectangle, `mu`, `img` | constructor, `CaptureWithInfo` | GDI handles, released by defers in a thread the Go scheduler picks | `GdiCapture`, `Selection` |
| X11 capture, x11_linux.go | `conn`, geometry, `mu`, `img` | constructor, `CaptureWithInfo`, `Close` | X requests and replies | `X11Capture`, `PixelConversion`, `Selection` |
| ScreenCaptureKit capture, sckit_darwin.m, sckit_darwin.go | as PipeWire's, with a dispatch queue | constructor with two bounded waits, sample handler, `sc_capture_read`, `CaptureWithInfo`, `Close` | completion handlers, the queue's thread and the callers share `sc_capture` | `SckCapture` |
| Pixel conversion, in every back end | none | `halfToFloat`, `floatToByte`, 10-bit scaling, `x11ToRGBA`, lengths and strides | pure | `PixelConversion` (partly) |

What is hard: threads this repository does not start (PipeWire's, the dispatch queue, the
desktop, the portal) run between any two steps of a caller; a frame races a deadline, a response
the registration of its channel, a `Close` a `Capture` and a callback; C buffers only grow
while the picture changes size; frames, buffers, handles and references have to be given back on
each error path. "hazards" in PROJECT.json lists each at its line, with the properties about it
or the reason why there is none.

What makes each component correct: *streaming capture* (PipeWire, ScreenCaptureKit): nothing begun on
a freed capture (for PipeWire, nothing going on in one either), no lost wake-up, whole images, every buffer queued again, the interface's promise.
*DXGI capture*: one frame held at a time and always released, copies between fitting textures,
the promise. *DXGI setup*: references balance, all or nothing, the search misses no output.
*Portal*: consent before capture, nothing outlives a failure or `Close`, teardown in order, no answer
missed. *X11, GDI*: whole and current images, connection and handles released.
*Selection*: the display asked for, failure only if all fail. *Conversion*: the right
bytes, none outside, the nearest value.

## 2. Modules

`CaptureContract` is the abstract specification. `PipewireCapture`, `SckCapture` and
`DxgiCapture` refine it (`Contract == INSTANCE CaptureContract WITH ...`). Each of the other
modules stands alone. `MC*` modules give TLC its instances, `*_proofs` modules hold the theorems of
the module they extend; those of `Selection` are in `DxgiSetup_proofs`, which instantiates it to
compare the two. Operators commented "Seeded fault" are wrong variants of the definition
that follows: no specification uses them; putting one in the place of that definition
shows that a property can fail.

**`CaptureContract`.** A frame is its number. `start[g]` remembers the newest frame when `g` entered
`Capture`, and the result of the whole call is judged against it: *fresh* gives a frame newer than
the last image and not older than the call, *repeated* only if the last image was up to date when
the call began, *timeout* only if there was neither a frame nor an image then. After the
teardown only errors come back. Two parameters weaken the promise for DXGI: `missed` is the newest
image that a failed call took and lost, after which *repeated* and *timeout* need not count it;
`Hasty` allows a timeout before the first look for a frame. The streaming capturers take `missed`
as 0 and `Hasty` as FALSE. `ResultsInOrder` and `ClosedForEver` say what callers together have of
the promise.

**`PipewireCapture`.** A constructed capturer. Pixels are reduced to the frame that wrote them. A
critical section of `c->lock` is one action; a wait on `c->cond` splits `pw_capture_read`. The Go
mutex spans actions: `mu`.

| Code | Actions |
|---|---|
| `on_state_changed`, `on_param_changed` | `StreamError`, `ParamChanged` |
| `on_process`: up to the copy; the copy; early exits | `Dequeue`; `Publish`; `Drop` |
| `c.mu.Lock` and the nil test | `LockCapture`, `NotInitialized`, `LockClose` |
| `pw_capture_read` | `ReadError`, `ReadPoll`, `ReadWait`, `SpuriousWakeup`, `Expire`, `ReadTimedOut`, `ReadCopy`, `ReadNoMemory` |
| `convertPipewireFrame` and what follows | `Convert`, `ConvertFails` |
| `Close`, `pw_capture_destroy` | `StopLoop`, `Destroy`, `CloseSession` |

Assumed: PipeWire renegotiates a format with the node suspended, so that `on_process` reads one
size; a row fits its stride; `pw_thread_loop_stop` joins the loop thread; `pw_stream_destroy`
waits for a running `on_process`. With `FullChunks` a chunk also holds every row, which the code
needs for whole images and does not test; the runs check the code without it.

**`PortalSetup`.** What comes before and after `PipewireCapture`. `method` counts the three requests;
`call`, `subscribe`, `wait` are `portalRequest` before its method call, before its channel is
registered, and in its loop. The portal is three actions: it answers (`Respond`, at any time once
asked, also in `subscribe`, when nobody listens), ends the session, or breaks with the
bus. `chan` is a set: the bus library's default handler passes signals on from several goroutines.
`Ladder` and `Undo` are the error ladder of `pw_capture_new`; `Obtain`, `ObtainFails`, `Run`,
`Release` walk it. `faults` is a history variable that names what failed outside of the code, so
that a property can say "unless".
Assumed of the D-Bus library: a call ends, and an unregistered signal is dropped. Assumed of
PipeWire: `pw_context_connect_fd` closes the descriptor when it fails, and with the core otherwise.

**`DxgiCapture`.** An image is its number. `presented` and `fetched` are the newest image and the newest
one acquired; an acquire takes all that happened since the last one as one frame, with the texture
description the desktop has then. `pc` tells the fast path (`poll`), the first round (`enter`) and
later rounds (`wait`) of the waiting loop, and the points of `readFrame`. `LoseAccess` is for
ever: nothing in the code duplicates the output again. `missed` is a history variable, the image that
the last failed `readFrame` had acquired (`Miss`); no guard reads it. The returns of the loop that test
`c.lastImage != nil` (833, 847, 864) are dead code, as the fast path takes that case.

**`DxgiSetup`.** `fields` is what the struct believes it holds, `refs` what COM counts. `TryStep`,
`TrySucceeds`, `RequestFails`, `TryFails` are `tryOutput`, call by call; `NextAdapter`,
`NextOutput`, `NoMoreOutputs`, `NoMoreAdapters` the two loops of `initFactory`, which hold an
adapter reference of their own. `works` are the outputs that can be duplicated; if `transient`, any
call may fail all the same. `CoInitializeEx` is only a step that may fail.

**`SckCapture`.** As `PipewireCapture`, with the constructor: `ContentArrives`/`ContentFails` and
`StartWaited` are its two waits of 5 s, after which `StartCompletes` may still come. Each
sample brings its size. `job` is the sample on the handler's queue, waiting or in work. `Destroy` frees
at once, as `sc_capture_destroy` does, whatever is on that queue: the handler then finds a freed
capture, and `HandlerOnFreed` leaves open whether anything comes of it or the process ends
(`crashed`). Assumed of ScreenCaptureKit: no sample is put on the queue once `removeStreamOutput`
has returned. Which references Objective-C keeps is not modelled.

**`X11Capture`.** The screen is a version number, a row of the image the version it was copied
from. The server answers a `GetImage` as a whole, or is gone; `x11ToRGBA` converts row by
row into the shared image. A capture after `Close` panics (`Panic`), as the code does.

**`GdiCapture`.** One action per GDI call; `defers` is the stack of deferred releases, `origin` the
thread of `GetDC`, `Migrate` a goroutine that goes on in another thread. A bitmap without
bits is returned before its release is deferred (`BitmapWithoutBits`), and the result of
`SelectObject` is ignored (`SelectFails`): both appear as exceptions in the properties. A DIB
section is taken to start zeroed.

**`Selection`.** Platform, environment, displays and the back ends that work are chosen at the start;
then `normalizeOptions`, the order of the back ends, and what each makes of `OutputIndex`. Displays have
the numbers the back end in use gives them. Only DXGI reads `AdapterIndex`: its displays 0 to
`first` - 1 are outputs of adapter 0, the others of adapter 1, and those not in `duplicable` are the ones
`tryOutput` fails for, so that `DxgiDisplay` is another display than the one asked for. A passing failure
is in `DxgiSetup` only.

**`PixelConversion`.** One conversion per behaviour: a component (`halfToFloat` step by step,
modulo `Word`; `floatToByte`; 10 bits), an X11 reply (padding, fallbacks, byte order), or a streamed
frame (32-bit length in C, unbounded in Go). An address outside of a slice is a panic.

## 3. Runs

| Run | Shows |
|---|---|
| `pipewire` | two callers, loop and data thread: no lost wake-up, no use after free, buffers balance, a returned `Close` has released all, refinement of `CaptureContract`, every call returns |
| `pipewire_short_chunk` | violated: `repeated = false` means a new pixel (finding 1) |
| `portal` | portal, bus and PipeWire fail anywhere: teardown in order, nothing left, consent first, success when all is granted, constructor and `Close` end |
| `portal_early_response` | violated: an immediate answer is heard (finding 2) |
| `dxgi` | two callers, every call may fail, pointer updates without end: lifetimes, balance, fitting copies, refinement of `CaptureContract`, every call returns |
| `dxgi_failed_read` | violated: `repeated = true` means no newer image (finding 3) |
| `dxgi_setup` | every subset of working outputs, any failure: references, all or nothing, complete search, termination |
| `sck` | late starts, samples of changing size, a handler that `Close` does not wait for, two callers: wake-ups, no new sample or reader on a freed capture, whole images, refinement of `CaptureContract`, everything returns |
| `x11` | two callers, changing screen, vanishing server: whole and current images, connection, calls return |
| `gdi` | any call failing, goroutines changing threads: handles, order of release, current images |
| `pixel_conversion` | all half floats and 10-bit values; all X11 formats and strides up to 3 x 3: exact and nearest values, right bytes, bounds |
| `selection` | all platforms, environments and indices, and displays DXGI cannot duplicate: the requested display; failure only when all fail |

**Bounds.** *Callers*: two. They interfere only through one mutex, so a third adds a queue and no
new overlap; two give a capture against a capture, a capture against a close, and two closes.
*Frames* (`MaxFrames` 2, `MaxPresents` 3, `MaxVersions` 3, in `gdi` 2): one that was shown, one
that replaces it, and in `dxgi` and `x11` one that races the call that returns it. *Sizes*:
nothing negotiated, and two rectangles of one area, so that the picture turns and the
buffer outlives it; in `sck` also a smaller one, so that old pixels remain behind it; chunks with
padding, and empty ones. *Rows* 2: a torn image has two. *Timeouts*: one that waits and one that
is 0 in milliseconds. *Buffers* 2: a leaked and a doubly queued buffer both show. *Textures*: two
convertible descriptions and one that is not. *Adapters*: three with two, no and two outputs;
requests that exist, and ones with a missing output or adapter. *Streams* and *displays* 2, these on
one adapter or on two, with indices below, on and above. *Thread changes* (`MaxMoves`) 2: away and back. *Word*: 2^30, as
TLC's integers end at 2^31; strides of 2^29 wrap at height 2 or 3. Callers (and threads) are
symmetric in `gdi`, which has no temporal property; no other run uses symmetry.

**Deadlock** is checked for `pipewire`, `dxgi` and `gdi`: a caller can always call again. The
constructors, conversions and the selection end, and `sck` and `x11` may fail to construct, `sck` also
lose its process; there,
`Terminates` and `CallsReturn` say that what was begun ends.

**Fairness.** A thread inside a critical section, a callback or between two native calls runs on
(weak). `c.mu` is handed over fairly, because `sync.Mutex` becomes FIFO once a waiter starves for
1 ms (strong, per caller). The deadline of a wait is absolute, so spurious wake-ups and pointer
updates cannot postpone it for ever (strong). PipeWire's teardown, which waits for a callback, gets its
turn between two of them (strong). Nothing is assumed of ScreenCaptureKit's handlers; a call need
not return when one on freed memory has ended the process. No frame, sample or user is ever assumed to come: in `portal` only a
D-Bus call ends and the 30 s timer fires, in `sck` the two 5 s deadlines pass. In `x11` a
request waits without a deadline, so the server must answer or be gone.

### Findings

1. `on_process` counts a chunk without data as a frame (pipewire_linux.go:141): old pixels are
   returned with `repeated = false`, against capturer.go:14-15.
2. `portalRequest` calls the method first and registers its channel after (pipewire_linux.go:593).
   A response in between is lost, and the constructor fails after 30 s although the portal granted
   the request.
3. A `readFrame` that fails has consumed the update (dxgi_windows.go:880-885); the next poll returns the
   older image with `repeated = true`, against capturer.go:14-15. The contract that the `dxgi` run
   checks names such an image in `missed`.

What each of 1 and 3 needs is proved: with whole chunks the property of finding 1 holds
(`NewFramesBringNewPixels`), and without a failed read that of finding 3
(`OnlyAFailedReadHidesAnImage`).

Seen while modelling, in the models as the code has them, and not made runs of their own:
`sc_capture_destroy` (sckit_darwin.m:224-233) does not wait for a sample handler before it frees what that
writes to, so a sample that races a `Close` may use freed memory (`HandlerOnFreed` is reached in the run
`sck`; no line of the repository promises otherwise, and `NothingEntersFreed` states what is left); DXGI
captures another output, without an error, when the requested one cannot be opened (`SearchComplete`
states what it does and `RequestedDisplay` excepts it; capturer.go:24 says that the index selects the
output); index 0 is the primary display to GDI even if it is not the first one (`RequestedDisplay`
excepts it); X11 ignores `Timeout`
(capturer.go:26); X11 and GDI never report a repetition (capturer.go:14-15); with only `DISPLAY`
set the "last resort" of capturer_linux.go:25 is not reached (`FailsOnlyWhenAllFail` excepts it);
a failed constructor leaves the portal's descriptor open when `pw_capture_new` fails before
connecting (`NothingLeft` excepts it).

## 4. Proofs

Proved by TLAPS for all values of the constants that each module's `InputAssumption` allows,
and from nothing else except where a theorem says so.

**`PipewireCapture_proofs`**, in layers that each use the ones below: `Typed` (types, the count of
buffers, rows that fit their stride: the indices of a conversion stay in range only with all
three) gives `TypeCorrect` and `NoBufferLeak`. `LockInv` (the callers between Lock and Unlock are
the members of `mu`, at most one) gives `Exclusion`. `StageInv` (who is inside what at each stage
of the teardown) gives `MemorySafe` and `CloseIsComplete`. `NoLostWakeup` is inductive given the
lock: `WakeupsArrive`. `CallInv` (what a call in progress knows of `seq` and `lastSeq`) makes every
step one of `CaptureContract` or a stutter: `Implements`. `PixelInv` (the first stride * h
cells are of frame `seq`) gives `NoTearing` under `ASSUME FullChunks`, and, as only a successful
conversion changes `lastSeq` and always to a later frame (`ShowsLater`), also
`NewFramesBringNewPixels`: the action property that fails without the assumption.

**What callers have of the contract.** In the modules of the three capturers that refine it:
`ResultsInv` of `CaptureContract` (a result is of a frame that was shown; who was told "closed"
was told the truth) is inductive under any step of the contract, so that with `Implements` each
capturer has `ImagesInOrder` (over all callers, images never go back) and `ClosedIsFinal` (after a
returned `Close` every call ends in an error).

**`DxgiCapture_proofs`**: `IInv` is types, `LockInv` and `ReadInv` (balance, live objects, fitting
copies, and the recorded description being that of the staging texture), of which none is
inductive alone; it gives `TypeCorrect`, `Exclusion`, `NoUseAfterRelease`, `FramesAreBalanced`,
`CopiesFit`. `NewestInv` says which image each variable shows (between reads the newest image
acquired is the last image or a missed one; within one it is the held frame; a caller that went
on to wait has nothing left to see) and gives `Implements`, with no assumption on failures, formats
or timeouts. Under `Reliable` (no call fails, every format is convertible, no deadline passes before the
first acquire; access may still be lost) `NothingIsMissed`, and then every step is one of the
contract as the streaming capturers keep it, with `missed` 0 and `Hasty` FALSE:
`ImplementsStrictly`. `RepeatsTheNewest` (a repetition follows a look at the output that found no
image) gives `OnlyAFailedReadHidesAnImage`.

**`DxgiSetup_proofs`**: the ledger `RefsBalanced` is inductive with `FieldsInv` (which fields are set
at each point of the chain): `NoReferenceLost`, `SetupIsAtomic`, `TypeCorrect`. `SearchInv` (every
output before the current one has been ruled out) gives `SearchIsComplete`. The module also holds the
theorems of `Selection`, for any number of displays, any division among two adapters and any indices: `SelectionInv` (which machine
leads to which back end, that those before it have failed, and what the last one made of the
index) gives `DisplayIsTheRequested` and `FailsOnlyInTheEnd`. `SetupChoosesAsSelected` joins the two:
with two adapters and whichever outputs can be duplicated, the search of `DxgiSetup` ends, if no
call fails in passing, with the display that `Selection` takes DXGI to choose.

**`PortalSetup_proofs`**: `ConsentInv` (a granted response in the channel, and the number of the
request, imply the grants) gives `ConsentComesFirst`; `FaultInv` (while nothing went wrong, the
answer is on its way) gives `GrantedSucceeds`; `CleanInv` (every object is on the list of those to
release) gives `NothingIsLeft`; `OrderInv` (that list is sorted) gives `TeardownIsOrdered`.

**`X11Capture_proofs`**: `StageInv` gives `ConnectionIsReleased`; `RowsInv` (the rows converted so far
are of the reply, which is no older than the call) with `LockInv` gives `ImagesAreWhole`.

**`SckCapture_proofs`**: the same layers, but for a constructor whose two waits may give up
while the system goes on. `Typed` adds to the types that a sample being handled is still to be
counted (`TypeCorrect`). `StageInv` (which stages the stream can be live in, and which points of a
call imply a live capture) on top of `LockInv` gives `FreedIsLeftAlone`: after the free no caller enters
and no sample is sent, also by a late start. It says nothing of a handler that was sent one before.
`NoLostWakeup` is inductive given both: `WakeupsArrive`. `BufferInv` gives `NoTearing` without
an assumption: a sample always fills its stride * h cells and the reader converts only those, so
what is left of a larger sample behind them is never seen. `CallInv` gives `Implements`; the steps
of the constructor and the samples of a capturer nobody has yet are stutters of the contract.

**`GdiCapture_proofs`**: a Capture that has come to the k-th object has exactly the first k - 1
releases on its stack. With `Stack(k)` the reversed beginning of `Chain`, lemmas `Push` and `Pop`
say what a defer and its execution do to it, `Stacked` that `defers` always is one, and `DeferInv`
at which point it has which depth. `HandleInv` relates the stack to what exists: what something
deferred rests on is there, and without the two named faults nothing else is. It gives
`AllReturned` and `ReleasedInOrder`; neither is inductive without the depth. `ImageInv` (the
bits are zero until `BitBlt`, and of the call after it) gives `ImageCurrent`.

**`PixelConversion_proofs`**: the invariant is what has been computed at each point. The loop of
`halfToFloat` needs more: after j turns the fraction is the half's times 2^j and the exponent -j
modulo `Word`, and as the half's fraction is not 0 the loop leaves with j between 1 and 10, so
that the addition of 1 and then of 112 brings the exponent back into 103 .. 112: `HalfExact`.
`RoundsToNearest` rests on `RoundedNear`, about any division that is rounded by adding half of
the divisor. `RightBytes` and `NoPanic` rest on `PaddedRow` (a padded row holds its pixels) and on
(h - 1) * stride = h * stride - stride. tlapm evaluates a power of two only for a literal exponent;
`PowerOf` and `LargePowers` list the ones that occur.

**Model-checked only.** All liveness (`CallsReturn`, `Terminates`): fairness and ENABLED are outside
of the prover's reach. **Proved and not run**: `NoTearing` of `PipewireCapture`, the two `Exclusion`
theorems, the types of `SckCapture` and `GdiCapture`, what callers have of the contract, what holds
under `Reliable` or `FullChunks`, and `SetupChoosesAsSelected`. Every invariant and every refinement
that the passing runs check is stated by a theorem; of the properties that are violated, two are
proved under the assumption they lack. The third, `PromptAnswerHeard`, would only repeat
`GrantedMeansDone` that way.

## 5. Not modelled

- DXGI bindings (GUIDs, virtual tables, syscall wrappers): declarations and calls without state.
- The fixed reordering of 32-bit pixels in the PipeWire, DXGI, GDI and ScreenCaptureKit conversions:
  a loop without a case to get wrong that a test would miss; so `PixelConversion` is partial.
- A torn read of `c->info` by the data thread (pipewire_linux.go:140), by the assumption above.
- Objective-C reference counts, COM apartments, the wording of errors, the example and the benchmarks.
- What a caller does with an image: the next capture overwrites it, which no document forbids.

## 6. Plan

The plan of the project has been carried out. What would come next:

1. The callbacks of PipeWire without the assumption that the size does not change while
   `on_process` runs, with `c->info` read in two steps.
2. The fixed reordering of 32-bit pixels, which would complete `PixelConversion`.
3. One module that joins `PortalSetup` and `PipewireCapture`: the second begins where the first
   ends, and so far only their reading of `Close` connects them.
