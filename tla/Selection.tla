------------------------------ MODULE Selection ------------------------------
(***************************************************************************)
(* From NewCapturerWithOptions to a back end and a display: the options    *)
(* are normalised in place, the entry point of the platform tries its back *)
(* ends in order (capturer_linux.go, capturer_windows.go and the others),  *)
(* and each back end reads OutputIndex, DXGI also AdapterIndex, in its own *)
(* way (x11_linux.go, gdi_windows.go, sckit_darwin.m, dxgi_windows.go,     *)
(* pipewire_linux.go).  How initFactory comes to its choice is DxgiSetup.  *)
(***************************************************************************)
EXTENDS Integers, FiniteSetsExt

CONSTANTS
    Cards,              \* values of Options.AdapterIndex
    Requests,           \* values of Options.OutputIndex
    Timeouts,           \* values of Options.Timeout, in milliseconds
    MaxDisplays         \* most displays a machine has

ASSUME InputAssumption ==
    /\ Cards \subseteq Int
    /\ Requests \subseteq Int
    /\ Timeouts \subseteq Int
    /\ MaxDisplays \in Nat \ {0}

Native == [ linux   |-> {"pipewire", "x11"}, windows |-> {"dxgi", "gdi"},
            darwin  |-> {"sck"},             other   |-> {} ]

Platforms == DOMAIN Native
Backends  == UNION {Native[p] : p \in Platforms}

\* Displays as the back end in use enumerates them, 0 upwards; Whole is the X
\* screen that spans them all.
Displays == 0 .. MaxDisplays - 1
Whole == -1
None  == -2

VARIABLES
    machine,            \* platform, environment, displays, what works
    opts,               \* the caller's Options
    pc,                 \* "normalize", the back end to try, or "returned"
    failed,             \* back ends tried in vain, their errors
    backend,            \* the back end of the capturer, {} when none
    shown               \* the display it captures

vars == <<machine, opts, pc, failed, backend, shown>>

\* To DXGI the first displays are outputs of adapter 0 and the others of adapter
\* 1, and tryOutput fails for those that cannot be duplicated.
Machines ==
    [platform : Platforms, wayland : BOOLEAN, display : BOOLEAN, xinerama : BOOLEAN,
     count : 1 .. MaxDisplays, primary : Displays, works : SUBSET Backends,
     first : 0 .. MaxDisplays, duplicable : SUBSET Displays]

Init ==
    /\ machine \in Machines
    /\ machine.works \subseteq Native[machine.platform]
    /\ machine.primary < machine.count
    /\ machine.first <= machine.count
    /\ \A d \in machine.duplicable : d < machine.count
    /\ "x11" \in machine.works => machine.display
    /\ opts \in [adapter : Cards, output : Requests, timeout : Timeouts]
    /\ pc = "normalize"
    /\ failed = {}
    /\ backend = {}
    /\ shown = None

-----------------------------------------------------------------------------
(* What each back end makes of the indices; None is an error.              *)

InRange(i) == i \in 0 .. machine.count - 1

X11Display(i) == IF ~machine.xinerama THEN Whole ELSE IF InRange(i) THEN i ELSE 0

\* The primary display has its own branch and does not count the monitors.
GdiDisplay(i) ==
    IF i <= 0 THEN machine.primary ELSE IF InRange(i) THEN i ELSE None

\* An index becomes a uint32, which makes a negative one too large.
SckDisplay(i) == IF InRange(i) THEN i ELSE 0

\* The portal's streams are taken for the displays here.
PipewireDisplay(i) == IF i > 0 /\ InRange(i) THEN i ELSE 0

\* The output with index i on adapter a, None when there is none.
DxgiOutput(a, i) ==
    IF a = 0 /\ i \in 0 .. machine.first - 1 THEN i
    ELSE IF a = 1 /\ i \in 0 .. machine.count - machine.first - 1 THEN machine.first + i
    ELSE None

\* Seeded fault: the output index is taken for the number of a display.
DxgiDisplayOfAny(a, i) ==
    IF i \in machine.duplicable THEN i
    ELSE IF machine.duplicable # {} THEN Min(machine.duplicable)
    ELSE None

\* initFactory: the output asked for, if it can be duplicated, else the first of
\* all the outputs of all the adapters that can.
DxgiDisplay(a, i) ==
    IF DxgiOutput(a, i) \in machine.duplicable THEN DxgiOutput(a, i)
    ELSE IF machine.duplicable # {} THEN Min(machine.duplicable)
    ELSE None

DisplayOf(b, o) ==
    CASE b = "x11"      -> X11Display(o.output)
      [] b = "gdi"      -> GdiDisplay(o.output)
      [] b = "sck"      -> SckDisplay(o.output)
      [] b = "pipewire" -> PipewireDisplay(o.output)
      [] b = "dxgi"     -> DxgiDisplay(o.adapter, o.output)

-----------------------------------------------------------------------------
(* newPlatformCapturer                                                     *)

First ==
    CASE machine.platform = "linux" ->
           IF machine.wayland \/ ~machine.display THEN "pipewire" ELSE "x11"
      [] machine.platform = "windows" -> "dxgi"
      [] machine.platform = "darwin"  -> "sck"
      [] machine.platform = "other"   -> "returned"

\* Seeded fault: GDI is not tried.
AfterWithoutGdi(b) ==
    IF b = "pipewire" /\ machine.wayland /\ machine.display THEN "x11" ELSE "returned"

\* The back end tried when b has failed.
After(b) ==
    CASE b = "pipewire" /\ machine.wayland /\ machine.display -> "x11"
      [] b = "dxgi" -> "gdi"
      [] OTHER      -> "returned"

\* normalizeOptions changes the caller's own Options.  Nil options are the ones
\* with OutputIndex 0 and Timeout 0.
Normalize ==
    /\ pc = "normalize"
    /\ opts' = [opts EXCEPT !.timeout = IF @ <= 0 THEN 100 ELSE @]
    /\ pc' = First
    /\ UNCHANGED <<machine, failed, backend, shown>>

Succeed ==
    /\ pc \in machine.works
    /\ DisplayOf(pc, opts) # None
    /\ backend' = {pc}
    /\ shown' = DisplayOf(pc, opts)
    /\ pc' = "returned"
    /\ UNCHANGED <<machine, opts, failed>>

Fail ==
    /\ pc \in Backends
    /\ pc \notin machine.works \/ DisplayOf(pc, opts) = None
    /\ failed' = failed \cup {pc}
    /\ pc' = After(pc)
    /\ UNCHANGED <<machine, opts, backend, shown>>

Next == Normalize \/ Succeed \/ Fail

Spec == Init /\ [][Next]_vars

-----------------------------------------------------------------------------
(* Properties.                                                             *)

\* The display the options name to the back end b.
Named(b) ==
    IF b = "dxgi" THEN DxgiOutput(opts.adapter, opts.output)
    ELSE IF InRange(opts.output) THEN opts.output
    ELSE None

\* A display that exists is the one captured (capturer.go:22-24), but for three
\* back ends: an X screen without Xinerama is one display, index 0 is the primary
\* one to GDI wherever the system enumerates it, and DXGI captures another
\* display, without an error, when the one asked for cannot be duplicated.
RequestedDisplay ==
    \A b \in backend : Named(b) # None =>
       \/ shown = Named(b)
       \/ b = "x11" /\ ~machine.xinerama
       \/ b = "gdi" /\ opts.output = 0 /\ shown = machine.primary
       \/ b = "dxgi" /\ Named(b) \notin machine.duplicable

\* With a Wayland session, or none at all, and on the other platforms, the
\* construction fails only when no back end of the platform could have worked.
FailsOnlyWhenAllFail ==
    pc = "returned" /\ backend = {} /\ ~(machine.display /\ ~machine.wayland) =>
       \A b \in machine.works : DisplayOf(b, opts) = None
=============================================================================
