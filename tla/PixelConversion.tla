--------------------------- MODULE PixelConversion ---------------------------
(***************************************************************************)
(* The conversions to RGBA, by what they compute from their input alone.   *)
(*                                                                         *)
(* halfToFloat and floatToByte, and the 10-bit case of readFrame           *)
(* (dxgi_windows.go): a colour component becomes a byte.  halfToFloat      *)
(* normalises a subnormal in a loop that lets the unsigned exponent wrap   *)
(* below zero and relies on the additions after it to bring it back; the   *)
(* loop is taken step by step, modulo Word.  A float32 is its exponent     *)
(* field and the upper 10 bits of its fraction, the only ones ever set.    *)
(*                                                                         *)
(* x11ToRGBA in a GetImage reply (x11_linux.go), and a streamed frame from *)
(* on_process, or the ScreenCaptureKit handler, to convertPipewireFrame    *)
(* and convertMacFrame: where a pixel is found.  A byte is known by its    *)
(* address; an address outside of the slice is a panic in Go.  C computes  *)
(* stride * height in words, Go in integers that do not overflow.          *)
(***************************************************************************)
EXTENDS Integers

CONSTANTS
    Halves,             \* half-precision inputs, as 16-bit words
    Tens,               \* 10-bit inputs
    Widths, Heights,    \* of a frame, in pixels
    Strides,            \* of a streamed frame, in bytes
    Sizes,              \* bytes a chunk holds, and capacities of c->frame
    Word                \* 2^32 in the code; a power of two

ASSUME InputAssumption ==
    /\ Halves \subseteq 0 .. 2^16 - 1
    /\ Tens \subseteq 0 .. 2^10 - 1
    /\ Widths \subseteq Nat \ {0} /\ Heights \subseteq Nat \ {0}
    /\ Word \in Nat /\ Word >= 2^10
    /\ Strides \subseteq 0 .. Word - 1 /\ Sizes \subseteq 0 .. Word - 1

VARIABLES
    input,              \* the component or the frame
    pc,                 \* where its conversion is
    sign, exp, frac,    \* halfToFloat's variables, then the float32's fields
    byte,               \* the component as a byte
    length,             \* bytes of the slice that is read
    stride,             \* what the conversion takes for it
    result              \* "ok", "error", "panic" when out

component == <<sign, exp, frac, byte>>
layout == <<length, stride, result>>
vars == <<input, pc, component, layout>>

Components == [kind : {"half"}, value : Halves] \cup [kind : {"ten"}, value : Tens]

\* A pixmap format of the server: its bits per pixel, its scanline padding, the
\* order of its bytes, and whether the setup lists one for the root's depth.
X11Frames ==
    [kind : {"x11"}, w : Widths, h : Heights, bpp : {8, 16, 24, 32}, pad : {8, 16, 32},
     lsbFirst : BOOLEAN, listed : BOOLEAN]

Streamed ==
    [kind : {"stream"}, w : Widths, h : Heights, stride : Strides, size : Sizes, capacity : Sizes]

Init ==
    /\ input \in Components \cup X11Frames \cup Streamed
    /\ pc = input.kind
    /\ sign = 0 /\ exp = 0 /\ frac = 0 /\ byte = 0
    /\ length = 0 /\ stride = 0 /\ result = "none"

-----------------------------------------------------------------------------
(* halfToFloat                                                             *)

Split ==
    /\ pc = "half"
    /\ sign' = input.value \div 2^15
    /\ exp' = (input.value \div 2^10) % 2^5
    /\ frac' = input.value % 2^10
    /\ pc' = "classify"
    /\ UNCHANGED <<input, byte, layout>>

\* Zeros, infinities and NaNs keep their fraction and are done.
Classify ==
    /\ pc = "classify"
    /\ pc' = CASE exp = 0 /\ frac # 0 -> "shift"
               [] exp \in 1 .. 30     -> "bias"
               [] OTHER               -> "float"
    /\ exp' = IF exp = 31 THEN 255 ELSE exp
    /\ UNCHANGED <<input, sign, frac, byte, layout>>

\* for (frac & 0x400) == 0
Shift ==
    /\ pc = "shift"
    /\ frac < 2^10
    /\ frac' = frac * 2
    /\ exp' = (exp - 1) % Word
    /\ UNCHANGED <<input, pc, sign, byte, layout>>

\* Seeded fault: the exponent is not moved back by one.
ShiftedOneOff ==
    /\ pc = "shift"
    /\ frac >= 2^10
    /\ frac' = frac % 2^10
    /\ pc' = "bias"
    /\ UNCHANGED <<input, sign, exp, byte, layout>>

Shifted ==
    /\ pc = "shift"
    /\ frac >= 2^10
    /\ frac' = frac % 2^10
    /\ exp' = (exp + 1) % Word
    /\ pc' = "bias"
    /\ UNCHANGED <<input, sign, byte, layout>>

Bias ==
    /\ pc = "bias"
    /\ exp' = (exp + (127 - 15)) % Word
    /\ pc' = "float"
    /\ UNCHANGED <<input, sign, frac, byte, layout>>

-----------------------------------------------------------------------------
(* floatToByte, and the 10-bit case of readFrame.                          *)

IsNaN == exp = 255 /\ frac # 0

\* Seeded fault: truncation in place of rounding.
Truncated(s, k) == IF k > 24 THEN 0 ELSE (s * 255) \div 2^k

\* uint8(v * 255 + 0.5) for v = s / 2^k, which float32 computes exactly; below
\* 2^-13 the sum is less than 1.
Rounded(s, k) == IF k > 24 THEN 0 ELSE (s * 510 + 2^k) \div 2^(k + 1)

\* A NaN passes both comparisons, and Go leaves its conversion open: three bytes
\* stand for any.
ToByte ==
    /\ pc = "float"
    /\ \/ IsNaN /\ byte' \in {0, 128, 255}
       \/ ~IsNaN /\ byte' = CASE sign = 1 \/ exp = 0 -> 0
                              [] sign = 0 /\ exp >= 127 -> 255
                              [] OTHER -> Rounded(2^10 + frac, 137 - exp)
    /\ pc' = "done"
    /\ UNCHANGED <<input, sign, exp, frac, layout>>

Scale10 ==
    /\ pc = "ten"
    /\ byte' = (input.value * 255 + 511) \div 1023
    /\ pc' = "done"
    /\ UNCHANGED <<input, sign, exp, frac, layout>>

-----------------------------------------------------------------------------
(* x11ToRGBA                                                               *)

PaddedTo(bits, pad) == ((bits + pad - 1) \div pad) * pad

\* The X protocol: every row is padded to a multiple of pad bits.
ServerStride == PaddedTo(input.w * input.bpp, input.pad) \div 8

\* findPixmapFormat, with the default of newX11Capturer.
Bpp == IF input.listed THEN input.bpp ELSE 32
Pad == IF input.listed THEN input.pad ELSE 32

CodeStride == PaddedTo(input.w * Bpp, Pad) \div 8

\* A stride that does not fit the reply is derived from its length instead.
X11Rows ==
    /\ pc = "x11"
    /\ length' = ServerStride * input.h
    /\ stride' = IF CodeStride * input.h > length' THEN length' \div input.h ELSE CodeStride
    /\ pc' = "copied"
    /\ UNCHANGED <<input, component, result>>

\* Seeded fault: the order of the bytes is ignored.
X11ByteLittle(channel) == CASE channel = "r" -> 2 [] channel = "g" -> 1 [] channel = "b" -> 0

\* The byte of a pixel that x11ToRGBA takes a channel from.
X11Byte(channel) ==
    CASE input.lsbFirst            -> (CASE channel = "r" -> 2 [] channel = "g" -> 1 [] channel = "b" -> 0)
      [] ~input.lsbFirst /\ Bpp = 32 -> (CASE channel = "r" -> 1 [] channel = "g" -> 2 [] channel = "b" -> 3)
      [] OTHER                     -> (CASE channel = "r" -> 0 [] channel = "g" -> 1 [] channel = "b" -> 2)

\* The last byte it reads of a row, counted from the start of the row.
LastOfRow == (input.w - 1) * (Bpp \div 8) + (IF Bpp = 32 /\ input.lsbFirst THEN 2 ELSE Bpp \div 8 - 1)

\* src is exactly one stride long.
X11Convert ==
    /\ pc = "copied" /\ input.kind = "x11"
    /\ pc' = "out"
    /\ result' = CASE Bpp \div 8 \notin {3, 4} -> "error"
                   [] Bpp \div 8 \in {3, 4} /\ LastOfRow >= stride -> "panic"
                   [] OTHER -> "ok"
    /\ UNCHANGED <<input, component, length, stride>>

-----------------------------------------------------------------------------
(* on_process, pw_capture_read and convertPipewireFrame; the same shape in *)
(* ScreenCaptureKit, where the chunk always holds its frame.               *)

Minimum(a, b) == IF a <= b THEN a ELSE b
Maximum(a, b) == IF a <= b THEN b ELSE a

\* bytes = stride * height wraps; the reader is given the whole capacity.
StreamCopy ==
    /\ pc = "stream"
    /\ LET bytes == Minimum((input.stride * input.h) % Word, input.size)
       IN  length' = Maximum(bytes, input.capacity)
    /\ stride' = input.stride
    /\ pc' = "copied"
    /\ UNCHANGED <<input, component, result>>

\* Seeded fault: Go too computes in words.
TooShortInWords == (stride * input.h) % Word > length

TooShort == stride * input.h > length

\* Every row is sliced as w * 4 bytes; a slice may not end beyond the buffer.
StreamConvert ==
    /\ pc = "copied" /\ input.kind = "stream"
    /\ pc' = "out"
    /\ result' = CASE 0 \in {input.w, input.h, stride} \/ TooShort -> "error"
                   [] OTHER -> IF (input.h - 1) * stride + input.w * 4 > length
                                 THEN "panic" ELSE "ok"
    /\ UNCHANGED <<input, component, length, stride>>

-----------------------------------------------------------------------------

Next ==
    \/ Split \/ Classify \/ Shift \/ Shifted \/ Bias \/ ToByte \/ Scale10
    \/ X11Rows \/ X11Convert \/ StreamCopy \/ StreamConvert

Spec == Init /\ [][Next]_vars

-----------------------------------------------------------------------------
(* Properties.                                                             *)

\* The half is Significand / 2^Scale, for an exponent field below 31.
HalfExp  == (input.value \div 2^10) % 2^5
HalfFrac == input.value % 2^10
Significand == IF HalfExp = 0 THEN HalfFrac ELSE 2^10 + HalfFrac
Scale       == IF HalfExp = 0 THEN 24 ELSE 25 - HalfExp

\* The float32 is the same number as the half: the exponent has come back from
\* below zero, and no field has run into its neighbour.
FloatExact ==
    input.kind = "half" /\ pc \in {"float", "done"} =>
       /\ frac < 2^10
       /\ CASE HalfExp = 31      -> exp = 255 /\ frac = HalfFrac
            [] Significand = 0   -> exp = 0 /\ frac = 0
            [] HalfExp \in 1 .. 30 -> exp = HalfExp + 112 /\ frac = HalfFrac
            [] OTHER -> exp \in 103 .. 112
                        /\ Significand * 2^10 = (2^10 + frac) * 2^(exp - 103)

Near(a, b, tolerance) == a - b \in -tolerance .. tolerance

\* The byte is the nearest to 255 times the component, held between 0 and 255.
Nearest ==
    pc = "done" =>
      CASE input.kind = "ten" -> Near(byte * 1023, input.value * 255, 511)
        [] input.kind = "half" /\ ~IsNaN ->
             CASE sign = 1 -> byte = 0
               [] sign = 0 /\ HalfExp >= 15 -> byte = 255
               [] OTHER -> Near(byte * 2^(Scale + 1), Significand * 510, 2^Scale)
        [] OTHER -> TRUE

\* What the X protocol says of a pixel of n bytes with the red component in bits
\* 16 to 23, green in 8 to 15 and blue in 0 to 7.
MaskShift == [r |-> 16, g |-> 8, b |-> 0]
ServerByte(channel, n) ==
    IF input.lsbFirst THEN MaskShift[channel] \div 8 ELSE n - 1 - MaskShift[channel] \div 8

\* With the server's own pixmap format, every channel of every pixel is read
\* from where the server put it.
X11ReadsRightBytes ==
    pc = "out" /\ input.kind = "x11" /\ result = "ok" /\ input.listed =>
       /\ stride = ServerStride
       /\ \A channel \in {"r", "g", "b"} :
             X11Byte(channel) = ServerByte(channel, input.bpp \div 8)

\* No conversion reads outside of its bytes: x11ToRGBA would only if the format
\* is not listed and the default it takes is too large, a streamed frame only if
\* its stride is shorter than its row, and one whose length wrapped is rejected.
InBounds ==
    /\ result = "panic" => CASE input.kind = "x11"    -> ~input.listed /\ input.bpp < 32
                             [] input.kind = "stream" -> input.stride < input.w * 4
    /\ pc = "out" /\ input.kind = "stream" /\ input.stride * input.h >= Word => result = "error"
=============================================================================
