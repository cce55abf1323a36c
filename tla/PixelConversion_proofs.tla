------------------------ MODULE PixelConversion_proofs ------------------------
(***************************************************************************)
(* Proofs about PixelConversion: for every half and every 10-bit value,    *)
(* every width and height, every stride and size, and every Word of at     *)
(* least 2^10.                                                             *)
(***************************************************************************)
EXTENDS PixelConversion, TLAPS

Inputs == Components \cup X11Frames \cup Streamed

\* The powers the proofs meet.
LEMMA Powers ==
    /\ 2^0 = 1 /\ 2^1 = 2 /\ 2^2 = 4 /\ 2^3 = 8 /\ 2^4 = 16 /\ 2^5 = 32
    /\ 2^6 = 64 /\ 2^7 = 128 /\ 2^8 = 256 /\ 2^9 = 512 /\ 2^10 = 1024
    /\ 2^15 = 32768 /\ 2^16 = 65536
  OBVIOUS

\* What an input of each kind is made of.
LEMMA InputFacts ==
    ASSUME NEW i \in Inputs
    PROVE  \/ i.kind = "half" /\ i.value \in Nat /\ i.value <= 65535
           \/ i.kind = "ten" /\ i.value \in Nat /\ i.value <= 1023
           \/ /\ i.kind = "x11"
              /\ i.w \in Nat \ {0} /\ i.h \in Nat \ {0}
              /\ i.bpp \in {8, 16, 24, 32} /\ i.pad \in {8, 16, 32}
           \/ /\ i.kind = "stream"
              /\ i.w \in Nat \ {0} /\ i.h \in Nat \ {0}
              /\ i.stride \in 0 .. Word - 1
              /\ i.size \in 0 .. Word - 1 /\ i.capacity \in 0 .. Word - 1
  <1>1. Halves \subseteq 0 .. 2^16 - 1 /\ Tens \subseteq 0 .. 2^10 - 1
    BY InputAssumption, Zenon
  <1>2. 2^16 - 1 \in Int /\ 2^16 - 1 <= 65535 /\ 2^10 - 1 \in Int /\ 2^10 - 1 <= 1023
    BY Powers
  <1> DEFINE p == 2^16 - 1
             q == 2^10 - 1
  <1> HIDE DEF p, q
  <1>3. ASSUME i \in [kind : {"half"}, value : Halves]
        PROVE  i.kind = "half" /\ i.value \in Nat /\ i.value <= 65535
    <2>1. i.kind = "half" /\ i.value \in 0 .. p
      BY <1>1, <1>3 DEF p
    <2>2. p \in Int /\ p <= 65535
      BY <1>2 DEF p
    <2> QED
      BY <2>1, <2>2
  <1>4. ASSUME i \in [kind : {"ten"}, value : Tens]
        PROVE  i.kind = "ten" /\ i.value \in Nat /\ i.value <= 1023
    <2>1. i.kind = "ten" /\ i.value \in 0 .. q
      BY <1>1, <1>4 DEF q
    <2>2. q \in Int /\ q <= 1023
      BY <1>2 DEF q
    <2> QED
      BY <2>1, <2>2
  <1>5. ASSUME i \in X11Frames
        PROVE  /\ i.kind = "x11"
               /\ i.w \in Nat \ {0} /\ i.h \in Nat \ {0}
               /\ i.bpp \in {8, 16, 24, 32} /\ i.pad \in {8, 16, 32}
    <2>1. i.kind = "x11" /\ i.w \in Widths /\ i.h \in Heights
          /\ i.bpp \in {8, 16, 24, 32} /\ i.pad \in {8, 16, 32}
      BY <1>5 DEF X11Frames
    <2> QED
      BY <2>1, InputAssumption, Zenon
  <1>6. ASSUME i \in Streamed
        PROVE  /\ i.kind = "stream"
               /\ i.w \in Nat \ {0} /\ i.h \in Nat \ {0}
               /\ i.stride \in 0 .. Word - 1
               /\ i.size \in 0 .. Word - 1 /\ i.capacity \in 0 .. Word - 1
    <2>1. i.kind = "stream" /\ i.w \in Widths /\ i.h \in Heights
          /\ i.stride \in Strides /\ i.size \in Sizes /\ i.capacity \in Sizes
      BY <1>6 DEF Streamed
    <2> QED
      BY <2>1, InputAssumption, Zenon
  <1>7. \/ i \in [kind : {"half"}, value : Halves] \/ i \in [kind : {"ten"}, value : Tens]
        \/ i \in X11Frames \/ i \in Streamed
    BY Zenon DEF Inputs, Components
  <1> QED
    BY <1>3, <1>4, <1>5, <1>6, <1>7

LEMMA WordFacts == Word \in Nat /\ Word >= 1024
  <1>1. Word \in Nat /\ Word >= 2^10
    BY InputAssumption
  <1> QED
    BY <1>1, Powers

(***************************************************************************)
(* The arithmetic of the conversions, apart from their steps.              *)
(***************************************************************************)

\* The powers of two up to 2^10, for an exponent that is a variable.
Pow(j) == IF j = 0 THEN 1   ELSE IF j = 1 THEN 2   ELSE IF j = 2 THEN 4
     ELSE IF j = 3 THEN 8   ELSE IF j = 4 THEN 16  ELSE IF j = 5 THEN 32
     ELSE IF j = 6 THEN 64  ELSE IF j = 7 THEN 128 ELSE IF j = 8 THEN 256
     ELSE IF j = 9 THEN 512 ELSE 1024

LEMMA PowerOf == \A j \in 0 .. 10 : 2^j = Pow(j)
  <1> TAKE j \in 0 .. 10
  <1>0. CASE j = 0 BY <1>0, Powers DEF Pow
  <1>1. CASE j = 1 BY <1>1, Powers DEF Pow
  <1>2. CASE j = 2 BY <1>2, Powers DEF Pow
  <1>3. CASE j = 3 BY <1>3, Powers DEF Pow
  <1>4. CASE j = 4 BY <1>4, Powers DEF Pow
  <1>5. CASE j = 5 BY <1>5, Powers DEF Pow
  <1>6. CASE j = 6 BY <1>6, Powers DEF Pow
  <1>7. CASE j = 7 BY <1>7, Powers DEF Pow
  <1>8. CASE j = 8 BY <1>8, Powers DEF Pow
  <1>9. CASE j = 9 BY <1>9, Powers DEF Pow
  <1>10. CASE j = 10 BY <1>10, Powers DEF Pow
  <1>11. j \in {0, 1, 2, 3, 4, 5, 6, 7, 8, 9, 10}
    OBVIOUS
  <1> QED
    BY <1>0, <1>1, <1>2, <1>3, <1>4, <1>5, <1>6, <1>7, <1>8, <1>9, <1>10, <1>11

LEMMA PowFacts ==
    /\ \A j \in 0 .. 10 : Pow(j) \in 1 .. 1024
    /\ \A j \in 0 .. 9 : Pow(j + 1) = 2 * Pow(j)
    /\ \A j \in 1 .. 10 : Pow(j) * Pow(10 - j) = 1024
    /\ Pow(0) = 1 /\ Pow(10) = 1024
  BY DEF Pow

\* One more turn of the loop doubles the fraction once more; the fraction of a
\* subnormal is not 0, so that ten turns are enough.
Doubles(f, j) ==
    /\ f * Pow(j) \in Nat
    /\ f * Pow(j) < 1024 => j \in 0 .. 9 /\ f * Pow(j + 1) = (f * Pow(j)) * 2
    /\ f * Pow(j) >= 1024 => j \in 1 .. 10

Fractions == 1 .. 1023
Turns == 0 .. 10

LEMMA Doubled == \A f \in Fractions, j \in Turns : Doubles(f, j)
  BY DEF Pow, Doubles, Fractions, Turns

\* The exponent below zero, modulo Word, and back.
LEMMA Below ==
    ASSUME NEW j \in 0 .. 10, NEW e \in Int, e = (-j) % Word
    PROVE  /\ (e - 1) % Word = (-(j + 1)) % Word
           /\ (e + 1) % Word = (1 - j) % Word
  <1>1. CASE j = 0
    <2>1. e = 0
      BY <1>1, WordFacts
    <2> QED
      BY <1>1, <2>1
  <1>2. CASE j # 0
    <2>1. e = Word - j
      BY <1>2, WordFacts
    <2>2. (e - 1) % Word = Word - j - 1 /\ (-(j + 1)) % Word = Word - j - 1
      BY <1>2, <2>1, WordFacts
    <2>3. (e + 1) % Word = (1 - j) % Word
      <3>1. CASE j = 1
        BY <2>1, <3>1, WordFacts
      <3>2. CASE j # 1
        <4>1. (e + 1) % Word = Word - j + 1
          BY <1>2, <2>1, <3>2, WordFacts
        <4>2. (1 - j) % Word = Word - j + 1
          BY <1>2, <3>2, WordFacts
        <4> QED
          BY <4>1, <4>2
      <3> QED
        BY <3>1, <3>2
    <2> QED
      BY <2>2, <2>3
  <1> QED
    BY <1>1, <1>2

LEMMA Biased ==
    ASSUME NEW j \in 1 .. 10, NEW e \in Int, e = (1 - j) % Word
    PROVE  (e + (127 - 15)) % Word = 113 - j
  <1>1. CASE j = 1
    <2>1. e = 0
      BY <1>1, WordFacts
    <2> QED
      BY <1>1, <2>1, WordFacts
  <1>2. CASE j # 1
    <2>1. e = Word + 1 - j
      BY <1>2, WordFacts
    <2> QED
      BY <1>2, <2>1, WordFacts
  <1> QED
    BY <1>1, <1>2

LEMMA BiasedNormal ==
    ASSUME NEW e \in 1 .. 30
    PROVE  (e + (127 - 15)) % Word = e + 112
  BY WordFacts

\* A quotient that is rounded to the nearest: twice the dividend over twice the
\* divisor, half a divisor added.
LEMMA RoundedNear ==
    ASSUME NEW x \in Nat, NEW p \in Nat \ {0}, NEW b \in Int,
           b = (x + p) \div (2 * p)
    PROVE  b * (2 * p) - x \in -p .. p
  <1> DEFINE n == x + p
             d == 2 * p
  <1>1. n \in Nat /\ d \in Nat \ {0}
    OBVIOUS
  <1> HIDE DEF n, d
  <1>2. n = d * (n \div d) + (n % d) /\ (n % d) \in 0 .. d - 1 /\ n \div d \in Int
    BY <1>1
  <1>3. d * (n \div d) = (n \div d) * d
    BY <1>1, <1>2
  <1>4. (n \div d) * d - x = p - (n % d)
    <2> DEFINE m == (n \div d) * d
    <2>1. m \in Int
      BY <1>1, <1>2
    <2> HIDE DEF m
    <2>2. n = m + (n % d)
      BY <1>2, <1>3 DEF m
    <2>3. m - x = p - (n % d)
      BY <1>1, <1>2, <2>1, <2>2 DEF n
    <2> QED
      BY <2>3 DEF m
  <1>5. p - (n % d) \in -p .. p
    BY <1>1, <1>2 DEF d
  <1> QED
    BY <1>4, <1>5 DEF n, d

\* The powers that a half is divided by.
LEMMA LargePowers ==
    \A k \in 11 .. 24 : 2^k \in Nat \ {0} /\ 2^(k + 1) = 2 * 2^k
  <1> TAKE k \in 11 .. 24
  <1>0. /\ 2^11 = 2048 /\ 2^12 = 4096 /\ 2^13 = 8192 /\ 2^14 = 16384
        /\ 2^17 = 131072 /\ 2^18 = 262144 /\ 2^19 = 524288 /\ 2^20 = 1048576
        /\ 2^21 = 2097152 /\ 2^22 = 4194304 /\ 2^23 = 8388608
        /\ 2^24 = 16777216 /\ 2^25 = 33554432
    OBVIOUS
  <1>11. CASE k = 11 BY <1>0, <1>11
  <1>12. CASE k = 12 BY <1>0, <1>12
  <1>13. CASE k = 13 BY <1>0, <1>13
  <1>14. CASE k = 14 BY <1>0, <1>14, Powers
  <1>15. CASE k = 15 BY <1>15, Powers
  <1>16. CASE k = 16 BY <1>0, <1>16, Powers
  <1>17. CASE k = 17 BY <1>0, <1>17
  <1>18. CASE k = 18 BY <1>0, <1>18
  <1>19. CASE k = 19 BY <1>0, <1>19
  <1>20. CASE k = 20 BY <1>0, <1>20
  <1>21. CASE k = 21 BY <1>0, <1>21
  <1>22. CASE k = 22 BY <1>0, <1>22
  <1>23. CASE k = 23 BY <1>0, <1>23
  <1>24. CASE k = 24 BY <1>0, <1>24
  <1>25. k \in {11, 12, 13, 14, 15, 16, 17, 18, 19, 20, 21, 22, 23, 24}
    OBVIOUS
  <1> QED
    BY <1>11, <1>12, <1>13, <1>14, <1>15, <1>16, <1>17, <1>18, <1>19, <1>20,
       <1>21, <1>22, <1>23, <1>24, <1>25

\* A padded row holds its pixels; one of 4-byte pixels needs no padding.
LEMMA PaddedRow ==
    ASSUME NEW w \in Nat \ {0}, NEW bpp \in {24, 32}, NEW pad \in {8, 16, 32}
    PROVE  /\ PaddedTo(w * bpp, pad) \div 8 \in Nat
           /\ w * (bpp \div 8) <= PaddedTo(w * bpp, pad) \div 8
           /\ bpp = 32 => PaddedTo(w * bpp, pad) \div 8 = 4 * w
  <1>1. CASE bpp = 24 /\ pad = 8
    BY <1>1 DEF PaddedTo
  <1>2. CASE bpp = 24 /\ pad = 16
    BY <1>2 DEF PaddedTo
  <1>3. CASE bpp = 24 /\ pad = 32
    BY <1>3 DEF PaddedTo
  <1>4. CASE bpp = 32 /\ pad = 8
    BY <1>4 DEF PaddedTo
  <1>5. CASE bpp = 32 /\ pad = 16
    BY <1>5 DEF PaddedTo
  <1>6. CASE bpp = 32 /\ pad = 32
    BY <1>6 DEF PaddedTo
  <1> QED
    BY <1>1, <1>2, <1>3, <1>4, <1>5, <1>6

(***************************************************************************)
(* The invariant: where an input is in its conversion, and what has been   *)
(* computed by then.                                                       *)
(***************************************************************************)
Routed ==
    /\ input \in Inputs
    /\ \/ input.kind = "half"
          /\ pc \in {"half", "classify", "shift", "bias", "float", "done"}
       \/ input.kind = "ten" /\ pc \in {"ten", "done"}
       \/ input.kind = "x11" /\ pc \in {"x11", "copied", "out"}
       \/ input.kind = "stream" /\ pc \in {"stream", "copied", "out"}
    /\ pc # "out" => result = "none"

\* After j turns of the loop, each of which found the fraction below 2^10, and
\* after the additions that follow it.
Shifting(j) == frac = HalfFrac * Pow(j) /\ frac < 2048 /\ exp = (-j) % Word
Normalised(j) == frac + 1024 = HalfFrac * Pow(j) /\ exp = (1 - j) % Word

\* The float32: infinity or NaN, zero, a number, a subnormal half.
Float ==
    \/ HalfExp = 31 /\ exp = 255 /\ frac = HalfFrac
    \/ HalfExp = 0 /\ HalfFrac = 0 /\ exp = 0 /\ frac = 0
    \/ HalfExp \in 1 .. 30 /\ exp = HalfExp + 112 /\ frac = HalfFrac
    \/ /\ HalfExp = 0 /\ HalfFrac # 0
       /\ \E j \in 1 .. 10 : frac + 1024 = HalfFrac * Pow(j) /\ exp = 113 - j

ByteOfFloat ==
    CASE sign = 1 \/ exp = 0 -> 0
      [] sign = 0 /\ exp >= 127 -> 255
      [] OTHER -> Rounded(2^10 + frac, 137 - exp)

HalfInv ==
    input.kind = "half" =>
       /\ sign \in {0, 1}
       /\ pc = "classify" => exp = HalfExp /\ frac = HalfFrac
       /\ pc = "shift" => /\ HalfExp = 0 /\ HalfFrac # 0
                          /\ \E j \in 0 .. 10 : Shifting(j)
       /\ pc = "bias" =>
            \/ HalfExp \in 1 .. 30 /\ exp = HalfExp /\ frac = HalfFrac
            \/ /\ HalfExp = 0 /\ HalfFrac # 0 /\ frac \in 0 .. 1023
               /\ \E j \in 1 .. 10 : Normalised(j)
       /\ pc \in {"float", "done"} => Float /\ frac \in 0 .. 1023
       /\ pc = "done" /\ ~IsNaN => byte = ByteOfFloat

TenInv ==
    input.kind = "ten" /\ pc = "done" => byte = (input.value * 255 + 511) \div 1023

X11Inv ==
    input.kind = "x11" =>
       /\ pc \in {"copied", "out"} =>
            stride = IF CodeStride * input.h > ServerStride * input.h
                       THEN (ServerStride * input.h) \div input.h ELSE CodeStride
       /\ pc = "out" => result = CASE Bpp \div 8 \notin {3, 4} -> "error"
                                   [] Bpp \div 8 \in {3, 4} /\ LastOfRow >= stride -> "panic"
                                   [] OTHER -> "ok"

StreamInv ==
    input.kind = "stream" =>
       /\ pc \in {"copied", "out"} =>
            /\ length \in 0 .. Word - 1
            /\ stride = input.stride
       /\ pc = "out" =>
            \/ result = "error"
            \/ /\ ~TooShort
               /\ result = IF (input.h - 1) * stride + input.w * 4 > length
                             THEN "panic" ELSE "ok"

IInv == Routed /\ HalfInv /\ TenInv /\ X11Inv /\ StreamInv

\* The fields of a half.
LEMMA HalfFacts ==
    ASSUME Routed, input.kind = "half"
    PROVE  HalfExp \in 0 .. 31 /\ HalfFrac \in 0 .. 1023 /\ input.value \div 2^15 \in {0, 1}
  <1>1. input.value \in Nat /\ input.value <= 65535
    BY InputFacts DEF Routed
  <1> DEFINE v == input.value
  <1> HIDE DEF v
  <1>2. v \in Nat /\ v <= 65535
    BY <1>1 DEF v
  <1>3. v \div 32768 \in {0, 1}
    BY <1>2
  <1>4. (v \div 1024) % 32 \in 0 .. 31 /\ v % 1024 \in 0 .. 1023
    BY <1>2
  <1>5. /\ v \div 2^15 = v \div 32768 /\ v % 2^10 = v % 1024
        /\ (v \div 2^10) % 2^5 = (v \div 1024) % 32
    BY Powers
  <1>6. /\ v \div 2^15 \in {0, 1} /\ v % 2^10 \in 0 .. 1023
        /\ (v \div 2^10) % 2^5 \in 0 .. 31
    BY <1>3, <1>4, <1>5
  <1> QED
    BY <1>6 DEF HalfExp, HalfFrac, v

LEMMA InitIInv == Init => IInv
  <1> SUFFICES ASSUME Init PROVE IInv
    OBVIOUS
  <1>1. input \in Inputs /\ pc = input.kind /\ sign = 0 /\ result = "none"
    BY DEF Init, Inputs
  <1>2. input.kind \in {"half", "ten", "x11", "stream"}
    BY <1>1, InputFacts
  <1> QED
    BY <1>1, <1>2 DEF IInv, Routed, HalfInv, TenInv, X11Inv, StreamInv

(***************************************************************************)
(* The steps.                                                              *)
(***************************************************************************)

\* A step of a half leaves the other conversions alone.
LEMMA HalfStep ==
    ASSUME IInv, input.kind = "half", UNCHANGED <<input, layout>>, HalfInv',
           pc' \in {"half", "classify", "shift", "bias", "float", "done"}
    PROVE  IInv'
  BY DEF IInv, Routed, TenInv, X11Inv, StreamInv, layout

LEMMA SplitStep == IInv /\ Split => IInv'
  <1> SUFFICES ASSUME IInv, Split PROVE IInv'
    OBVIOUS
  <1>1. input.kind = "half" /\ Routed
    BY DEF IInv, Routed, Split
  <1>2. sign' \in {0, 1}
    BY <1>1, HalfFacts DEF Split
  <1>3. HalfInv'
    BY <1>2 DEF Split, HalfInv, HalfExp, HalfFrac
  <1> QED
    BY <1>1, <1>3, HalfStep DEF Split

LEMMA ClassifyStep == IInv /\ Classify => IInv'
  <1> SUFFICES ASSUME IInv, Classify PROVE IInv'
    OBVIOUS
  <1>1. input.kind = "half" /\ Routed
    BY DEF IInv, Routed, Classify
  <1>2. /\ sign \in {0, 1} /\ exp = HalfExp /\ frac = HalfFrac
        /\ HalfExp \in 0 .. 31 /\ HalfFrac \in 0 .. 1023
    BY <1>1, HalfFacts DEF IInv, HalfInv, Classify
  <1>3. UNCHANGED <<input, sign, frac, byte, layout>>
    BY DEF Classify
  <1>4. HalfExp' = HalfExp /\ HalfFrac' = HalfFrac
    BY <1>3 DEF HalfExp, HalfFrac
  <1>5. CASE exp = 0 /\ frac # 0
    <2>1. pc' = "shift" /\ exp' = 0
      BY <1>5 DEF Classify
    <2>2. HalfFrac * Pow(0) = HalfFrac /\ (-0) % Word = 0 /\ 0 \in 0 .. 10
      BY <1>2, PowFacts, WordFacts
    <2>3. Shifting(0)'
      BY <1>2, <1>3, <1>4, <2>1, <2>2 DEF Shifting
    <2>4. HalfInv'
      BY <1>2, <1>3, <1>4, <1>5, <2>1, <2>2, <2>3 DEF HalfInv
    <2> QED
      BY <1>1, <1>3, <2>1, <2>4, HalfStep
  <1>6. CASE exp \in 1 .. 30
    <2>1. pc' = "bias" /\ exp' = exp
      BY <1>6 DEF Classify
    <2>2. HalfInv'
      BY <1>2, <1>3, <1>4, <1>6, <2>1 DEF HalfInv
    <2> QED
      BY <1>1, <1>3, <2>1, <2>2, HalfStep
  <1>7. CASE exp = 31 \/ (exp = 0 /\ frac = 0)
    <2>1. pc' = "float" /\ exp' = IF exp = 31 THEN 255 ELSE exp
      BY <1>7 DEF Classify
    <2>2. Float'
      BY <1>2, <1>3, <1>4, <1>7, <2>1 DEF Float
    <2>3. HalfInv'
      BY <1>2, <1>3, <2>1, <2>2 DEF HalfInv
    <2> QED
      BY <1>1, <1>3, <2>1, <2>3, HalfStep
  <1> QED
    BY <1>2, <1>5, <1>6, <1>7

LEMMA ShiftStep == IInv /\ Shift => IInv'
  <1> SUFFICES ASSUME IInv, Shift PROVE IInv'
    OBVIOUS
  <1>1. input.kind = "half" /\ Routed
    BY DEF IInv, Routed, Shift
  <1>2. /\ sign \in {0, 1} /\ HalfExp = 0 /\ HalfFrac # 0
        /\ HalfFrac \in 0 .. 1023
    BY <1>1, HalfFacts DEF IInv, HalfInv, Shift
  <1>3. PICK j \in 0 .. 10 : Shifting(j)
    BY <1>1 DEF IInv, HalfInv, Shift
  <1>4. /\ frac < 1024 /\ frac' = frac * 2 /\ exp' = (exp - 1) % Word
        /\ pc = "shift" /\ UNCHANGED <<input, pc, sign, byte, layout>>
    <2>1. frac < 2^10 /\ frac' = frac * 2 /\ exp' = (exp - 1) % Word
          /\ pc = "shift" /\ UNCHANGED <<input, pc, sign, byte, layout>>
      BY DEF Shift
    <2> QED
      BY <2>1, Powers
  <1>5. HalfExp' = HalfExp /\ HalfFrac' = HalfFrac
    BY <1>4 DEF HalfExp, HalfFrac
  <1>6. HalfFrac \in 1 .. 1023
    BY <1>2
  <1>7. frac = HalfFrac * Pow(j) /\ exp = (-j) % Word
    BY <1>3 DEF Shifting
  <1>8. j \in 0 .. 9 /\ HalfFrac * Pow(j + 1) = (HalfFrac * Pow(j)) * 2
    <2>1. Doubles(HalfFrac, j)
      <3>1. HalfFrac \in Fractions /\ j \in Turns
        BY <1>6 DEF Fractions, Turns
      <3> QED
        BY <3>1, Doubled
    <2> QED
      BY <1>4, <1>7, <2>1 DEF Doubles
  <1>9. j + 1 \in 0 .. 10 /\ exp \in Int
    BY <1>7, <1>8, WordFacts
  <1>10. exp' = (-(j + 1)) % Word
    BY <1>4, <1>7, <1>9, Below
  <1>11. Shifting(j + 1)'
    BY <1>4, <1>5, <1>7, <1>8, <1>10 DEF Shifting
  <1>12. HalfInv'
    BY <1>2, <1>4, <1>5, <1>9, <1>11 DEF HalfInv
  <1> QED
    BY <1>1, <1>4, <1>12, HalfStep

LEMMA ShiftedStep == IInv /\ Shifted => IInv'
  <1> SUFFICES ASSUME IInv, Shifted PROVE IInv'
    OBVIOUS
  <1>1. input.kind = "half" /\ Routed
    BY DEF IInv, Routed, Shifted
  <1>2. /\ sign \in {0, 1} /\ HalfExp = 0 /\ HalfFrac # 0
        /\ HalfFrac \in 0 .. 1023
    BY <1>1, HalfFacts DEF IInv, HalfInv, Shifted
  <1>3. PICK j \in 0 .. 10 : Shifting(j)
    BY <1>1 DEF IInv, HalfInv, Shifted
  <1>4. /\ frac >= 1024 /\ frac' = frac % 1024 /\ exp' = (exp + 1) % Word
        /\ pc' = "bias" /\ UNCHANGED <<input, sign, byte, layout>>
    <2>1. frac >= 2^10 /\ frac' = frac % 2^10 /\ exp' = (exp + 1) % Word
          /\ pc' = "bias" /\ UNCHANGED <<input, sign, byte, layout>>
      BY DEF Shifted
    <2> QED
      BY <2>1, Powers
  <1>5. HalfExp' = HalfExp /\ HalfFrac' = HalfFrac
    BY <1>4 DEF HalfExp, HalfFrac
  <1>6. HalfFrac \in 1 .. 1023
    BY <1>2
  <1>7. frac = HalfFrac * Pow(j) /\ exp = (-j) % Word
    BY <1>3 DEF Shifting
  <1>8. j \in 1 .. 10 /\ frac \in Nat /\ exp \in Int
    <2>1. Doubles(HalfFrac, j)
      <3>1. HalfFrac \in Fractions /\ j \in Turns
        BY <1>6 DEF Fractions, Turns
      <3> QED
        BY <3>1, Doubled
    <2>2. exp \in Int
      BY <1>7, WordFacts
    <2> QED
      BY <1>4, <1>7, <2>1, <2>2 DEF Doubles
  <1>9. frac < 2048
    BY <1>3 DEF Shifting
  <1>10. frac' \in 0 .. 1023 /\ frac' + 1024 = frac
    BY <1>4, <1>8, <1>9
  <1>11. exp' = (1 - j) % Word
    BY <1>4, <1>7, <1>8, Below
  <1>12. Normalised(j)'
    BY <1>5, <1>7, <1>10, <1>11 DEF Normalised
  <1>13. HalfInv'
    BY <1>2, <1>4, <1>5, <1>8, <1>10, <1>12 DEF HalfInv
  <1> QED
    BY <1>1, <1>4, <1>13, HalfStep

LEMMA BiasStep == IInv /\ Bias => IInv'
  <1> SUFFICES ASSUME IInv, Bias PROVE IInv'
    OBVIOUS
  <1>1. input.kind = "half" /\ Routed
    BY DEF IInv, Routed, Bias
  <1>2. sign \in {0, 1} /\ HalfExp \in 0 .. 31 /\ HalfFrac \in 0 .. 1023
    BY <1>1, HalfFacts DEF IInv, HalfInv, Bias
  <1>3. /\ exp' = (exp + (127 - 15)) % Word /\ pc' = "float"
        /\ UNCHANGED <<input, sign, frac, byte, layout>>
    BY DEF Bias
  <1>4. HalfExp' = HalfExp /\ HalfFrac' = HalfFrac
    BY <1>3 DEF HalfExp, HalfFrac
  <1>5. CASE HalfExp \in 1 .. 30 /\ exp = HalfExp /\ frac = HalfFrac
    <2>1. exp' = HalfExp + 112
      BY <1>3, <1>5, BiasedNormal
    <2> QED
      BY <1>1, <1>2, <1>3, <1>4, <1>5, <2>1, HalfStep DEF HalfInv, Float
  <1>6. CASE /\ HalfExp = 0 /\ HalfFrac # 0 /\ frac \in 0 .. 1023
             /\ \E j \in 1 .. 10 : Normalised(j)
    <2>1. PICK j \in 1 .. 10 : frac + 1024 = HalfFrac * Pow(j) /\ exp = (1 - j) % Word
      BY <1>6 DEF Normalised
    <2>2. exp \in Int
      BY <2>1, WordFacts
    <2>3. exp' = 113 - j
      BY <1>3, <2>1, <2>2, Biased
    <2>4. Float'
      BY <1>3, <1>4, <1>6, <2>1, <2>3 DEF Float
    <2> QED
      BY <1>1, <1>2, <1>3, <1>6, <2>4, HalfStep DEF HalfInv
  <1> QED
    BY <1>1, <1>5, <1>6 DEF IInv, HalfInv, Bias

LEMMA ToByteStep == IInv /\ ToByte => IInv'
  <1> SUFFICES ASSUME IInv, ToByte PROVE IInv'
    OBVIOUS
  <1>1. input.kind = "half"
    BY DEF IInv, Routed, ToByte
  <1>2. sign \in {0, 1} /\ Float /\ frac \in 0 .. 1023
    BY <1>1 DEF IInv, HalfInv, ToByte
  <1>3. pc' = "done" /\ UNCHANGED <<input, sign, exp, frac, layout>>
    BY DEF ToByte
  <1>4. ~IsNaN => byte' = ByteOfFloat
    BY DEF ToByte, ByteOfFloat
  <1>5. HalfExp' = HalfExp /\ HalfFrac' = HalfFrac
    BY <1>3 DEF HalfExp, HalfFrac
  <1>6. Float' /\ ByteOfFloat' = ByteOfFloat /\ (IsNaN' <=> IsNaN)
    BY <1>2, <1>3, <1>5 DEF Float, ByteOfFloat, IsNaN
  <1>7. HalfInv'
    BY <1>2, <1>3, <1>4, <1>6 DEF HalfInv
  <1> QED
    BY <1>1, <1>3, <1>7, HalfStep

LEMMA ScaleStep == IInv /\ Scale10 => IInv'
  <1> SUFFICES ASSUME IInv, Scale10 PROVE IInv'
    OBVIOUS
  <1>1. input.kind = "ten" /\ input \in Inputs /\ result = "none"
    BY DEF IInv, Routed, Scale10
  <1>2. /\ pc' = "done" /\ input' = input /\ result' = result
        /\ byte' = (input.value * 255 + 511) \div 1023
    BY DEF Scale10, layout
  <1> QED
    BY <1>1, <1>2 DEF IInv, Routed, HalfInv, TenInv, X11Inv, StreamInv

LEMMA X11Step == IInv /\ (X11Rows \/ X11Convert) => IInv'
  <1> SUFFICES ASSUME IInv, X11Rows \/ X11Convert PROVE IInv'
    OBVIOUS
  <1>1. input.kind = "x11" /\ input \in Inputs /\ input' = input
    BY DEF IInv, Routed, X11Rows, X11Convert
  <1>2. /\ Bpp' = Bpp /\ CodeStride' = CodeStride /\ ServerStride' = ServerStride
        /\ LastOfRow' = LastOfRow
    BY <1>1 DEF Bpp, Pad, CodeStride, ServerStride, LastOfRow
  <1>3. CASE X11Rows
    <2>1. /\ pc' = "copied" /\ result' = "none"
          /\ stride' = IF CodeStride * input.h > ServerStride * input.h
                         THEN (ServerStride * input.h) \div input.h ELSE CodeStride
      BY <1>3 DEF X11Rows, IInv, Routed
    <2> QED
      BY <1>1, <1>2, <2>1 DEF IInv, Routed, HalfInv, TenInv, X11Inv, StreamInv
  <1>4. CASE X11Convert
    <2>1. /\ pc' = "out" /\ pc = "copied" /\ stride' = stride
          /\ result' = CASE Bpp \div 8 \notin {3, 4} -> "error"
                         [] Bpp \div 8 \in {3, 4} /\ LastOfRow >= stride -> "panic"
                         [] OTHER -> "ok"
      BY <1>4 DEF X11Convert
    <2> QED
      BY <1>1, <1>2, <2>1 DEF IInv, Routed, HalfInv, TenInv, X11Inv, StreamInv
  <1> QED
    BY <1>3, <1>4

\* The length is at most the capacity of a buffer, whatever the product was.
LEMMA StreamStep == IInv /\ (StreamCopy \/ StreamConvert) => IInv'
  <1> SUFFICES ASSUME IInv, StreamCopy \/ StreamConvert PROVE IInv'
    OBVIOUS
  <1>1. input.kind = "stream" /\ input \in Inputs /\ input' = input
    BY DEF IInv, Routed, StreamCopy, StreamConvert
  <1>2. CASE StreamCopy
    <2> DEFINE bytes == Minimum((input.stride * input.h) % Word, input.size)
    <2>1. pc' = "copied" /\ result' = "none" /\ stride' = input.stride
          /\ length' = Maximum(bytes, input.capacity)
      BY <1>2 DEF StreamCopy, IInv, Routed
    <2>2. /\ input.h \in Nat /\ input.stride \in 0 .. Word - 1
          /\ input.size \in 0 .. Word - 1 /\ input.capacity \in 0 .. Word - 1
      BY <1>1, InputFacts
    <2>3. input.stride * input.h \in Int
      BY <2>2
    <2>4. (input.stride * input.h) % Word \in 0 .. Word - 1
      BY <2>3, WordFacts
    <2>5. bytes \in 0 .. Word - 1
      BY <2>2, <2>4 DEF Minimum
    <2> HIDE DEF bytes
    <2>6. length' \in 0 .. Word - 1
      BY <2>1, <2>2, <2>5 DEF Maximum
    <2> QED
      BY <1>1, <2>1, <2>6 DEF IInv, Routed, HalfInv, TenInv, X11Inv, StreamInv
  <1>3. CASE StreamConvert
    <2>1. pc' = "out" /\ pc = "copied" /\ length' = length /\ stride' = stride
      BY <1>3 DEF StreamConvert
    <2>2. length \in 0 .. Word - 1 /\ stride = input.stride
      BY <1>1, <2>1 DEF IInv, StreamInv
    <2>3. \/ result' = "error"
          \/ /\ ~TooShort
             /\ result' = IF (input.h - 1) * stride + input.w * 4 > length
                            THEN "panic" ELSE "ok"
      BY <1>3 DEF StreamConvert
    <2>4. TooShort' <=> TooShort
      BY <1>1, <2>1 DEF TooShort
    <2>5. StreamInv'
      BY <1>1, <2>1, <2>2, <2>3, <2>4 DEF StreamInv
    <2> QED
      BY <1>1, <2>1, <2>5 DEF IInv, Routed, HalfInv, TenInv, X11Inv
  <1> QED
    BY <1>2, <1>3

LEMMA NextIInv == IInv /\ [Next]_vars => IInv'
  <1> SUFFICES ASSUME IInv, [Next]_vars PROVE IInv'
    OBVIOUS
  <1>1. CASE UNCHANGED vars
    BY <1>1 DEF vars, component, layout, IInv, Routed, HalfInv, TenInv, X11Inv, StreamInv,
                Shifting, Normalised, Float, ByteOfFloat, IsNaN, HalfExp, HalfFrac,
                CodeStride, ServerStride, Bpp, Pad, LastOfRow, TooShort
  <1>2. CASE Next
    BY <1>2, SplitStep, ClassifyStep, ShiftStep, ShiftedStep, BiasStep, ToByteStep,
       ScaleStep, X11Step, StreamStep DEF Next
  <1> QED
    BY <1>1, <1>2

LEMMA Inductive == Spec => []IInv
  BY InitIInv, NextIInv, PTL DEF Spec

(***************************************************************************)
(* The theorems.                                                           *)
(***************************************************************************)

\* What FloatExact says of a half that has become a float32.
Exact ==
    /\ frac < 2^10
    /\ CASE HalfExp = 31      -> exp = 255 /\ frac = HalfFrac
         [] Significand = 0   -> exp = 0 /\ frac = 0
         [] HalfExp \in 1 .. 30 -> exp = HalfExp + 112 /\ frac = HalfFrac
         [] OTHER -> exp \in 103 .. 112
                     /\ Significand * 2^10 = (2^10 + frac) * 2^(exp - 103)

LEMMA FloatIsExact == IInv => FloatExact
  <1> SUFFICES ASSUME IInv, input.kind = "half", pc \in {"float", "done"}
               PROVE  Exact
    BY DEF FloatExact, Exact
  <1>1. Float /\ frac \in 0 .. 1023 /\ HalfExp \in 0 .. 31 /\ HalfFrac \in 0 .. 1023
    BY HalfFacts DEF IInv, HalfInv
  <1>2. frac < 2^10
    BY <1>1, Powers
  <1>3. Significand = IF HalfExp = 0 THEN HalfFrac ELSE 1024 + HalfFrac
    BY Powers DEF Significand
  <1>4. CASE HalfExp = 31 /\ exp = 255 /\ frac = HalfFrac
    BY <1>1, <1>2, <1>3, <1>4 DEF Exact
  <1>5. CASE HalfExp = 0 /\ HalfFrac = 0 /\ exp = 0 /\ frac = 0
    BY <1>2, <1>3, <1>5 DEF Exact
  <1>6. CASE HalfExp \in 1 .. 30 /\ exp = HalfExp + 112 /\ frac = HalfFrac
    BY <1>1, <1>2, <1>3, <1>6 DEF Exact
  <1>7. CASE /\ HalfExp = 0 /\ HalfFrac # 0
             /\ \E j \in 1 .. 10 : frac + 1024 = HalfFrac * Pow(j) /\ exp = 113 - j
    <2>1. PICK j \in 1 .. 10 : frac + 1024 = HalfFrac * Pow(j) /\ exp = 113 - j
      BY <1>7
    <2>2. HalfFrac \in 1 .. 1023 /\ 10 - j \in 0 .. 10 /\ exp - 103 = 10 - j
          /\ exp \in 103 .. 112
      BY <1>1, <1>7, <2>1
    <2>3. HalfFrac * 1024 = (frac + 1024) * Pow(10 - j)
      <3> DEFINE f == HalfFrac
                 p == Pow(j)
                 q == Pow(10 - j)
      <3>1. j \in 0 .. 10 /\ p * q = 1024
        BY PowFacts
      <3>2. f \in Nat /\ p \in Nat /\ q \in Nat
        BY <2>2, <3>1, PowFacts
      <3> HIDE DEF f, p, q
      <3>3. (f * p) * q = f * (p * q)
        BY <3>2
      <3>4. f * 1024 = (f * p) * q
        BY <3>1, <3>3
      <3> QED
        BY <2>1, <3>4 DEF f, p, q
    <2> DEFINE a == Significand * 2^10
               b == 2^10 + frac
               c == 2^(exp - 103)
    <2>4. c = Pow(10 - j)
      BY <2>2, PowerOf
    <2>5. a = HalfFrac * 1024 /\ b = frac + 1024
      BY <1>1, <1>3, <1>7, Powers
    <2> HIDE DEF a, b, c
    <2>6. a = b * c
      BY <2>3, <2>4, <2>5
    <2>7. Significand # 0
      BY <1>1, <1>3, <1>7
    <2> QED
      BY <1>2, <1>7, <2>2, <2>6, <2>7 DEF Exact, a, b, c
  <1> QED
    BY <1>1, <1>4, <1>5, <1>6, <1>7 DEF Float

\* halfToFloat is exact for every half, subnormals included: the exponent, which
\* its loop lets wrap below zero as an unsigned word, has come back, and neither
\* field has run into the other.
THEOREM HalfExact == Spec => []FloatExact
  BY FloatIsExact, Inductive, PTL

\* The byte of a finite half that is neither negative nor 1 or more.
LEMMA HalfNear ==
    ASSUME IInv, input.kind = "half", pc = "done", ~IsNaN, sign # 1, HalfExp < 15
    PROVE  Near(byte * 2^(Scale + 1), Significand * 510, 2^Scale)
  <1>1. /\ Float /\ frac \in 0 .. 1023 /\ HalfExp \in 0 .. 31 /\ HalfFrac \in 0 .. 1023
        /\ sign = 0 /\ byte = ByteOfFloat
    BY HalfFacts DEF IInv, HalfInv
  <1>2. CASE HalfExp = 0
    <2>1. exp \in 0 .. 112
      BY <1>1, <1>2 DEF Float
    <2>2. byte = 0
      <3>1. CASE exp = 0
        BY <1>1, <3>1 DEF ByteOfFloat
      <3>2. CASE exp # 0
        <4>1. ByteOfFloat = Rounded(2^10 + frac, 137 - exp) /\ 137 - exp > 24
          BY <1>1, <2>1, <3>2 DEF ByteOfFloat
        <4> QED
          BY <1>1, <4>1 DEF Rounded
      <3> QED
        BY <3>1, <3>2
    <2>3. Scale = 24 /\ Significand = HalfFrac
      BY <1>2 DEF Scale, Significand
    <2> DEFINE p == 2^24
    <2>4. p \in Nat /\ p >= 1023 * 510
      BY SMT
    <2>5. 2^(Scale + 1) = 2 * p
      <3>1. 2^(24 + 1) = 2 * p
        BY SMT
      <3> HIDE DEF p
      <3> QED
        BY <2>3, <3>1, Zenon
    <2> HIDE DEF p
    <2>6. byte * (2 * p) - HalfFrac * 510 \in -p .. p
      BY <1>1, <2>2, <2>4, SMT
    <2> QED
      BY <2>3, <2>5, <2>6, Zenon DEF Near, p
  <1>3. CASE HalfExp \in 1 .. 14
    <2> DEFINE p == 2^Scale
               s == Significand
    <2>1. exp = HalfExp + 112 /\ frac = HalfFrac
      BY <1>1, <1>3 DEF Float
    <2>2. Scale = 25 - HalfExp /\ Scale \in 11 .. 24 /\ 137 - exp = Scale
      BY <1>3, <2>1 DEF Scale
    <2>3. s = 2^10 + frac /\ s \in Nat
      BY <1>1, <1>3, <2>1, Powers DEF Significand
    <2>4. byte = Rounded(s, Scale)
      BY <1>1, <1>3, <2>1, <2>2, <2>3 DEF ByteOfFloat
    <2>5. p \in Nat \ {0} /\ 2^(Scale + 1) = 2 * p
      BY <2>2, LargePowers
    <2>6. byte = (s * 510 + p) \div 2^(Scale + 1)
      BY <2>2, <2>4 DEF Rounded
    <2> HIDE DEF p, s
    <2> DEFINE x == s * 510
    <2>7. x \in Nat
      BY <2>3
    <2>8. byte = (x + p) \div (2 * p)
      BY <2>5, <2>6
    <2> HIDE DEF x
    <2>9. byte \in Int
      BY <2>5, <2>7, <2>8
    <2>10. byte * (2 * p) - x \in -p .. p
      BY <2>5, <2>7, <2>8, <2>9, RoundedNear
    <2> QED
      BY <2>5, <2>10 DEF Near, p, s, x
  <1> QED
    BY <1>1, <1>2, <1>3

LEMMA ByteIsNearest == IInv => Nearest
  <1> SUFFICES ASSUME IInv, pc = "done"
               PROVE  CASE input.kind = "ten" -> Near(byte * 1023, input.value * 255, 511)
                        [] input.kind = "half" /\ ~IsNaN ->
                             CASE sign = 1 -> byte = 0
                               [] sign = 0 /\ HalfExp >= 15 -> byte = 255
                               [] OTHER -> Near(byte * 2^(Scale + 1), Significand * 510, 2^Scale)
                        [] OTHER -> TRUE
    BY DEF Nearest
  <1>1. CASE input.kind = "ten"
    <2>1. input.value \in Nat /\ byte = (input.value * 255 + 511) \div 1023
      BY <1>1, InputFacts DEF IInv, Routed, TenInv
    <2>2. Near(byte * 1023, input.value * 255, 511)
      <3> DEFINE v == input.value
      <3>1. v \in Nat /\ byte = (v * 255 + 511) \div 1023
        BY <2>1
      <3> HIDE DEF v
      <3>2. byte * 1023 - v * 255 \in -511 .. 511
        BY <3>1
      <3> QED
        BY <3>2 DEF Near, v
    <2> QED
      BY <1>1, <2>2
  <1>2. CASE input.kind = "half" /\ ~IsNaN
    <2>1. /\ Float /\ HalfExp \in 0 .. 31 /\ HalfFrac \in 0 .. 1023
          /\ sign \in {0, 1} /\ byte = ByteOfFloat
      BY <1>2, HalfFacts DEF IInv, HalfInv
    <2>2. CASE sign = 1
      <3>1. byte = 0
        BY <2>1, <2>2 DEF ByteOfFloat
      <3> QED
        BY <1>2, <2>2, <3>1
    <2>3. CASE sign = 0 /\ HalfExp >= 15
      <3>1. exp >= 127 /\ exp \in Int
        BY <2>1, <2>3 DEF Float
      <3>2. byte = 255
        BY <2>1, <2>3, <3>1 DEF ByteOfFloat
      <3> QED
        BY <1>2, <2>3, <3>2
    <2>4. CASE sign = 0 /\ HalfExp < 15
      <3>1. Near(byte * 2^(Scale + 1), Significand * 510, 2^Scale)
        BY <1>2, <2>4, HalfNear
      <3> QED
        BY <1>2, <2>1, <2>4, <3>1
    <2> QED
      BY <2>1, <2>2, <2>3, <2>4
  <1>3. CASE input.kind # "ten" /\ ~(input.kind = "half" /\ ~IsNaN)
    BY <1>3
  <1> QED
    BY <1>1, <1>2, <1>3

\* floatToByte after halfToFloat, and the 10-bit case of readFrame, round to the
\* nearest byte and hold the result between 0 and 255, for every component that
\* is not a NaN.
THEOREM RoundsToNearest == Spec => []Nearest
  BY ByteIsNearest, Inductive, PTL

\* A row of a pixmap format that the setup lists, or of 32 bits per pixel, holds
\* the pixels x11ToRGBA reads of it.
LEMMA X11RowFits ==
    ASSUME IInv, input.kind = "x11", pc \in {"copied", "out"},
           Bpp \in {24, 32}, input.listed \/ input.bpp = 32
    PROVE  stride = ServerStride /\ LastOfRow < stride
  <1>1. /\ input.w \in Nat \ {0} /\ input.h \in Nat \ {0}
        /\ input.bpp \in {8, 16, 24, 32} /\ input.pad \in {8, 16, 32}
    BY InputFacts DEF IInv, Routed
  <1>2. Bpp = input.bpp
    BY DEF Bpp
  <1>3. /\ ServerStride \in Nat /\ input.w * (Bpp \div 8) <= ServerStride
        /\ Bpp = 32 => ServerStride = 4 * input.w
    BY <1>1, <1>2, PaddedRow DEF ServerStride
  <1>4. CodeStride = ServerStride
    <2>1. CASE input.listed
      BY <2>1 DEF CodeStride, ServerStride, Bpp, Pad
    <2>2. CASE ~input.listed
      <3>1. Bpp = 32 /\ Pad = 32
        BY <2>2 DEF Bpp, Pad
      <3>2. CodeStride = 4 * input.w
        BY <1>1, <3>1, PaddedRow DEF CodeStride
      <3> QED
        BY <1>3, <3>1, <3>2
    <2> QED
      BY <2>1, <2>2
  <1>5. stride = ServerStride
    <2> DEFINE n == ServerStride * input.h
    <2>1. n \in Nat
      BY <1>1, <1>3
    <2>2. stride = IF n > n THEN n \div input.h ELSE ServerStride
      BY <1>4 DEF IInv, X11Inv
    <2> HIDE DEF n
    <2> QED
      BY <2>1, <2>2
  <1>6. LastOfRow < ServerStride
    <2>1. CASE Bpp = 24
      BY <1>1, <1>3, <2>1 DEF LastOfRow
    <2>2. CASE Bpp = 32
      BY <1>1, <1>3, <2>2 DEF LastOfRow
    <2> QED
      BY <2>1, <2>2
  <1> QED
    BY <1>5, <1>6

\* x11ToRGBA goes on only with three or four bytes per pixel.
LEMMA X11Bpp ==
    ASSUME IInv, input.kind = "x11", pc = "out", result # "error"
    PROVE  Bpp \in {24, 32}
  <1>1. Bpp \in {8, 16, 24, 32}
    BY InputFacts DEF Bpp, IInv, Routed
  <1>2. Bpp \div 8 \in {3, 4}
    BY DEF IInv, X11Inv
  <1> QED
    BY <1>1, <1>2

LEMMA X11IsRight == IInv => X11ReadsRightBytes
  <1> SUFFICES ASSUME IInv, pc = "out", input.kind = "x11", result = "ok", input.listed,
                      NEW channel \in {"r", "g", "b"}
               PROVE  /\ stride = ServerStride
                      /\ X11Byte(channel) = ServerByte(channel, input.bpp \div 8)
    BY DEF X11ReadsRightBytes
  <1>1. Bpp \in {24, 32} /\ Bpp = input.bpp
    BY X11Bpp DEF Bpp
  <1>2. stride = ServerStride
    BY <1>1, X11RowFits
  <1>3. MaskShift["r"] = 16 /\ MaskShift["g"] = 8 /\ MaskShift["b"] = 0
    BY DEF MaskShift
  <1> DEFINE little == CASE channel = "r" -> 2 [] channel = "g" -> 1 [] channel = "b" -> 0
  <1>4. MaskShift[channel] \div 8 = little /\ little \in 0 .. 2
    BY <1>3
  <1>5. ServerByte(channel, input.bpp \div 8) =
          IF input.lsbFirst THEN little ELSE Bpp \div 8 - 1 - little
    BY <1>1, <1>4 DEF ServerByte
  <1>6. CASE input.lsbFirst
    <2>1. X11Byte(channel) = little
      BY <1>6 DEF X11Byte
    <2> QED
      BY <1>2, <1>5, <1>6, <2>1
  <1>7. CASE ~input.lsbFirst /\ Bpp = 32
    <2>1. X11Byte(channel) = 3 - little
      BY <1>7 DEF X11Byte
    <2> QED
      BY <1>2, <1>5, <1>7, <2>1
  <1>8. CASE ~input.lsbFirst /\ Bpp = 24
    <2>1. X11Byte(channel) = 2 - little
      BY <1>8 DEF X11Byte
    <2> QED
      BY <1>2, <1>5, <1>8, <2>1
  <1> QED
    BY <1>1, <1>6, <1>7, <1>8

\* With a pixmap format that the server lists, x11ToRGBA takes every channel
\* from the byte the server put it in, whatever the width, the padding and the
\* order of the bytes.
THEOREM RightBytes == Spec => []X11ReadsRightBytes
  BY X11IsRight, Inductive, PTL

LEMMA StreamBounds ==
    ASSUME IInv, input.kind = "stream", pc = "out"
    PROVE  /\ result = "panic" => input.stride < input.w * 4
           /\ input.stride * input.h >= Word => result = "error"
  <1>1. /\ input.w \in Nat \ {0} /\ input.h \in Nat \ {0}
        /\ input.stride \in 0 .. Word - 1
    BY InputFacts DEF IInv, Routed
  <1>2. length \in 0 .. Word - 1 /\ stride = input.stride
    BY DEF IInv, StreamInv
  <1> DEFINE n == input.stride * input.h
             rows == (input.h - 1) * input.stride
  <1>3. n \in Nat /\ rows = n - input.stride
    BY <1>1, WordFacts
  <1>4. CASE result = "error"
    BY <1>4
  <1>5. CASE result # "error"
    <2>1. ~(n > length) /\ result = IF rows + input.w * 4 > length THEN "panic" ELSE "ok"
      BY <1>2, <1>5 DEF IInv, StreamInv, TooShort
    <2> HIDE DEF n, rows
    <2>2. n < Word
      BY <1>2, <1>3, <2>1, WordFacts
    <2>3. rows + input.w * 4 > length => input.stride < input.w * 4
      BY <1>1, <1>2, <1>3, <2>1, WordFacts
    <2>4. result = "panic" => input.stride < input.w * 4
      BY <2>1, <2>3
    <2>5. ~(n >= Word)
      BY <1>3, <2>2, WordFacts
    <2> QED
      BY <2>4, <2>5 DEF n
  <1> QED
    BY <1>4, <1>5

LEMMA ReadsInBounds == IInv => InBounds
  <1> SUFFICES ASSUME IInv
               PROVE  /\ result = "panic" =>
                           CASE input.kind = "x11" -> ~input.listed /\ input.bpp < 32
                             [] input.kind = "stream" -> input.stride < input.w * 4
                      /\ pc = "out" /\ input.kind = "stream" /\ input.stride * input.h >= Word
                           => result = "error"
    BY DEF InBounds
  <1>1. pc = "out" /\ input.kind = "stream" /\ input.stride * input.h >= Word
          => result = "error"
    BY StreamBounds
  <1>2. ASSUME result = "panic"
        PROVE  CASE input.kind = "x11" -> ~input.listed /\ input.bpp < 32
                 [] input.kind = "stream" -> input.stride < input.w * 4
    <2>1. pc = "out" /\ input.kind \in {"x11", "stream"}
      BY <1>2 DEF IInv, Routed
    <2>2. CASE input.kind = "x11"
      <3>1. LastOfRow >= stride
        BY <1>2, <2>1, <2>2 DEF IInv, X11Inv
      <3>2. Bpp \in {24, 32}
        BY <1>2, <2>1, <2>2, X11Bpp
      <3>3. ServerStride \in Nat /\ LastOfRow \in Int
            /\ input.bpp \in {8, 16, 24, 32}
        <4>1. /\ input.w \in Nat \ {0} /\ input.bpp \in {8, 16, 24, 32}
              /\ input.pad \in {8, 16, 32}
          BY <2>2, InputFacts DEF IInv, Routed
        <4>2. input.w * input.bpp \in Nat
          BY <4>1
        <4>3. PaddedTo(input.w * input.bpp, input.pad) \in Nat
          BY <4>1, <4>2 DEF PaddedTo
        <4>4. ServerStride \in Nat
          BY <4>3 DEF ServerStride
        <4>5. LastOfRow \in Int
          <5>1. CASE Bpp = 24
            BY <4>1, <5>1 DEF LastOfRow
          <5>2. CASE Bpp = 32
            BY <4>1, <5>2 DEF LastOfRow
          <5> QED
            BY <3>2, <5>1, <5>2
        <4> QED
          BY <4>1, <4>4, <4>5
      <3>4. ~(input.listed \/ input.bpp = 32)
        BY <2>1, <2>2, <3>1, <3>2, <3>3, X11RowFits
      <3> QED
        BY <2>2, <3>3, <3>4
    <2>3. CASE input.kind = "stream"
      BY <1>2, <2>1, <2>3, StreamBounds
    <2> QED
      BY <2>1, <2>2, <2>3
  <1> QED
    BY <1>1, <1>2

\* No conversion reads outside of its bytes, for any width, height, stride,
\* padding and length: the exceptions are a pixmap format that is not listed and
\* is taken for a larger one, and a stride shorter than its row.  A streamed
\* frame whose length wraps in the C code is rejected by the Go code.
THEOREM NoPanic == Spec => []InBounds
  BY ReadsInBounds, Inductive, PTL
=============================================================================
