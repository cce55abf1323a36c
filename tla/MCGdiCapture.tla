---------------------------- MODULE MCGdiCapture ----------------------------
(* An instance of GdiCapture small enough for TLC. *)
EXTENDS GdiCapture, TLC

Symmetric == Permutations(Callers) \cup Permutations(Threads)
=============================================================================
