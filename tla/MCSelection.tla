----------------------------- MODULE MCSelection -----------------------------
(* An instance of Selection: two displays, of one adapter or of two; indices   *)
(* below, on and above them.                                                   *)
EXTENDS Selection

MCCards    == {-1, 0, 1, 2}
MCRequests == {-1, 0, 1, 2}
MCTimeouts == {-5, 0, 40}
=============================================================================
