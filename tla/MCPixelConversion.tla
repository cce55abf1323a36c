-------------------------- MODULE MCPixelConversion --------------------------
(* Every component, and frames up to 3 x 3.  The word is as large as TLC's    *)
(* integers allow; the largest strides wrap for some height.                  *)
EXTENDS PixelConversion

MCHalves  == 0 .. 2^16 - 1
MCTens    == 0 .. 2^10 - 1
MCWidths  == 1 .. 3
MCHeights == 1 .. 3
MCStrides == 0 .. 16 \cup {2^29, 2^29 + 4}
MCSizes   == 0 .. 31
MCWord    == 2^30
=============================================================================
