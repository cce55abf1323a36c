---------------------------- MODULE MCX11Capture ----------------------------
(* An instance of X11Capture small enough for TLC. *)
EXTENDS X11Capture

\* A depth x11ToRGBA knows, and one it rejects.
MCDepths == {TRUE, FALSE}
=============================================================================
