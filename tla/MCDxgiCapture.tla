---------------------------- MODULE MCDxgiCapture ----------------------------
(* Instances of DxgiCapture small enough for TLC. *)
EXTENDS DxgiCapture

CONSTANTS wide, tall, exotic    \* two supported descriptions and another one

MCDescs == {wide, tall, exotic}
MCSupported == {wide, tall}
=============================================================================
