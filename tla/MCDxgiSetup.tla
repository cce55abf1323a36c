----------------------------- MODULE MCDxgiSetup -----------------------------
(* Instances of DxgiSetup small enough for TLC. *)
EXTENDS DxgiSetup, TLC

\* Three adapters: two outputs, none, two.
MCOutputs == 0 :> 2 @@ 1 :> 0 @@ 2 :> 2

\* The default, another output, and indices no adapter or output has.
MCRequests == { <<0, 0>>, <<0, 1>>, <<2, 1>>, <<0, 5>>, <<1, 0>>, <<7, 0>> }
=============================================================================
