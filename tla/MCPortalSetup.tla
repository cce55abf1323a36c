---------------------------- MODULE MCPortalSetup ----------------------------
(* An instance of PortalSetup: the default output, a second one, one too many. *)
EXTENDS PortalSetup

MCOutputs == {0, 1, 5}
=============================================================================
