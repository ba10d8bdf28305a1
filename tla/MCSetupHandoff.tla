----------------------- MODULE MCSetupHandoff -----------------------
(* Instances of SetupHandoff for TLC.                                       *)
EXTENDS SetupHandoff

=============================================================================
