---------------------- MODULE MCPairingSession ----------------------
(* Instances of PairingSession for TLC.                                     *)
EXTENDS PairingSession

=============================================================================
