-------------------------- MODULE MCSetupAuthority --------------------------
(* The instance of SetupAuthority that TLC checks; its bounds are in the    *)
(* cfg.                                                                     *)
EXTENDS SetupAuthority
=============================================================================
