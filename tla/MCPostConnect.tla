--------------------------- MODULE MCPostConnect ---------------------------
(* The instance of PostConnect that TLC checks; its bounds are in the cfg.  *)
EXTENDS PostConnect
=============================================================================
