-------------------------- MODULE MCCaptureEngine --------------------------
(* TLC instances of CaptureEngine: the sets its configurations choose from. *)
EXTENDS CaptureEngine

=============================================================================
