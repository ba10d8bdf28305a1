-------------------------- MODULE MCSegmentUpload --------------------------
(* TLC instances of SegmentUpload: the configurations choose the constants. *)
EXTENDS SegmentUpload

=============================================================================
