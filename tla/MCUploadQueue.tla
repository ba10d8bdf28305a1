--------------------------- MODULE MCUploadQueue ---------------------------
(* TLC instances of UploadQueue: two windows of two days, two journals.     *)
EXTENDS UploadQueue

CONSTANTS a, b

MCDayOf == [w \in Windows |-> w]

=============================================================================
