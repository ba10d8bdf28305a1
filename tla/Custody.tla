------------------------------ MODULE Custody ------------------------------
(***************************************************************************)
(* What the recorder promises of the recordings it has sealed: it takes     *)
(* them into its custody, hands them to a journal, and lets go only of what *)
(* a journal has.  SegmentUpload, which follows one window file by file,    *)
(* and BrowserHost, for what the browser extension hands in, implement it.  *)
(***************************************************************************)

VARIABLES
  here,       \* recordings in the custody of this computer, set aside or not
  delivered   \* recordings a journal holds, or its owner has removed there

Init == here = {} /\ delivered = {}

(* Recordings are sealed; nothing is let go.                                *)
Take == here \subseteq here' /\ delivered' = delivered

(* Some of them reach a journal, and only what has reached one is let go.   *)
HandOver ==
  /\ delivered \subseteq delivered' /\ delivered' \subseteq delivered \cup here
  /\ here' \subseteq here /\ here \subseteq here' \cup delivered'

Next == Take \/ HandOver

Spec == Init /\ [][Next]_<<here, delivered>>
=============================================================================
