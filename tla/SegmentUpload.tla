--------------------------- MODULE SegmentUpload ---------------------------
(***************************************************************************)
(* The uploader at work on one sealed window while the engine may still     *)
(* merge into it: the coordinator's tick for that window (scan, ingest,     *)
(* acknowledgement, delete gate) and its local_finish pass, composed with   *)
(* SegmentStore.  Both run in one program, on different tasks, and share    *)
(* nothing but the directory `<n>`.  The journal is external: it stores     *)
(* what it is sent or not, and its answer arrives or not.                   *)
(***************************************************************************)
EXTENDS SegmentStore

CONSTANT
  QuarantineAfter   \* QUARANTINE_AFTER_REJECTS

ASSUME UploadAssumption == QuarantineAfter \in Nat \ {0}

VARIABLES
  upc,       \* the uploader's next operation on this window
  sent,      \* what the ack covers: the files as sent, and the segment key
  matched,   \* files the gate is about to delete
  seen,      \* media the gate's listing found, not yet deleted
  removed,   \* the gate runs because the owner removed the segment
  hold,      \* delete_holds has this window
  bound,     \* the segment keys in segment_bounds
  rejects,   \* quarantine_counts
  settled    \* history: what the journal holds, or its owner removed there

uploadVars == <<upc, sent, matched, seen, removed, hold, bound, rejects>>
vars == <<storeVars, uploadVars, settled>>

(* The segment key is named after .len, or else after the nominal period.   *)
Key(d) == IF d.len = "none" THEN "full" ELSE d.len

SentUnits == UNION {sent.files[n] : n \in Names}

UploadAt(step) == up /\ mode # "recover" /\ upc = step

SameStore == UNCHANGED <<run, up, over, opened, inc, quar, pc, plan, mode, owed, written>>

----------------------------------------------------------------------------
(* The POST and its answer.                                                 *)

Send ==
  /\ UploadAt("idle") /\ ~hold /\ Key(sea) \notin bound
  /\ sea.dir /\ sea.ack = NoAck /\ Entries(sea) # {}
  /\ sent' = [files |-> sea.f, key |-> Key(sea)] /\ upc' = "sending"
  /\ SameStore /\ UNCHANGED <<sea, faults, matched, seen, removed, hold, bound, rejects, settled>>

Proven ==
  /\ UploadAt("sending")
  /\ settled' = settled \cup SentUnits /\ upc' = "ack"
  /\ SameStore /\ UNCHANGED <<sea, faults, sent, matched, seen, removed, hold>>

(* A receipt that names every file sent.                                    *)
Accepted == Proven /\ rejects' = 0 /\ bound' = bound \ {sent.key}

(* No receipt, and then a listing of the day that names every file sent.    *)
Listed == Proven /\ UNCHANGED <<rejects, bound>>

(* No answer, whether or not the journal stored the files: the tick ends.   *)
NoAnswer ==
  /\ UploadAt("sending") /\ Costs
  /\ settled' \in {settled, settled \cup SentUnits}
  /\ upc' = "idle" /\ sent' = NoAck
  /\ SameStore /\ UNCHANGED <<sea, matched, seen, removed, hold, bound, rejects>>

(* An answer that proves nothing: conflict, a bad receipt, no listing.      *)
Unproven ==
  /\ UploadAt("sending") /\ Costs
  /\ settled' \in {settled, settled \cup SentUnits}
  /\ bound' = bound \cup {sent.key}
  /\ upc' = "idle" /\ sent' = NoAck
  /\ SameStore /\ UNCHANGED <<sea, matched, seen, removed, hold, rejects>>

(* register_reject: the journal refuses the segment, at last for good.      *)
Refused ==
  LET aside == rejects + 1 >= QuarantineAfter
  IN  /\ UploadAt("sending") /\ Costs
      /\ quar' = IF aside THEN quar \cup Stored(sea) ELSE quar
      /\ sea' = IF aside THEN NoDir ELSE sea
      /\ rejects' = IF ~aside THEN rejects + 1 ELSE IF sea.dir THEN 0 ELSE rejects + 1
      /\ bound' = bound \cup {sent.key}
      /\ upc' = "idle" /\ sent' = NoAck
      /\ UNCHANGED <<run, up, over, opened, inc, pc, plan, mode, owed, written,
                     matched, seen, removed, hold, settled>>

(* The owner removed this segment in the journal.                           *)
SegmentRemoved ==
  /\ UploadAt("sending") /\ Costs
  /\ settled' = settled \cup SentUnits
  /\ upc' = "gate" /\ removed' = TRUE
  /\ SameStore /\ UNCHANGED <<sea, sent, matched, seen, hold, bound, rejects>>

----------------------------------------------------------------------------
(* How the uploader leaves the window.                                      *)

Leaves(held) ==
  /\ upc' = "idle" /\ sent' = NoAck /\ matched' = {} /\ seen' = {} /\ removed' = FALSE
  /\ hold' = (hold \/ held)
  /\ SameStore /\ UNCHANGED <<bound, rejects, settled>>

Goes(to) == upc' = to /\ SameStore /\ UNCHANGED <<faults, removed, hold, bound, rejects, settled>>

(* write_ack; it fails if the directory has gone.                           *)
WriteAck ==
  /\ UploadAt("ack")
  /\ \/ /\ sea.dir
        /\ sea' = [sea EXCEPT !.ack = sent]
        /\ Goes("gate") /\ UNCHANGED <<sent, matched, seen>>
     \/ ~sea.dir /\ Leaves(FALSE) /\ UNCHANGED <<sea, faults>>
     \/ Costs /\ Leaves(FALSE) /\ UNCHANGED sea

----------------------------------------------------------------------------
(* try_gate_delete.                                                         *)

(* Mutation: a file is covered if one of its name was acknowledged.         *)
MatchFilesByName ==
  /\ UploadAt("gate")
  /\ UNCHANGED sea
  /\ \/ /\ sea.dir
        /\ seen' = Entries(sea)
        /\ matched' = {n \in Entries(sea) : sent.files[n] # {}}
        /\ Goes("recheck") /\ UNCHANGED sent
     \/ ~sea.dir /\ Leaves(TRUE) /\ UNCHANGED faults

MatchFiles ==
  /\ UploadAt("gate")
  /\ UNCHANGED sea
  /\ \/ /\ sea.dir
        /\ seen' = Entries(sea)
        /\ matched' = {n \in Entries(sea) : sent.files[n] = sea.f[n]}
        /\ Goes("recheck") /\ UNCHANGED sent
     \/ ~sea.dir /\ Leaves(TRUE) /\ UNCHANGED faults

Recheck ==
  /\ UploadAt("recheck")
  /\ UNCHANGED sea
  /\ \/ sea.dir /\ Entries(sea) = seen /\ Goes("delete") /\ UNCHANGED <<sent, matched, seen>>
     \/ ~(sea.dir /\ Entries(sea) = seen) /\ Leaves(removed \/ ~sea.dir) /\ UNCHANGED faults

DeleteFile ==
  /\ UploadAt("delete")
  /\ \E n \in matched :
       /\ sea' = [sea EXCEPT !.f[n] = {}]
       /\ matched' = matched \ {n} /\ seen' = seen \ {n}
  /\ Goes("delete") /\ UNCHANGED sent

(* What is still in seen is uncovered: then .len stays.                     *)
RemoveLen ==
  /\ UploadAt("delete") /\ matched = {}
  /\ sea' = IF seen = {} THEN [sea EXCEPT !.len = "none", !.src = FALSE] ELSE sea
  /\ Goes("marker") /\ UNCHANGED <<sent, matched, seen>>

RemoveMarker ==
  /\ UploadAt("marker")
  /\ sea' = [sea EXCEPT !.ack = NoAck]
  /\ \/ seen = {} /\ Goes("rmdir") /\ UNCHANGED <<sent, matched, seen>>
     \/ seen # {} /\ Leaves(FALSE) /\ UNCHANGED faults

Bare(d) == Entries(d) = {} /\ d.len = "none" /\ ~d.src /\ d.ack = NoAck

RemoveDir ==
  /\ UploadAt("rmdir")
  /\ sea' = IF Bare(sea) THEN NoDir ELSE sea
  /\ Leaves(~Bare(sea)) /\ UNCHANGED faults

(* A file that cannot be read or removed: DeleteGate::Blocked.              *)
GateFails ==
  /\ up /\ upc \in {"gate", "recheck", "delete", "marker", "rmdir"} /\ Costs
  /\ Leaves(TRUE) /\ UNCHANGED sea

----------------------------------------------------------------------------
(* local_finish, and the holds running out.                                 *)

Acked(d) == {n \in Names : d.ack.files[n] # {}}

(***************************************************************************)
(* ack_matches_physical and has_unacked_activity compare names and sizes;   *)
(* different content may or may not differ in size.                         *)
(***************************************************************************)
Stale(d, sizeTells) ==
  \/ d.ack.key # Key(d)
  \/ \E n \in Acked(d) : n \notin Entries(d) \/ (sizeTells /\ d.f[n] # d.ack.files[n])
  \/ (ActivityFiles \cap Entries(d)) \ Acked(d) # {}

(* Mutation: an acknowledgement that does not match is left in place.       *)
FinishIgnoringStale ==
  /\ UploadAt("idle") /\ ~hold /\ sea.dir /\ sea.ack # NoAck /\ ~Stale(sea, TRUE)
  /\ sent' = sea.ack /\ upc' = "gate" /\ UNCHANGED sea
  /\ SameStore /\ UNCHANGED <<faults, matched, seen, removed, hold, bound, rejects, settled>>

LocalFinish ==
  /\ UploadAt("idle") /\ ~hold /\ sea.dir /\ sea.ack # NoAck
  /\ \E sizeTells \in BOOLEAN :
       IF Stale(sea, sizeTells)
       THEN sea' = [sea EXCEPT !.ack = NoAck] /\ UNCHANGED <<sent, upc>>
       ELSE sent' = sea.ack /\ upc' = "gate" /\ UNCHANGED sea
  /\ SameStore /\ UNCHANGED <<faults, matched, seen, removed, hold, bound, rejects, settled>>

(* A window with neither marker nor media: its sidecars and itself go.      *)
SweepEmpty ==
  /\ UploadAt("idle") /\ ~hold /\ sea.dir /\ sea.ack = NoAck /\ Entries(sea) = {}
  /\ Goes("delete") /\ UNCHANGED <<sea, sent, matched, seen>>

TimePasses ==
  /\ up /\ (hold \/ bound # {})
  /\ hold' = FALSE /\ bound' = {}
  /\ SameStore /\ UNCHANGED <<sea, faults, upc, sent, matched, seen, removed, rejects, settled>>

UploadSteps ==
  \/ Send \/ Accepted \/ Listed \/ NoAnswer \/ Unproven \/ Refused \/ SegmentRemoved
  \/ WriteAck \/ MatchFiles \/ Recheck \/ DeleteFile \/ RemoveLen \/ RemoveMarker
  \/ RemoveDir \/ GateFails \/ LocalFinish \/ SweepEmpty \/ TimePasses

----------------------------------------------------------------------------
UploadInit ==
  /\ upc = "idle" /\ sent = NoAck /\ matched = {} /\ seen = {} /\ removed = FALSE
  /\ hold = FALSE /\ bound = {} /\ rejects = 0

Init == StoreInit /\ UploadInit /\ settled = {}

(* The uploader ends with the program, and forgets.                         *)
UploaderFollows ==
  /\ UNCHANGED settled
  /\ IF up' THEN UNCHANGED uploadVars
     ELSE /\ upc' = "idle" /\ sent' = NoAck /\ matched' = {} /\ seen' = {} /\ removed' = FALSE
          /\ hold' = FALSE /\ bound' = {} /\ rejects' = 0

Engine(step) == step /\ UploaderFollows

Next ==
  \/ Engine(Launch) \/ Engine(Crash) \/ Engine(Exit) \/ Engine(EndWindow)
  \/ Engine(OpenIncomplete) \/ \E k \in Sources : Engine(Record(k))
  \/ Engine(Seal) \/ Engine(Quit) \/ Engine(RetrySeal) \/ Engine(OperationFails)
  \/ Engine(Discard) \/ Engine(Sweep) \/ Engine(CreateFlac) \/ Engine(EncodeFlac)
  \/ Engine(DropPcm) \/ Engine(WriteLen) \/ Engine(SealOrMerge) \/ Engine(SetFullLen)
  \/ Engine(Unmark) \/ Engine(Rescue) \/ Engine(SetAside) \/ Engine(MoveEntry)
  \/ Engine(MoveSidecars) \/ Engine(RemoveIncomplete)
  \/ UploadSteps

Spec == Init /\ [][Next]_vars

Fairness ==
  /\ WF_vars(Engine(SealSteps \/ RetrySeal))
  /\ WF_vars(Send \/ WriteAck \/ MatchFiles \/ Recheck \/ DeleteFile \/ RemoveLen
               \/ RemoveMarker \/ RemoveDir \/ LocalFinish \/ SweepEmpty)
  /\ WF_vars(Accepted \/ Listed)
  /\ WF_vars(TimePasses)

FairSpec == Spec /\ Fairness

----------------------------------------------------------------------------
TypeOK ==
  /\ StoreTypeOK
  /\ upc \in {"idle", "sending", "ack", "gate", "recheck", "delete", "marker", "rmdir"}
  /\ sent \in Acks /\ matched \subseteq seen /\ seen \subseteq Names
  /\ {removed, hold} \subseteq BOOLEAN /\ bound \subseteq Lens
  /\ rejects \in Nat /\ settled \subseteq Units

Somewhere == Stored(inc) \cup Stored(sea) \cup quar \cup settled

(***************************************************************************)
(* No desktop activity is lost: a row once written is in the window's       *)
(* directories, in quarantine or with the journal, whatever fails, whenever *)
(* the program is killed or quit, and however the merge of a second seal    *)
(* meets the uploader's deletions ("New immutable activity survives         *)
(* media-name collisions on a restart").                                    *)
(***************************************************************************)
ActivityKept == {u \in written : u[1] = Activity} \subseteq Somewhere

(***************************************************************************)
(* "Never abandon usable captured data" (LocalRecoveryFs::finalize): the    *)
(* same for everything recorded.                                            *)
(***************************************************************************)
RecordedKept == written \subseteq Somewhere

(***************************************************************************)
(* What leaves the sealed window goes to quarantine or is what the journal  *)
(* holds, byte for byte: a stale acknowledgement, one written just as the   *)
(* engine merged, or one left by a killed delete, deletes nothing else      *)
(* (try_gate_delete).                                                       *)
(***************************************************************************)
SealedKept == [][Stored(sea) \subseteq Stored(sea') \cup quar' \cup settled]_vars

(***************************************************************************)
(* The window's directory and its quarantine are one custody: file by file  *)
(* and through every crash, merge and deletion, only what was sealed here   *)
(* reaches the journal and only what the journal has is let go              *)
(* (UploadCoordinator, LocalSegmentFs).                                     *)
(***************************************************************************)
Promise == INSTANCE Custody WITH here <- Stored(sea) \cup quar, delivered <- settled

ImplementsCustody == Promise!Spec

(***************************************************************************)
(* What is sealed is delivered, as long as the program runs and the journal *)
(* in the end answers: no leftover marker, hold or bound keeps the uploader *)
(* from it (local_finish, scan).                                            *)
(***************************************************************************)
Delivered ==
  \A u \in Units : (u \in Stored(sea)) ~> (u \in settled \cup quar \/ ~up)

(***************************************************************************)
(* A seal once owed is made, as long as the program runs: no state that a   *)
(* failed seal, merge or deletion leaves behind refuses the retry for ever  *)
(* (service_storage, seal_or_merge).                                        *)
(***************************************************************************)
SealsCompleted == owed ~> (~owed \/ ~up)
=============================================================================
