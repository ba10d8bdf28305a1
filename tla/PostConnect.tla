---------------------------- MODULE PostConnect ----------------------------
(***************************************************************************)
(* What the program does for a pairing each time it has reached the         *)
(* journal: it reports the facts of this device, asks whether relay access  *)
(* is configured, and refreshes the journal's addresses.  One trigger       *)
(* starts a pass of two lanes, and at most one more pass follows.           *)
(*                                                                          *)
(* Three parties write the pairing file and the live client: the lanes'     *)
(* blocking workers, which outlive the lane that timed out, the retry of a  *)
(* clear that failed, and the transport's own token refresh.  They take     *)
(* turns by the publication mutex; what they learned before their turn is   *)
(* fenced by the connection epoch, the access generation and the            *)
(* incarnation of the client.                                               *)
(*                                                                          *)
(* Only equality of epochs, generations and incarnations is ever tested,    *)
(* and one that was left never comes back: each is one bit, whether it is   *)
(* still the current one.                                                   *)
(***************************************************************************)
EXTENDS Naturals, FiniteSets

CONSTANTS
  FirstEnds,   \* addresses saved at pairing: a version, 0 if there are none
  MaxEnds,     \* versions of the journal's addresses
  MaxTokens,   \* relay tokens ever issued
  MaxFacts,    \* versions of the device's facts
  Failures,    \* how a write of the pairing file may fail
  MaxFaults    \* failed writes and requests, crashes

ASSUME PostConnectAssumption ==
  /\ {MaxEnds, MaxTokens, MaxFacts, MaxFaults} \subseteq Nat /\ FirstEnds \in 0..MaxEnds
  /\ MaxTokens > 0
  /\ Failures \subseteq {"failed", "uncertain"}

VARIABLES
  disk,     \* pairing.json: token, addresses, whether it is still this pairing's
  slot,     \* the live client: its credential, its CasKey, the token its transport uses
  fence,    \* RelayFence
  ctl,      \* PostConnectState
  lane,     \* the access lane of the current pass
  meta,     \* its metadata lane
  waits,    \* workers that wait for the publication mutex
  own,      \* the worker that has it and has passed its checks
  up,
  journal,  \* relay access, addresses, the facts reported and their revision
  facts,    \* the device's facts now
  posts,    \* PUTs whose sender no longer waits for them
  dead,     \* history: tokens that this run was told are no longer configured
  want,     \* history: the facts when a pass was last asked for
  broken,   \* history: that pass was cut or failed
  issued,
  faults

access == <<disk, slot, fence>>
lanes == <<lane, meta, waits, own>>
world == <<journal, facts, posts>>
history == <<dead, want, broken, issued>>
vars == <<access, ctl, lanes, up, world, history, faults>>

(* gen of the slot: it is the file's generation.  Of a lane or a worker: it *)
(* is the slot's.  Of the owner of the mutex: it is the file's.             *)
NoSlot == [tok |-> 0, use |-> 0, gen |-> FALSE, ends |-> 0, cur |-> FALSE]
NoLane == [st |-> "none", gen |-> FALSE]
NoMeta == [st |-> "none", rev |-> 0, facts |-> 0]
NoOwner == [kind |-> "none", cur |-> TRUE, gen |-> FALSE, out |-> 0, upto |-> 0]
Worker(kind, gen, out, upto) == [kind |-> kind, cur |-> TRUE, gen |-> gen, out |-> out, upto |-> upto]

Free == UNCHANGED faults
Costs == faults < MaxFaults /\ faults' = faults + 1

----------------------------------------------------------------------------
(* RelayFence and ClientSlot.                                               *)

(* The current client may dial the relay.                                   *)
Usable ==
  /\ up /\ ~fence.retired /\ ~fence.disabled /\ ~fence.inel /\ slot.cur /\ slot.use # 0

Disabled(f) == [f EXCEPT !.disabled = TRUE, !.inel = FALSE]

(* replace_from_incumbent.  A slot that is retired keeps its client, and so *)
(* does one whose new client would have no route at all.                    *)
Builds(f, tok, ends) == ~f.retired /\ (tok # 0 \/ ends # 0)

Replaced(f, s, tok, ends, gen) ==
  IF Builds(f, tok, ends)
  THEN [tok |-> tok, use |-> tok, gen |-> gen, ends |-> ends, cur |-> TRUE]
  ELSE [s EXCEPT !.gen = FALSE]

FenceFromCredential(f, tok, ends) ==
  IF Builds(f, tok, ends) THEN [f EXCEPT !.disabled = (tok = 0), !.inel = FALSE] ELSE f

----------------------------------------------------------------------------
(* Epochs and passes.                                                       *)

NewSession ==
  [live |-> TRUE, owed |-> TRUE, phase |-> "Idle", again |-> FALSE, last |-> FALSE, clear |-> "none"]

(* A worker of an ended epoch finds its token changed and returns without   *)
(* effect when its turn comes: it is gone at once.                          *)
Stale(W) == {w \in W : w.kind = "clear"}

Fenced(w) == [w EXCEPT !.cur = (w.kind # "access")]

(* A PUT goes its way when its lane no longer waits.                        *)
Abandoned ==
  IF meta.st \in {"put", "reput"} THEN posts \cup {[rev |-> meta.rev, facts |-> meta.facts]} ELSE posts

Loses == broken' = (broken \/ journal.rep < want)

(* The pass under way is followed by another, which reports what this one   *)
(* does not.                                                                *)
FollowUpDue == ctl.phase = "First" /\ ctl.again

(* The epoch moves on: a lane of the old one ends at its next check.        *)
EpochEnds == waits' = Stale(waits) /\ own' = Fenced(own)

LanesEnd == lane' = NoLane /\ meta' = NoMeta /\ EpochEnds

(* start_pass; fetch_access_outcome captures the generation before its GET. *)
LanesStart ==
  lane' = [st |-> "get", gen |-> TRUE] /\ meta' = [NoMeta EXCEPT !.st = "get"]

(* trigger, with retry_pending_durable_clear_if_needed.                     *)
Retries == IF ctl.clear = "none" THEN {} ELSE {Worker("clear", FALSE, 0, 0)}

Trigger(c) ==
  /\ IF c.phase \in {"Idle", "Quiesced"}
     THEN /\ ctl' = [c EXCEPT !.phase = "First", !.again = FALSE, !.last = TRUE]
          /\ LanesStart /\ posts' = Abandoned
          /\ waits' = Stale(waits) \cup Retries /\ own' = Fenced(own)
     ELSE /\ ctl' = [c EXCEPT !.again = TRUE]
          /\ waits' = waits \cup Retries /\ UNCHANGED <<lane, meta, own, posts>>
  /\ IF c.phase = "FollowUp" THEN UNCHANGED <<want, broken>> ELSE want' = facts /\ broken' = FALSE
  /\ Free /\ UNCHANGED <<access, up, journal, facts, dead, issued>>

(* setup_uploader.                                                          *)
UploaderStarts == up /\ ctl.live /\ ctl.owed /\ Trigger([ctl EXCEPT !.owed = FALSE])

(* The bridge has reached the journal: note_connected, once in an epoch.    *)
NoteConnected == up /\ ctl.live /\ ~ctl.last /\ Trigger([ctl EXCEPT !.last = TRUE])

(* Mutation: the last lane to finish does not look for a later trigger.     *)
FinishedForGood(c) == [c EXCEPT !.phase = "Quiesced", !.last = TRUE]

(* finish_pass_lane, of the last of the two.                                *)
Finished(c) ==
  IF c.phase = "First" /\ c.again
  THEN [c EXCEPT !.phase = "FollowUp", !.again = FALSE, !.last = TRUE]
  ELSE [c EXCEPT !.phase = "Quiesced", !.last = TRUE]

Passes(next) ==
  /\ ctl' = next
  /\ IF next.phase = "FollowUp" THEN LanesStart /\ EpochEnds ELSE LanesEnd

MetaEnds ==
  IF lane = NoLane THEN Passes(Finished(ctl))
  ELSE meta' = NoMeta /\ UNCHANGED <<ctl, lane, waits, own>>

AccessEnds ==
  IF meta = NoMeta THEN Passes(Finished(ctl))
  ELSE lane' = NoLane /\ UNCHANGED <<ctl, meta, waits, own>>

----------------------------------------------------------------------------
(* The metadata lane.                                                       *)

(* The GET, and the one after a conflict: the facts are sampled anew.       *)
MetaRead ==
  /\ up /\ meta.st \in {"get", "reget"} /\ Free
  /\ \/ journal.rep = facts /\ MetaEnds
     \/ /\ journal.rep # facts /\ UNCHANGED <<ctl, lane, waits, own>>
        /\ meta' = [st |-> IF meta.st = "get" THEN "put" ELSE "reput", rev |-> journal.rev, facts |-> facts]
  /\ UNCHANGED <<access, up, world, history>>

Stored(j, p) == IF p.rev = j.rev THEN [j EXCEPT !.rep = p.facts, !.rev = @ + 1] ELSE j

(* The PUT is answered; the first conflict is tried once more.              *)
MetaPut ==
  /\ up /\ meta.st \in {"put", "reput"} /\ Free
  /\ journal' = Stored(journal, [rev |-> meta.rev, facts |-> meta.facts])
  /\ IF journal' = journal /\ meta.st = "put"
     THEN meta' = [NoMeta EXCEPT !.st = "reget"] /\ UNCHANGED <<ctl, lane, waits, own, broken>>
     ELSE MetaEnds /\ broken' = (broken \/ (~FollowUpDue /\ journal'.rep < want))
  /\ UNCHANGED <<access, up, facts, posts, dead, want, issued>>

(* An old journal, an answer that is none, the deadline.                    *)
MetaFails ==
  /\ up /\ meta.st # "none" /\ Costs /\ MetaEnds /\ posts' = Abandoned
  /\ broken' = (broken \/ (~FollowUpDue /\ journal.rep < want))
  /\ UNCHANGED <<access, up, journal, facts, dead, want, issued>>

PutArrives ==
  /\ \E p \in posts : journal' = Stored(journal, p) /\ posts' = posts \ {p}
  /\ Free /\ UNCHANGED <<access, ctl, lanes, up, facts, history>>

----------------------------------------------------------------------------
(* The access lane: the relay GET, the worker that applies its answer, the  *)
(* address GET, the worker that writes what it listed.                      *)

Works(kind) == \E w \in waits \cup {own} : w.kind = kind /\ w.cur

LaneGoesTo(st) == lane' = [NoLane EXCEPT !.st = st] /\ UNCHANGED <<ctl, meta, own>>

(* fetch_access_outcome: relay 0 is the answer that none is configured.     *)
AccessAnswered ==
  /\ up /\ lane.st = "get" /\ Free /\ LaneGoesTo("apply")
  /\ waits' = waits \cup {Worker("access", lane.gen, journal.relay, IF journal.relay = 0 THEN issued ELSE 0)}
  /\ UNCHANGED <<access, up, world, history>>

AccessNoAnswer ==
  /\ up /\ lane.st = "get" /\ Costs /\ LaneGoesTo("addr")
  /\ UNCHANGED <<access, waits, up, world, history>>

(* Its worker is done, or the deadline passes first.                        *)
AccessGoesOn ==
  /\ up /\ lane.st = "apply" /\ LaneGoesTo("addr")
  /\ IF Works("access") THEN Costs ELSE Free
  /\ UNCHANGED <<access, waits, up, world, history>>

(* refresh_journal_endpoints.                                               *)
AddrAnswered ==
  /\ up /\ lane.st = "addr" /\ Free /\ LaneGoesTo("commit")
  /\ waits' = waits \cup {Worker("addr", FALSE, journal.ends, 0)}
  /\ UNCHANGED <<access, up, world, history>>

AddrNoAnswer ==
  /\ up /\ lane.st = "addr" /\ Costs /\ AccessEnds
  /\ UNCHANGED <<access, up, world, history>>

AddrGoesOn ==
  /\ up /\ lane.st = "commit" /\ AccessEnds
  /\ IF Works("addr") THEN Costs ELSE Free
  /\ UNCHANGED <<access, up, world, history>>

----------------------------------------------------------------------------
(* A worker takes the publication mutex and checks what it learned before.  *)

Drops(w) ==
  \/ fence.retired
  \/ w.kind = "access" /\ (~w.gen \/ w.out \in {slot.tok} \ {0})
  \/ w.kind = "addr" /\ w.out \in {0, disk.ends}
  \/ w.kind = "clear" /\ ctl.clear = "none"

(* The generation it writes under is the one its client, or the pending     *)
(* clear, has now.                                                          *)
Owner(w) ==
  [w EXCEPT !.gen = IF w.kind = "clear" THEN ctl.clear = "due" ELSE slot.gen]

(* No relay access any more: fenced, rebuilt without it, fenced again,      *)
(* before the file is touched.                                              *)
Told(w) ==
  /\ slot' = [Replaced(fence, slot, 0, slot.ends, slot.gen) EXCEPT !.cur = FALSE, !.gen = slot.gen]
  /\ fence' = Disabled(fence)
  /\ dead' = dead \cup 1..w.upto

Begins(w) ==
  /\ up /\ own = NoOwner /\ waits' = waits \ {w} /\ Free
  /\ IF Drops(w) THEN UNCHANGED <<own, slot, fence, dead>>
     ELSE /\ own' = Owner(w)
          /\ IF w.kind = "access" /\ w.out = 0 THEN Told(w) ELSE UNCHANGED <<slot, fence, dead>>
  /\ UNCHANGED <<disk, ctl, lane, meta, up, world, want, broken, issued>>

WorkerBegins == \E w \in waits : Begins(w)

----------------------------------------------------------------------------
(* And it writes: PairedState::mutate under its generation.  A file that    *)
(* cannot be read at all, and a reload that fails, are left out.            *)

CanWrite(w) ==
  /\ disk.mine /\ w.gen
  /\ w.kind = "access" /\ w.out # 0 => w.cur /\ ~fence.retired

(* Mutation: an address write leaves the token of a pending clear.          *)
WrittenApart(w) ==
  [disk EXCEPT !.ends = IF w.kind = "addr" THEN w.out ELSE @,
               !.tok = IF w.kind = "addr" THEN @ ELSE IF w.kind = "clear" THEN 0 ELSE w.out]

(* A pending clear is folded into an address write.                         *)
Written(w) ==
  [disk EXCEPT !.ends = IF w.kind = "addr" THEN w.out ELSE @,
               !.tok = CASE w.kind = "access" -> w.out
                         [] w.kind = "clear" -> 0
                         [] w.kind = "addr" -> IF ctl.clear = "none" THEN @ ELSE 0]

(* Mutation: the generation is read when the answer is applied, not before  *)
(* the question.                                                            *)
LeftNot(r) == r

(* The client has moved to another generation than the one r has captured.  *)
Left(r) == [r EXCEPT !.gen = FALSE]

SlotMoves == lane' = Left(lane) /\ waits' = {Left(w) : w \in waits}

(* The token and the addresses that the client has after a confirmed write: *)
(* a cleared answer rebuilds it from its own credential.                    *)
NewTok(w) == IF w.kind = "access" /\ w.out = 0 THEN slot.tok ELSE Written(w).tok
NewEnds(w) == IF w.kind = "addr" THEN w.out ELSE slot.ends

(* Preserve, after an address write: the relay stays as the fence had it.   *)
WrittenWell(w) ==
  /\ disk' = Written(w)
  /\ slot' = Replaced(fence, slot, NewTok(w), NewEnds(w), TRUE)
  /\ fence' = IF w.kind = "addr" THEN fence ELSE FenceFromCredential(fence, NewTok(w), NewEnds(w))
  /\ ctl' = [ctl EXCEPT !.clear = IF w.kind = "access" /\ w.out # 0 /\ @ = "late" THEN @ ELSE "none"]
  /\ SlotMoves

(* Only the answer that was being applied leaves a pending clear.           *)
Failed(w) ==
  /\ ctl' = [ctl EXCEPT !.clear = IF w.kind = "access" /\ w.out = 0 THEN "due" ELSE @]
  /\ UNCHANGED <<disk, slot, fence, lane, waits>>

(* The file is replaced but not confirmed: reconcile_from_disk.  A clear    *)
(* that is visible is still owed, one that a newer token superseded is not. *)
Uncertain(w) ==
  /\ disk' = Written(w)
  /\ slot' = Replaced(fence, slot, disk'.tok, disk'.ends, TRUE)
  /\ fence' = FenceFromCredential(fence, disk'.tok, disk'.ends)
  /\ ctl' = [ctl EXCEPT !.clear =
               IF disk'.tok = 0 /\ (@ # "none" \/ w.kind = "access") THEN "due" ELSE "none"]
  /\ SlotMoves

WorkerWrites ==
  /\ up /\ own # NoOwner /\ own' = NoOwner
  /\ \/ ~CanWrite(own) /\ Free /\ UNCHANGED <<access, ctl, lane, waits>>
     \/ CanWrite(own) /\ Free /\ WrittenWell(own)
     \/ CanWrite(own) /\ "failed" \in Failures /\ Costs /\ Failed(own)
     \/ CanWrite(own) /\ "uncertain" \in Failures /\ Costs /\ Uncertain(own)
  /\ UNCHANGED <<meta, up, world, history>>

(* WindowsTokenTransaction.commit, under the same mutex: the transport has  *)
(* a new token, the client keeps the credential it was built from.          *)
Refresh ==
  /\ Usable /\ own = NoOwner /\ issued < MaxTokens
  /\ \/ /\ disk.mine /\ (Free \/ ("uncertain" \in Failures /\ Costs))
        /\ disk' = [disk EXCEPT !.tok = issued + 1]
        /\ slot' = [slot EXCEPT !.use = issued + 1, !.gen = TRUE]
        /\ ctl' = [ctl EXCEPT !.clear = IF @ = "none" THEN @ ELSE "late"]
        /\ SlotMoves /\ issued' = issued + 1 /\ UNCHANGED fence
     \/ /\ IF disk.mine THEN Failures # {} /\ Costs ELSE Free
        /\ fence' = [fence EXCEPT !.inel = TRUE] /\ UNCHANGED <<disk, slot, ctl, lane, waits, issued>>
  /\ UNCHANGED <<meta, own, up, world, dead, want, broken>>

----------------------------------------------------------------------------
(* The journal, external.                                                   *)

JournalChanges(j) == journal' = j /\ Free /\ UNCHANGED <<access, ctl, lanes, up, facts, posts, dead, want, broken>>

JournalRevokes ==
  journal.relay # 0 /\ JournalChanges([journal EXCEPT !.relay = 0]) /\ UNCHANGED issued

JournalIssues ==
  issued < MaxTokens /\ issued' = issued + 1 /\ JournalChanges([journal EXCEPT !.relay = issued + 1])

JournalMoves ==
  journal.ends < MaxEnds /\ JournalChanges([journal EXCEPT !.ends = @ + 1]) /\ UNCHANGED issued

FactsChange ==
  /\ facts < MaxFacts /\ facts' = facts + 1 /\ Free
  /\ UNCHANGED <<access, ctl, lanes, up, journal, posts, history>>

----------------------------------------------------------------------------
(* The life of a binding.                                                   *)

Cut == lane' = NoLane /\ meta' = NoMeta /\ posts' = Abandoned /\ Loses

(* A healthy connection is lost: mark_session_disconnected.                 *)
Disconnect ==
  /\ up /\ ctl.live /\ Cut /\ EpochEnds /\ Free
  /\ ctl' = [ctl EXCEPT !.last = FALSE, !.phase = "Quiesced"]
  /\ UNCHANGED <<access, up, journal, facts, dead, want, issued>>

(* The uploader stops for a pause or an update: the lanes are aborted, a    *)
(* worker that has started is not.                                          *)
Quiesce ==
  /\ up /\ ctl.live /\ ctl.phase # "Quiesced" /\ Cut /\ Free
  /\ ctl' = [ctl EXCEPT !.phase = "Quiesced", !.again = FALSE]
  /\ UNCHANGED <<access, waits, own, up, journal, facts, dead, want, issued>>

(* Another pairing takes the file; this one's uploader leaves after that.   *)
Taken ==
  /\ disk.mine /\ disk' = [disk EXCEPT !.mine = FALSE] /\ Free
  /\ UNCHANGED <<slot, fence, ctl, lanes, up, world, history>>

Shutdown ==
  /\ up /\ ctl.live /\ ~disk.mine /\ Cut /\ EpochEnds /\ Free
  /\ fence' = [Disabled(fence) EXCEPT !.retired = TRUE]
  /\ slot' = [slot EXCEPT !.cur = FALSE]
  /\ ctl' = [ctl EXCEPT !.last = FALSE, !.phase = "Quiesced", !.live = FALSE]
  /\ UNCHANGED <<disk, up, journal, facts, dead, want, issued>>

(* CredentialAccess::bind.                                                  *)
Binds ==
  /\ disk.mine /\ (disk.tok # 0 \/ disk.ends # 0)
  /\ slot' = [tok |-> disk.tok, use |-> disk.tok, gen |-> TRUE, ends |-> disk.ends, cur |-> TRUE]
  /\ fence' = [disabled |-> disk.tok = 0, inel |-> FALSE, retired |-> FALSE]
  /\ ctl' = NewSession /\ dead' = {}

(* restore_native_access: the old binding is retired under its mutex, so    *)
(* that every worker that still waits for it drops.                         *)
Rebind ==
  /\ up /\ ctl.live /\ own = NoOwner /\ Binds /\ Cut /\ waits' = {} /\ Free
  /\ UNCHANGED <<disk, own, up, journal, facts, want, issued>>

Crash ==
  /\ up /\ Costs /\ up' = FALSE /\ Cut
  /\ waits' = {} /\ own' = NoOwner /\ dead' = {}
  /\ slot' = NoSlot /\ fence' = [disabled |-> TRUE, inel |-> FALSE, retired |-> FALSE]
  /\ ctl' = [NewSession EXCEPT !.live = FALSE]
  /\ UNCHANGED <<disk, journal, facts, want, issued>>

Launch ==
  /\ ~up /\ up' = TRUE /\ Binds /\ Free
  /\ UNCHANGED <<disk, lanes, world, want, broken, issued>>

----------------------------------------------------------------------------
Init ==
  /\ disk = [tok |-> 1, ends |-> FirstEnds, mine |-> TRUE]
  /\ slot = [tok |-> 1, use |-> 1, gen |-> TRUE, ends |-> FirstEnds, cur |-> TRUE]
  /\ fence = [disabled |-> FALSE, inel |-> FALSE, retired |-> FALSE]
  /\ ctl = NewSession
  /\ lane = NoLane /\ meta = NoMeta /\ waits = {} /\ own = NoOwner
  /\ up = TRUE
  /\ journal = [relay |-> 1, ends |-> FirstEnds, rep |-> 0, rev |-> 0]
  /\ facts = 0 /\ posts = {}
  /\ dead = {} /\ want = 0 /\ broken = FALSE /\ issued = 1
  /\ faults = 0

MetaStep == MetaRead \/ MetaPut
LaneStep == AccessAnswered \/ AccessGoesOn \/ AddrAnswered \/ AddrGoesOn
Surroundings == JournalRevokes \/ JournalIssues \/ JournalMoves \/ FactsChange \/ PutArrives

Next ==
  \/ UploaderStarts \/ NoteConnected
  \/ MetaStep \/ MetaFails
  \/ LaneStep \/ AccessNoAnswer \/ AddrNoAnswer
  \/ WorkerBegins \/ WorkerWrites \/ Refresh
  \/ Surroundings
  \/ Disconnect \/ Quiesce \/ Taken \/ Shutdown \/ Rebind \/ Crash \/ Launch

Spec == Init /\ [][Next]_vars

----------------------------------------------------------------------------
(* Properties.                                                              *)

Workers ==
  [kind : {"none", "access", "addr", "clear"}, cur : BOOLEAN, gen : BOOLEAN,
   out : 0..(MaxTokens + MaxEnds), upto : 0..MaxTokens]

(* Every variable has its type.                                             *)
TypeOK ==
  /\ disk \in [tok : 0..MaxTokens, ends : 0..MaxEnds, mine : BOOLEAN]
  /\ slot \in [tok : 0..MaxTokens, use : 0..MaxTokens, gen : BOOLEAN, ends : 0..MaxEnds, cur : BOOLEAN]
  /\ fence \in [disabled : BOOLEAN, inel : BOOLEAN, retired : BOOLEAN]
  /\ ctl \in [live : BOOLEAN, owed : BOOLEAN, phase : {"Idle", "First", "FollowUp", "Quiesced"},
              again : BOOLEAN, last : BOOLEAN, clear : {"none", "due", "late"}]
  /\ lane \in [st : {"none", "get", "apply", "addr", "commit"}, gen : BOOLEAN]
  /\ meta \in [st : {"none", "get", "put", "reget", "reput"}, rev : Nat, facts : 0..MaxFacts]
  /\ waits \subseteq Workers /\ own \in Workers
  /\ up \in BOOLEAN /\ broken \in BOOLEAN
  /\ journal \in [relay : 0..MaxTokens, ends : 0..MaxEnds, rep : 0..MaxFacts, rev : Nat]
  /\ facts \in 0..MaxFacts /\ posts \subseteq [rev : Nat, facts : 1..MaxFacts]
  /\ dead \subseteq 1..MaxTokens /\ want \in 0..MaxFacts /\ issued \in 1..MaxTokens
  /\ faults \in 0..MaxFaults

(* Once a binding has applied the answer that relay access is no longer     *)
(* configured, no later write, late worker, refresh or reconciliation puts  *)
(* the token it then had back into a client that may dial the relay.        *)
RevokedNotUsed == Usable => slot.use \notin dead

(* When no worker is at work the live client and the file agree on the      *)
(* generation, or every later write of this binding would be refused as a   *)
(* mismatch; and on the token, unless a failed clear is still owed.         *)
LiveMatchesDisk ==
  up /\ own = NoOwner /\ disk.mine /\ ~fence.retired =>
    /\ slot.gen
    /\ slot.use = disk.tok \/ (slot.use = 0 /\ ctl.clear = "due")

(* The live client is what the file and the journal's last answer make it,  *)
(* through failed and uncertain writes and their repair                     *)
(* (apply_relay_access_outcome_owned, reconcile_from_disk).                 *)
LiveClientSound == RevokedNotUsed /\ LiveMatchesDisk

(* A token leaves the file only for a newer one or because the journal said *)
(* of it that it is no longer configured: a retried clear never takes the   *)
(* token of a later answer.  After another pairing has taken the file, no   *)
(* worker of this one writes it at all.                                     *)
NewerAccessKept ==
  [][/\ disk.tok # 0 /\ disk'.tok = 0 => disk.tok \in dead'
     /\ ~disk.mine => disk' = disk]_vars

(* A burst that has come to rest has reported what was true when a pass was *)
(* last asked for, by that pass or by the one that follows it, unless the   *)
(* connection or the request was lost: a trigger that falls into a running  *)
(* pass is not forgotten when its lanes end, in whichever order.            *)
Served == ctl.phase = "Quiesced" /\ ~broken => journal.rep >= want
=============================================================================
