---------------------------- MODULE BrowserStore ----------------------------
(***************************************************************************)
(* The durable store of browser text (browser-host, custody.rs): batches    *)
(* are committed into an open period, periods are finalized into the outbox *)
(* and leave it delivered or discarded, and a receipt per batch remembers   *)
(* what became of it.                                                       *)
(*                                                                          *)
(* Every call holds the store's mutex, so nothing runs between its file     *)
(* operations; but any of them may fail, and the process may be killed      *)
(* after any of them.  An operation is therefore the set of its outcomes:   *)
(* the store as it is left, how the call ended, and what that costs of the  *)
(* bounded faults.                                                          *)
(***************************************************************************)
EXTENDS Integers, FiniteSets

CONSTANTS
  Batches,      \* batches the browser offers, named by (inst hash, batch id)
  Deltas,       \* those that need their context's snapshot before them
  MaxPeriods,   \* bound: period ids
  FileMax,      \* bodies that fit one period's file
  SpoolMax,     \* bound on the store, in bodies (a receipt and a directory count one)
  Failing       \* the operations that may fail without a crash

Operations == {"period", "batch", "receipt", "finalize", "marker", "tombstone", "remove", "rmdir"}

ASSUME BrowserAssumption ==
  /\ IsFiniteSet(Batches) /\ Deltas \subseteq Batches
  /\ {MaxPeriods, FileMax, SpoolMax} \subseteq Nat \ {0}
  /\ Failing \subseteq Operations

Periods == 1..MaxPeriods

Ended == {"Discarded", "Delivered"}

(* A batch file is named by its sequence number, here its place in the      *)
(* period, and its batch.                                                   *)
Files == SUBSET ((1..FileMax) \X Batches)
BatchesOf(files) == {f[2] : f \in files}

(* open/<period>: period.json and the batch files.  outbox/<period>:        *)
(* browser_pages.jsonl, their bodies in order, period.json, terminal.json.  *)
NoDir == [meta |-> FALSE, files |-> {}]
NoEntry == [meta |-> FALSE, pages |-> {}, mark |-> "none"]
NoReceipt == [period |-> 0, state |-> "none"]

Stores ==
  [open : [Periods -> [meta : BOOLEAN, files : Files]],
   out : [Periods -> [meta : BOOLEAN, pages : Files, mark : {"none"} \cup Ended]],
   staged : SUBSET Periods,      \* outbox/.tmp-<period>
   rcpt : [Batches -> {NoReceipt} \cup [period : Periods, state : {"Pending"} \cup Ended]],
   cur : Periods, has : BOOLEAN, \* Active::open: its id, has_dir, bytes, whether contexts
   bytes : 0..FileMax,           \* has a snapshot, whether the clock is past end_ms
   ctx : BOOLEAN, due : BOOLEAN,
   full : BOOLEAN]

EmptyStore ==
  [open |-> [p \in Periods |-> NoDir], out |-> [p \in Periods |-> NoEntry], staged |-> {},
   rcpt |-> [b \in Batches |-> NoReceipt],
   cur |-> 1, has |-> FALSE, bytes |-> 0, ctx |-> FALSE, due |-> FALSE, full |-> FALSE]

----------------------------------------------------------------------------
(* Outcomes.                                                                *)

Ok(s) == [s |-> s, how |-> "ok", cost |-> 0]
Refuses(s) == [s |-> s, how |-> "refused", cost |-> 0]
Crashes(s) == [s |-> s, how |-> "crashed", cost |-> 1]
Fails(s, op) == IF op \in Failing THEN {[s |-> s, how |-> "failed", cost |-> 1]} ELSE {}

(* The code's `?`: F goes on from where the outcomes succeed.               *)
Then(outcomes, F(_)) ==
  UNION {IF o.how # "ok" THEN {o}
         ELSE {[s |-> r.s, how |-> r.how, cost |-> o.cost + r.cost] : r \in F(o.s)} : o \in outcomes}

(* write_bytes_atomic: the file is whole or absent.                         *)
Write(s, t, op) == {Ok(t), Crashes(s), Crashes(t)} \cup Fails(s, op)

(* Several receipts, one file after the other, in any order.                *)
WriteReceipts(s, bs, to, op) ==
  LET Done(d) == [s EXCEPT !.rcpt = [b \in Batches |-> IF b \in d THEN to ELSE s.rcpt[b]]]
  IN  {Ok(Done(bs))} \cup {Crashes(Done(d)) : d \in SUBSET bs}
        \cup UNION {Fails(Done(d), op) : d \in (SUBSET bs) \ {bs}}

(* mark_period, and the same loop in load.                                  *)
Marks(s, p, state) ==
  WriteReceipts(s, {b \in Batches : s.rcpt[b] = [period |-> p, state |-> "Pending"]},
                [period |-> p, state |-> state], "tombstone")

(***************************************************************************)
(* remove_payload_dir deletes in the order of the names.  "remove" stops    *)
(* before the last batch, "rmdir" after it: then the directory is empty but *)
(* for period.json, or empty.                                               *)
(***************************************************************************)
Left(s, p, k) == [s EXCEPT !.open[p].files = {f \in @ : f[1] > k}]
PartlyGone(s, p) == {Left(s, p, k) : k \in 0..FileMax}
Gone(s, p) == [s EXCEPT !.open[p] = NoDir]

RemoveOpen(s, p) ==
  {Ok(Gone(s, p)), Crashes(Gone(s, p))} \cup {Crashes(t) : t \in PartlyGone(s, p)}
    \cup (UNION {Fails(t, IF t.open[p].files = {} THEN "rmdir" ELSE "remove") : t \in PartlyGone(s, p)})
    \cup Fails(Gone(s, p), "rmdir")

RemoveEntry(s, p) ==
  LET Bare == [s EXCEPT !.out[p].pages = {}]
      Marked == [Bare EXCEPT !.out[p].meta = FALSE]
      Removed == [s EXCEPT !.out[p] = NoEntry]
  IN  {Ok(Removed)} \cup {Crashes(t) : t \in {s, Bare, Marked, Removed}}
        \cup Fails(s, "remove") \cup Fails(Bare, "remove") \cup Fails(Marked, "remove")

----------------------------------------------------------------------------
(* Capacity.  spool_bytes counts an open batch twice, for the copy that its *)
(* finalization makes.  BytesUsed is what lies on the disk: the few hundred *)
(* bytes of metadata that a period has in open/ and outbox/ together fit    *)
(* what is counted for one directory.                                       *)

OpenFiles(s, ps) == UNION {{p} \X s.open[p].files : p \in ps}
Finalized(s) == UNION {{p} \X s.out[p].pages : p \in Periods}
WithReceipt(s) == {b \in Batches : s.rcpt[b] # NoReceipt}

OpenBytes(s) == Cardinality(OpenFiles(s, Periods))
OutboxBytes(s) == Cardinality(Finalized(s)) + Cardinality(OpenFiles(s, s.staged))
Receipts(s) == Cardinality(WithReceipt(s))
InOpenDir(s) == {p \in Periods : s.open[p] # NoDir}
InOutbox(s) == {p \in Periods : s.out[p] # NoEntry}

SpoolBytes(s) ==
  2 * OpenBytes(s) + OutboxBytes(s) + Receipts(s)
    + Cardinality(InOpenDir(s)) + Cardinality(InOutbox(s)) + Cardinality(s.staged)

BytesUsed(s) ==
  OpenBytes(s) + OutboxBytes(s) + Receipts(s)
    + Cardinality(InOpenDir(s) \cup InOutbox(s) \cup s.staged)

RefreshFull(s) == IF SpoolBytes(s) < SpoolMax THEN [s EXCEPT !.full = FALSE] ELSE s

----------------------------------------------------------------------------
(* Periods.                                                                 *)

(* new_open's id has never been used; one that left no trace will do.       *)
Used(s, p) ==
  \/ s.open[p] # NoDir \/ s.out[p] # NoEntry \/ p \in s.staged
  \/ \E b \in Batches : s.rcpt[b].period = p

NewOpen(s) ==
  [s EXCEPT !.cur = IF Used(s, s.cur) THEN s.cur + 1 ELSE s.cur,
            !.has = FALSE, !.bytes = 0, !.ctx = FALSE, !.due = FALSE]

(* open_has_terminal_batch.                                                 *)
HasTerminal(s) ==
  s.has /\ \E b \in BatchesOf(s.open[s.cur].files) : s.rcpt[b].state \in Ended

(* finalize_dir: a copy in .tmp-<period>, renamed into the outbox; that of  *)
(* an empty period is removed.                                              *)
Finalize(s, p) ==
  LET copied == [s EXCEPT !.staged = @ \cup {p}]
      entry == [meta |-> TRUE, pages |-> s.open[p].files, mark |-> "none"]
      renamed == [s EXCEPT !.staged = @ \ {p}, !.out[p] = entry]
      removed == [s EXCEPT !.staged = @ \ {p}]
      Settled(t) == IF s.open[p].files = {} THEN Write(t, removed, "remove")
                    ELSE Write(t, renamed, "finalize")
  IN  IF s.out[p] # NoEntry THEN RemoveOpen(s, p)
      ELSE Then(Then({Ok(copied), Crashes(s), Crashes(copied)} \cup Fails(copied, "finalize"), Settled),
                LAMBDA t : RemoveOpen(t, p))

(* rotate: the new period is current before the old one is finalized.       *)
Rotate(s) ==
  IF HasTerminal(s) THEN {Refuses(s)}
  ELSE IF NewOpen(s).cur \notin Periods THEN {}     \* the bound on period ids
  ELSE IF ~s.has THEN {Ok(NewOpen(s))}
  ELSE Then(Finalize(NewOpen(s), s.cur),
            LAMBDA t : {Ok(IF s.open[s.cur].files = {} THEN t ELSE RefreshFull(t))})

----------------------------------------------------------------------------
(* offer.                                                                   *)

(* commit: period.json, the batch, its receipt.                             *)
Commit(s, b) ==
  LET WithDir == IF s.has THEN {Ok(s)}
                 ELSE Write(s, [s EXCEPT !.open[s.cur].meta = TRUE, !.has = TRUE], "period")
      WithFile(t) == Write(t, [t EXCEPT !.open[t.cur].files = @ \cup {<<t.bytes + 1, b>>},
                                        !.bytes = t.bytes + 1], "batch")
      Receipt(t) == Write(t, [t EXCEPT !.rcpt[b] = [period |-> t.cur, state |-> "Pending"]], "receipt")
      Known(t) == {Ok([t EXCEPT !.ctx = @ \/ b \notin Deltas])}
  IN  Then(Then(Then(WithDir, WithFile), Receipt), Known)

(* Mutation: no room is kept for the finalized copy.                        *)
NeedsOneCopy(s) == SpoolBytes(s) - OpenBytes(s) + 2 + (IF s.has THEN 0 ELSE 1)

Needs(s) == SpoolBytes(s) + 3 + (IF s.has THEN 0 ELSE 1)

Admit(s, b) ==
  IF Needs(s) > SpoolMax THEN {Refuses([s EXCEPT !.full = TRUE])}
  ELSE IF b \in Deltas /\ ~s.ctx THEN {Refuses(RefreshFull(s))}
  ELSE Commit(RefreshFull(s), b)

Offers(s, b) ==
  LET OnTime == IF s.due THEN Rotate(s) ELSE {Ok(s)}
      Fitting(t) == IF t.bytes > 0 /\ t.bytes + 1 > FileMax THEN Rotate(t) ELSE {Ok(t)}
  IN  IF s.rcpt[b] # NoReceipt THEN {Ok(s)}      \* Duplicate
      ELSE IF HasTerminal(s) THEN {Refuses(s)}
      ELSE Then(Then(OnTime, Fitting), LAMBDA t : Admit(t, b))

----------------------------------------------------------------------------
(* The outbox.                                                              *)

(* all_outbox, and outbox: what is marked is never sent.                    *)
AllOutbox(s) == {p \in Periods : s.out[p].meta}
Outbox(s) == {p \in AllOutbox(s) : s.out[p].mark = "none"}

(* write_outbox_terminal: the first mark stands.                            *)
WriteMarker(s, p, state) ==
  IF s.out[p].mark # "none" THEN {Ok(s)}
  ELSE Write(s, [s EXCEPT !.out[p].mark = state], "marker")

(* The mark, the receipts and only then the payload.                        *)
EndEntry(s, p, state) ==
  Then(Then(WriteMarker(s, p, state), LAMBDA t : Marks(t, p, t.out[p].mark)),
       LAMBDA t : RemoveEntry(t, p))

(* delivered.                                                               *)
Delivers(s, p) == Then(EndEntry(s, p, "Delivered"), LAMBDA t : {Ok(RefreshFull(t))})

(* The open period keeps its id.                                            *)
DiscardOpen(s) ==
  Then(Then(Marks(s, s.cur, "Discarded"), LAMBDA t : RemoveOpen(t, s.cur)),
       LAMBDA t : {Ok([t EXCEPT !.has = FALSE, !.bytes = 0, !.ctx = FALSE])})

----------------------------------------------------------------------------
(* load.                                                                    *)

(* Mutation: a batch without a receipt was never accepted, and goes.        *)
RepairDrops(s, p) ==
  LET known == {f \in s.open[p].files : s.rcpt[f[2]] # NoReceipt}
  IN  IF s.open[p] = NoDir THEN {Ok(s)} ELSE {Ok([s EXCEPT !.open[p].files = known])}

(* A batch without a receipt gets one; a period without a batch goes.       *)
Repair(s, p) ==
  LET dir == s.open[p]
  IN  IF dir = NoDir THEN {Ok(s)}
      ELSE IF ~dir.meta \/ dir.files = {} THEN RemoveOpen(s, p)
      ELSE WriteReceipts(s, {b \in BatchesOf(dir.files) : s.rcpt[b] = NoReceipt},
                         [period |-> p, state |-> "Pending"], "receipt")

(* An entry that was marked is finished.                                    *)
FinishMarked(s, p) ==
  IF s.out[p].mark = "none" THEN {Ok(s)}
  ELSE IF ~s.out[p].meta THEN RemoveEntry(s, p)
  ELSE Then(Marks(s, p, s.out[p].mark), LAMBDA t : RemoveEntry(t, p))

(* Mutation: the open copy of an ended batch is left, and finalized again.  *)
DropEndedNot(s, p) == {Ok(s)}

(* Batches whose receipt has ended go, and a period left without any.       *)
Cut(s, p, k) ==
  [s EXCEPT !.open[p].files = {f \in @ : f[1] > k \/ s.rcpt[f[2]].state \notin Ended}]
PartlyCut(s, p) == {Cut(s, p, k) : k \in 0..FileMax}

DropEnded(s, p) ==
  Then({Ok(Cut(s, p, FileMax))} \cup {Crashes(t) : t \in PartlyCut(s, p)}
         \cup UNION {Fails(t, "remove") : t \in PartlyCut(s, p) \ {Cut(s, p, FileMax)}},
       LAMBDA t : IF t.open[p].files = {} /\ t.open[p] # NoDir THEN RemoveOpen(t, p) ELSE {Ok(t)})

(* What the last run left open is finalized as it stands.                   *)
FinalizeLeft(s, p) ==
  IF s.open[p].meta /\ s.open[p].files # {} THEN Finalize(s, p) ELSE {Ok(s)}

----------------------------------------------------------------------------
(* The loops over periods, in order: load's four, discard_waiting's.        *)

(* discard_waiting goes on after a failure.                                  *)
Tries(outcomes) == {IF o.how = "failed" THEN [o EXCEPT !.how = "ok"] ELSE o : o \in outcomes}

Visit(what, s, p) ==
  CASE what = "repair" -> Repair(s, p)
    [] what = "finish" -> FinishMarked(s, p)
    [] what = "drop" -> DropEnded(s, p)
    [] what = "finalize" -> FinalizeLeft(s, p)
    [] what = "discard" -> Tries(EndEntry(s, p, "Discarded"))

ForEach(what, s, ps) ==
  LET upTo[i \in 0..MaxPeriods] ==
        IF i = 0 THEN {Ok(s)}
        ELSE IF i \in ps THEN Then(upTo[i - 1], LAMBDA t : Visit(what, t, i))
        ELSE upTo[i - 1]
  IN  upTo[MaxPeriods]

Discards(s, reserved) ==
  LET Open(t) == IF t.has /\ t.open[t.cur].files # {} THEN Tries(DiscardOpen(t)) ELSE {Ok(t)}
  IN  Then(Then(ForEach("discard", s, AllOutbox(s) \ reserved), Open), LAMBDA t : {Ok(RefreshFull(t))})

(* What it is about to discard.                                             *)
Waiting(s, reserved) ==
  (UNION {BatchesOf(s.out[p].pages) : p \in AllOutbox(s) \ reserved})
    \cup (IF s.has THEN BatchesOf(s.open[s.cur].files) ELSE {})

Loads(s) ==
  LET Each(outcomes, what) == Then(outcomes, LAMBDA t : ForEach(what, t, 1..s.cur))
      fresh == IF NewOpen(s).cur \in Periods      \* the bound on period ids
               THEN {Ok([NewOpen(s) EXCEPT !.full = FALSE])} ELSE {}
      Swept(t) == {Ok([t EXCEPT !.staged = {}]), Crashes(t)} \cup Fails(t, "remove")
  IN  Then(Then(Each(Each(Each(Each(fresh, "repair"), "finish"), "drop"), "finalize"), Swept),
           LAMBDA t : {Ok(RefreshFull(t))})
=============================================================================
