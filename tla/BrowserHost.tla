---------------------------- MODULE BrowserHost ----------------------------
(***************************************************************************)
(* The app side of the browser's native host (browser-host: hub.rs,         *)
(* custody.rs, upload.rs): sessions that offer batches, the period clock,   *)
(* the owner's discard, update quiescence, and the delivery pass, all on    *)
(* one store behind a mutex.                                                *)
(***************************************************************************)
EXTENDS BrowserStore

CONSTANT MaxFaults   \* bound: failing operations, crashes inside one, bad answers

ASSUME HostAssumption == MaxFaults \in Nat /\ MaxPeriods > Cardinality(Batches) + MaxFaults

VARIABLES
  store,      \* the store: its directories, and its memory while the app runs
  up,         \* the app runs
  failed,     \* Store::failed: load did not succeed
  asked,      \* batches past the hub's gate, waiting for the store
  quiescing,  \* Hub::quiescing
  todo,       \* the periods left of the delivery pass
  sending,    \* the period reserved and under way, or 0
  journal,    \* batches a journal has stored
  acked,      \* history: batches answered "accepted" or "duplicate"
  dropped,    \* history: batches the owner has discarded
  faults      \* faults so far

vars == <<store, up, failed, asked, quiescing, todo, sending, journal, acked, dropped, faults>>

Init ==
  /\ store = EmptyStore /\ up = FALSE /\ failed = FALSE
  /\ asked = {} /\ quiescing = FALSE /\ todo = {} /\ sending = 0
  /\ journal = {} /\ acked = {} /\ dropped = {} /\ faults = 0

Costs(n) == faults + n <= MaxFaults /\ faults' = faults + n

(* What the process knew goes with it; the next has an id of its own.       *)
Forgotten(s) == [NewOpen(s) EXCEPT !.full = FALSE]
IdLeft == store'.cur \in Periods     \* the bound on period ids

Down ==
  /\ up' = FALSE /\ failed' = FALSE /\ asked' = {} /\ quiescing' = FALSE
  /\ todo' = {} /\ sending' = 0

(* A call of the store ends with outcome o; survives says what it does      *)
(* besides if the process lives.                                            *)
Ends(o, survives) ==
  /\ Costs(o.cost)
  /\ \/ o.how = "crashed" /\ store' = Forgotten(o.s) /\ IdLeft /\ Down
     \/ o.how # "crashed" /\ store' = o.s /\ UNCHANGED <<up, failed>> /\ survives

Stays == UNCHANGED <<asked, quiescing, todo, sending>>

----------------------------------------------------------------------------
(* The app.                                                                 *)

Launch ==
  /\ ~up
  /\ \E o \in Loads(store) :
       /\ Costs(o.cost)
       /\ up' = (o.how # "crashed") /\ failed' = (o.how = "failed")
       /\ store' = IF o.how = "ok" THEN o.s ELSE Forgotten(o.s)
       /\ IdLeft
  /\ Stays /\ UNCHANGED <<journal, acked, dropped>>

(* A quit, an update, a kill.                                               *)
Stop ==
  /\ up /\ Down
  /\ store' = Forgotten(store) /\ IdLeft
  /\ UNCHANGED <<journal, acked, dropped, faults>>

(* Hub::offer, before it takes the store's mutex.                           *)
Ask(b) ==
  /\ up /\ ~quiescing /\ b \notin acked
  /\ asked' = asked \cup {b}
  /\ UNCHANGED <<store, up, failed, quiescing, todo, sending, journal, acked, dropped, faults>>

(* Mutation: a batch whose commit failed is answered as accepted.           *)
OfferAnswersFailed(b) ==
  /\ up /\ b \in asked /\ ~failed
  /\ \E o \in Offers(store, b) :
       /\ Ends(o, asked' = asked \ {b} /\ UNCHANGED <<quiescing, todo, sending>>)
       /\ acked' = IF o.how \in {"ok", "failed"} THEN acked \cup {b} ELSE acked
  /\ UNCHANGED <<journal, dropped>>

Offer(b) ==
  /\ up /\ b \in asked /\ ~failed
  /\ \E o \in Offers(store, b) :
       /\ Ends(o, asked' = asked \ {b} /\ UNCHANGED <<quiescing, todo, sending>>)
       /\ acked' = IF o.how = "ok" THEN acked \cup {b} ELSE acked
  /\ UNCHANGED <<journal, dropped>>

OfferFailed(b) ==
  /\ up /\ b \in asked /\ failed
  /\ asked' = asked \ {b}
  /\ UNCHANGED <<store, up, failed, quiescing, todo, sending, journal, acked, dropped, faults>>

(* The clock passes the end of the open period.                             *)
TimePasses ==
  /\ up /\ ~failed /\ ~store.due
  /\ store' = [store EXCEPT !.due = TRUE]
  /\ Stays /\ UNCHANGED <<up, failed, journal, acked, dropped, faults>>

(* Mutation: the clock finalizes only a period that is full.                *)
TickWhenFilled ==
  /\ up /\ ~failed /\ store.due /\ (store.has => store.bytes = FileMax)
  /\ \E o \in Rotate(store) : Ends(o, Stays)
  /\ UNCHANGED <<journal, acked, dropped>>

Tick ==
  /\ up /\ ~failed /\ store.due
  /\ \E o \in Rotate(store) : Ends(o, Stays)
  /\ UNCHANGED <<journal, acked, dropped>>

(* Hub::quiesce with finalize_now; the lease or the updater resumes.        *)
Quiesce ==
  /\ up /\ ~quiescing
  /\ \E o \in IF store.has THEN Rotate(store) ELSE {Ok(store)} :
       Ends(o, quiescing' = TRUE /\ UNCHANGED <<asked, todo, sending>>)
  /\ UNCHANGED <<journal, acked, dropped>>

Resume ==
  /\ up /\ quiescing /\ quiescing' = FALSE
  /\ UNCHANGED <<store, up, failed, asked, todo, sending, journal, acked, dropped, faults>>

Reserved == IF sending = 0 THEN {} ELSE {sending}

(* discard_waiting.                                                         *)
Discard ==
  /\ up /\ ~failed /\ Waiting(store, Reserved) # {}
  /\ dropped' = dropped \cup Waiting(store, Reserved)
  /\ \E o \in Discards(store, Reserved) : Ends(o, Stays)
  /\ UNCHANGED <<journal, acked>>

----------------------------------------------------------------------------
(* deliver_pending.                                                         *)

StartPass ==
  /\ up /\ todo = {} /\ sending = 0 /\ Outbox(store) # {}
  /\ todo' = Outbox(store)
  /\ UNCHANGED <<store, up, failed, asked, quiescing, sending, journal, acked, dropped, faults>>

(* reserve.                                                                 *)
Reservable(p) == ~failed /\ store.out[p] # NoEntry /\ store.out[p].mark = "none"

TakeNext ==
  /\ up /\ sending = 0
  /\ \E p \in todo :
       /\ \A q \in todo : p <= q
       /\ todo' = todo \ {p}
       /\ sending' = IF Reservable(p) THEN p ELSE 0
  /\ UNCHANGED <<store, up, failed, asked, quiescing, journal, acked, dropped, faults>>

(* The journal has it, and says so.                                         *)
Stored ==
  /\ up /\ sending # 0
  /\ journal' = journal \cup BatchesOf(store.out[sending].pages)
  /\ \E o \in Delivers(store, sending) :
       Ends(o, /\ sending' = 0
               /\ todo' = IF o.how = "ok" THEN todo ELSE {}
               /\ UNCHANGED <<asked, quiescing>>)
  /\ UNCHANGED <<acked, dropped>>

(* Held or failed, whether or not the journal has it: the pass ends.        *)
NotStored ==
  /\ up /\ sending # 0 /\ Costs(1)
  /\ journal' \in {journal, journal \cup BatchesOf(store.out[sending].pages)}
  /\ sending' = 0 /\ todo' = {}
  /\ UNCHANGED <<store, up, failed, asked, quiescing, acked, dropped>>

Next ==
  \/ Launch \/ Stop \/ TimePasses \/ Tick \/ Quiesce \/ Resume \/ Discard
  \/ \E b \in Batches : Ask(b) \/ Offer(b) \/ OfferFailed(b)
  \/ StartPass \/ TakeNext \/ Stored \/ NotStored

Spec == Init /\ [][Next]_vars

(***************************************************************************)
(* The one-second clock task and the delivery task keep running, and the    *)
(* journal in the end stores what it is sent.                               *)
(***************************************************************************)
Fairness ==
  /\ WF_vars(TimePasses) /\ WF_vars(Tick)
  /\ WF_vars(StartPass \/ TakeNext) /\ WF_vars(Stored)

FairSpec == Spec /\ Fairness

----------------------------------------------------------------------------
(* Type correctness of the hub and its store.                               *)
TypeOK ==
  /\ store \in Stores
  /\ {up, failed, quiescing} \subseteq BOOLEAN
  /\ UNION {asked, journal, acked, dropped} \subseteq Batches
  /\ todo \subseteq Periods /\ sending \in {0} \cup Periods /\ faults \in 0..MaxFaults

InOpen(p) == BatchesOf(store.open[p].files)
OnDisk == UNION {InOpen(p) \cup BatchesOf(store.out[p].pages) : p \in Periods}

(***************************************************************************)
(* What the browser was told is accepted is kept until a journal has it or  *)
(* the owner discards it ("Batch bytes are committed before their           *)
(* receipt"): the browser forgets it on that answer.                        *)
(***************************************************************************)
AcceptedKept == acked \subseteq OnDisk \cup journal \cup dropped

(***************************************************************************)
(* The store is a custody: what it has is let go only to a journal or by    *)
(* the owner, through every crash in a finalization, a delivery, a discard  *)
(* or the recovery of one.                                                  *)
(***************************************************************************)
Promise == INSTANCE Custody WITH here <- OnDisk, delivered <- journal \cup dropped

ImplementsCustody == Promise!Spec

(***************************************************************************)
(* A receipt ends as what happened: "delivered" only if a journal stored    *)
(* the batch, "discarded" only if the owner discarded it, and then no       *)
(* leftover copy of its period, listed pass or recovery brings it to a      *)
(* journal, whichever of the two met the other, failed half-way or was      *)
(* finished by a later launch (write_outbox_terminal, mark_period, load).   *)
(***************************************************************************)
ReceiptHolds(b) ==
  /\ store.rcpt[b].state = "Delivered" => b \in journal
  /\ store.rcpt[b].state = "Discarded" => b \in dropped

ReceiptsHold ==
  [][\A b \in Batches :
       /\ ReceiptHolds(b)'
       /\ store.rcpt[b].state = "Discarded" /\ b \in journal' => b \in journal]_vars

(***************************************************************************)
(* The store stays within its bound, copies in progress, leftovers and      *)
(* receipts included (offer keeps room for what finalization will write).   *)
(***************************************************************************)
SpoolBounded == BytesUsed(store) <= SpoolMax

(***************************************************************************)
(* What is accepted is delivered, unless the owner discards it or the app   *)
(* stops.  A period whose finalization failed waits for the next launch.    *)
(***************************************************************************)
LeftBehind == UNION {InOpen(p) : p \in {q \in Periods : ~(store.has /\ q = store.cur)}}

Delivered ==
  \A b \in Batches :
    (b \in acked) ~> (b \in journal \cup dropped \cup LeftBehind \/ ~up \/ failed)
=============================================================================
