---------------------------- MODULE UploadQueue ----------------------------
(***************************************************************************)
(* The upload coordinator's tick over all sealed windows, for one pairing   *)
(* after another.  A tick releases what other journals refused, finishes    *)
(* what is already acknowledged, and sends the rest window by window; what  *)
(* the journal accepted without a receipt is looked up in one day's         *)
(* listing.  It waits only for the journal.  When the program is paired     *)
(* anew, UploaderSlot::replace cancels the incumbent and starts its         *)
(* successor without waiting longer than its budget, so an uploader that is *)
(* waiting for its journal may outlive its replacement.                     *)
(*                                                                          *)
(* A directory is the recordings sealed into it, its key and its            *)
(* acknowledgement.  The steps inside a deletion are SegmentUpload's.       *)
(***************************************************************************)
EXTENDS Naturals, Sequences, FiniteSets

CONSTANTS
  Windows,          \* window indices, in time
  DayOf,            \* the day of a window
  Parts,            \* recordings sealed into a window, by one run each
  Journals,
  FirstJournal,     \* the one the program is paired with at first
  MaxSeals,         \* recordings sealed in all
  QuarantineAfter,  \* QUARANTINE_AFTER_REJECTS
  MaxUploaders,     \* pairings and launches
  MaxFaults         \* failures, refusals and lost answers

ASSUME QueueAssumption ==
  /\ Windows \subseteq Nat /\ IsFiniteSet(Windows) /\ DayOf \in [Windows -> Nat]
  /\ QuarantineAfter \in Nat \ {0} /\ MaxUploaders \in Nat \ {0}
  /\ MaxFaults \in Nat /\ MaxSeals \in Nat /\ FirstJournal \in Journals

NoAck == [by |-> "nobody", parts |-> {}, key |-> "own"]
NoDir == [here |-> FALSE, parts |-> {}, key |-> "own", ack |-> NoAck]
Keys == {"own", "full"}

VARIABLES
  disk,     \* the sealed directory of every window
  quar,     \* quarantine/: a directory and the journal in .refused-by
  ups,      \* the uploaders, in the order of their starting
  held,     \* per journal, the recordings it holds or its owner has removed
  sealed,   \* history: the recordings ever sealed
  faults

vars == <<disk, quar, ups, held, sealed, faults>>

Current == Len(ups)
Units(w, ps) == {<<w, p>> : p \in ps}
HeldParts(j, w) == {p \in Parts : <<w, p>> \in held[j]}

Fresh(j, open) ==
  [j |-> j, open |-> open, cancel |-> FALSE, st |-> "idle", queue |-> {},
   unknown |-> {}, hold |-> {}, bound |-> {}, dayBound |-> {},
   rejects |-> [w \in Windows |-> 0]]

At(u, st) == u \in DOMAIN ups /\ ups[u].st = st
Put(u, r) == ups' = [ups EXCEPT ![u] = r]
Costs == faults < MaxFaults /\ faults' = faults + 1

----------------------------------------------------------------------------
(* What one pass does to one directory.                                     *)

(* try_gate_delete: the covered files go, and with the last of them the     *)
(* directory.                                                               *)
GateDelete(d, covered) ==
  IF d.parts \ covered = {} THEN NoDir
  ELSE [d EXCEPT !.parts = @ \ covered, !.ack = NoAck]

(* ack_matches_physical: the marker names this key and files that are here. *)
AckMatches(d) == d.ack.key = d.key /\ d.ack.parts \subseteq d.parts

(* Mutation: a marker counts whichever journal it names.                    *)
FinishedForAny(j, d) ==
  IF ~d.here \/ d.ack = NoAck THEN {d}
  ELSE IF ~AckMatches(d) THEN {[d EXCEPT !.ack = NoAck]} ELSE {GateDelete(d, d.ack.parts)}

(* local_finish: an empty directory goes; a marker of another journal, or   *)
(* one that no longer fits, is dropped; one that fits lets its files go.    *)
(* With an activity file it does not list, only the marker is dropped.      *)
Finished(j, d) ==
  IF ~d.here THEN {d}
  ELSE IF d.ack = NoAck THEN {IF d.parts = {} THEN NoDir ELSE d}
  ELSE IF d.ack.by # j \/ ~AckMatches(d) THEN {[d EXCEPT !.ack = NoAck]}
  ELSE {GateDelete(d, d.ack.parts)}
       \cup (IF d.parts # d.ack.parts THEN {[d EXCEPT !.ack = NoAck]} ELSE {})

(* Mutation: a journal gets back what it refused itself.                    *)
ReleasableToRefuser(j) == {q \in quar : q.by = j /\ ~disk[q.w].here}

(* release_refused: what another journal refused is pending again, unless   *)
(* its index is taken.  It stops at the first error.                        *)
Releasable(j) == {q \in quar : q.by # j /\ ~disk[q.w].here}
OnePerWindow(R) == \A q, r \in R : q.w = r.w => q = r
Releases(j) ==
  {R \in SUBSET Releasable(j) :
     OnePerWindow(R) /\ \A q \in Releasable(j) : \E r \in R : r.w = q.w}
Released(R) ==
  [w \in Windows |-> IF \E q \in R : q.w = w THEN (CHOOSE q \in R : q.w = w).d ELSE disk[w]]

(* scan: the sealed directories without a marker.                           *)
Scan(dk) == {[w |-> w, parts |-> dk[w].parts, key |-> dk[w].key] :
               w \in {v \in Windows : dk[v].here /\ dk[v].ack = NoAck}}

(* They are taken oldest first.                                             *)
Oldest(queue) == CHOOSE s \in queue : \A t \in queue : s.w <= t.w

----------------------------------------------------------------------------
(* The tick.                                                                *)

(* tick_inner up to its loop.  While the owner has not confirmed the        *)
(* journal's mark a tick does nothing.                                      *)
TickBegin(u) ==
  /\ At(u, "idle") /\ ups[u].open
  /\ \E R \in Releases(ups[u].j) :
       LET dk == Released(R) IN
       \E after \in [Windows -> UNION {Finished(ups[u].j, dk[w]) : w \in Windows}] :
         /\ \A w \in Windows :
              IF w \in ups[u].hold THEN after[w] = dk[w] ELSE after[w] \in Finished(ups[u].j, dk[w])
         /\ disk' = after /\ quar' = quar \ R
         /\ Put(u, [ups[u] EXCEPT !.st = "loop", !.queue = Scan(after)])
  /\ UNCHANGED <<held, sealed, faults>>

(* The same with one failure: the release stops early, or a directory       *)
(* cannot be finished and is held for an hour.                              *)
TickBeginFails(u) ==
  /\ At(u, "idle") /\ ups[u].open /\ Costs
  /\ \E w \in Windows :
       /\ \/ disk[w].here /\ Put(u, [ups[u] EXCEPT !.st = "loop", !.hold = @ \cup {w}, !.queue = Scan(disk)])
          \/ Put(u, [ups[u] EXCEPT !.st = "loop", !.queue = Scan(disk)])
  /\ UNCHANGED <<disk, quar, held, sealed>>

Next1(r) == [r EXCEPT !.queue = @ \ {Oldest(@)}, !.st = "loop"]

(* The loop's checks before a POST.  A window that is held, bound, or that  *)
(* can no longer be read as scanned is passed over; an empty one is         *)
(* removed.                                                                 *)
PassOver(u) ==
  /\ At(u, "loop") /\ ups[u].queue # {} /\ ~ups[u].cancel
  /\ LET s == Oldest(ups[u].queue) IN
       /\ \/ s.w \in ups[u].hold
          \/ <<s.w, s.key>> \in ups[u].bound
          \/ s.parts = {}
          \/ ~(s.parts \subseteq disk[s.w].parts)
       /\ disk' = IF s.parts = {} /\ s.w \notin ups[u].hold /\ disk[s.w].here
                  THEN [disk EXCEPT ![s.w] = GateDelete(@, {})] ELSE disk
       /\ Put(u, Next1(ups[u]))
  /\ UNCHANGED <<quar, held, sealed, faults>>

Post(u) ==
  /\ At(u, "loop") /\ ups[u].queue # {} /\ ~ups[u].cancel
  /\ LET s == Oldest(ups[u].queue) IN
       /\ s.w \notin ups[u].hold /\ <<s.w, s.key>> \notin ups[u].bound
       /\ s.parts # {} /\ s.parts \subseteq disk[s.w].parts
  /\ Put(u, [ups[u] EXCEPT !.st = "posting"])
  /\ UNCHANGED <<disk, quar, held, sealed, faults>>

(* The journal may or may not have stored what it was sent.                 *)
MayStore(u, s) == held' \in {held, [held EXCEPT ![ups[u].j] = @ \cup Units(s.w, s.parts)]}

(* write_ack and the gate, in the directory as it is now.                   *)
Acknowledge(dk, s) ==
  IF dk[s.w].here THEN [dk EXCEPT ![s.w] = GateDelete(@, s.parts)] ELSE dk

(* A receipt that proves every file: marker, deletion, bookkeeping.         *)
Confirmed(u) ==
  /\ At(u, "posting")
  /\ LET s == Oldest(ups[u].queue) IN
       /\ held' = [held EXCEPT ![ups[u].j] = @ \cup Units(s.w, s.parts)]
       /\ disk' = Acknowledge(disk, s)
       /\ Put(u, [Next1(ups[u]) EXCEPT !.rejects[s.w] = 0, !.bound = @ \ {<<s.w, s.key>>}])
  /\ UNCHANGED <<quar, sealed, faults>>

(* The same, but the marker cannot be written, or the gate is blocked after *)
(* it has been, some of the files gone.                                     *)
ConfirmedFails(u) ==
  /\ At(u, "posting") /\ Costs
  /\ LET s == Oldest(ups[u].queue)
         r == [Next1(ups[u]) EXCEPT !.rejects[s.w] = 0, !.bound = @ \ {<<s.w, s.key>>}]
     IN  /\ held' = [held EXCEPT ![ups[u].j] = @ \cup Units(s.w, s.parts)]
         /\ \/ disk' = disk /\ Put(u, r)
            \/ /\ disk[s.w].here
               /\ \E gone \in SUBSET s.parts :
                    disk' = [disk EXCEPT ![s.w].parts = @ \ gone,
                                         ![s.w].ack = [by |-> ups[u].j, parts |-> s.parts, key |-> s.key]]
               /\ Put(u, [r EXCEPT !.hold = @ \cup {s.w}])
  /\ UNCHANGED <<quar, sealed>>

(* ReceiptFault::Absent: accepted, to be looked up in the day's listing.    *)
AcceptedUnconfirmed(u) ==
  /\ At(u, "posting") /\ Costs
  /\ LET s == Oldest(ups[u].queue) IN
       MayStore(u, s) /\ Put(u, [Next1(ups[u]) EXCEPT !.unknown = @ \cup {s}])
  /\ UNCHANGED <<disk, quar, sealed>>

(* A receipt that is not valid or not written, a conflict, an error the     *)
(* journal lays to this segment: it is bound for an hour or a day.          *)
SegmentError(u) ==
  /\ At(u, "posting") /\ Costs
  /\ LET s == Oldest(ups[u].queue) IN
       MayStore(u, s) /\ Put(u, [Next1(ups[u]) EXCEPT !.bound = @ \cup {<<s.w, s.key>>}])
  /\ UNCHANGED <<disk, quar, sealed>>

(* register_reject: at the limit the directory is set aside as it is now;   *)
(* if it cannot be, the count stays for the next refusal.                   *)
Rejected(u) ==
  /\ At(u, "posting") /\ Costs
  /\ \E moves \in BOOLEAN :
     LET s == Oldest(ups[u].queue)
         n == ups[u].rejects[s.w] + 1
         aside == n >= QuarantineAfter /\ disk[s.w].here /\ moves
     IN  /\ disk' = IF aside THEN [disk EXCEPT ![s.w] = NoDir] ELSE disk
         /\ quar' = IF aside
                    THEN quar \cup {[w |-> s.w, d |-> disk[s.w], by |-> ups[u].j]} ELSE quar
         /\ Put(u, [Next1(ups[u]) EXCEPT !.rejects[s.w] = IF aside THEN 0 ELSE n,
                                         !.bound = @ \cup {<<s.w, s.key>>}])
  /\ UNCHANGED <<held, sealed>>

(* finish_segment_removed: its owner has removed it from this journal.      *)
SegmentRemoved(u) ==
  /\ At(u, "posting") /\ Costs
  /\ LET s == Oldest(ups[u].queue) IN
       /\ held' = [held EXCEPT ![ups[u].j] = @ \cup Units(s.w, s.parts)]
       /\ disk' = Acknowledge(disk, s)
       /\ Put(u, IF disk[s.w].here THEN Next1(ups[u])
                 ELSE [Next1(ups[u]) EXCEPT !.hold = @ \cup {s.w}])
  /\ UNCHANGED <<quar, sealed>>

EndTick(r) == [r EXCEPT !.queue = {}, !.unknown = {}, !.st = "idle"]

(* No answer, or one about the device: the tick ends and is tried again     *)
(* after the backoff.                                                       *)
TickFails(u) ==
  /\ \/ At(u, "posting") /\ Costs /\ MayStore(u, Oldest(ups[u].queue))
     \/ At(u, "listing") /\ UNCHANGED <<held, faults>>
  /\ Put(u, EndTick(ups[u]))
  /\ UNCHANGED <<disk, quar, sealed>>

----------------------------------------------------------------------------
(* The listing pass: the first day with something unknown that has not been *)
(* listed for an hour.                                                      *)

UnknownDays(r) == {DayOf[s.w] : s \in r.unknown} \ r.dayBound
First(days) == CHOOSE d \in days : \A e \in days : d <= e
OfDay(r, d) == {s \in r.unknown : DayOf[s.w] = d}

LoopEnds(u) ==
  /\ At(u, "loop") /\ (ups[u].queue = {} \/ ups[u].cancel)
  /\ Put(u, IF UnknownDays(ups[u]) = {} THEN EndTick(ups[u])
            ELSE [ups[u] EXCEPT !.queue = {}, !.st = "listing"])
  /\ UNCHANGED <<disk, quar, held, sealed, faults>>

(* Every listed segment matches one local one, exactly, or is not proof:    *)
(* the others are bound for a day.                                          *)
ListingProves(j, s) == Units(s.w, s.parts) \subseteq held[j]

Listed(u) ==
  /\ At(u, "listing")
  /\ LET d == First(UnknownDays(ups[u]))
         asked == OfDay(ups[u], d)
     IN  \E proven \in SUBSET {s \in asked : ListingProves(ups[u].j, s)} :
           /\ disk' = [w \in Windows |->
                         IF disk[w].here /\ \E s \in proven : s.w = w
                         THEN GateDelete(disk[w], (CHOOSE s \in proven : s.w = w).parts)
                         ELSE disk[w]]
           /\ Put(u, [EndTick(ups[u]) EXCEPT
                        !.dayBound = @ \cup {d},
                        !.bound = @ \cup {<<s.w, s.key>> : s \in asked \ proven}])
  /\ UNCHANGED <<quar, held, sealed, faults>>

ListingRefused(u) ==
  /\ At(u, "listing")
  /\ Put(u, [EndTick(ups[u]) EXCEPT !.dayBound = @ \cup {First(UnknownDays(ups[u]))}])
  /\ UNCHANGED <<disk, quar, held, sealed, faults>>

(* Holds and bounds run out; a tick reads the clock once, at its start.     *)
TimePasses(u) ==
  /\ At(u, "idle")
  /\ <<ups[u].hold, ups[u].bound, ups[u].dayBound>> # <<{}, {}, {}>>
  /\ Put(u, [ups[u] EXCEPT !.hold = {}, !.bound = {}, !.dayBound = {}])
  /\ UNCHANGED <<disk, quar, held, sealed, faults>>

----------------------------------------------------------------------------
(* Around the uploader.                                                     *)

(* upload_loop leaves at its next wait once it is cancelled.                *)
Leaves(u) ==
  /\ At(u, "idle") /\ ups[u].cancel
  /\ Put(u, [ups[u] EXCEPT !.st = "done"])
  /\ UNCHANGED <<disk, quar, held, sealed, faults>>

(* The owner confirms the journal's mark.                                   *)
OpenGate ==
  /\ ~ups[Current].open /\ ~ups[Current].cancel
  /\ Put(Current, [ups[Current] EXCEPT !.open = TRUE])
  /\ UNCHANGED <<disk, quar, held, sealed, faults>>

(* UploaderSlot::replace.                                                   *)
Replace ==
  /\ Current < MaxUploaders
  /\ \E j \in Journals :
       ups' = Append([ups EXCEPT ![Current].cancel = TRUE], Fresh(j, FALSE))
  /\ UNCHANGED <<disk, quar, held, sealed, faults>>

(* A crash ends every uploader; the next launch resumes the pairing.        *)
CrashAndResume ==
  /\ Current < MaxUploaders /\ Costs
  /\ ups' = Append([u \in DOMAIN ups |-> [ups[u] EXCEPT !.st = "done", !.cancel = TRUE]],
                   Fresh(ups[Current].j, ups[Current].open))
  /\ UNCHANGED <<disk, quar, held, sealed>>

(* The engine seals a recording into a new directory, or merges it into the *)
(* one that is there, whose length and key then become the window's and     *)
(* whose marker goes.                                                       *)
SealWindow ==
  /\ \E w \in Windows, p \in Parts :
       /\ <<w, p>> \notin sealed /\ Cardinality(sealed) < MaxSeals
       /\ sealed' = sealed \cup {<<w, p>>}
       /\ \/ /\ ~disk[w].here
             /\ \E k \in Keys :
                  disk' = [disk EXCEPT ![w] = [here |-> TRUE, parts |-> {p}, key |-> k, ack |-> NoAck]]
          \/ /\ disk[w].here
             /\ disk' = [disk EXCEPT ![w].parts = @ \cup {p}, ![w].key = "full", ![w].ack = NoAck]
  /\ UNCHANGED <<quar, ups, held, faults>>

----------------------------------------------------------------------------
Init ==
  /\ disk = [w \in Windows |-> NoDir] /\ quar = {} /\ sealed = {} /\ faults = 0
  /\ held = [j \in Journals |-> {}]
  /\ ups = <<Fresh(FirstJournal, TRUE)>>

Answer(u) ==
  \/ Confirmed(u) \/ ConfirmedFails(u) \/ AcceptedUnconfirmed(u) \/ SegmentError(u)
  \/ Rejected(u) \/ SegmentRemoved(u) \/ TickFails(u) \/ Listed(u) \/ ListingRefused(u)

Uploader(u) ==
  \/ TickBegin(u) \/ TickBeginFails(u) \/ PassOver(u) \/ Post(u) \/ Answer(u)
  \/ LoopEnds(u) \/ TimePasses(u) \/ Leaves(u)

Next ==
  \/ \E u \in 1..MaxUploaders : Uploader(u)
  \/ OpenGate \/ Replace \/ CrashAndResume \/ SealWindow

Spec == Init /\ [][Next]_vars

(* The uploader's loop runs, its journal answers in the end, bounds run     *)
(* out, and the owner confirms the pairing; nothing else is assumed.        *)
FairSpec ==
  /\ Spec
  /\ \A u \in 1..MaxUploaders :
       /\ SF_vars(TickBegin(u)) /\ WF_vars(PassOver(u)) /\ WF_vars(Post(u))
       /\ WF_vars(LoopEnds(u)) /\ WF_vars(Leaves(u)) /\ WF_vars(Confirmed(u))
       /\ WF_vars(Listed(u)) /\ SF_vars(TimePasses(u))
  /\ WF_vars(OpenGate)


----------------------------------------------------------------------------
Dirs == [here : BOOLEAN, parts : SUBSET Parts, key : Keys,
         ack : [by : Journals \cup {"nobody"}, parts : SUBSET Parts, key : Keys]]
Scanned == [w : Windows, parts : SUBSET Parts, key : Keys]

Coordinators ==
  [j : Journals, open : BOOLEAN, cancel : BOOLEAN,
   st : {"idle", "loop", "posting", "listing", "done"},
   queue : SUBSET Scanned, unknown : SUBSET Scanned, hold : SUBSET Windows,
   bound : SUBSET (Windows \X Keys), dayBound : SUBSET Nat, rejects : [Windows -> Nat]]

(* A directory that is not there holds nothing, and a tick that waits for   *)
(* its journal waits for something.                                         *)
TypeOK ==
  /\ disk \in [Windows -> Dirs] /\ \A w \in Windows : ~disk[w].here => disk[w] = NoDir
  /\ quar \subseteq [w : Windows, d : Dirs, by : Journals]
  /\ held \in [Journals -> SUBSET (Windows \X Parts)] /\ sealed \subseteq Windows \X Parts
  /\ faults \in 0..MaxFaults
  /\ ups \in Seq(Coordinators) /\ Current \in 1..MaxUploaders
  /\ \A u \in DOMAIN ups :
       /\ ups[u].st = "posting" => ups[u].queue # {}
       /\ ups[u].st = "listing" => UnknownDays(ups[u]) # {}

OnDisk == UNION {Units(w, disk[w].parts) : w \in Windows}
SetAside(q) == Units(q.w, q.d.parts)
InQuarantine == UNION {SetAside(q) : q \in quar}

(* A recording leaves this computer only while some uploader's journal has  *)
(* it: no tick deletes on the word of another journal, whatever was merged  *)
(* into the directory, set aside or released since it was sent, and though  *)
(* a replaced uploader may still be running.                                *)
GoneOnlyWhenHeld ==
  [][\A x \in OnDisk \cup InQuarantine :
       x \in (OnDisk \cup InQuarantine)' \/
       \E u \in DOMAIN ups : ups'[u] # ups[u] /\ x \in held'[ups[u].j]]_vars

(* Every sealed recording is in the end held by a journal, or set aside     *)
(* because the journal the program is paired with refused it: holds and     *)
(* bounds run out, one window never starves another, and what an earlier    *)
(* journal refused is offered to its successor.                             *)
Offered(x) ==
  \/ \E j \in Journals : x \in held[j]
  \/ \E q \in quar : x \in SetAside(q) /\ q.by = ups[Current].j
NothingForgotten == <>[](\A x \in sealed : Offered(x))

=============================================================================
