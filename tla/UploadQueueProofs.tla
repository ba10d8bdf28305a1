-------------------------- MODULE UploadQueueProofs --------------------------
(***************************************************************************)
(* Proofs about UploadQueue, for any windows, journals, number of pairings  *)
(* and faults: a recording leaves this computer only while the journal of   *)
(* the uploader that removes it has it, and none is ever unaccounted for.   *)
(*                                                                          *)
(* What makes it inductive is AcksHeld: a marker, on disk or in quarantine, *)
(* names only what the journal it names has, so whichever uploader finds it *)
(* later, after a merge, a release or a change of journal, may act on it.   *)
(***************************************************************************)
EXTENDS UploadQueue, WellFoundedInduction, SequenceTheorems, TLAPS

Truthful(h, w, d) ==
  d.ack # NoAck => d.ack.by \in Journals /\ Units(w, d.ack.parts) \subseteq h[d.ack.by]

AcksHeld ==
  /\ \A w \in Windows : Truthful(held, w, disk[w])
  /\ \A q \in quar : q.d.here /\ Truthful(held, q.w, q.d)

(* Every sealed recording is on disk, set aside, or with a journal.         *)
Accounted ==
  \A x \in sealed : x \in OnDisk \cup InQuarantine \/ \E j \in Journals : x \in held[j]

QueueInv == TypeOK /\ AcksHeld /\ Accounted

(* A step of uploader u removes from this computer only what u's journal    *)
(* has.                                                                     *)
Removes(u) ==
  \A x \in OnDisk \cup InQuarantine :
    x \in (OnDisk \cup InQuarantine)' \/ x \in held'[ups[u].j]

(* No step takes anything from a journal.                                   *)
HeldGrows == \A j \in Journals : held[j] \subseteq held'[j]

----------------------------------------------------------------------------
(* Values.                                                                  *)

Quarantined == [w : Windows, d : Dirs, by : Journals]

(* There is a smallest number in a set of numbers.                          *)
LEMMA Smallest ==
  ASSUME NEW S \in SUBSET Nat, S # {}
  PROVE  \E n \in S : \A m \in S : n <= m
<1>1. PICK n \in S : \A m \in S : ~(<<m, n>> \in OpToRel(<, Nat))
  <2>1. IsWellFoundedOn(OpToRel(<, Nat), Nat) BY NatLessThanWellFounded
  <2> DEFINE R == OpToRel(<, Nat)
  <2> HIDE DEF R
  <2>2. IsWellFoundedOn(R, Nat) BY <2>1 DEF R
  <2>3. \E x \in S : \A y \in S : ~(<<y, x>> \in R) BY <2>2, WFMin
  <2> QED BY <2>3 DEF R
<1>2. \A m \in S : ~(m < n) BY <1>1 DEF OpToRel
<1> QED BY <1>2

(* The oldest of the scanned directories, and the first of the days.        *)
LEMMA OldestTyped ==
  ASSUME NEW Q \in SUBSET Scanned, Q # {}
  PROVE  Oldest(Q) \in Q
<1> DEFINE S == {s.w : s \in Q}
<1>1. S \in SUBSET Nat /\ S # {} BY QueueAssumption DEF QueueAssumption, Scanned
<1>2. PICK n \in S : \A m \in S : n <= m BY <1>1, Smallest
<1>3. PICK s \in Q : s.w = n BY <1>2
<1>4. \A t \in Q : s.w <= t.w BY <1>2, <1>3
<1> QED BY <1>3, <1>4 DEF Oldest

LEMMA FirstTyped ==
  ASSUME NEW S \in SUBSET Nat, S # {}
  PROVE  First(S) \in S
  BY Smallest DEF First

(* A function on an initial segment is a sequence.                          *)
LEMMA FunctionSeq ==
  ASSUME NEW S, NEW n \in Nat, NEW f \in [1..n -> S]
  PROVE  f \in Seq(S) /\ Len(f) = n
<1>1. f \in Seq(S) BY SeqDef
<1>2. Len(f) \in Nat /\ 1..Len(f) = 1..n BY <1>1, LenProperties
<1> QED BY <1>1, <1>2

(* Days are numbers.                                                        *)
LEMMA DaysTyped ==
  ASSUME NEW r \in Coordinators
  PROVE  UnknownDays(r) \in SUBSET Nat
<1>1. \A s \in r.unknown : s.w \in Windows BY DEF Coordinators, Scanned
<1>2. \A w \in Windows : DayOf[w] \in Nat BY QueueAssumption DEF QueueAssumption
<1> QED BY <1>1, <1>2 DEF UnknownDays

(* The pieces of a directory and of one without a marker.                   *)
LEMMA DirTyped ==
  /\ NoAck \in [by : Journals \cup {"nobody"}, parts : SUBSET Parts, key : Keys]
  /\ NoDir \in Dirs /\ NoDir.parts = {} /\ NoDir.ack = NoAck /\ ~NoDir.here
  /\ \A h, w : Truthful(h, w, NoDir)
  BY DEF NoAck, NoDir, Dirs, Keys, Truthful

(* Units are pairs.                                                         *)
LEMMA UnitsAre ==
  /\ \A w, S : \A x : x \in Units(w, S) <=> \E p \in S : x = <<w, p>>
  /\ \A w \in Windows : \A S \in SUBSET Parts : Units(w, S) \subseteq Windows \X Parts
  BY DEF Units

(* The uploaders.                                                           *)
LEMMA UpsTyped ==
  ASSUME TypeOK
  PROVE  /\ DOMAIN ups = 1..Len(ups) /\ Len(ups) \in Nat
         /\ \A u \in DOMAIN ups : ups[u] \in Coordinators /\ ups[u].j \in Journals
<1>1. ups \in Seq(Coordinators) BY DEF TypeOK
<1>2. DOMAIN ups = 1..Len(ups) /\ Len(ups) \in Nat BY <1>1, LenProperties
<1>3. \A u \in DOMAIN ups : ups[u] \in Coordinators BY <1>1, <1>2, ElementOfSeq
<1> QED BY <1>2, <1>3 DEF Coordinators

(* A step that keeps each directory's recordings, or has given them to the  *)
(* journal, and keeps quarantine.                                           *)
LEMMA RemovesPointwise ==
  ASSUME TypeOK, NEW u,
         \A w \in Windows : \A p \in disk[w].parts :
            p \in disk'[w].parts \/ <<w, p>> \in held'[ups[u].j],
         quar \subseteq quar'
  PROVE  Removes(u)
<1>1. ASSUME NEW x \in OnDisk PROVE x \in OnDisk' \/ x \in held'[ups[u].j]
  <2>1. PICK w \in Windows : x \in Units(w, disk[w].parts) BY DEF OnDisk
  <2>2. PICK p \in disk[w].parts : x = <<w, p>> BY <2>1 DEF Units
  <2> QED BY <2>2 DEF OnDisk, Units
<1>2. ASSUME NEW x \in InQuarantine PROVE x \in InQuarantine'
  <2>1. PICK q \in quar : x \in SetAside(q) BY DEF InQuarantine
  <2>2. q \in quar' OBVIOUS
  <2> QED BY <2>1, <2>2 DEF InQuarantine, SetAside
<1> QED BY <1>1, <1>2 DEF Removes

(* What is removed only into a journal stays accounted for.                 *)
LEMMA StillAccounted ==
  ASSUME QueueInv, NEW u \in DOMAIN ups, Removes(u), HeldGrows, sealed' = sealed
  PROVE  Accounted'
<1>1. ups[u].j \in Journals BY UpsTyped DEF QueueInv
<1> QED BY <1>1 DEF QueueInv, Accounted, Removes, HeldGrows

(* try_gate_delete, and what it leaves.                                     *)
LEMMA GateTyped ==
  ASSUME NEW d \in Dirs, NEW covered
  PROVE  LET e == GateDelete(d, covered)
         IN  /\ e \in Dirs /\ (~e.here => e = NoDir \/ ~d.here)
             /\ e.ack = NoAck
             /\ \A p \in d.parts : p \in e.parts \/ p \in covered
<1>1. CASE d.parts \ covered = {}
  BY <1>1, DirTyped DEF GateDelete
<1>2. CASE d.parts \ covered # {}
  <2> DEFINE e == [d EXCEPT !.parts = @ \ covered, !.ack = NoAck]
  <2>1. e \in Dirs /\ e.here = d.here /\ e.ack = NoAck /\ e.parts = d.parts \ covered
    BY DirTyped DEF Dirs
  <2>2. GateDelete(d, covered) = e BY <1>2 DEF GateDelete
  <2> HIDE DEF e
  <2> QED BY <2>1, <2>2
<1> QED BY <1>1, <1>2

(* local_finish: what it leaves of a directory.                             *)
LEMMA FinishedTyped ==
  ASSUME TypeOK, NEW j \in Journals, NEW w \in Windows, NEW d \in Dirs, ~d.here => d = NoDir,
         Truthful(held, w, d), NEW e \in Finished(j, d)
  PROVE  /\ e \in Dirs /\ (~e.here => e = NoDir) /\ e.ack \in {d.ack, NoAck}
         /\ \A p \in d.parts : p \in e.parts \/ <<w, p>> \in held[j]
<1> DEFINE bare == [d EXCEPT !.ack = NoAck]
<1> DEFINE gated == GateDelete(d, d.ack.parts)
<1>1. bare \in Dirs /\ bare.here = d.here /\ bare.ack = NoAck /\ bare.parts = d.parts
  BY DirTyped DEF Dirs
<1>2. /\ gated \in Dirs /\ (~gated.here => gated = NoDir \/ ~d.here) /\ gated.ack = NoAck
      /\ \A p \in d.parts : p \in gated.parts \/ p \in d.ack.parts
  BY GateTyped
<1> HIDE DEF bare, gated
<1>3. CASE ~d.here BY <1>3 DEF Finished
<1>4. CASE d.here /\ d.ack = NoAck
  <2>1. e = IF d.parts = {} THEN NoDir ELSE d BY <1>4 DEF Finished
  <2> QED BY <1>4, <2>1, DirTyped
<1>5. CASE d.here /\ d.ack # NoAck /\ (d.ack.by # j \/ ~AckMatches(d))
  <2>1. e = bare BY <1>5 DEF Finished, bare
  <2> QED BY <1>1, <1>5, <2>1
<1>6. CASE d.here /\ d.ack # NoAck /\ d.ack.by = j /\ AckMatches(d)
  <2>1. e = gated \/ e = bare BY <1>6 DEF Finished, bare, gated
  <2>2. \A p \in d.ack.parts : <<w, p>> \in held[j] BY <1>6, UnitsAre DEF Truthful
  <2>3. CASE e = gated BY <1>2, <1>6, <2>2, <2>3
  <2>4. CASE e = bare BY <1>1, <1>6, <2>4
  <2> QED BY <2>1, <2>3, <2>4
<1> QED BY <1>3, <1>4, <1>5, <1>6

----------------------------------------------------------------------------
(* The steps of an uploader.                                                *)

Sound(r) ==
  /\ r \in Coordinators
  /\ r.st = "posting" => r.queue # {}
  /\ r.st = "listing" => UnknownDays(r) # {}

Placed(dk) == dk \in [Windows -> Dirs] /\ \A w \in Windows : ~dk[w].here => dk[w] = NoDir

(* The step as GoneOnlyWhenHeld has it.                                     *)
KeepsAll ==
  \A x \in OnDisk \cup InQuarantine :
    x \in (OnDisk \cup InQuarantine)' \/
    \E u \in DOMAIN ups : ups'[u] # ups[u] /\ x \in held'[ups[u].j]

(* One uploader is written, and what is on disk changed as it may.          *)
LEMMA UploaderStep ==
  ASSUME QueueInv, NEW u \in DOMAIN ups, NEW r, Sound(r), Put(u, r), r # ups[u],
         Placed(disk'), quar' \subseteq Quarantined,
         held' \in [Journals -> SUBSET (Windows \X Parts)], HeldGrows,
         faults' \in 0..MaxFaults, sealed' = sealed, AcksHeld', Removes(u)
  PROVE  QueueInv' /\ KeepsAll
<1>1. DOMAIN ups = 1..Len(ups) /\ Len(ups) \in Nat /\ ups \in Seq(Coordinators)
  BY UpsTyped DEF QueueInv, TypeOK
<1>2. ups' = [ups EXCEPT ![u] = r] BY DEF Put
<1>3. /\ ups' \in Seq(Coordinators) /\ Len(ups') = Len(ups)
      /\ \A v \in DOMAIN ups : ups'[v] = IF v = u THEN r ELSE ups[v]
  BY <1>1, <1>2, ExceptSeq DEF Sound
<1>4. DOMAIN ups' = DOMAIN ups BY <1>2
<1>5. \A v \in DOMAIN ups' : Sound(ups'[v]) BY <1>3, <1>4, UpsTyped DEF QueueInv, TypeOK, Sound
<1>6. TypeOK' BY <1>3, <1>5 DEF QueueInv, TypeOK, Placed, Sound, Quarantined, Current
<1>7. Accounted' BY StillAccounted
<1>8. KeepsAll BY <1>3 DEF Removes, KeepsAll
<1> QED BY <1>6, <1>7, <1>8 DEF QueueInv

(* Nothing on disk, in quarantine or with a journal changes.                *)
LEMMA QuietStep ==
  ASSUME QueueInv, NEW u \in DOMAIN ups, NEW r, Sound(r), Put(u, r), r # ups[u],
         disk' = disk, quar' = quar, held' = held, faults' \in 0..MaxFaults, sealed' = sealed
  PROVE  QueueInv' /\ KeepsAll
<1>1. HeldGrows BY DEF HeldGrows
<1>2. AcksHeld' BY DEF QueueInv, AcksHeld, Truthful
<1>3. Removes(u) BY DEF Removes, OnDisk, InQuarantine
<1> QED BY <1>1, <1>2, <1>3, UploaderStep DEF QueueInv, TypeOK, Placed, Quarantined

(* A journal stores what it was sent.                                       *)
LEMMA Stores ==
  ASSUME QueueInv, NEW u \in DOMAIN ups, NEW s \in Scanned,
         held' \in {held, [held EXCEPT ![ups[u].j] = @ \cup Units(s.w, s.parts)]}
  PROVE  /\ held' \in [Journals -> SUBSET (Windows \X Parts)] /\ HeldGrows
         /\ \A w, d : Truthful(held, w, d) => Truthful(held', w, d)
<1>1. /\ ups[u].j \in Journals /\ held \in [Journals -> SUBSET (Windows \X Parts)]
      /\ Units(s.w, s.parts) \subseteq Windows \X Parts
  BY UpsTyped, UnitsAre DEF QueueInv, TypeOK, Scanned
<1>2. held' \in [Journals -> SUBSET (Windows \X Parts)] /\ HeldGrows BY <1>1 DEF HeldGrows
<1> QED BY <1>2 DEF HeldGrows, Truthful

(* The scan and the oldest of what waits.                                   *)
LEMMA ScanTyped ==
  ASSUME NEW dk \in [Windows -> Dirs]
  PROVE  Scan(dk) \subseteq Scanned
  BY DEF Scan, Scanned, Dirs

(* The segment in hand.                                                     *)
LEMMA InHand ==
  ASSUME QueueInv, NEW u \in DOMAIN ups, ups[u].queue # {}
  PROVE  LET s == Oldest(ups[u].queue)
         IN  /\ s \in Scanned /\ s.w \in Windows /\ s.parts \subseteq Parts /\ s.key \in Keys
             /\ Next1(ups[u]) \in Coordinators /\ Next1(ups[u]).st = "loop"
             /\ Next1(ups[u]).bound = ups[u].bound /\ Next1(ups[u]).hold = ups[u].hold
             /\ Next1(ups[u]).rejects = ups[u].rejects /\ Next1(ups[u]).unknown = ups[u].unknown
<1> DEFINE r == ups[u]
<1>1. r \in Coordinators BY UpsTyped DEF QueueInv
<1>2. Oldest(r.queue) \in r.queue BY <1>1, OldestTyped DEF Coordinators
<1> DEFINE Q == r.queue \ {Oldest(r.queue)}
<1>3. Oldest(r.queue) \in Scanned /\ Q \in SUBSET Scanned BY <1>1, <1>2 DEF Coordinators
<1>4. Next1(r) = [r EXCEPT !.queue = Q, !.st = "loop"] BY <1>1 DEF Next1, Coordinators
<1> HIDE DEF Q, r
<1>5. /\ Next1(r) \in Coordinators /\ Next1(r).st = "loop"
      /\ Next1(r).bound = r.bound /\ Next1(r).hold = r.hold
      /\ Next1(r).rejects = r.rejects /\ Next1(r).unknown = r.unknown
  BY <1>1, <1>3, <1>4 DEF Coordinators
<1> QED BY <1>3, <1>5 DEF Scanned, r

(* The beginning of a tick.                                                 *)
LEMMA BeginStep ==
  ASSUME QueueInv, NEW u, TickBegin(u)
  PROVE  QueueInv' /\ KeepsAll
<1>1. u \in DOMAIN ups /\ ups[u].st = "idle" BY DEF TickBegin, At
<1>2. PICK R \in Releases(ups[u].j) :
        \E after \in [Windows -> UNION {Finished(ups[u].j, Released(R)[w]) : w \in Windows}] :
          /\ \A w \in Windows :
               IF w \in ups[u].hold THEN after[w] = Released(R)[w]
               ELSE after[w] \in Finished(ups[u].j, Released(R)[w])
          /\ disk' = after /\ quar' = quar \ R
          /\ Put(u, [ups[u] EXCEPT !.st = "loop", !.queue = Scan(after)])
  BY DEF TickBegin
<1> DEFINE dk == Released(R)
<1> DEFINE j == ups[u].j
<1>3. /\ \A w \in Windows : IF w \in ups[u].hold THEN disk'[w] = dk[w]
                            ELSE disk'[w] \in Finished(j, dk[w])
      /\ disk' \in [Windows -> UNION {Finished(j, dk[w]) : w \in Windows}] /\ quar' = quar \ R
      /\ Put(u, [ups[u] EXCEPT !.st = "loop", !.queue = Scan(disk')])
      /\ UNCHANGED <<held, sealed, faults>>
  BY <1>2 DEF TickBegin
<1>4. ups[u] \in Coordinators /\ j \in Journals BY <1>1, UpsTyped DEF QueueInv
<1>5. /\ quar \subseteq Quarantined /\ Placed(disk) /\ AcksHeld
      /\ R \subseteq quar /\ OnePerWindow(R) /\ \A q \in R : ~disk[q.w].here
  BY DEF QueueInv, TypeOK, Placed, Quarantined, Releases, Releasable
<1>6. ASSUME NEW w \in Windows
      PROVE  /\ dk[w] \in Dirs /\ (~dk[w].here => dk[w] = NoDir)
             /\ Truthful(held, w, dk[w])
             /\ \A p \in disk[w].parts : p \in dk[w].parts
             /\ \A q \in R : q.w = w => dk[w] = q.d
  <2>1. dk[w] = IF \E q \in R : q.w = w THEN (CHOOSE q \in R : q.w = w).d ELSE disk[w]
    BY DEF Released
  <2>2. CASE \E q \in R : q.w = w
    <3>1. PICK q \in R : q.w = w /\ dk[w] = q.d BY <2>1, <2>2
    <3>2. q.d \in Dirs /\ q.d.here /\ Truthful(held, w, q.d) BY <1>5, <3>1 DEF Quarantined, AcksHeld
    <3>3. disk[w].parts = {} BY <1>5, <3>1, DirTyped DEF Placed
    <3>4. \A o \in R : o.w = w => o = q BY <1>5, <3>1 DEF OnePerWindow
    <3> QED BY <3>1, <3>2, <3>3, <3>4
  <2>3. CASE ~\E q \in R : q.w = w BY <1>5, <2>1, <2>3 DEF Placed, AcksHeld
  <2> QED BY <2>2, <2>3
<1> HIDE DEF dk, j
<1>7. ASSUME NEW w \in Windows
      PROVE  /\ disk'[w] \in Dirs /\ (~disk'[w].here => disk'[w] = NoDir)
             /\ Truthful(held, w, disk'[w])
             /\ \A p \in dk[w].parts : p \in disk'[w].parts \/ <<w, p>> \in held[j]
  <2>1. CASE w \in ups[u].hold BY <1>3, <1>6, <2>1
  <2>2. CASE w \notin ups[u].hold
    <3> DEFINE e == disk'[w]
    <3>1. e \in Finished(j, dk[w]) BY <1>3, <2>2
    <3> HIDE DEF e
    <3>2. /\ e \in Dirs /\ (~e.here => e = NoDir) /\ e.ack \in {dk[w].ack, NoAck}
          /\ \A p \in dk[w].parts : p \in e.parts \/ <<w, p>> \in held[j]
      BY <1>4, <1>6, <3>1, FinishedTyped DEF QueueInv, j
    <3>3. Truthful(held, w, e) BY <1>6, <3>2 DEF Truthful
    <3> QED BY <3>2, <3>3 DEF e
  <2> QED BY <2>1, <2>2
<1>8. Placed(disk') BY <1>3, <1>7 DEF Placed
<1>9. AcksHeld' BY <1>3, <1>5, <1>7 DEF AcksHeld, Truthful
<1>10. Removes(u)
  <2>1. ASSUME NEW x \in OnDisk PROVE x \in OnDisk' \/ x \in held[j]
    <3>1. PICK w \in Windows : x \in Units(w, disk[w].parts) BY DEF OnDisk
    <3>2. PICK p \in disk[w].parts : x = <<w, p>> BY <3>1 DEF Units
    <3>3. p \in disk'[w].parts \/ <<w, p>> \in held[j] BY <1>6, <1>7
    <3> QED BY <3>2, <3>3 DEF OnDisk, Units
  <2>2. ASSUME NEW x \in InQuarantine PROVE x \in OnDisk' \cup InQuarantine' \/ x \in held[j]
    <3>1. PICK q \in quar : x \in Units(q.w, q.d.parts) BY DEF InQuarantine, SetAside
    <3>2. CASE q \in R
      <4>1. PICK p \in q.d.parts : x = <<q.w, p>> BY <3>1 DEF Units
      <4>2. q.w \in Windows /\ dk[q.w] = q.d BY <1>5, <1>6, <3>2 DEF Quarantined
      <4>3. p \in disk'[q.w].parts \/ <<q.w, p>> \in held[j] BY <1>7, <4>2
      <4> QED BY <4>1, <4>2, <4>3 DEF OnDisk, Units
    <3>3. CASE q \notin R
      <4>1. q \in quar' BY <1>3, <3>3
      <4> QED BY <3>1, <4>1 DEF InQuarantine, SetAside
    <3> QED BY <3>2, <3>3
  <2> QED BY <1>3, <2>1, <2>2 DEF Removes, j
<1> DEFINE r == [ups[u] EXCEPT !.st = "loop", !.queue = Scan(disk')]
<1>11. Sound(r) /\ r # ups[u]
  <2>1. Scan(disk') \subseteq Scanned BY <1>8, ScanTyped DEF Placed
  <2>2. r \in Coordinators /\ r.st = "loop" BY <1>4, <2>1 DEF Coordinators
  <2> QED BY <1>1, <2>2 DEF Sound
<1>12. HeldGrows /\ held' \in [Journals -> SUBSET (Windows \X Parts)]
       /\ quar' \subseteq Quarantined /\ faults' \in 0..MaxFaults
  BY <1>3, <1>5 DEF HeldGrows, QueueInv, TypeOK
<1> HIDE DEF r
<1>13. Put(u, r) BY <1>3 DEF r
<1> QED BY <1>1, <1>3, <1>8, <1>9, <1>10, <1>11, <1>12, <1>13, UploaderStep

(* A fault within the bound.                                                *)
LEMMA CostsTyped ==
  ASSUME QueueInv, Costs \/ faults' = faults
  PROVE  faults' \in 0..MaxFaults
  BY QueueAssumption DEF QueueInv, TypeOK, Costs, QueueAssumption

(* A tick that begins with a failure.                                       *)
LEMMA BeginFailsStep ==
  ASSUME QueueInv, NEW u, TickBeginFails(u)
  PROVE  QueueInv' /\ KeepsAll
<1>1. u \in DOMAIN ups /\ ups[u].st = "idle" BY DEF TickBeginFails, At
<1>2. PICK w \in Windows :
        \/ Put(u, [ups[u] EXCEPT !.st = "loop", !.hold = @ \cup {w}, !.queue = Scan(disk)])
        \/ Put(u, [ups[u] EXCEPT !.st = "loop", !.queue = Scan(disk)])
  BY DEF TickBeginFails
<1>3. /\ disk' = disk /\ quar' = quar /\ held' = held /\ sealed' = sealed /\ faults' \in 0..MaxFaults
  BY CostsTyped DEF TickBeginFails
<1>4. ups[u] \in Coordinators /\ Scan(disk) \subseteq Scanned
  BY <1>1, UpsTyped, ScanTyped DEF QueueInv, TypeOK
<1>5. ASSUME NEW h \in SUBSET Windows, NEW r, r = [ups[u] EXCEPT !.st = "loop", !.hold = h, !.queue = Scan(disk)]
      PROVE  Sound(r) /\ r # ups[u]
  <2>1. r \in Coordinators /\ r.st = "loop" BY <1>4, <1>5 DEF Coordinators
  <2> QED BY <1>1, <2>1 DEF Sound
<1>6. PICK h \in SUBSET Windows :
        Put(u, [ups[u] EXCEPT !.st = "loop", !.hold = h, !.queue = Scan(disk)])
  <2>1. ups[u].hold \in SUBSET Windows BY <1>4 DEF Coordinators
  <2>2. [ups[u] EXCEPT !.st = "loop", !.queue = Scan(disk)]
          = [ups[u] EXCEPT !.st = "loop", !.hold = ups[u].hold, !.queue = Scan(disk)]
    BY <1>4 DEF Coordinators
  <2>3. [ups[u] EXCEPT !.st = "loop", !.hold = @ \cup {w}, !.queue = Scan(disk)]
          = [ups[u] EXCEPT !.st = "loop", !.hold = ups[u].hold \cup {w}, !.queue = Scan(disk)]
    BY <1>4 DEF Coordinators
  <2>4. ups[u].hold \cup {w} \in SUBSET Windows BY <2>1
  <2>5. CASE Put(u, [ups[u] EXCEPT !.st = "loop", !.hold = @ \cup {w}, !.queue = Scan(disk)])
    BY <2>3, <2>4, <2>5
  <2>6. CASE Put(u, [ups[u] EXCEPT !.st = "loop", !.queue = Scan(disk)])
    BY <2>1, <2>2, <2>6
  <2> QED BY <1>2, <2>5, <2>6
<1> DEFINE r == [ups[u] EXCEPT !.st = "loop", !.hold = h, !.queue = Scan(disk)]
<1>7. Sound(r) /\ r # ups[u] /\ Put(u, r) BY <1>5, <1>6
<1> HIDE DEF r
<1> QED BY <1>1, <1>3, <1>7, QuietStep

(* A directory changes as a gate allows: what it loses is covered by what   *)
(* the journal has, and a marker it gets is one of that journal.            *)
LEMMA GatedStep ==
  ASSUME QueueInv, NEW u \in DOMAIN ups, NEW r, Sound(r), Put(u, r), r # ups[u],
         NEW s \in Scanned, NEW e \in Dirs, ~e.here => e = NoDir,
         disk' = [disk EXCEPT ![s.w] = e],
         \A p \in disk[s.w].parts : p \in e.parts \/ <<s.w, p>> \in held'[ups[u].j],
         e.ack \in {NoAck, disk[s.w].ack} \/ Truthful(held', s.w, e),
         held' \in {held, [held EXCEPT ![ups[u].j] = @ \cup Units(s.w, s.parts)]},
         quar' = quar, sealed' = sealed, faults' \in 0..MaxFaults
  PROVE  QueueInv' /\ KeepsAll
<1>1. Placed(disk) /\ AcksHeld /\ s.w \in Windows BY DEF QueueInv, TypeOK, Placed, Scanned
<1>2. \A w \in Windows : disk'[w] = IF w = s.w THEN e ELSE disk[w] BY <1>1 DEF Placed
<1>3. Placed(disk') BY <1>1, <1>2 DEF Placed
<1>4. /\ held' \in [Journals -> SUBSET (Windows \X Parts)] /\ HeldGrows
      /\ \A w, d : Truthful(held, w, d) => Truthful(held', w, d)
  BY Stores
<1>5. Truthful(held', s.w, e)
  <2>1. CASE e.ack = NoAck BY <2>1 DEF Truthful
  <2>2. CASE e.ack = disk[s.w].ack
    <3>1. Truthful(held', s.w, disk[s.w]) BY <1>1, <1>4 DEF AcksHeld
    <3> QED BY <1>1, <1>4, <2>2 DEF AcksHeld, Truthful
  <2> QED BY <2>1, <2>2
<1>6. \A w \in Windows : Truthful(held, w, disk[w]) => Truthful(held', w, disk'[w])
  BY <1>2, <1>4, <1>5
<1>7. AcksHeld' BY <1>1, <1>4, <1>6 DEF AcksHeld, Truthful
<1>8. Removes(u) BY <1>2, RemovesPointwise DEF QueueInv
<1>9. quar' \subseteq Quarantined BY DEF QueueInv, TypeOK, Quarantined
<1> QED BY <1>3, <1>4, <1>7, <1>8, <1>9, UploaderStep

(* The journal may have stored what it was sent; nothing here changes.      *)
LEMMA StoredStep ==
  ASSUME QueueInv, NEW u \in DOMAIN ups, NEW r, Sound(r), Put(u, r), r # ups[u],
         NEW s \in Scanned, MayStore(u, s), disk' = disk,
         quar' = quar, sealed' = sealed, faults' \in 0..MaxFaults
  PROVE  QueueInv' /\ KeepsAll
<1> DEFINE e == disk[s.w]
<1>1. e \in Dirs /\ (~e.here => e = NoDir) BY DEF QueueInv, TypeOK, Scanned
<1>2. disk' = [disk EXCEPT ![s.w] = e] BY DEF QueueInv, TypeOK, Scanned
<1>3. held' \in {held, [held EXCEPT ![ups[u].j] = @ \cup Units(s.w, s.parts)]} BY DEF MayStore
<1>4. e.ack \in {NoAck, disk[s.w].ack} OBVIOUS
<1>5. \A p \in disk[s.w].parts : p \in e.parts \/ <<s.w, p>> \in held'[ups[u].j] OBVIOUS
<1> HIDE DEF e
<1> QED BY <1>1, <1>2, <1>3, <1>4, <1>5, GatedStep

(* The journal has what it was sent, and the gate removes no more than that.*)
LEMMA AcknowledgeStep ==
  ASSUME QueueInv, NEW u \in DOMAIN ups, NEW r, Sound(r), Put(u, r), r # ups[u],
         NEW s \in Scanned, disk' = Acknowledge(disk, s),
         held' = [held EXCEPT ![ups[u].j] = @ \cup Units(s.w, s.parts)],
         quar' = quar, sealed' = sealed, faults' \in 0..MaxFaults
  PROVE  QueueInv' /\ KeepsAll
<1>1. CASE disk[s.w].here
  <2> DEFINE e == GateDelete(disk[s.w], s.parts)
  <2>1. disk[s.w] \in Dirs BY DEF QueueInv, TypeOK, Scanned
  <2>2. /\ e \in Dirs /\ (~e.here => e = NoDir) /\ e.ack = NoAck
        /\ \A p \in disk[s.w].parts : p \in e.parts \/ p \in s.parts
    BY <1>1, <2>1, GateTyped
  <2>3. disk' = [disk EXCEPT ![s.w] = e]
    BY <1>1 DEF Acknowledge
  <2>4. \A p \in s.parts : <<s.w, p>> \in held'[ups[u].j]
    BY UpsTyped DEF QueueInv, TypeOK, Units
  <2> HIDE DEF e
  <2>5. \A p \in disk[s.w].parts : p \in e.parts \/ <<s.w, p>> \in held'[ups[u].j] BY <2>2, <2>4
  <2> QED BY <2>2, <2>3, <2>5, GatedStep
<1>2. CASE ~disk[s.w].here
  <2>1. disk' = disk BY <1>2 DEF Acknowledge
  <2> QED BY <2>1, StoredStep DEF MayStore
<1> QED BY <1>1, <1>2

(* The loop's checks.                                                       *)
LEMMA PassStep ==
  ASSUME QueueInv, NEW u, PassOver(u)
  PROVE  QueueInv' /\ KeepsAll
<1> DEFINE s == Oldest(ups[u].queue)
<1> DEFINE r == Next1(ups[u])
<1>1. /\ u \in DOMAIN ups /\ ups[u].st = "loop" /\ ups[u].queue # {} /\ Put(u, r)
      /\ disk' = IF s.parts = {} /\ s.w \notin ups[u].hold /\ disk[s.w].here
                 THEN [disk EXCEPT ![s.w] = GateDelete(@, {})] ELSE disk
      /\ quar' = quar /\ held' = held /\ sealed' = sealed /\ faults' = faults
  BY DEF PassOver, At
<1>2. ups[u] \in Coordinators BY <1>1, UpsTyped DEF QueueInv
<1>3. s \in Scanned /\ s \in ups[u].queue
  BY <1>1, <1>2, InHand, OldestTyped DEF Coordinators
<1>4. Sound(r) /\ r # ups[u]
  <2>1. r \in Coordinators /\ r.st = "loop" BY <1>1, InHand
  <2>2. s \notin r.queue BY <1>2 DEF Next1, Coordinators
  <2> QED BY <1>3, <2>1, <2>2 DEF Sound
<1>5. faults' \in 0..MaxFaults BY <1>1, CostsTyped
<1> HIDE DEF r, s
<1>6. CASE disk' = disk BY <1>1, <1>4, <1>5, <1>6, QuietStep
<1>7. CASE disk' = [disk EXCEPT ![s.w] = GateDelete(@, {})] /\ disk[s.w].here
  <2> DEFINE e == GateDelete(disk[s.w], {})
  <2>1. disk[s.w] \in Dirs BY <1>3 DEF QueueInv, TypeOK, Scanned
  <2>2. /\ e \in Dirs /\ (~e.here => e = NoDir) /\ e.ack = NoAck
        /\ \A p \in disk[s.w].parts : p \in e.parts
    BY <1>7, <2>1, GateTyped
  <2>3. disk' = [disk EXCEPT ![s.w] = e] BY <1>7
  <2> HIDE DEF e
  <2> QED BY <1>1, <1>3, <1>4, <1>5, <2>2, <2>3, GatedStep
<1> QED BY <1>1, <1>6, <1>7

(* A POST goes out.                                                         *)
LEMMA PostStep ==
  ASSUME QueueInv, NEW u, Post(u)
  PROVE  QueueInv' /\ KeepsAll
<1> DEFINE r == [ups[u] EXCEPT !.st = "posting"]
<1>1. /\ u \in DOMAIN ups /\ ups[u].st = "loop" /\ ups[u].queue # {} /\ Put(u, r)
      /\ disk' = disk /\ quar' = quar /\ held' = held /\ sealed' = sealed /\ faults' = faults
  BY DEF Post, At
<1>2. ups[u] \in Coordinators BY <1>1, UpsTyped DEF QueueInv
<1>3. r \in Coordinators /\ r.st = "posting" /\ r.queue = ups[u].queue BY <1>2 DEF Coordinators
<1>4. Sound(r) /\ r # ups[u] BY <1>1, <1>3 DEF Sound
<1>5. faults' \in 0..MaxFaults BY <1>1, CostsTyped
<1> HIDE DEF r
<1> QED BY <1>1, <1>4, <1>5, QuietStep

(* While it waits for the answer to a POST, an uploader has a segment in    *)
(* hand.                                                                    *)
LEMMA Waiting ==
  ASSUME QueueInv, NEW u, At(u, "posting")
  PROVE  LET s == Oldest(ups[u].queue)
             r == Next1(ups[u])
         IN  /\ u \in DOMAIN ups /\ ups[u] \in Coordinators /\ ups[u].queue # {}
             /\ s \in Scanned /\ s.w \in Windows /\ s.parts \subseteq Parts
             /\ <<s.w, s.key>> \in Windows \X Keys
             /\ r \in Coordinators /\ r.st = "loop"
             /\ r.bound = ups[u].bound /\ r.hold = ups[u].hold
             /\ r.rejects = ups[u].rejects /\ r.unknown = ups[u].unknown
<1>1. u \in DOMAIN ups /\ ups[u].st = "posting" BY DEF At
<1>2. ups[u].queue # {} BY <1>1 DEF QueueInv, TypeOK
<1> QED BY <1>1, <1>2, InHand, UpsTyped DEF QueueInv

(* It puts the segment down.                                                *)
LEMMA PutsDown ==
  ASSUME NEW u, At(u, "posting"), NEW r \in Coordinators, r.st = "loop"
  PROVE  Sound(r) /\ r # ups[u]
  BY DEF At, Sound

(* The segment was confirmed, or its owner has removed it.                  *)
LEMMA ConfirmedStep ==
  ASSUME QueueInv, NEW u, Confirmed(u)
  PROVE  QueueInv' /\ KeepsAll
<1> DEFINE s == Oldest(ups[u].queue)
<1> DEFINE t == Next1(ups[u])
<1> DEFINE r == [t EXCEPT !.rejects[s.w] = 0, !.bound = @ \ {<<s.w, s.key>>}]
<1>1. /\ At(u, "posting") /\ Put(u, r) /\ disk' = Acknowledge(disk, s)
      /\ held' = [held EXCEPT ![ups[u].j] = @ \cup Units(s.w, s.parts)]
      /\ quar' = quar /\ sealed' = sealed /\ faults' = faults
  BY DEF Confirmed
<1>2. u \in DOMAIN ups /\ s \in Scanned /\ t \in Coordinators /\ t.st = "loop" BY <1>1, Waiting
<1> HIDE DEF t, s
<1> DEFINE b == t.bound \ {<<s.w, s.key>>}
<1> DEFINE c == [t.rejects EXCEPT ![s.w] = 0]
<1>3. r = [t EXCEPT !.bound = b, !.hold = t.hold, !.unknown = t.unknown, !.rejects = c]
  BY <1>2 DEF Coordinators
<1>4. /\ b \in SUBSET (Windows \X Keys) /\ t.hold \in SUBSET Windows /\ t.unknown \in SUBSET Scanned
      /\ c \in [Windows -> Nat]
  BY <1>2 DEF Coordinators
<1> HIDE DEF r, b, c
<1>5. Sound(r) /\ r # ups[u]
  <2>1. r \in Coordinators /\ r.st = "loop" BY <1>2, <1>3, <1>4 DEF Coordinators
  <2> QED BY <1>1, <2>1, PutsDown
<1>6. faults' \in 0..MaxFaults BY <1>1, CostsTyped
<1> QED BY <1>1, <1>2, <1>5, <1>6, AcknowledgeStep

(* Confirmed, but its marker cannot be written, or its files not all go.    *)
LEMMA ConfirmedFailsStep ==
  ASSUME QueueInv, NEW u, ConfirmedFails(u)
  PROVE  QueueInv' /\ KeepsAll
<1> DEFINE s == Oldest(ups[u].queue)
<1> DEFINE t == Next1(ups[u])
<1> DEFINE r == [t EXCEPT !.rejects[s.w] = 0, !.bound = @ \ {<<s.w, s.key>>}]
<1> DEFINE mark == [by |-> ups[u].j, parts |-> s.parts, key |-> s.key]
<1>1. /\ At(u, "posting") /\ Costs
      /\ held' = [held EXCEPT ![ups[u].j] = @ \cup Units(s.w, s.parts)]
      /\ quar' = quar /\ sealed' = sealed
      /\ \/ disk' = disk /\ Put(u, r)
         \/ /\ disk[s.w].here
            /\ \E gone \in SUBSET s.parts :
                 disk' = [disk EXCEPT ![s.w].parts = @ \ gone, ![s.w].ack = mark]
            /\ Put(u, [r EXCEPT !.hold = @ \cup {s.w}])
  BY DEF ConfirmedFails
<1>2. /\ u \in DOMAIN ups /\ s \in Scanned /\ t \in Coordinators /\ t.st = "loop" /\ s.w \in Windows
      /\ s.parts \subseteq Parts /\ s.key \in Keys
  BY <1>1, Waiting DEF Scanned
<1> HIDE DEF t, s
<1> DEFINE b == t.bound \ {<<s.w, s.key>>}
<1> DEFINE c == [t.rejects EXCEPT ![s.w] = 0]
<1> DEFINE h == t.hold \cup {s.w}
<1> DEFINE r1 == [t EXCEPT !.bound = b, !.hold = t.hold, !.unknown = t.unknown, !.rejects = c]
<1> DEFINE r2 == [t EXCEPT !.bound = b, !.hold = h, !.unknown = t.unknown, !.rejects = c]
<1>3. r = r1 /\ [r EXCEPT !.hold = @ \cup {s.w}] = r2
  BY <1>2 DEF Coordinators
<1>4. /\ b \in SUBSET (Windows \X Keys) /\ t.hold \in SUBSET Windows /\ t.unknown \in SUBSET Scanned
      /\ h \in SUBSET Windows /\ c \in [Windows -> Nat]
  BY <1>2 DEF Coordinators
<1> HIDE DEF r, b, c, h
<1>5. Sound(r1) /\ r1 # ups[u] /\ Sound(r2) /\ r2 # ups[u]
  <2>1. r1 \in Coordinators /\ r1.st = "loop" BY <1>2, <1>4 DEF Coordinators
  <2>2. r2 \in Coordinators /\ r2.st = "loop" BY <1>2, <1>4 DEF Coordinators
  <2> HIDE DEF r1, r2
  <2> QED BY <1>1, <2>1, <2>2, PutsDown
<1>6. faults' \in 0..MaxFaults BY <1>1, CostsTyped
<1> HIDE DEF r1, r2
<1>7. CASE disk' = disk /\ Put(u, r)
  BY <1>1, <1>2, <1>3, <1>5, <1>6, <1>7, StoredStep DEF MayStore
<1>8. ASSUME NEW gone \in SUBSET s.parts, disk[s.w].here,
             disk' = [disk EXCEPT ![s.w].parts = @ \ gone, ![s.w].ack = mark],
             Put(u, [r EXCEPT !.hold = @ \cup {s.w}])
      PROVE  QueueInv' /\ KeepsAll
  <2> DEFINE d == disk[s.w]
  <2> DEFINE e == [d EXCEPT !.parts = d.parts \ gone, !.ack = mark]
  <2>1. d \in Dirs /\ disk \in [Windows -> Dirs] /\ ups[u].j \in Journals
    BY <1>2, UpsTyped DEF QueueInv, TypeOK
  <2>2. disk' = [disk EXCEPT ![s.w] = e] BY <1>2, <1>8, <2>1 DEF Dirs
  <2>3. mark \in [by : Journals \cup {"nobody"}, parts : SUBSET Parts, key : Keys] BY <1>2, <2>1
  <2> HIDE DEF mark, d
  <2>4. e \in Dirs /\ e.here = d.here /\ e.parts = d.parts \ gone /\ e.ack = mark
    BY <2>1, <2>3 DEF Dirs
  <2>5. Units(s.w, s.parts) \subseteq held'[ups[u].j] BY <1>1, <2>1 DEF QueueInv, TypeOK
  <2>6. \A p \in s.parts : <<s.w, p>> \in held'[ups[u].j] BY <2>5 DEF Units
  <2>7. Truthful(held', s.w, e) BY <2>1, <2>4, <2>5 DEF Truthful, mark
  <2> HIDE DEF e
  <2>8. \A p \in disk[s.w].parts : p \in e.parts \/ <<s.w, p>> \in held'[ups[u].j]
    BY <2>4, <2>6 DEF d
  <2>9. Put(u, r2) /\ e.here BY <1>3, <1>8, <2>4 DEF d
  <2> QED BY <1>1, <1>2, <1>5, <1>6, <2>2, <2>4, <2>7, <2>8, <2>9, GatedStep
<1> QED BY <1>1, <1>7, <1>8

(* Accepted without a receipt, or an error laid to the segment.             *)
LEMMA UncertainStep ==
  ASSUME QueueInv, NEW u, AcceptedUnconfirmed(u) \/ SegmentError(u)
  PROVE  QueueInv' /\ KeepsAll
<1> DEFINE s == Oldest(ups[u].queue)
<1> DEFINE t == Next1(ups[u])
<1>1. /\ At(u, "posting") /\ Costs /\ MayStore(u, s)
      /\ disk' = disk /\ quar' = quar /\ sealed' = sealed
      /\ \/ Put(u, [t EXCEPT !.unknown = @ \cup {s}])
         \/ Put(u, [t EXCEPT !.bound = @ \cup {<<s.w, s.key>>}])
  BY DEF AcceptedUnconfirmed, SegmentError
<1>2. u \in DOMAIN ups /\ s \in Scanned /\ t \in Coordinators /\ t.st = "loop" /\ <<s.w, s.key>> \in Windows \X Keys
  BY <1>1, Waiting
<1> HIDE DEF t, s
<1> DEFINE b == t.bound \cup {<<s.w, s.key>>}
<1> DEFINE n == t.unknown \cup {s}
<1> DEFINE r1 == [t EXCEPT !.bound = t.bound, !.hold = t.hold, !.unknown = n, !.rejects = t.rejects]
<1> DEFINE r2 == [t EXCEPT !.bound = b, !.hold = t.hold, !.unknown = t.unknown, !.rejects = t.rejects]
<1>3. [t EXCEPT !.unknown = @ \cup {s}] = r1 /\ [t EXCEPT !.bound = @ \cup {<<s.w, s.key>>}] = r2
  BY <1>2 DEF Coordinators
<1>4. /\ b \in SUBSET (Windows \X Keys) /\ t.bound \in SUBSET (Windows \X Keys)
      /\ t.hold \in SUBSET Windows /\ t.unknown \in SUBSET Scanned /\ n \in SUBSET Scanned
      /\ t.rejects \in [Windows -> Nat]
  BY <1>2 DEF Coordinators
<1> HIDE DEF b, n
<1>5. Sound(r1) /\ r1 # ups[u] /\ Sound(r2) /\ r2 # ups[u]
  <2>1. r1 \in Coordinators /\ r1.st = "loop" BY <1>2, <1>4 DEF Coordinators
  <2>2. r2 \in Coordinators /\ r2.st = "loop" BY <1>2, <1>4 DEF Coordinators
  <2> HIDE DEF r1, r2
  <2> QED BY <1>1, <2>1, <2>2, PutsDown
<1>6. faults' \in 0..MaxFaults BY <1>1, CostsTyped
<1> HIDE DEF r1, r2
<1>7. Put(u, r1) \/ Put(u, r2) BY <1>1, <1>3
<1> QED BY <1>1, <1>2, <1>5, <1>6, <1>7, StoredStep

(* The owner has removed the segment from this journal.                     *)
LEMMA RemovedStep ==
  ASSUME QueueInv, NEW u, SegmentRemoved(u)
  PROVE  QueueInv' /\ KeepsAll
<1> DEFINE s == Oldest(ups[u].queue)
<1> DEFINE t == Next1(ups[u])
<1>1. /\ At(u, "posting") /\ Costs /\ disk' = Acknowledge(disk, s)
      /\ held' = [held EXCEPT ![ups[u].j] = @ \cup Units(s.w, s.parts)]
      /\ quar' = quar /\ sealed' = sealed
      /\ Put(u, t) \/ Put(u, [t EXCEPT !.hold = @ \cup {s.w}])
  BY DEF SegmentRemoved
<1>2. u \in DOMAIN ups /\ s \in Scanned /\ t \in Coordinators /\ t.st = "loop" /\ s.w \in Windows
  BY <1>1, Waiting
<1> HIDE DEF t, s
<1> DEFINE h == t.hold \cup {s.w}
<1> DEFINE r1 == [t EXCEPT !.bound = t.bound, !.hold = t.hold, !.unknown = t.unknown, !.rejects = t.rejects]
<1> DEFINE r2 == [t EXCEPT !.bound = t.bound, !.hold = h, !.unknown = t.unknown, !.rejects = t.rejects]
<1>3. t = r1 /\ [t EXCEPT !.hold = @ \cup {s.w}] = r2
  BY <1>2 DEF Coordinators
<1>4. /\ t.bound \in SUBSET (Windows \X Keys) /\ t.hold \in SUBSET Windows /\ h \in SUBSET Windows
      /\ t.unknown \in SUBSET Scanned /\ t.rejects \in [Windows -> Nat]
  BY <1>2 DEF Coordinators
<1> HIDE DEF h
<1>5. Sound(r1) /\ r1 # ups[u] /\ Sound(r2) /\ r2 # ups[u]
  <2>1. r1 \in Coordinators /\ r1.st = "loop" BY <1>2, <1>4 DEF Coordinators
  <2>2. r2 \in Coordinators /\ r2.st = "loop" BY <1>2, <1>4 DEF Coordinators
  <2> HIDE DEF r1, r2
  <2> QED BY <1>1, <2>1, <2>2, PutsDown
<1>6. faults' \in 0..MaxFaults BY <1>1, CostsTyped
<1> HIDE DEF r1, r2
<1>7. Put(u, r1) \/ Put(u, r2) BY <1>1, <1>3
<1> QED BY <1>1, <1>2, <1>5, <1>6, <1>7, AcknowledgeStep

(* The journal refuses the segment, and at the limit it is set aside.       *)
LEMMA RejectedStep ==
  ASSUME QueueInv, NEW u, Rejected(u)
  PROVE  QueueInv' /\ KeepsAll
<1> DEFINE s == Oldest(ups[u].queue)
<1> DEFINE t == Next1(ups[u])
<1> DEFINE m == ups[u].rejects[s.w] + 1
<1> DEFINE b == t.bound \cup {<<s.w, s.key>>}
<1>1. At(u, "posting") /\ Costs /\ held' = held /\ sealed' = sealed BY DEF Rejected
<1>2. /\ u \in DOMAIN ups /\ s \in Scanned /\ t \in Coordinators /\ t.st = "loop" /\ s.w \in Windows
      /\ <<s.w, s.key>> \in Windows \X Keys /\ ups[u] \in Coordinators
  BY <1>1, Waiting
<1>3. m \in Nat /\ b \in SUBSET (Windows \X Keys) BY <1>2 DEF Coordinators
<1>4. PICK n \in {0, m} : Put(u, [t EXCEPT !.rejects[s.w] = n, !.bound = @ \cup {<<s.w, s.key>>}])
  BY DEF Rejected
<1>5. \/ disk' = disk /\ quar' = quar
      \/ /\ disk[s.w].here /\ disk' = [disk EXCEPT ![s.w] = NoDir]
         /\ quar' = quar \cup {[w |-> s.w, d |-> disk[s.w], by |-> ups[u].j]}
  BY DEF Rejected
<1> HIDE DEF t, s, m
<1> DEFINE c == [t.rejects EXCEPT ![s.w] = n]
<1> DEFINE r == [t EXCEPT !.rejects = c, !.bound = b]
<1>6. Put(u, r) BY <1>2, <1>4 DEF Coordinators
<1>7. c \in [Windows -> Nat] BY <1>2, <1>3 DEF Coordinators
<1> HIDE DEF b, c
<1>8. r \in Coordinators /\ r.st = "loop" BY <1>2, <1>3, <1>7 DEF Coordinators
<1> HIDE DEF r
<1>9. Sound(r) /\ r # ups[u] BY <1>1, <1>8, PutsDown
<1>10. faults' \in 0..MaxFaults BY <1>1, CostsTyped
<1>11. CASE disk' = disk /\ quar' = quar
  BY <1>1, <1>2, <1>6, <1>9, <1>10, <1>11, QuietStep
<1>12. CASE /\ disk[s.w].here /\ disk' = [disk EXCEPT ![s.w] = NoDir]
            /\ quar' = quar \cup {[w |-> s.w, d |-> disk[s.w], by |-> ups[u].j]}
  <2> DEFINE q == [w |-> s.w, d |-> disk[s.w], by |-> ups[u].j]
  <2>1. /\ Placed(disk) /\ AcksHeld /\ quar \subseteq Quarantined /\ ups[u].j \in Journals
        /\ held \in [Journals -> SUBSET (Windows \X Parts)]
    BY <1>2, UpsTyped DEF QueueInv, TypeOK, Placed, Quarantined
  <2>2. q \in Quarantined /\ q.w = s.w /\ q.d = disk[s.w] BY <1>2, <2>1 DEF Quarantined, Placed
  <2>3. quar' = quar \cup {q} BY <1>12
  <2> HIDE DEF q
  <2>4. \A w \in Windows : disk'[w] = IF w = s.w THEN NoDir ELSE disk[w] BY <1>2, <1>12, <2>1 DEF Placed
  <2>5. Placed(disk') BY <1>12, <2>1, <2>4, DirTyped DEF Placed
  <2>6. \A w \in Windows : Truthful(held', w, disk'[w])
    BY <1>1, <2>1, <2>4, DirTyped DEF AcksHeld
  <2>7. \A o \in quar' : o.d.here /\ Truthful(held', o.w, o.d)
    BY <1>1, <1>2, <1>12, <2>1, <2>2, <2>3 DEF AcksHeld
  <2>8. AcksHeld' BY <2>6, <2>7 DEF AcksHeld, Truthful
  <2>9. Removes(u)
    <3>1. ASSUME NEW x \in OnDisk PROVE x \in OnDisk' \/ x \in InQuarantine'
      <4>1. PICK w \in Windows : x \in Units(w, disk[w].parts) BY DEF OnDisk
      <4>2. CASE w = s.w
        <5>1. x \in SetAside(q) BY <2>2, <4>1, <4>2 DEF SetAside
        <5> QED BY <2>3, <5>1 DEF InQuarantine, SetAside
      <4>3. CASE w # s.w BY <2>4, <4>1, <4>3 DEF OnDisk
      <4> QED BY <4>2, <4>3
    <3>2. ASSUME NEW x \in InQuarantine PROVE x \in InQuarantine'
      <4>1. PICK o \in quar : x \in SetAside(o) BY DEF InQuarantine
      <4> QED BY <2>3, <4>1 DEF InQuarantine, SetAside
    <3> QED BY <3>1, <3>2 DEF Removes
  <2>10. HeldGrows /\ quar' \subseteq Quarantined BY <1>1, <2>1, <2>2, <2>3 DEF HeldGrows
  <2> QED BY <1>1, <1>2, <1>6, <1>9, <1>10, <2>1, <2>5, <2>8, <2>9, <2>10, UploaderStep
<1> QED BY <1>5, <1>11, <1>12

(* The end of a tick, and what it leaves bound.                             *)
LEMMA EndTyped ==
  ASSUME NEW v \in Coordinators, NEW D \in SUBSET Nat, NEW b \in SUBSET (Windows \X Keys), v.st # "idle"
  PROVE  /\ Sound(EndTick(v)) /\ EndTick(v) # v
         /\ LET r == [EndTick(v) EXCEPT !.dayBound = D, !.bound = b] IN Sound(r) /\ r # v
<1> DEFINE r == [EndTick(v) EXCEPT !.dayBound = D, !.bound = b]
<1>1. EndTick(v) \in Coordinators /\ EndTick(v).st = "idle" BY DEF EndTick, Coordinators
<1>2. r \in Coordinators /\ r.st = "idle" BY <1>1 DEF Coordinators
<1> HIDE DEF r
<1>3. Sound(r) /\ r # v BY <1>2 DEF Sound
<1> QED BY <1>1, <1>3 DEF Sound, r

(* A tick fails, ends, or goes on to its listing.                           *)
LEMMA TickFailsStep ==
  ASSUME QueueInv, NEW u, TickFails(u)
  PROVE  QueueInv' /\ KeepsAll
<1> DEFINE r == EndTick(ups[u])
<1>1. /\ u \in DOMAIN ups /\ Put(u, r) /\ disk' = disk /\ quar' = quar /\ sealed' = sealed
      /\ ups[u].st # "idle"
  BY DEF TickFails, At
<1>2. ups[u] \in Coordinators BY <1>1, UpsTyped DEF QueueInv
<1>3. Sound(r) /\ r # ups[u] BY <1>1, <1>2, EndTyped
<1> HIDE DEF r
<1>4. CASE At(u, "posting") /\ Costs /\ MayStore(u, Oldest(ups[u].queue))
  <2> DEFINE s == Oldest(ups[u].queue)
  <2>1. s \in Scanned /\ MayStore(u, s) /\ faults' \in 0..MaxFaults BY <1>4, Waiting, CostsTyped
  <2> HIDE DEF s
  <2> QED BY <1>1, <1>3, <2>1, StoredStep
<1>5. CASE UNCHANGED <<held, faults>>
  <2>1. held' = held /\ faults' \in 0..MaxFaults BY <1>5, CostsTyped
  <2> QED BY <1>1, <1>3, <2>1, QuietStep
<1> QED BY <1>4, <1>5 DEF TickFails

LEMMA LoopEndsStep ==
  ASSUME QueueInv, NEW u, LoopEnds(u)
  PROVE  QueueInv' /\ KeepsAll
<1>1. /\ u \in DOMAIN ups /\ ups[u].st = "loop"
      /\ disk' = disk /\ quar' = quar /\ sealed' = sealed /\ held' = held /\ faults' = faults
  BY DEF LoopEnds, At
<1>2. ups[u] \in Coordinators BY <1>1, UpsTyped DEF QueueInv
<1>3. faults' \in 0..MaxFaults BY <1>1, CostsTyped
<1> DEFINE e == EndTick(ups[u])
<1> DEFINE r == [ups[u] EXCEPT !.queue = {}, !.st = "listing"]
<1>4. Sound(e) /\ e # ups[u] BY <1>1, <1>2, EndTyped
<1>5. r \in Coordinators /\ r.st = "listing" /\ UnknownDays(r) = UnknownDays(ups[u])
  BY <1>2 DEF Coordinators, UnknownDays
<1>6. CASE UnknownDays(ups[u]) = {}
  <2>1. Put(u, e) BY <1>6 DEF LoopEnds
  <2> HIDE DEF e
  <2> QED BY <1>1, <1>3, <1>4, <2>1, QuietStep
<1>7. CASE UnknownDays(ups[u]) # {}
  <2>1. Put(u, r) BY <1>7 DEF LoopEnds
  <2> HIDE DEF r
  <2>2. Sound(r) /\ r # ups[u] BY <1>1, <1>5, <1>7 DEF Sound
  <2> QED BY <1>1, <1>3, <2>1, <2>2, QuietStep
<1> QED BY <1>6, <1>7

(* The listing pass: what is proven of a day goes, the rest is bound.       *)
LEMMA ListedStep ==
  ASSUME QueueInv, NEW u, Listed(u)
  PROVE  QueueInv' /\ KeepsAll
<1> DEFINE v == ups[u]
<1> DEFINE day == First(UnknownDays(v))
<1> DEFINE asked == OfDay(v, day)
<1>1. /\ u \in DOMAIN ups /\ v.st = "listing"
      /\ quar' = quar /\ held' = held /\ sealed' = sealed /\ faults' = faults
  BY DEF Listed, At
<1>2. PICK proven \in SUBSET {s \in asked : ListingProves(v.j, s)} :
        /\ disk' = [w \in Windows |->
                      IF disk[w].here /\ \E s \in proven : s.w = w
                      THEN GateDelete(disk[w], (CHOOSE s \in proven : s.w = w).parts)
                      ELSE disk[w]]
        /\ Put(u, [EndTick(v) EXCEPT !.dayBound = @ \cup {day},
                                     !.bound = @ \cup {<<s.w, s.key>> : s \in asked \ proven}])
  BY DEF Listed
<1>3. v \in Coordinators /\ v.j \in Journals /\ UnknownDays(v) # {}
  BY <1>1, UpsTyped DEF QueueInv, TypeOK
<1>4. day \in Nat BY <1>3, DaysTyped, FirstTyped
<1>5. asked \subseteq Scanned BY <1>3 DEF OfDay, Coordinators
<1> HIDE DEF day, asked
<1> DEFINE D == v.dayBound \cup {day}
<1> DEFINE b == v.bound \cup {<<s.w, s.key>> : s \in asked \ proven}
<1> DEFINE r == [EndTick(v) EXCEPT !.dayBound = D, !.bound = b]
<1>6. D \in SUBSET Nat /\ b \in SUBSET (Windows \X Keys) BY <1>3, <1>4, <1>5 DEF Coordinators, Scanned
<1>7. Put(u, r) BY <1>2, <1>3 DEF EndTick, Coordinators
<1> HIDE DEF D, b
<1>8. Sound(r) /\ r # v BY <1>1, <1>3, <1>6, EndTyped
<1> HIDE DEF r
<1>9. /\ Placed(disk) /\ AcksHeld /\ quar \subseteq Quarantined
      /\ held \in [Journals -> SUBSET (Windows \X Parts)]
  BY DEF QueueInv, TypeOK, Placed, Quarantined
<1>10. ASSUME NEW w \in Windows
       PROVE  /\ disk'[w] \in Dirs /\ (~disk'[w].here => disk'[w] = NoDir)
              /\ Truthful(held, w, disk'[w])
              /\ \A p \in disk[w].parts : p \in disk'[w].parts \/ <<w, p>> \in held[v.j]
  <2>1. CASE disk[w].here /\ \E s \in proven : s.w = w
    <3>1. PICK s \in proven : s.w = w /\ disk'[w] = GateDelete(disk[w], s.parts) BY <1>2, <2>1
    <3> DEFINE e == GateDelete(disk[w], s.parts)
    <3>2. /\ e \in Dirs /\ (~e.here => e = NoDir) /\ e.ack = NoAck
          /\ \A p \in disk[w].parts : p \in e.parts \/ p \in s.parts
      BY <1>9, <2>1, GateTyped DEF Placed
    <3>3. disk'[w] = e BY <3>1
    <3> HIDE DEF e
    <3>4. \A p \in s.parts : <<w, p>> \in held[v.j] BY <3>1 DEF ListingProves, Units
    <3> QED BY <3>2, <3>3, <3>4 DEF Truthful
  <2>2. CASE ~(disk[w].here /\ \E s \in proven : s.w = w)
    BY <1>2, <1>9, <2>2 DEF Placed, AcksHeld
  <2> QED BY <2>1, <2>2
<1>11. disk' \in [Windows -> Dirs]
  <2> DEFINE f == [w \in Windows |->
                     IF disk[w].here /\ \E s \in proven : s.w = w
                     THEN GateDelete(disk[w], (CHOOSE s \in proven : s.w = w).parts)
                     ELSE disk[w]]
  <2>1. disk' = f BY <1>2
  <2>2. \A w \in Windows : f[w] \in Dirs BY <1>10, <2>1
  <2> QED BY <2>1, <2>2
<1>12. Placed(disk') BY <1>10, <1>11 DEF Placed
<1>13. AcksHeld' BY <1>1, <1>9, <1>10 DEF AcksHeld, Truthful
<1>14. \A w \in Windows : \A p \in disk[w].parts : p \in disk'[w].parts \/ <<w, p>> \in held'[ups[u].j]
  BY <1>1, <1>10
<1>15. Removes(u) BY <1>1, <1>14, RemovesPointwise DEF QueueInv
<1>16. HeldGrows /\ faults' \in 0..MaxFaults BY <1>1, CostsTyped DEF HeldGrows
<1> HIDE DEF v
<1>17. r # ups[u] BY <1>8 DEF v
<1> QED BY <1>1, <1>7, <1>8, <1>9, <1>12, <1>13, <1>15, <1>16, <1>17, UploaderStep

LEMMA ListingRefusedStep ==
  ASSUME QueueInv, NEW u, ListingRefused(u)
  PROVE  QueueInv' /\ KeepsAll
<1> DEFINE v == ups[u]
<1> DEFINE day == First(UnknownDays(v))
<1>1. /\ u \in DOMAIN ups /\ v.st = "listing"
      /\ Put(u, [EndTick(v) EXCEPT !.dayBound = @ \cup {day}])
      /\ disk' = disk /\ quar' = quar /\ held' = held /\ sealed' = sealed /\ faults' = faults
  BY DEF ListingRefused, At
<1>2. v \in Coordinators /\ UnknownDays(v) # {} BY <1>1, UpsTyped DEF QueueInv, TypeOK
<1>3. day \in Nat BY <1>2, DaysTyped, FirstTyped
<1> HIDE DEF day
<1> DEFINE D == v.dayBound \cup {day}
<1> DEFINE r == [EndTick(v) EXCEPT !.dayBound = D, !.bound = v.bound]
<1>4. D \in SUBSET Nat /\ v.bound \in SUBSET (Windows \X Keys) BY <1>2, <1>3 DEF Coordinators
<1>5. Put(u, r) BY <1>1, <1>2 DEF EndTick, Coordinators
<1> HIDE DEF D
<1>6. Sound(r) /\ r # v BY <1>1, <1>2, <1>4, EndTyped
<1>7. faults' \in 0..MaxFaults BY <1>1, CostsTyped
<1> HIDE DEF r
<1> QED BY <1>1, <1>5, <1>6, <1>7, QuietStep

(* Bounds run out, and a cancelled uploader leaves.                         *)
LEMMA TimePassesStep ==
  ASSUME QueueInv, NEW u, TimePasses(u)
  PROVE  QueueInv' /\ KeepsAll
<1> DEFINE v == ups[u]
<1> DEFINE r == [v EXCEPT !.hold = {}, !.bound = {}, !.dayBound = {}]
<1>1. /\ u \in DOMAIN ups /\ v.st = "idle" /\ Put(u, r)
      /\ <<v.hold, v.bound, v.dayBound>> # <<{}, {}, {}>>
      /\ disk' = disk /\ quar' = quar /\ held' = held /\ sealed' = sealed /\ faults' = faults
  BY DEF TimePasses, At
<1>2. v \in Coordinators BY <1>1, UpsTyped DEF QueueInv
<1>3. r \in Coordinators /\ r.st = "idle" /\ r.hold = {} /\ r.bound = {} /\ r.dayBound = {}
  BY <1>1, <1>2 DEF Coordinators
<1> HIDE DEF r
<1>4. Sound(r) BY <1>3 DEF Sound
<1>5. r # v BY <1>1, <1>3
<1>6. faults' \in 0..MaxFaults BY <1>1, CostsTyped
<1> QED BY <1>1, <1>4, <1>5, <1>6, QuietStep

LEMMA LeavesStep ==
  ASSUME QueueInv, NEW u, Leaves(u)
  PROVE  QueueInv' /\ KeepsAll
<1> DEFINE v == ups[u]
<1> DEFINE r == [v EXCEPT !.st = "done"]
<1>1. /\ u \in DOMAIN ups /\ v.st = "idle" /\ Put(u, r)
      /\ disk' = disk /\ quar' = quar /\ held' = held /\ sealed' = sealed /\ faults' = faults
  BY DEF Leaves, At
<1>2. v \in Coordinators BY <1>1, UpsTyped DEF QueueInv
<1>3. r \in Coordinators /\ r.st = "done" BY <1>2 DEF Coordinators
<1> HIDE DEF r
<1>4. Sound(r) /\ r # v BY <1>1, <1>3 DEF Sound
<1>5. faults' \in 0..MaxFaults BY <1>1, CostsTyped
<1> QED BY <1>1, <1>4, <1>5, QuietStep

----------------------------------------------------------------------------
(* Around the uploader.                                                     *)

(* The uploaders change and nothing else does but a fault's count.          *)
LEMMA PairingStep ==
  ASSUME QueueInv, ups' \in Seq(Coordinators), Len(ups') \in 1..MaxUploaders,
         \A u \in DOMAIN ups' : Sound(ups'[u]), Costs \/ faults' = faults,
         disk' = disk, quar' = quar, held' = held, sealed' = sealed
  PROVE  QueueInv' /\ KeepsAll
<1>1. faults' \in 0..MaxFaults BY CostsTyped
<1>2. TypeOK' BY <1>1 DEF QueueInv, TypeOK, Current, Sound
<1>3. OnDisk' = OnDisk /\ InQuarantine' = InQuarantine BY DEF OnDisk, InQuarantine, SetAside
<1>4. AcksHeld' /\ Accounted' BY <1>3 DEF QueueInv, AcksHeld, Accounted, Truthful
<1> QED BY <1>2, <1>3, <1>4 DEF QueueInv, KeepsAll

LEMMA FreshTyped ==
  ASSUME NEW j \in Journals, NEW open \in BOOLEAN
  PROVE  Fresh(j, open) \in Coordinators /\ Sound(Fresh(j, open)) /\ Fresh(j, open).st = "idle"
<1>1. Fresh(j, open) \in Coordinators /\ Fresh(j, open).st = "idle" BY DEF Fresh, Coordinators
<1> QED BY <1>1 DEF Sound

(* A new uploader joins the others.                                         *)
LEMMA JoinStep ==
  ASSUME QueueInv, NEW old \in Seq(Coordinators), NEW f \in Coordinators, Sound(f),
         ups' = Append(old, f), Len(old) = Len(ups), Current < MaxUploaders,
         \A u \in DOMAIN old : Sound(old[u]), Costs \/ faults' = faults,
         disk' = disk, quar' = quar, held' = held, sealed' = sealed
  PROVE  QueueInv' /\ KeepsAll
<1>1. Len(ups) \in 1..MaxUploaders /\ MaxUploaders \in Nat
  BY QueueAssumption DEF QueueInv, TypeOK, Current, QueueAssumption
<1>2. /\ ups' \in Seq(Coordinators) /\ Len(ups') = Len(old) + 1
      /\ \A u \in 1..Len(old) : ups'[u] = old[u]
      /\ ups'[Len(old) + 1] = f
  BY AppendProperties
<1>3. Len(ups') \in 1..MaxUploaders BY <1>1, <1>2 DEF Current
<1>4. DOMAIN old = 1..Len(old) /\ DOMAIN ups' = 1..Len(ups') BY <1>2, LenProperties
<1>5. \A u \in DOMAIN ups' : Sound(ups'[u])
  <2> SUFFICES ASSUME NEW u \in DOMAIN ups' PROVE Sound(ups'[u]) OBVIOUS
  <2>1. u \in 1..Len(old) \/ u = Len(old) + 1 BY <1>1, <1>2, <1>4
  <2> QED BY <1>2, <1>4, <2>1
<1> QED BY <1>2, <1>3, <1>5, PairingStep

LEMMA OpenGateStep ==
  ASSUME QueueInv, OpenGate
  PROVE  QueueInv' /\ KeepsAll
<1> DEFINE v == ups[Current]
<1> DEFINE r == [v EXCEPT !.open = TRUE]
<1>1. Current \in DOMAIN ups /\ v \in Coordinators /\ Sound(v) /\ ~v.open
  <2>1. /\ Current \in DOMAIN ups /\ \A u \in DOMAIN ups : ups[u] \in Coordinators /\ Sound(ups[u])
    BY UpsTyped DEF QueueInv, TypeOK, Current, Sound
  <2> QED BY <2>1 DEF OpenGate
<1>2. r \in Coordinators /\ r.st = v.st /\ r.queue = v.queue /\ UnknownDays(r) = UnknownDays(v) /\ r.open
  BY <1>1 DEF Coordinators, UnknownDays
<1>3. Put(Current, r) BY DEF OpenGate
<1> HIDE DEF r
<1>4. Sound(r) /\ r # v BY <1>1, <1>2 DEF Sound
<1>5. /\ disk' = disk /\ quar' = quar /\ held' = held /\ sealed' = sealed /\ faults' \in 0..MaxFaults
  BY CostsTyped DEF OpenGate
<1> QED BY <1>1, <1>3, <1>4, <1>5, QuietStep

LEMMA ReplaceStep ==
  ASSUME QueueInv, Replace
  PROVE  QueueInv' /\ KeepsAll
<1>1. PICK j \in Journals : ups' = Append([ups EXCEPT ![Current].cancel = TRUE], Fresh(j, FALSE))
  BY DEF Replace
<1>2. /\ Current < MaxUploaders /\ disk' = disk /\ quar' = quar /\ held' = held
      /\ sealed' = sealed /\ faults' = faults
  BY DEF Replace
<1> DEFINE v == ups[Current]
<1> DEFINE r == [v EXCEPT !.cancel = TRUE]
<1> DEFINE old == [ups EXCEPT ![Current] = r]
<1>3. /\ Current \in DOMAIN ups /\ ups \in Seq(Coordinators) /\ DOMAIN ups = 1..Len(ups)
      /\ \A u \in DOMAIN ups : ups[u] \in Coordinators /\ Sound(ups[u])
  BY UpsTyped DEF QueueInv, TypeOK, Current, Sound
<1>4. [ups EXCEPT ![Current].cancel = TRUE] = old OBVIOUS
<1>5. r \in Coordinators /\ r.st = v.st /\ r.queue = v.queue /\ UnknownDays(r) = UnknownDays(v)
  BY <1>3 DEF Coordinators, UnknownDays
<1> HIDE DEF r
<1>6. Sound(r) BY <1>3, <1>5 DEF Sound
<1>7. old \in Seq(Coordinators) /\ Len(old) = Len(ups) /\ DOMAIN old = DOMAIN ups
  BY <1>3, <1>5, ExceptSeq
<1>8. \A u \in DOMAIN old : Sound(old[u]) BY <1>3, <1>6
<1>9. ups' = Append(old, Fresh(j, FALSE)) BY <1>1, <1>4
<1> HIDE DEF old
<1>10. Fresh(j, FALSE) \in Coordinators /\ Sound(Fresh(j, FALSE)) BY FreshTyped
<1> QED BY <1>2, <1>7, <1>8, <1>9, <1>10, JoinStep

LEMMA CrashStep ==
  ASSUME QueueInv, CrashAndResume
  PROVE  QueueInv' /\ KeepsAll
<1> DEFINE old == [u \in DOMAIN ups |-> [ups[u] EXCEPT !.st = "done", !.cancel = TRUE]]
<1> DEFINE f == Fresh(ups[Current].j, ups[Current].open)
<1>1. /\ Current < MaxUploaders /\ Costs /\ ups' = Append(old, f)
      /\ disk' = disk /\ quar' = quar /\ held' = held /\ sealed' = sealed
  BY DEF CrashAndResume
<1>2. /\ Current \in DOMAIN ups /\ Len(ups) \in Nat /\ DOMAIN ups = 1..Len(ups)
      /\ \A u \in DOMAIN ups : ups[u] \in Coordinators
  BY UpsTyped DEF QueueInv, TypeOK, Current
<1>3. \A u \in DOMAIN ups : old[u] \in Coordinators /\ old[u].st = "done" BY <1>2 DEF Coordinators
<1>4. old \in [1..Len(ups) -> Coordinators] BY <1>2, <1>3
<1>5. old \in Seq(Coordinators) /\ Len(old) = Len(ups) BY <1>2, <1>4, FunctionSeq
<1>8. \A u \in DOMAIN old : Sound(old[u]) BY <1>3 DEF Sound
<1>9. ups[Current].j \in Journals /\ ups[Current].open \in BOOLEAN BY <1>2 DEF Coordinators
<1>10. f \in Coordinators /\ Sound(f) BY <1>9, FreshTyped
<1> HIDE DEF old, f
<1> QED BY <1>1, <1>5, <1>8, <1>10, JoinStep

(* A recording is sealed.                                                   *)
LEMMA SealStep ==
  ASSUME QueueInv, SealWindow
  PROVE  QueueInv' /\ KeepsAll
<1>1. quar' = quar /\ ups' = ups /\ held' = held /\ faults' = faults BY DEF SealWindow
<1>2. PICK w \in Windows, p \in Parts :
        /\ sealed' = sealed \cup {<<w, p>>}
        /\ \/ /\ ~disk[w].here
              /\ \E k \in Keys :
                   disk' = [disk EXCEPT ![w] = [here |-> TRUE, parts |-> {p}, key |-> k, ack |-> NoAck]]
           \/ /\ disk[w].here
              /\ disk' = [disk EXCEPT ![w].parts = @ \cup {p}, ![w].key = "full", ![w].ack = NoAck]
  BY DEF SealWindow
<1>3. /\ Placed(disk) /\ AcksHeld /\ Accounted /\ sealed \subseteq Windows \X Parts
      /\ disk[w] \in Dirs
  BY DEF QueueInv, TypeOK, Placed
<1>4. PICK e \in Dirs : /\ e.here /\ e.ack = NoAck /\ p \in e.parts /\ disk[w].parts \subseteq e.parts
                        /\ disk' = [disk EXCEPT ![w] = e]
  <2>1. ASSUME NEW k \in Keys, ~disk[w].here,
               disk' = [disk EXCEPT ![w] = [here |-> TRUE, parts |-> {p}, key |-> k, ack |-> NoAck]]
        PROVE  \E e \in Dirs : /\ e.here /\ e.ack = NoAck /\ p \in e.parts /\ disk[w].parts \subseteq e.parts
                               /\ disk' = [disk EXCEPT ![w] = e]
    <3> DEFINE e == [here |-> TRUE, parts |-> {p}, key |-> k, ack |-> NoAck]
    <3>1. e \in Dirs BY DirTyped DEF Dirs
    <3>2. disk[w].parts = {} BY <1>3, <2>1, DirTyped DEF Placed
    <3> QED BY <2>1, <3>1, <3>2
  <2>2. ASSUME disk' = [disk EXCEPT ![w].parts = @ \cup {p}, ![w].key = "full", ![w].ack = NoAck],
               disk[w].here
        PROVE  \E e \in Dirs : /\ e.here /\ e.ack = NoAck /\ p \in e.parts /\ disk[w].parts \subseteq e.parts
                               /\ disk' = [disk EXCEPT ![w] = e]
    <3> DEFINE d == disk[w]
    <3> DEFINE e == [d EXCEPT !.parts = d.parts \cup {p}, !.key = "full", !.ack = NoAck]
    <3>1. disk' = [disk EXCEPT ![w] = e] BY <1>3, <2>2 DEF Placed, Dirs
    <3>2. d \in Dirs /\ d.here BY <1>3, <2>2
    <3> HIDE DEF d
    <3>3. e \in Dirs /\ e.here /\ e.ack = NoAck /\ e.parts = d.parts \cup {p}
      BY <3>2, DirTyped DEF Dirs, Keys
    <3> HIDE DEF e
    <3>4. p \in e.parts /\ disk[w].parts \subseteq e.parts BY <3>3 DEF d
    <3> QED BY <3>1, <3>3, <3>4
  <2> QED BY <1>2, <2>1, <2>2
<1>5. \A v \in Windows : disk'[v] = IF v = w THEN e ELSE disk[v] BY <1>3, <1>4 DEF Placed
<1>6. Placed(disk') BY <1>3, <1>4, <1>5 DEF Placed
<1>7. TypeOK' BY <1>1, <1>2, <1>6 DEF QueueInv, TypeOK, Placed, Current, UnknownDays
<1>8. \A v \in Windows : Truthful(held', v, disk'[v]) BY <1>1, <1>3, <1>4, <1>5 DEF AcksHeld, Truthful
<1>9. AcksHeld' BY <1>1, <1>3, <1>8 DEF AcksHeld, Truthful
<1>10. OnDisk \subseteq OnDisk' /\ InQuarantine' = InQuarantine /\ <<w, p>> \in OnDisk'
  <2>1. InQuarantine' = InQuarantine BY <1>1 DEF InQuarantine, SetAside
  <2>2. \A v \in Windows : disk[v].parts \subseteq disk'[v].parts BY <1>4, <1>5
  <2>3. p \in disk'[w].parts BY <1>4, <1>5
  <2>4. OnDisk \subseteq OnDisk' BY <2>2 DEF OnDisk, Units
  <2>5. <<w, p>> \in OnDisk' BY <2>3 DEF OnDisk, Units
  <2> QED BY <2>1, <2>4, <2>5
<1>11. Accounted' BY <1>1, <1>2, <1>3, <1>10 DEF Accounted
<1>12. KeepsAll BY <1>10 DEF KeepsAll
<1> QED BY <1>7, <1>9, <1>11, <1>12 DEF QueueInv

----------------------------------------------------------------------------
(* The invariant and the theorems.                                          *)

LEMMA QueueInit ==
  ASSUME Init
  PROVE  QueueInv
<1>1. FirstJournal \in Journals /\ MaxUploaders \in Nat \ {0} /\ MaxFaults \in Nat
  BY QueueAssumption DEF QueueAssumption
<1> DEFINE f == Fresh(FirstJournal, TRUE)
<1>2. f \in Coordinators /\ Sound(f) BY <1>1, FreshTyped
<1>3. ups = <<f>> BY DEF Init
<1> HIDE DEF f
<1>4. ups \in Seq(Coordinators) /\ Len(ups) = 1 /\ DOMAIN ups = {1} /\ ups[1] = f BY <1>2, <1>3
<1>5. disk \in [Windows -> Dirs] /\ \A w \in Windows : disk[w] = NoDir BY DirTyped DEF Init
<1>6. TypeOK
  <2>1. \A w \in Windows : ~disk[w].here => disk[w] = NoDir BY <1>5
  <2>2. quar \subseteq [w : Windows, d : Dirs, by : Journals] /\ sealed \subseteq Windows \X Parts
    BY DEF Init
  <2>3. held \in [Journals -> SUBSET (Windows \X Parts)] BY DEF Init
  <2>4. faults \in 0..MaxFaults /\ Current \in 1..MaxUploaders BY <1>1, <1>4 DEF Init, Current
  <2>5. \A u \in DOMAIN ups : Sound(ups[u]) BY <1>2, <1>4
  <2> QED BY <1>4, <1>5, <2>1, <2>2, <2>3, <2>4, <2>5 DEF TypeOK, Sound
<1>7. AcksHeld BY <1>5, DirTyped DEF Init, AcksHeld
<1>8. Accounted BY DEF Init, Accounted
<1> QED BY <1>6, <1>7, <1>8 DEF QueueInv

LEMMA UploaderKeeps ==
  ASSUME QueueInv, NEW u, Uploader(u)
  PROVE  QueueInv' /\ KeepsAll
<1>1. CASE Answer(u)
  BY <1>1, ConfirmedStep, ConfirmedFailsStep, UncertainStep, RejectedStep, RemovedStep,
     TickFailsStep, ListedStep, ListingRefusedStep DEF Answer
<1>2. CASE ~Answer(u)
  BY <1>2, BeginStep, BeginFailsStep, PassStep, PostStep, LoopEndsStep, TimePassesStep, LeavesStep
     DEF Uploader
<1> QED BY <1>1, <1>2

(* A step of the system, and one that changes nothing.                      *)
LEMMA NextKeeps ==
  ASSUME QueueInv, Next
  PROVE  QueueInv' /\ KeepsAll
  BY UploaderKeeps, OpenGateStep, ReplaceStep, CrashStep, SealStep DEF Next

LEMMA StutterKeeps ==
  ASSUME QueueInv, UNCHANGED vars
  PROVE  QueueInv'
<1>1. TypeOK' BY DEF QueueInv, TypeOK, Current, UnknownDays, vars
<1>2. AcksHeld' BY DEF QueueInv, AcksHeld, Truthful, vars
<1>3. Accounted' BY DEF QueueInv, Accounted, OnDisk, InQuarantine, SetAside, vars
<1> QED BY <1>1, <1>2, <1>3 DEF QueueInv

(* Every state of the queue satisfies the invariant, whatever order ticks,  *)
(* answers, replacements, crashes and seals come in.                        *)
THEOREM QueueInvariant == Spec => []QueueInv
<1>1. Init => QueueInv BY QueueInit
<1>2. QueueInv /\ [Next]_vars => QueueInv' BY NextKeeps, StutterKeeps
<1> QED BY <1>1, <1>2, PTL DEF Spec

(* Every uploader, directory and quarantined directory keeps its shape.     *)
THEOREM QueueTypeCorrect == Spec => []TypeOK
<1>1. QueueInv => TypeOK BY DEF QueueInv
<1> QED BY <1>1, QueueInvariant, PTL

(* No sealed recording is ever lost: it is in its directory, in quarantine, *)
(* or a journal has it.                                                     *)
THEOREM NothingIsLost == Spec => []Accounted
<1>1. QueueInv => Accounted BY DEF QueueInv
<1> QED BY <1>1, QueueInvariant, PTL

(* The step property the queue's run checks: a recording leaves this        *)
(* computer only while the journal of an uploader that acts in the step has *)
(* it, for any number of pairings, overlapping uploaders and faults.        *)
THEOREM LeavesOnlyWhenHeld == Spec => GoneOnlyWhenHeld
<1>1. QueueInv /\ [Next]_vars => [KeepsAll]_vars BY NextKeeps
<1> QED BY <1>1, QueueInvariant, PTL DEF Spec, GoneOnlyWhenHeld, KeepsAll

=============================================================================
