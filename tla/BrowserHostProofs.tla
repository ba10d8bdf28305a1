------------------------- MODULE BrowserHostProofs -------------------------
(***************************************************************************)
(* Proofs about BrowserHost and its store, for any batches, file and spool  *)
(* bounds, period ids and number of faults: what was accepted is kept, the  *)
(* receipts are true, the spool stays within its bound, and the store is a  *)
(* custody.                                                                 *)
(*                                                                          *)
(* The state between two file operations is what has to be described: Sound *)
(* says how open/, outbox/, the staged copies and the receipts fit together *)
(* wherever a process was killed, and every file operation is shown to move *)
(* from one sound store to another (Moves).  The calls follow by composing  *)
(* outcomes, and load's and discard_waiting's loops by LoopIn.  The bound   *)
(* needs a quantity that only a commit raises: Room, which counts a batch's *)
(* later copy and receipt from the moment its file is written.              *)
(***************************************************************************)
EXTENDS BrowserHost, FiniteSetTheorems, WellFoundedInduction, TLAPS

(* The batches of an open period, of an outbox entry, of the disk.          *)
OpenOf(s, p) == BatchesOf(s.open[p].files)
PagesOf(s, p) == BatchesOf(s.out[p].pages)
DiskOf(s) == UNION {OpenOf(s, p) \cup PagesOf(s, p) : p \in Periods}

(* A directory that still has batches has its period.json; an entry with    *)
(* neither period.json nor mark is gone (remove_payload_dir's order).       *)
Shape(s) ==
  \A p \in Periods :
    /\ ~s.open[p].meta => s.open[p].files = {}
    /\ ~s.out[p].meta => s.out[p].pages = {}
    /\ s.out[p].mark = "none" /\ ~s.out[p].meta => s.out[p] = NoEntry

(* The current period is not in the outbox yet, and later ids are unused.   *)
Fresh(s) ==
  /\ s.out[s.cur] = NoEntry /\ s.cur \notin s.staged
  /\ \A p \in Periods : p > s.cur => s.open[p] = NoDir /\ s.out[p] = NoEntry /\ p \notin s.staged

(* has_dir says whether the current period's directory exists.              *)
Based(s) == IF s.has THEN s.open[s.cur].meta ELSE s.open[s.cur] = NoDir

(* A mark stands for what happened: all its batches are with a journal, or  *)
(* the owner has discarded them.                                            *)
MarksHold(s, J, D) ==
  \A p \in Periods :
    /\ s.out[p].mark = "Delivered" => PagesOf(s, p) \subseteq J
    /\ s.out[p].mark = "Discarded" => PagesOf(s, p) \subseteq D

(* So does a receipt that has ended.                                        *)
Told(s, J, D) ==
  \A b \in Batches :
    /\ s.rcpt[b].state = "Delivered" => b \in J
    /\ s.rcpt[b].state = "Discarded" => b \in D

(* A period in both places: each batch left in its open directory has a     *)
(* receipt, and is in the outbox too unless it is gone for good.            *)
Copied(s, J, D) ==
  \A p \in Periods : s.out[p] # NoEntry =>
    \A b \in OpenOf(s, p) : s.rcpt[b] # NoReceipt /\ b \in PagesOf(s, p) \cup J \cup D

(* A pending receipt points to where the batch is.                          *)
Placed(s) ==
  \A b \in Batches, p \in Periods : s.rcpt[b] = [period |-> p, state |-> "Pending"] =>
    IF s.out[p] = NoEntry THEN b \in OpenOf(s, p) ELSE b \in PagesOf(s, p)

(* A batch is in at most one open period, the one its receipt names.        *)
OpenOwned(s) ==
  /\ \A p \in Periods : \A b \in OpenOf(s, p) : s.rcpt[b] = NoReceipt \/ s.rcpt[b].period = p
  /\ \A p, q \in Periods : \A b \in OpenOf(s, p) \cap OpenOf(s, q) : p = q

(* A finalized batch has a receipt for that period, pending while the entry *)
(* is unmarked.                                                             *)
PagesOwned(s) ==
  \A p \in Periods : \A b \in PagesOf(s, p) :
    s.rcpt[b].period = p /\ (s.out[p].mark = "none" => s.rcpt[b].state = "Pending")

(* A staged copy is of a period not in the outbox, none of whose batches    *)
(* has ended.                                                               *)
StagedPend(s) ==
  \A p \in s.staged : s.out[p] = NoEntry /\ \A b \in OpenOf(s, p) : s.rcpt[b].state \notin Ended

(* What holds of the directories at every instant, crashes included, where  *)
(* J is what journals have stored and D what the owner has discarded.       *)
Sound(s, J, D) ==
  /\ Shape(s) /\ Fresh(s) /\ MarksHold(s, J, D) /\ Told(s, J, D) /\ Copied(s, J, D)
  /\ Placed(s) /\ OpenOwned(s) /\ PagesOwned(s) /\ StagedPend(s)

(* Every open batch has a receipt: true between calls once load has run.    *)
Repaired(s) == \A p \in Periods : \A b \in OpenOf(s, p) : s.rcpt[b] # NoReceipt

(* The open files that a finalization will still copy, the batches with a   *)
(* receipt or a file that will get one, and the directories of any kind.    *)
ToCopy(s) == UNION {{p} \X {f \in s.open[p].files : s.out[p] = NoEntry /\ s.rcpt[f[2]].state \notin Ended} : p \in Periods}
Listed(s) == {b \in Batches : s.rcpt[b] # NoReceipt \/ \E p \in Periods : b \in OpenOf(s, p)}
Dirs(s) == InOpenDir(s) \cup InOutbox(s) \cup s.staged

(* The space the store takes or is sure to take: a batch counts its copy    *)
(* and its receipt from the moment it is written, so that neither a         *)
(* finalization nor a repair raises it, and only a commit does.             *)
Room(s) == Cardinality(OpenFiles(s, Periods)) + Cardinality(ToCopy(s)) + Cardinality(Finalized(s))
            + Cardinality(Listed(s)) + Cardinality(Dirs(s))

(* From s to t nothing appears, and only what J or D has disappears.        *)
Lets(s, t, J, D) == DiskOf(t) \subseteq DiskOf(s) /\ DiskOf(s) \subseteq DiskOf(t) \cup J \cup D

(* t takes no more than s in any of the sets that Room counts.              *)
Slim(s, t) ==
  /\ OpenFiles(t, Periods) \subseteq OpenFiles(s, Periods) /\ ToCopy(t) \subseteq ToCopy(s)
  /\ Finalized(t) \subseteq Finalized(s) /\ Listed(t) \subseteq Listed(s) /\ Dirs(t) \subseteq Dirs(s)

(* What one file operation of a finalization, a delivery, a discard or a    *)
(* recovery does to a sound store.                                          *)
Moves(s, t, J, D) ==
  /\ t \in Stores /\ Sound(t, J, D) /\ Lets(s, t, J, D) /\ Room(t) <= Room(s)
  /\ t.cur = s.cur /\ WithReceipt(s) \subseteq WithReceipt(t)
  /\ \A q \in Periods : t.open[q].files \subseteq s.open[q].files
  /\ \A q \in Periods : s.open[q] = NoDir => t.open[q] = NoDir

(* The invariant of the host: the store is sound, it is repaired while a    *)
(* loaded store serves, an entry being sent is unmarked, and its Room fits  *)
(* the bound.                                                               *)
HostInv ==
  /\ Sound(store, journal, dropped) /\ Based(store)
  /\ up /\ ~failed => Repaired(store)
  /\ ~up \/ failed => ~store.has
  /\ failed => up
  /\ sending # 0 => up /\ ~failed /\ store.out[sending].meta /\ store.out[sending].mark = "none"
  /\ Room(store) <= SpoolMax

----------------------------------------------------------------------------
(* Period ids are positive.                                                 *)
LEMMA PeriodIds == Periods \subseteq Nat \ {0}
BY BrowserAssumption DEF Periods

(* Fewer files hold no more batches.                                        *)
LEMMA BatchesOfSub ==
  ASSUME NEW A, NEW B, A \subseteq B
  PROVE  BatchesOf(A) \subseteq BatchesOf(B)
BY DEF BatchesOf

(* The types of a store's fields.                                           *)
LEMMA StoreFields ==
  ASSUME NEW s \in Stores
  PROVE  /\ s.open \in [Periods -> [meta : BOOLEAN, files : Files]]
         /\ s.out \in [Periods -> [meta : BOOLEAN, pages : Files, mark : {"none"} \cup Ended]]
         /\ s.staged \subseteq Periods
         /\ s.rcpt \in [Batches -> {NoReceipt} \cup [period : Periods, state : {"Pending"} \cup Ended]]
         /\ s.cur \in Periods /\ s.has \in BOOLEAN /\ s.bytes \in 0..FileMax
         /\ s.ctx \in BOOLEAN /\ s.due \in BOOLEAN /\ s.full \in BOOLEAN
BY DEF Stores

(* A batch has no receipt, or one of a period that is pending or has ended. *)
LEMMA ReceiptCases ==
  ASSUME NEW s \in Stores, NEW b \in Batches
  PROVE  \/ s.rcpt[b] = NoReceipt
         \/ \E p \in Periods, st \in {"Pending", "Discarded", "Delivered"} : s.rcpt[b] = [period |-> p, state |-> st]
<1>1. s.rcpt[b] \in {NoReceipt} \cup [period : Periods, state : {"Pending"} \cup Ended]
  BY StoreFields
<1> QED BY <1>1 DEF Ended

(* What a period holds is batches.                                          *)
LEMMA OpenInBatches ==
  ASSUME NEW s \in Stores, NEW p \in Periods
  PROVE  OpenOf(s, p) \subseteq Batches /\ PagesOf(s, p) \subseteq Batches
<1>1. s.open[p].files \in Files /\ s.out[p].pages \in Files
  BY StoreFields
<1> QED BY <1>1 DEF Files, OpenOf, PagesOf, BatchesOf

(* What is on the disk is in some period's directory.                       *)
LEMMA DiskIs ==
  ASSUME NEW s, NEW b
  PROVE  b \in DiskOf(s) <=> \E p \in Periods : b \in OpenOf(s, p) \/ b \in PagesOf(s, p)
BY DEF DiskOf

(* The sets the capacity counts are finite.                                 *)
LEMMA FinitePeriods == IsFiniteSet(Periods)
BY FS_Interval, BrowserAssumption DEF Periods

(* So are a period's possible files.                                        *)
LEMMA FiniteFiles == IsFiniteSet((1..FileMax) \X Batches)
<1>1. IsFiniteSet(1..FileMax) /\ IsFiniteSet(Batches)
  BY FS_Interval, BrowserAssumption
<1> QED BY <1>1, FS_Product, Zenon

(* The size of a union.                                                     *)
LEMMA CardUnion ==
  ASSUME NEW A, NEW B, IsFiniteSet(A), IsFiniteSet(B)
  PROVE  /\ Cardinality(A \cup B) <= Cardinality(A) + Cardinality(B)
         /\ A \cap B = {} => Cardinality(A \cup B) = Cardinality(A) + Cardinality(B)
<1>1. Cardinality(A \cup B) = Cardinality(A) + Cardinality(B) - Cardinality(A \cap B)
  BY FS_Union
<1>2. IsFiniteSet(A \cap B)
  BY FS_Subset
<1>3. Cardinality(A) \in Nat /\ Cardinality(B) \in Nat /\ Cardinality(A \cap B) \in Nat
  BY <1>2, FS_CardinalityType
<1>4. A \cap B = {} => Cardinality(A \cap B) = 0
  BY FS_EmptySet
<1> QED BY <1>1, <1>3, <1>4

(* What Room counts is finite.                                              *)
LEMMA RoomSets ==
  ASSUME NEW s \in Stores
  PROVE  /\ IsFiniteSet(OpenFiles(s, Periods)) /\ IsFiniteSet(ToCopy(s)) /\ IsFiniteSet(Finalized(s))
         /\ IsFiniteSet(Listed(s)) /\ IsFiniteSet(Dirs(s))
<1> USE StoreFields
<1> DEFINE All == Periods \X ((1..FileMax) \X Batches)
<1>1. IsFiniteSet(All)
  BY FinitePeriods, FiniteFiles, FS_Product
<1>2. OpenFiles(s, Periods) \subseteq All /\ ToCopy(s) \subseteq All /\ Finalized(s) \subseteq All
  BY DEF OpenFiles, ToCopy, Finalized, Files
<1>3. Listed(s) \subseteq Batches /\ Dirs(s) \subseteq Periods
  BY DEF Listed, Dirs, InOpenDir, InOutbox
<1> QED BY <1>1, <1>2, <1>3, FinitePeriods, BrowserAssumption, FS_Subset

(* Room is a number.                                                        *)
LEMMA RoomNat == ASSUME NEW s \in Stores PROVE Room(s) \in Nat
<1> DEFINE a == Cardinality(OpenFiles(s, Periods)) b == Cardinality(ToCopy(s)) c == Cardinality(Finalized(s))
           d == Cardinality(Listed(s)) e == Cardinality(Dirs(s))
<1>1. a \in Nat /\ b \in Nat /\ c \in Nat /\ d \in Nat /\ e \in Nat
  BY RoomSets, FS_CardinalityType
<1>2. Room(s) = a + b + c + d + e
  BY DEF Room
<1> HIDE DEF a, b, c, d, e
<1> QED BY <1>1, <1>2

(* Fewer of everything takes no more room.                                  *)
LEMMA SlimRoom ==
  ASSUME NEW s \in Stores, NEW t \in Stores, Slim(s, t)
  PROVE  Room(t) <= Room(s)
<1> DEFINE a(u) == Cardinality(OpenFiles(u, Periods)) b(u) == Cardinality(ToCopy(u)) c(u) == Cardinality(Finalized(u))
           d(u) == Cardinality(Listed(u)) e(u) == Cardinality(Dirs(u))
<1>1. \A u \in {s, t} : a(u) \in Nat /\ b(u) \in Nat /\ c(u) \in Nat /\ d(u) \in Nat /\ e(u) \in Nat
  BY RoomSets, FS_CardinalityType
<1>2. a(t) <= a(s) /\ b(t) <= b(s) /\ c(t) <= c(s) /\ d(t) <= d(s) /\ e(t) <= e(s)
  BY RoomSets, FS_Subset DEF Slim
<1>3. Room(s) = a(s) + b(s) + c(s) + d(s) + e(s) /\ Room(t) = a(t) + b(t) + c(t) + d(t) + e(t)
  BY DEF Room
<1> HIDE DEF a, b, c, d, e
<1> QED BY <1>1, <1>2, <1>3

(* File operations compose.                                                 *)
LEMMA MovesTrans ==
  ASSUME NEW s \in Stores, NEW t, NEW u, NEW J, NEW D, Moves(s, t, J, D), Moves(t, u, J, D)
  PROVE  Moves(s, u, J, D)
<1>1. Room(u) <= Room(s)
  BY RoomNat DEF Moves
<1>2. Lets(s, u, J, D)
  BY DEF Moves, Lets
<1> QED BY <1>1, <1>2 DEF Moves

(* Doing nothing is one.                                                    *)
LEMMA MovesSelf ==
  ASSUME NEW s \in Stores, NEW J, NEW D, Sound(s, J, D)
  PROVE  Moves(s, s, J, D)
BY RoomNat DEF Moves, Lets

(* Removing files of one open period.                                       *)
LEMMA LessOpen ==
  ASSUME NEW s \in Stores, NEW t \in Stores, NEW J, NEW D, NEW p \in Periods,
         Sound(s, J, D),
         t.out = s.out, t.staged = s.staged, t.rcpt = s.rcpt, t.cur = s.cur,
         \A q \in Periods \ {p} : t.open[q] = s.open[q],
         t.open[p].files \subseteq s.open[p].files,
         t.open[p] = NoDir \/ t.open[p].meta = s.open[p].meta,
         s.out[p] = NoEntry => \A b \in OpenOf(s, p) \ OpenOf(t, p) : s.rcpt[b].state \in Ended
  PROVE  Moves(s, t, J, D)
<1> USE StoreFields
<1>0. \A q \in Periods : OpenOf(t, q) \subseteq OpenOf(s, q) /\ PagesOf(t, q) = PagesOf(s, q)
  BY BatchesOfSub DEF OpenOf, PagesOf
<1>1. Shape(t)
  <2> SUFFICES ASSUME NEW q \in Periods, ~t.open[q].meta PROVE t.open[q].files = {}
    BY DEF Sound, Shape
  <2>1. CASE t.open[q] = NoDir
    BY <2>1 DEF NoDir
  <2>2. CASE t.open[q] # NoDir
    BY <2>2 DEF Sound, Shape
  <2> QED BY <2>1, <2>2
<1>a. ASSUME NEW q \in Periods, s.open[q] = NoDir PROVE t.open[q] = NoDir
  <2>1. CASE q = p /\ t.open[p] # NoDir
    <3>1. t.open[p].files = {} /\ t.open[p].meta = FALSE
      BY <1>a, <2>1 DEF NoDir
    <3> QED BY <3>1, <2>1 DEF NoDir
  <2> QED BY <2>1, <1>a
<1>2. Fresh(t)
  BY <1>a DEF Sound, Fresh
<1>3. MarksHold(t, J, D) /\ Told(t, J, D)
  BY <1>0 DEF Sound, MarksHold, Told
<1>4. Copied(t, J, D)
  BY <1>0 DEF Sound, Copied
<1>5. Placed(t)
  <2> SUFFICES ASSUME NEW b \in Batches, NEW q \in Periods, s.rcpt[b] = [period |-> q, state |-> "Pending"]
               PROVE  IF s.out[q] = NoEntry THEN b \in OpenOf(t, q) ELSE b \in PagesOf(t, q)
    BY DEF Placed
  <2>1. IF s.out[q] = NoEntry THEN b \in OpenOf(s, q) ELSE b \in PagesOf(s, q)
    BY DEF Sound, Placed
  <2>2. CASE q # p
    BY <2>1, <2>2, <1>0 DEF OpenOf
  <2>3. CASE q = p
    <3>1. s.rcpt[b].state \notin Ended
      BY DEF Ended
    <3> QED BY <2>1, <2>3, <3>1, <1>0
  <2> QED BY <2>2, <2>3
<1>6. OpenOwned(t) /\ PagesOwned(t)
  BY <1>0 DEF Sound, OpenOwned, PagesOwned
<1>7. StagedPend(t)
  BY <1>0 DEF Sound, StagedPend, NoDir
<1>8. Lets(s, t, J, D)
  <2>1. DiskOf(t) \subseteq DiskOf(s)
    BY <1>0, DiskIs
  <2>2. ASSUME NEW b \in DiskOf(s), b \notin DiskOf(t) PROVE b \in J \cup D
    <3>1. b \in OpenOf(s, p) \ OpenOf(t, p) /\ b \notin PagesOf(s, p) /\ b \in Batches
      BY <2>2, <1>0, DiskIs, OpenInBatches DEF OpenOf
    <3> QED BY <3>1 DEF Sound, Copied, Told, Ended
  <2> QED BY <2>1, <2>2 DEF Lets
<1>9. Slim(s, t)
  <2>1. Dirs(t) \subseteq Dirs(s)
    BY <1>a DEF Dirs, InOpenDir, InOutbox
  <2>2. OpenFiles(t, Periods) \subseteq OpenFiles(s, Periods) /\ ToCopy(t) \subseteq ToCopy(s) /\ Finalized(t) = Finalized(s)
    <3>1. \A q \in Periods : t.open[q].files \subseteq s.open[q].files
      OBVIOUS
    <3> QED BY <3>1 DEF OpenFiles, ToCopy, Finalized
  <2>3. Listed(t) \subseteq Listed(s)
    BY <1>0 DEF Listed
  <2> QED BY <2>1, <2>2, <2>3 DEF Slim
<1> QED BY <1>1, <1>2, <1>3, <1>4, <1>5, <1>6, <1>7, <1>8, <1>9, <1>a, SlimRoom DEF Sound, Moves, WithReceipt

----------------------------------------------------------------------------
(* A receipt that waits for period p to end.                                *)
Pending(p) == [period |-> p, state |-> "Pending"]

(* Some batches get a receipt.                                              *)
Gives(s, t, d, to) ==
  /\ t.open = s.open /\ t.out = s.out /\ t.staged = s.staged /\ t.cur = s.cur /\ t.has = s.has
  /\ \A b \in Batches : t.rcpt[b] = IF b \in d THEN to ELSE s.rcpt[b]

(* Receipts of one period end.                                              *)
LEMMA ReceiptsEnd ==
  ASSUME NEW s \in Stores, NEW t \in Stores, NEW J, NEW D, NEW p \in Periods, NEW st \in Ended,
         NEW d \in SUBSET Batches, NEW to, to = [period |-> p, state |-> st], Sound(s, J, D),
         Gives(s, t, d, to),
         \A b \in d : s.rcpt[b] = Pending(p),
         st = "Delivered" => d \subseteq J, st = "Discarded" => d \subseteq D,
         s.out[p] = NoEntry \/ s.out[p].mark # "none", p \notin s.staged
  PROVE  Moves(s, t, J, D)
<1> USE StoreFields, PeriodIds DEF Gives
<1>0. \A q \in Periods : OpenOf(t, q) = OpenOf(s, q) /\ PagesOf(t, q) = PagesOf(s, q)
  BY DEF OpenOf, PagesOf
<1>r. \A b \in Batches : /\ b \in d => t.rcpt[b] = [period |-> p, state |-> st]
                         /\ b \notin d => t.rcpt[b] = s.rcpt[b]
  OBVIOUS
<1>s. \A b \in Batches : /\ t.rcpt[b].period = s.rcpt[b].period
                         /\ t.rcpt[b] = NoReceipt <=> s.rcpt[b] = NoReceipt
                         /\ b \notin d => t.rcpt[b].state = s.rcpt[b].state
                         /\ b \in d => t.rcpt[b].state = st /\ s.rcpt[b].state = "Pending"
  BY <1>r DEF NoReceipt, Pending
<1>1. Shape(t) /\ Fresh(t)
  BY DEF Sound, Shape, Fresh
<1>2. MarksHold(t, J, D)
  BY <1>0 DEF Sound, MarksHold
<1>3. Told(t, J, D)
  BY <1>s DEF Sound, Told, Ended
<1>4. Copied(t, J, D)
  BY <1>0, <1>s, OpenInBatches DEF Sound, Copied
<1>5. Placed(t)
  <2> SUFFICES ASSUME NEW b \in Batches, NEW q \in Periods, t.rcpt[b] = [period |-> q, state |-> "Pending"]
               PROVE  IF s.out[q] = NoEntry THEN b \in OpenOf(s, q) ELSE b \in PagesOf(s, q)
    BY <1>0 DEF Placed
  <2>1. b \notin d
    BY <1>s DEF Ended
  <2> QED BY <2>1, <1>r DEF Sound, Placed
<1>6. OpenOwned(t)
  BY <1>0, <1>s, OpenInBatches DEF Sound, OpenOwned
<1>7. PagesOwned(t)
  <2> SUFFICES ASSUME NEW q \in Periods, NEW b \in PagesOf(s, q)
               PROVE  t.rcpt[b].period = q /\ (s.out[q].mark = "none" => t.rcpt[b].state = "Pending")
    BY <1>0 DEF PagesOwned
  <2>1. b \in Batches
    BY OpenInBatches
  <2>2. s.rcpt[b].period = q /\ (s.out[q].mark = "none" => s.rcpt[b].state = "Pending")
    BY DEF Sound, PagesOwned
  <2>3. ASSUME b \in d PROVE s.out[q].mark # "none"
    <3>1. q = p
      BY <2>2, <2>3 DEF Pending
    <3>2. s.out[p] # NoEntry
      BY <3>1 DEF NoEntry, PagesOf, BatchesOf
    <3> QED BY <3>1, <3>2
  <2> QED BY <2>1, <2>2, <2>3, <1>s
<1>8. StagedPend(t)
  <2> SUFFICES ASSUME NEW q \in s.staged, NEW b \in OpenOf(s, q)
               PROVE  t.rcpt[b].state \notin Ended
    BY <1>0 DEF Sound, StagedPend
  <2>1. b \in Batches /\ q \in Periods
    BY OpenInBatches
  <2>2. s.rcpt[b].state \notin Ended /\ (s.rcpt[b] = NoReceipt \/ s.rcpt[b].period = q)
    BY <2>1 DEF Sound, StagedPend, OpenOwned
  <2>3. b \notin d
    BY <2>1, <2>2 DEF Pending, NoReceipt
  <2> QED BY <2>1, <2>2, <2>3, <1>s
<1>9. Lets(s, t, J, D)
  BY <1>0, DiskIs DEF Lets
<1>10. Slim(s, t)
  <2>1. ToCopy(t) \subseteq ToCopy(s)
    <3>1. \A q \in Periods : \A f \in s.open[q].files : f[2] \in Batches
      BY DEF Files
    <3>2. \A b \in Batches : t.rcpt[b].state \notin Ended => s.rcpt[b].state \notin Ended
      BY <1>s
    <3> QED BY <3>1, <3>2 DEF ToCopy
  <2>2. Listed(t) \subseteq Listed(s)
    BY <1>0, <1>s DEF Listed
  <2> QED BY <2>1, <2>2 DEF Slim, OpenFiles, Finalized, Dirs, InOpenDir, InOutbox
<1>11. WithReceipt(s) \subseteq WithReceipt(t)
  BY <1>s DEF WithReceipt
<1> QED BY <1>1, <1>2, <1>3, <1>4, <1>5, <1>6, <1>7, <1>8, <1>9, <1>10, <1>11, SlimRoom DEF Sound, Moves

(* A finished entry is removed, in any of its stages.                       *)
LEMMA LessOut ==
  ASSUME NEW s \in Stores, NEW t \in Stores, NEW J, NEW D, NEW p \in Periods,
         Sound(s, J, D),
         t.open = s.open, t.staged = s.staged, t.rcpt = s.rcpt, t.cur = s.cur,
         \A q \in Periods \ {p} : t.out[q] = s.out[q],
         t.out[p] = NoEntry \/ (t.out[p].pages = {} /\ t.out[p].mark = s.out[p].mark),
         s.out[p].mark # "none",
         \A b \in Batches : s.rcpt[b] # Pending(p)
  PROVE  Moves(s, t, J, D)
<1> USE StoreFields, PeriodIds
<1>0. \A q \in Periods : OpenOf(t, q) = OpenOf(s, q) /\ PagesOf(t, q) \subseteq PagesOf(s, q)
  BY DEF OpenOf, PagesOf, BatchesOf, NoEntry
<1>p. t.out[p].pages = {} /\ PagesOf(t, p) = {}
  BY DEF NoEntry, PagesOf, BatchesOf
<1>m. s.out[p].mark \in Ended /\ PagesOf(s, p) \subseteq J \cup D
  BY DEF Sound, MarksHold, Ended
<1>n. s.out[p] # NoEntry
  BY DEF NoEntry
<1>1. Shape(t) /\ Fresh(t)
  <2>1. Shape(t)
    BY <1>p DEF Sound, Shape, NoEntry
  <2>2. Fresh(t)
    BY <1>n DEF Sound, Fresh
  <2> QED BY <2>1, <2>2
<1>2. MarksHold(t, J, D)
  <2> SUFFICES ASSUME NEW q \in Periods
               PROVE  /\ t.out[q].mark = "Delivered" => PagesOf(t, q) \subseteq J
                      /\ t.out[q].mark = "Discarded" => PagesOf(t, q) \subseteq D
    BY DEF MarksHold
  <2>1. CASE q = p
    BY <1>p, <2>1
  <2>2. CASE q # p
    BY <2>2, <1>0 DEF Sound, MarksHold
  <2> QED BY <2>1, <2>2
<1>3. Told(t, J, D)
  BY DEF Sound, Told
<1>4. Copied(t, J, D)
  <2> SUFFICES ASSUME NEW q \in Periods, t.out[q] # NoEntry, NEW b \in OpenOf(s, q)
               PROVE  s.rcpt[b] # NoReceipt /\ b \in PagesOf(t, q) \cup J \cup D
    BY <1>0 DEF Copied
  <2>1. CASE q = p
    BY <2>1, <1>n, <1>m DEF Sound, Copied
  <2>2. CASE q # p
    BY <2>2 DEF Sound, Copied, PagesOf
  <2> QED BY <2>1, <2>2
<1>5. Placed(t)
  <2> SUFFICES ASSUME NEW b \in Batches, NEW q \in Periods, s.rcpt[b] = Pending(q)
               PROVE  IF t.out[q] = NoEntry THEN b \in OpenOf(t, q) ELSE b \in PagesOf(t, q)
    BY DEF Placed, Pending
  <2>1. q # p
    OBVIOUS
  <2> QED BY <2>1, <1>0 DEF Sound, Placed, Pending, PagesOf
<1>6. OpenOwned(t)
  BY <1>0 DEF Sound, OpenOwned
<1>7. PagesOwned(t)
  <2> SUFFICES ASSUME NEW q \in Periods, NEW b \in PagesOf(t, q)
               PROVE  s.rcpt[b].period = q /\ (t.out[q].mark = "none" => s.rcpt[b].state = "Pending")
    BY DEF PagesOwned
  <2>1. q # p
    BY <1>p
  <2> QED BY <2>1, <1>0 DEF Sound, PagesOwned
<1>8. StagedPend(t)
  <2> SUFFICES ASSUME NEW q \in s.staged
               PROVE  t.out[q] = NoEntry /\ \A b \in OpenOf(s, q) : s.rcpt[b].state \notin Ended
    BY <1>0 DEF StagedPend
  <2>1. s.out[q] = NoEntry /\ \A b \in OpenOf(s, q) : s.rcpt[b].state \notin Ended
    BY DEF Sound, StagedPend
  <2>2. q # p /\ q \in Periods
    BY <2>1, <1>n
  <2> QED BY <2>1, <2>2
<1>9. Lets(s, t, J, D)
  <2>1. DiskOf(t) \subseteq DiskOf(s)
    BY <1>0, DiskIs
  <2>2. ASSUME NEW b \in DiskOf(s), b \notin DiskOf(t) PROVE b \in J \cup D
    <3>1. b \in PagesOf(s, p)
      BY <2>2, <1>0, DiskIs DEF PagesOf
    <3> QED BY <3>1, <1>m
  <2> QED BY <2>1, <2>2 DEF Lets
<1>10. Slim(s, t)
  <2>1. ToCopy(t) \subseteq ToCopy(s)
    <3> SUFFICES ASSUME NEW q \in Periods, NEW f \in s.open[q].files, t.out[q] = NoEntry, s.rcpt[f[2]].state \notin Ended
                 PROVE  s.out[q] = NoEntry
      BY DEF ToCopy
    <3>1. f[2] \in OpenOf(s, q) /\ f[2] \in Batches
      BY DEF OpenOf, BatchesOf, Files
    <3>2. CASE q = p
      <4>1. s.rcpt[f[2]] # NoReceipt /\ s.rcpt[f[2]].period = p
        BY <3>1, <3>2, <1>n DEF Sound, Copied, OpenOwned
      <4>2. s.rcpt[f[2]].state = "Pending"
        BY <4>1, <3>1, ReceiptCases DEF Ended
      <4> QED BY <4>1, <4>2, <3>1, ReceiptCases DEF Pending
    <3> QED BY <3>2
  <2>2. Finalized(t) \subseteq Finalized(s)
    BY <1>p DEF Finalized
  <2>3. Dirs(t) \subseteq Dirs(s)
    BY <1>n DEF Dirs, InOpenDir, InOutbox
  <2> QED BY <2>1, <2>2, <2>3, <1>0 DEF Slim, OpenFiles, Listed
<1> QED BY <1>1, <1>2, <1>3, <1>4, <1>5, <1>6, <1>7, <1>8, <1>9, <1>10, SlimRoom DEF Sound, Moves, WithReceipt

(* Who owns an open batch depends on open/ and the receipts alone.          *)
LEMMA SameOwned ==
  ASSUME NEW s, NEW t, OpenOwned(s), t.open = s.open, t.rcpt = s.rcpt
  PROVE  OpenOwned(t)
<1>1. \A q : OpenOf(t, q) = OpenOf(s, q)
  BY DEF OpenOf
<1> QED BY <1>1 DEF OpenOwned

(* The mark of an entry.                                                    *)
LEMMA EntryMarked ==
  ASSUME NEW s \in Stores, NEW t \in Stores, NEW J, NEW D, NEW p \in Periods, NEW st \in Ended,
         Sound(s, J, D),
         t.open = s.open, t.staged = s.staged, t.rcpt = s.rcpt, t.cur = s.cur,
         \A q \in Periods \ {p} : t.out[q] = s.out[q],
         t.out[p].pages = s.out[p].pages, t.out[p].meta = s.out[p].meta, t.out[p].mark = st,
         s.out[p].meta,
         st = "Delivered" => PagesOf(s, p) \subseteq J, st = "Discarded" => PagesOf(s, p) \subseteq D
  PROVE  Moves(s, t, J, D)
<1> USE StoreFields, PeriodIds
<1>0. \A q \in Periods : OpenOf(t, q) = OpenOf(s, q) /\ PagesOf(t, q) = PagesOf(s, q)
  BY DEF OpenOf, PagesOf
<1>n. \A q \in Periods : t.out[q] = NoEntry <=> s.out[q] = NoEntry
  <2>1. s.out[p] # NoEntry
    BY DEF NoEntry
  <2>2. t.out[p] # NoEntry
    BY DEF NoEntry, Ended
  <2> QED BY <2>1, <2>2
<1>1. Shape(t)
  BY DEF Sound, Shape
<1>f. Fresh(t)
  BY <1>n DEF Sound, Fresh
<1>2. MarksHold(t, J, D)
  <2> SUFFICES ASSUME NEW q \in Periods
               PROVE  /\ t.out[q].mark = "Delivered" => PagesOf(s, q) \subseteq J
                      /\ t.out[q].mark = "Discarded" => PagesOf(s, q) \subseteq D
    BY <1>0 DEF MarksHold
  <2> QED BY DEF Sound, MarksHold
<1>3. Told(t, J, D)
  BY DEF Sound, Told
<1>4. Copied(t, J, D)
  BY <1>0, <1>n DEF Sound, Copied
<1>5. Placed(t)
  BY <1>0, <1>n DEF Sound, Placed
<1>6. OpenOwned(t)
  BY SameOwned DEF Sound
<1>7. PagesOwned(t)
  <2> SUFFICES ASSUME NEW q \in Periods, NEW b \in PagesOf(s, q)
               PROVE  s.rcpt[b].period = q /\ (t.out[q].mark = "none" => s.rcpt[b].state = "Pending")
    BY <1>0 DEF PagesOwned
  <2> QED BY DEF Sound, PagesOwned, Ended
<1>8. StagedPend(t)
  BY <1>0, <1>n DEF Sound, StagedPend
<1>9. Lets(s, t, J, D)
  BY <1>0, DiskIs DEF Lets
<1>10. Slim(s, t)
  <2>1. ToCopy(t) = ToCopy(s) /\ Dirs(t) = Dirs(s)
    BY <1>n DEF ToCopy, Dirs, InOpenDir, InOutbox
  <2>2. Finalized(t) = Finalized(s)
    <3>1. \A q \in Periods : t.out[q].pages = s.out[q].pages
      OBVIOUS
    <3> QED BY <3>1 DEF Finalized
  <2> QED BY <2>1, <2>2, <1>0 DEF Slim, OpenFiles, Listed
<1> QED BY <1>1, <1>f, <1>2, <1>3, <1>4, <1>5, <1>6, <1>7, <1>8, <1>9, <1>10, SlimRoom DEF Sound, Moves, WithReceipt

(* The staged copy of a period.                                             *)
LEMMA Stages ==
  ASSUME NEW s \in Stores, NEW t \in Stores, NEW J, NEW D, NEW p \in Periods,
         Sound(s, J, D),
         t.open = s.open, t.out = s.out, t.rcpt = s.rcpt, t.cur = s.cur,
         t.staged = s.staged \cup {p},
         s.out[p] = NoEntry, s.open[p].meta, p # s.cur,
         \A b \in OpenOf(s, p) : s.rcpt[b].state \notin Ended
  PROVE  Moves(s, t, J, D)
<1> USE StoreFields, PeriodIds
<1>0. \A q \in Periods : OpenOf(t, q) = OpenOf(s, q) /\ PagesOf(t, q) = PagesOf(s, q)
  BY DEF OpenOf, PagesOf
<1>d. s.open[p] # NoDir
  BY DEF NoDir
<1>1. Shape(t)
  BY DEF Sound, Shape
<1>f. Fresh(t)
  BY <1>d DEF Sound, Fresh
<1>2. MarksHold(t, J, D) /\ Told(t, J, D) /\ Copied(t, J, D) /\ Placed(t) /\ OpenOwned(t) /\ PagesOwned(t)
  BY <1>0 DEF Sound, MarksHold, Told, Copied, Placed, OpenOwned, PagesOwned
<1>8. StagedPend(t)
  BY DEF Sound, StagedPend, OpenOf
<1>9. Lets(s, t, J, D)
  BY <1>0, DiskIs DEF Lets
<1>10. Slim(s, t)
  <2>1. Dirs(t) = Dirs(s)
    BY <1>d DEF Dirs, InOpenDir, InOutbox
  <2> QED BY <2>1, <1>0 DEF Slim, OpenFiles, Listed, Finalized, ToCopy
<1> QED BY <1>1, <1>f, <1>2, <1>8, <1>9, <1>10, SlimRoom DEF Sound, Moves, WithReceipt

(* The copy becomes the entry: what was counted for it is now used.         *)
LEMMA Renames ==
  ASSUME NEW s \in Stores, NEW t \in Stores, NEW J, NEW D, NEW p \in Periods,
         Sound(s, J, D),
         t.open = s.open, t.rcpt = s.rcpt, t.cur = s.cur, t.staged = s.staged \ {p},
         \A q \in Periods \ {p} : t.out[q] = s.out[q],
         t.out[p] = [meta |-> TRUE, pages |-> s.open[p].files, mark |-> "none"],
         s.out[p] = NoEntry, s.open[p].meta, p # s.cur,
         \A b \in OpenOf(s, p) : s.rcpt[b] # NoReceipt /\ s.rcpt[b].state \notin Ended
  PROVE  Moves(s, t, J, D)
<1> USE StoreFields, PeriodIds
<1>0. /\ \A q \in Periods : OpenOf(t, q) = OpenOf(s, q)
      /\ \A q \in Periods \ {p} : PagesOf(t, q) = PagesOf(s, q)
      /\ PagesOf(t, p) = OpenOf(s, p) /\ PagesOf(s, p) = {}
  BY DEF OpenOf, PagesOf, NoEntry, BatchesOf
<1>d. s.open[p] # NoDir /\ t.out[p] # NoEntry
  BY DEF NoDir, NoEntry
<1>1. Shape(t)
  BY DEF Sound, Shape
<1>f. Fresh(t)
  BY <1>d DEF Sound, Fresh
<1>2. MarksHold(t, J, D) /\ Told(t, J, D)
  BY <1>0 DEF Sound, MarksHold, Told
<1>4. Copied(t, J, D)
  <2> SUFFICES ASSUME NEW q \in Periods, t.out[q] # NoEntry, NEW b \in OpenOf(s, q)
               PROVE  s.rcpt[b] # NoReceipt /\ b \in PagesOf(t, q) \cup J \cup D
    BY <1>0 DEF Copied
  <2>1. CASE q = p
    BY <2>1, <1>0
  <2>2. CASE q # p
    BY <2>2, <1>0 DEF Sound, Copied
  <2> QED BY <2>1, <2>2
<1>5. Placed(t)
  BY <1>0, <1>d DEF Sound, Placed
<1>6. OpenOwned(t)
  BY SameOwned DEF Sound
<1>7. PagesOwned(t)
  <2> SUFFICES ASSUME NEW q \in Periods, NEW b \in PagesOf(t, q)
               PROVE  s.rcpt[b].period = q /\ (t.out[q].mark = "none" => s.rcpt[b].state = "Pending")
    BY DEF PagesOwned
  <2>1. CASE q = p
    <3>1. b \in OpenOf(s, p) /\ b \in Batches
      BY <2>1, <1>0, OpenInBatches
    <3>2. s.rcpt[b] # NoReceipt /\ s.rcpt[b].period = p /\ s.rcpt[b].state \notin Ended
      BY <3>1 DEF Sound, OpenOwned
    <3> QED BY <2>1, <3>1, <3>2, ReceiptCases DEF Ended
  <2>2. CASE q # p
    BY <2>2, <1>0 DEF Sound, PagesOwned
  <2> QED BY <2>1, <2>2
<1>8. StagedPend(t)
  <2> SUFFICES ASSUME NEW q \in s.staged \ {p}
               PROVE  t.out[q] = NoEntry /\ \A b \in OpenOf(s, q) : s.rcpt[b].state \notin Ended
    BY <1>0 DEF StagedPend
  <2>1. q \in Periods
    OBVIOUS
  <2> QED BY <2>1 DEF Sound, StagedPend
<1>9. Lets(s, t, J, D)
  <2> SUFFICES ASSUME NEW b PROVE b \in DiskOf(t) <=> b \in DiskOf(s)
    BY DEF Lets
  <2> QED BY <1>0, DiskIs
<1>10. Room(t) <= Room(s)
  <2> DEFINE F == {p} \X s.open[p].files
  <2>1. OpenFiles(t, Periods) = OpenFiles(s, Periods) /\ Listed(t) = Listed(s)
    BY <1>0 DEF OpenFiles, Listed
  <2>2. Dirs(t) \subseteq Dirs(s)
    BY <1>d DEF Dirs, InOpenDir, InOutbox
  <2>3. Finalized(t) = Finalized(s) \cup F
    <3>1. \A q \in Periods \ {p} : t.out[q].pages = s.out[q].pages
      OBVIOUS
    <3>2. t.out[p].pages = s.open[p].files /\ s.out[p].pages = {}
      BY DEF NoEntry
    <3> QED BY <3>1, <3>2 DEF Finalized
  <2>4. ToCopy(s) = ToCopy(t) \cup F /\ ToCopy(t) \cap F = {}
    <3>1. \A q \in Periods \ {p} : t.out[q] = s.out[q]
      OBVIOUS
    <3>2. \A f \in s.open[p].files : s.rcpt[f[2]].state \notin Ended
      BY DEF OpenOf, BatchesOf
    <3> QED BY <3>1, <3>2, <1>d DEF ToCopy
  <2> DEFINE a(u) == Cardinality(OpenFiles(u, Periods)) b(u) == Cardinality(ToCopy(u)) c(u) == Cardinality(Finalized(u))
             d(u) == Cardinality(Listed(u)) e(u) == Cardinality(Dirs(u)) n == Cardinality(F)
  <2>5. IsFiniteSet(F)
    BY <2>4, RoomSets, FS_Subset
  <2>6. b(s) = b(t) + n
    BY <2>4, <2>5, RoomSets, CardUnion
  <2>7. c(t) <= c(s) + n
    BY <2>3, <2>5, RoomSets, CardUnion
  <2>8. e(t) <= e(s) /\ a(t) = a(s) /\ d(t) = d(s)
    BY <2>1, <2>2, RoomSets, FS_Subset
  <2>9. \A u \in {s, t} : a(u) \in Nat /\ b(u) \in Nat /\ c(u) \in Nat /\ d(u) \in Nat /\ e(u) \in Nat
    BY RoomSets, FS_CardinalityType
  <2>10. n \in Nat
    BY <2>5, FS_CardinalityType
  <2>11. Room(s) = a(s) + b(s) + c(s) + d(s) + e(s) /\ Room(t) = a(t) + b(t) + c(t) + d(t) + e(t)
    BY DEF Room
  <2> HIDE DEF a, b, c, d, e, n
  <2> QED BY <2>6, <2>7, <2>8, <2>9, <2>10, <2>11
<1> QED BY <1>1, <1>f, <1>2, <1>4, <1>5, <1>6, <1>7, <1>8, <1>9, <1>10 DEF Sound, Moves, WithReceipt

(* Receipts for the batches of a period that have none.                     *)
LEMMA ReceiptsGiven ==
  ASSUME NEW s \in Stores, NEW t \in Stores, NEW J, NEW D, NEW p \in Periods,
         NEW d \in SUBSET OpenOf(s, p), Sound(s, J, D),
         Gives(s, t, d, Pending(p)),
         \A b \in d : s.rcpt[b] = NoReceipt
  PROVE  Moves(s, t, J, D)
<1> USE StoreFields, PeriodIds DEF Gives
<1>0. \A q \in Periods : OpenOf(t, q) = OpenOf(s, q) /\ PagesOf(t, q) = PagesOf(s, q)
  BY DEF OpenOf, PagesOf
<1>r. \A b \in Batches : /\ b \in d => t.rcpt[b] = Pending(p)
                         /\ b \notin d => t.rcpt[b] = s.rcpt[b]
  OBVIOUS
<1>s. \A b \in d : t.rcpt[b].period = p /\ t.rcpt[b].state = "Pending" /\ s.rcpt[b].state = "none" /\ t.rcpt[b] # NoReceipt
  BY <1>r, OpenInBatches DEF NoReceipt, Pending
<1>n. d # {} => s.out[p] = NoEntry
  BY DEF Sound, Copied
<1>1. Shape(t) /\ Fresh(t)
  BY DEF Sound, Shape, Fresh
<1>2. MarksHold(t, J, D)
  BY <1>0 DEF Sound, MarksHold
<1>3. Told(t, J, D)
  BY <1>r, <1>s DEF Sound, Told
<1>4. Copied(t, J, D)
  <2> SUFFICES ASSUME NEW q \in Periods, s.out[q] # NoEntry, NEW b \in OpenOf(s, q)
               PROVE  t.rcpt[b] # NoReceipt /\ b \in PagesOf(s, q) \cup J \cup D
    BY <1>0 DEF Copied
  <2> QED BY <1>r, <1>s, OpenInBatches DEF Sound, Copied
<1>5. Placed(t)
  <2> SUFFICES ASSUME NEW b \in Batches, NEW q \in Periods, t.rcpt[b] = [period |-> q, state |-> "Pending"]
               PROVE  IF s.out[q] = NoEntry THEN b \in OpenOf(s, q) ELSE b \in PagesOf(s, q)
    BY <1>0 DEF Placed
  <2>1. CASE b \in d
    <3>0. t.rcpt[b].period = q
      OBVIOUS
    <3>1. q = p /\ s.out[p] = NoEntry
      BY <2>1, <3>0, <1>s, <1>n
    <3> QED BY <2>1, <3>1
  <2>2. CASE b \notin d
    BY <2>2, <1>r DEF Sound, Placed
  <2> QED BY <2>1, <2>2
<1>6. OpenOwned(t)
  <2>1. \A q, r \in Periods : \A b \in OpenOf(t, q) \cap OpenOf(t, r) : q = r
    <3>1. \A q \in Periods : OpenOf(t, q) = OpenOf(s, q)
      BY DEF OpenOf
    <3> QED BY <3>1 DEF Sound, OpenOwned
  <2>2. ASSUME NEW q \in Periods, NEW b \in OpenOf(s, q)
        PROVE  t.rcpt[b] = NoReceipt \/ t.rcpt[b].period = q
    <3>1. CASE b \in d
      <4>1. b \in OpenOf(s, q) \cap OpenOf(s, p)
        BY <3>1
      <4>2. q = p
        BY <4>1 DEF Sound, OpenOwned
      <4> QED BY <4>2, <3>1, <1>s
    <3>2. CASE b \notin d
      BY <3>2, <1>r, OpenInBatches DEF Sound, OpenOwned
    <3> QED BY <3>1, <3>2
  <2> QED BY <2>1, <2>2, <1>0 DEF OpenOwned
<1>7. PagesOwned(t)
  <2> SUFFICES ASSUME NEW q \in Periods, NEW b \in PagesOf(s, q)
               PROVE  t.rcpt[b].period = q /\ (s.out[q].mark = "none" => t.rcpt[b].state = "Pending")
    BY <1>0 DEF PagesOwned
  <2>1. s.rcpt[b].period = q /\ (s.out[q].mark = "none" => s.rcpt[b].state = "Pending")
    BY DEF Sound, PagesOwned
  <2>2. b \notin d
    BY <2>1 DEF NoReceipt
  <2> QED BY <2>1, <2>2, <1>r, OpenInBatches
<1>8. StagedPend(t)
  <2> SUFFICES ASSUME NEW q \in s.staged, NEW b \in OpenOf(s, q)
               PROVE  t.rcpt[b].state \notin Ended
    BY DEF Sound, StagedPend, OpenOf
  <2>1. s.rcpt[b].state \notin Ended /\ b \in Batches
    BY OpenInBatches DEF Sound, StagedPend
  <2> QED BY <2>1, <1>r, <1>s DEF Ended
<1>9. Lets(s, t, J, D)
  BY <1>0, DiskIs DEF Lets
<1>10. Slim(s, t)
  <2>1. ToCopy(t) \subseteq ToCopy(s)
    <3>1. \A q \in Periods : \A f \in s.open[q].files : f[2] \in Batches
      BY DEF Files
    <3>2. \A b \in Batches : t.rcpt[b].state \notin Ended => s.rcpt[b].state \notin Ended
      BY <1>r, <1>s DEF Ended
    <3> QED BY <3>1, <3>2 DEF ToCopy
  <2>2. Listed(t) \subseteq Listed(s)
    BY <1>0, <1>r DEF Listed
  <2> QED BY <2>1, <2>2 DEF Slim, OpenFiles, Finalized, Dirs, InOpenDir, InOutbox
<1>11. WithReceipt(s) \subseteq WithReceipt(t)
  BY <1>r, <1>s DEF WithReceipt
<1> QED BY <1>1, <1>2, <1>3, <1>4, <1>5, <1>6, <1>7, <1>8, <1>9, <1>10, <1>11, SlimRoom DEF Sound, Moves

(* Staged copies are removed.                                               *)
LEMMA Sweeps ==
  ASSUME NEW s \in Stores, NEW t \in Stores, NEW J, NEW D, Sound(s, J, D),
         t.open = s.open, t.out = s.out, t.rcpt = s.rcpt, t.cur = s.cur, t.staged \subseteq s.staged
  PROVE  Moves(s, t, J, D)
<1>0. \A q \in Periods : OpenOf(t, q) = OpenOf(s, q) /\ PagesOf(t, q) = PagesOf(s, q)
  BY DEF OpenOf, PagesOf
<1>1. Shape(t) /\ Fresh(t) /\ MarksHold(t, J, D) /\ Told(t, J, D) /\ Copied(t, J, D)
  BY <1>0 DEF Sound, Shape, Fresh, MarksHold, Told, Copied
<1>2. Placed(t) /\ PagesOwned(t)
  BY <1>0 DEF Sound, Placed, PagesOwned
<1>p. StagedPend(t)
  BY DEF Sound, StagedPend, OpenOf
<1>3. OpenOwned(t)
  BY SameOwned DEF Sound
<1>4. Lets(s, t, J, D)
  BY <1>0, DiskIs DEF Lets
<1>5. Slim(s, t)
  BY <1>0 DEF Slim, OpenFiles, Listed, Finalized, ToCopy, Dirs, InOpenDir, InOutbox
<1> QED BY <1>1, <1>2, <1>p, <1>3, <1>4, <1>5, SlimRoom DEF Sound, Moves, WithReceipt

(* Nothing on the disk changes.                                             *)
LEMMA SameDisk ==
  ASSUME NEW s, NEW t, NEW J, NEW D,
         t.open = s.open, t.out = s.out, t.rcpt = s.rcpt, t.staged = s.staged
  PROVE  /\ Sound(s, J, D) /\ Fresh(t) => Sound(t, J, D)
         /\ DiskOf(t) = DiskOf(s) /\ Room(t) = Room(s) /\ (Repaired(s) <=> Repaired(t))
         /\ WithReceipt(t) = WithReceipt(s)
<1>1. Shape(s) <=> Shape(t)
  BY DEF Shape
<1>2. (MarksHold(s, J, D) <=> MarksHold(t, J, D)) /\ (Told(s, J, D) <=> Told(t, J, D))
  BY DEF MarksHold, Told, PagesOf
<1>3. (Copied(s, J, D) <=> Copied(t, J, D)) /\ (Placed(s) <=> Placed(t))
  BY DEF Copied, Placed, PagesOf, OpenOf
<1>4. (OpenOwned(s) <=> OpenOwned(t)) /\ (PagesOwned(s) <=> PagesOwned(t)) /\ (StagedPend(s) <=> StagedPend(t))
  BY DEF OpenOwned, PagesOwned, PagesOf, OpenOf, StagedPend
<1>5. DiskOf(t) = DiskOf(s) /\ (Repaired(s) <=> Repaired(t)) /\ WithReceipt(t) = WithReceipt(s)
  BY DEF DiskOf, Repaired, OpenOf, PagesOf, WithReceipt
<1>6. Room(t) = Room(s)
  BY DEF Room, OpenFiles, ToCopy, Finalized, Listed, Dirs, InOpenDir, InOutbox, OpenOf
<1> QED BY <1>1, <1>2, <1>3, <1>4, <1>5, <1>6 DEF Sound

(* new_open changes memory only, and its period has no directory.           *)
LEMMA NewOpenIs ==
  ASSUME NEW s \in Stores, NEW J, NEW D, Sound(s, J, D), NewOpen(s).cur \in Periods
  PROVE  LET t == NewOpen(s)
         IN  /\ t \in Stores /\ t.open = s.open /\ t.out = s.out /\ t.rcpt = s.rcpt /\ t.staged = s.staged
             /\ Sound(t, J, D) /\ Based(t) /\ ~t.has /\ t.bytes = 0 /\ ~t.due
             /\ s.open[s.cur] # NoDir => t.cur # s.cur
<1> DEFINE t == NewOpen(s)
<1> USE StoreFields, PeriodIds
<1>1. /\ t.open = s.open /\ t.out = s.out /\ t.rcpt = s.rcpt /\ t.staged = s.staged
      /\ t.has = FALSE /\ t.bytes = 0 /\ t.ctx = FALSE /\ t.due = FALSE /\ t.full = s.full
      /\ t.cur = IF Used(s, s.cur) THEN s.cur + 1 ELSE s.cur
  BY DEF NewOpen, Stores
<1>2. t \in Stores
  <2>1. 0 \in 0..FileMax
    BY BrowserAssumption
  <2> QED BY <2>1 DEF NewOpen, Stores
<1>c. s.cur \in Nat /\ t.cur \in Nat /\ t.cur \in Periods /\ s.cur \in Periods /\ Periods \subseteq Nat
  BY <1>2
<1>u. s.cur + 1 # s.cur /\ s.cur + 1 > s.cur
  BY <1>c
<1> HIDE DEF t
<1>3. Fresh(t) /\ t.open[t.cur] = NoDir
  <2>1. CASE Used(s, s.cur)
    <3>1. t.cur > s.cur /\ \A q \in Periods : q > t.cur => q > s.cur
      BY <2>1, <1>1, <1>c
    <3> QED BY <3>1, <1>1, <1>c DEF Sound, Fresh
  <2>2. CASE ~Used(s, s.cur)
    BY <2>2, <1>1 DEF Sound, Fresh, Used
  <2> QED BY <2>1, <2>2
<1>4. s.open[s.cur] # NoDir => t.cur # s.cur
  <2>1. s.open[s.cur] # NoDir => Used(s, s.cur)
    BY DEF Used
  <2> QED BY <2>1, <1>1, <1>u
<1> QED BY <1>1, <1>2, <1>3, <1>4, SameDisk DEF Based, t

(* The batches of one file more.                                            *)
LEMMA BatchesOfAdd ==
  ASSUME NEW A, NEW y
  PROVE  BatchesOf(A \cup {y}) = BatchesOf(A) \cup {y[2]}
BY DEF BatchesOf

(* One element more is one more at most.                                    *)
LEMMA CardAdd ==
  ASSUME NEW A, NEW B, NEW x, IsFiniteSet(A), B \subseteq A \cup {x}
  PROVE  Cardinality(B) <= Cardinality(A) + 1
<1>1. IsFiniteSet(A \cup {x}) /\ Cardinality(A \cup {x}) = IF x \in A THEN Cardinality(A) ELSE Cardinality(A) + 1
  BY FS_AddElement
<1>2. Cardinality(B) <= Cardinality(A \cup {x}) /\ IsFiniteSet(B)
  BY <1>1, FS_Subset
<1>3. Cardinality(A) \in Nat /\ Cardinality(B) \in Nat
  BY <1>2, FS_CardinalityType
<1> QED BY <1>1, <1>2, <1>3

(* The open period gets its directory.                                      *)
LEMMA GetsDir ==
  ASSUME NEW s \in Stores, NEW t \in Stores, NEW J, NEW D,
         Sound(s, J, D), s.open[s.cur] = NoDir,
         t.out = s.out, t.staged = s.staged, t.rcpt = s.rcpt, t.cur = s.cur, t.has,
         \A q \in Periods \ {s.cur} : t.open[q] = s.open[q],
         t.open[s.cur].meta, t.open[s.cur].files = {}
  PROVE  /\ Sound(t, J, D) /\ Based(t) /\ DiskOf(t) = DiskOf(s) /\ Room(t) <= Room(s) + 1
         /\ \A q \in Periods : OpenOf(t, q) = OpenOf(s, q)
<1> USE StoreFields, PeriodIds
<1>f. \A q \in Periods : t.open[q].files = s.open[q].files
  <2>1. t.open[s.cur].files = {} /\ s.open[s.cur].files = {}
    BY DEF NoDir
  <2> QED BY <2>1
<1>0. \A q \in Periods : OpenOf(t, q) = OpenOf(s, q) /\ PagesOf(t, q) = PagesOf(s, q)
  BY <1>f DEF OpenOf, PagesOf
<1>1. Shape(t)
  <2> SUFFICES ASSUME NEW q \in Periods, ~t.open[q].meta PROVE t.open[q].files = {}
    BY DEF Sound, Shape
  <2> QED BY DEF Sound, Shape
<1>2. Fresh(t) /\ Based(t)
  <2>0. s.cur \in Nat
    OBVIOUS
  <2>1. ~(s.cur > s.cur)
    BY <2>0
  <2> QED BY <2>1 DEF Sound, Fresh, Based
<1>3. MarksHold(t, J, D) /\ Told(t, J, D) /\ Copied(t, J, D) /\ Placed(t) /\ PagesOwned(t)
  BY <1>0 DEF Sound, MarksHold, Told, Copied, Placed, PagesOwned
<1>4. OpenOwned(t)
  <2>1. ASSUME NEW q \in Periods, NEW b \in OpenOf(s, q) PROVE s.rcpt[b] = NoReceipt \/ s.rcpt[b].period = q
    BY DEF Sound, OpenOwned
  <2>2. ASSUME NEW q \in Periods, NEW r \in Periods, NEW b \in OpenOf(t, q) \cap OpenOf(t, r) PROVE q = r
    BY <1>0 DEF Sound, OpenOwned
  <2> QED BY <2>1, <2>2, <1>0 DEF OpenOwned
<1>5. StagedPend(t)
  <2> SUFFICES ASSUME NEW q \in s.staged
               PROVE  s.out[q] = NoEntry /\ \A b \in OpenOf(t, q) : s.rcpt[b].state \notin Ended
    BY DEF StagedPend
  <2>1. q \in Periods /\ q # s.cur
    BY DEF Sound, Fresh
  <2> QED BY <2>1, <1>0 DEF Sound, StagedPend
<1>6. DiskOf(t) = DiskOf(s)
  <2> SUFFICES ASSUME NEW b PROVE b \in DiskOf(t) <=> b \in DiskOf(s)
    OBVIOUS
  <2> QED BY <1>0, DiskIs
<1>7. Room(t) <= Room(s) + 1
  <2>1. OpenFiles(t, Periods) = OpenFiles(s, Periods) /\ ToCopy(t) = ToCopy(s) /\ Finalized(t) = Finalized(s)
    BY <1>f DEF OpenFiles, ToCopy, Finalized
  <2>2. Listed(t) = Listed(s)
    BY <1>0 DEF Listed
  <2>3. Dirs(t) \subseteq Dirs(s) \cup {s.cur}
    BY DEF Dirs, InOpenDir, InOutbox
  <2>4. Cardinality(Dirs(t)) <= Cardinality(Dirs(s)) + 1
    BY <2>3, RoomSets, CardAdd
  <2> DEFINE a(u) == Cardinality(OpenFiles(u, Periods)) b(u) == Cardinality(ToCopy(u)) c(u) == Cardinality(Finalized(u))
             d(u) == Cardinality(Listed(u)) e(u) == Cardinality(Dirs(u))
  <2>5. \A u \in {s, t} : a(u) \in Nat /\ b(u) \in Nat /\ c(u) \in Nat /\ d(u) \in Nat /\ e(u) \in Nat
    BY RoomSets, FS_CardinalityType
  <2>6. a(t) = a(s) /\ b(t) = b(s) /\ c(t) = c(s) /\ d(t) = d(s) /\ e(t) <= e(s) + 1
    BY <2>1, <2>2, <2>4
  <2>7. Room(s) = a(s) + b(s) + c(s) + d(s) + e(s) /\ Room(t) = a(t) + b(t) + c(t) + d(t) + e(t)
    BY DEF Room
  <2> HIDE DEF a, b, c, d, e
  <2> QED BY <2>5, <2>6, <2>7
<1> QED BY <1>1, <1>2, <1>3, <1>4, <1>5, <1>6, <1>7, <1>0 DEF Sound

(* A batch that the store does not have is written.                         *)
LEMMA GetsFile ==
  ASSUME NEW s \in Stores, NEW t \in Stores, NEW J, NEW D, NEW y, NEW x \in Batches, y[2] = x,
         Sound(s, J, D), s.open[s.cur].meta, s.rcpt[x] = NoReceipt, Repaired(s),
         t.out = s.out, t.staged = s.staged, t.rcpt = s.rcpt, t.cur = s.cur,
         \A q \in Periods \ {s.cur} : t.open[q] = s.open[q],
         t.open[s.cur].meta, t.open[s.cur].files = s.open[s.cur].files \cup {y}
  PROVE  /\ Sound(t, J, D) /\ DiskOf(t) = DiskOf(s) \cup {x} /\ Room(t) <= Room(s) + 3
         /\ x \in OpenOf(t, s.cur)
         /\ \A q \in Periods : \A b \in OpenOf(t, q) : b = x \/ b \in OpenOf(s, q)
<1> USE StoreFields, PeriodIds
<1>f. /\ \A q \in Periods \ {s.cur} : t.open[q].files = s.open[q].files
      /\ t.open[s.cur].files = s.open[s.cur].files \cup {y}
  OBVIOUS
<1>0. /\ \A q \in Periods : PagesOf(t, q) = PagesOf(s, q)
      /\ \A q \in Periods \ {s.cur} : OpenOf(t, q) = OpenOf(s, q)
      /\ OpenOf(t, s.cur) = OpenOf(s, s.cur) \cup {x}
  <2>1. \A q \in Periods : PagesOf(t, q) = PagesOf(s, q)
    BY DEF PagesOf
  <2>2. \A q \in Periods \ {s.cur} : OpenOf(t, q) = OpenOf(s, q)
    BY DEF OpenOf
  <2>3. BatchesOf(s.open[s.cur].files \cup {y}) = BatchesOf(s.open[s.cur].files) \cup {x}
    BY BatchesOfAdd
  <2> QED BY <2>1, <2>2, <2>3, <1>f DEF OpenOf
<1>x. \A q \in Periods : x \notin OpenOf(s, q)
  BY DEF Repaired
<1>c. s.out[s.cur] = NoEntry /\ s.cur \notin s.staged
  BY DEF Sound, Fresh
<1>1. Shape(t)
  <2> SUFFICES ASSUME NEW q \in Periods
               PROVE  /\ ~t.open[q].meta => t.open[q].files = {}
                      /\ ~s.out[q].meta => s.out[q].pages = {}
                      /\ s.out[q].mark = "none" /\ ~s.out[q].meta => s.out[q] = NoEntry
    BY DEF Shape
  <2>1. CASE q = s.cur
    BY <2>1 DEF Sound, Shape
  <2>2. CASE q # s.cur
    <3>1. t.open[q] = s.open[q]
      BY <2>2
    <3> QED BY <3>1 DEF Sound, Shape
  <2> QED BY <2>1, <2>2
<1>2. Fresh(t)
  <2>0. s.cur \in Nat
    OBVIOUS
  <2>1. ~(s.cur > s.cur)
    BY <2>0
  <2>2. ASSUME NEW q \in Periods, q > s.cur PROVE t.open[q] = NoDir /\ s.out[q] = NoEntry /\ q \notin s.staged
    <3>1. q # s.cur
      BY <2>1, <2>2
    <3> QED BY <2>2, <3>1 DEF Sound, Fresh
  <2> QED BY <2>2, <1>c DEF Fresh
<1>3. MarksHold(t, J, D) /\ Told(t, J, D) /\ PagesOwned(t)
  BY <1>0 DEF Sound, MarksHold, Told, PagesOwned
<1>4. Copied(t, J, D)
  <2> SUFFICES ASSUME NEW q \in Periods, s.out[q] # NoEntry, NEW b \in OpenOf(t, q)
               PROVE  s.rcpt[b] # NoReceipt /\ b \in PagesOf(s, q) \cup J \cup D
    BY <1>0 DEF Copied
  <2>1. q # s.cur
    BY <1>c
  <2> QED BY <2>1, <1>0 DEF Sound, Copied
<1>5. Placed(t)
  <2> SUFFICES ASSUME NEW b \in Batches, NEW q \in Periods, s.rcpt[b] = [period |-> q, state |-> "Pending"]
               PROVE  IF s.out[q] = NoEntry THEN b \in OpenOf(t, q) ELSE b \in PagesOf(s, q)
    BY <1>0 DEF Placed
  <2>1. IF s.out[q] = NoEntry THEN b \in OpenOf(s, q) ELSE b \in PagesOf(s, q)
    BY DEF Sound, Placed
  <2> QED BY <2>1, <1>0
<1>6. OpenOwned(t)
  <2>1. ASSUME NEW q \in Periods, NEW b \in OpenOf(t, q) PROVE t.rcpt[b] = NoReceipt \/ t.rcpt[b].period = q
    <3>1. CASE b = x
      BY <3>1
    <3>2. CASE b # x
      <4>1. b \in OpenOf(s, q)
        BY <2>1, <3>2, <1>0
      <4> QED BY <4>1 DEF Sound, OpenOwned
    <3> QED BY <3>1, <3>2
  <2>2. ASSUME NEW q \in Periods, NEW r \in Periods, NEW b \in OpenOf(t, q) \cap OpenOf(t, r) PROVE q = r
    <3>1. CASE b = x
      BY <2>2, <3>1, <1>0, <1>x
    <3>2. CASE b # x
      <4>1. b \in OpenOf(s, q) \cap OpenOf(s, r)
        BY <2>2, <3>2, <1>0
      <4> QED BY <4>1 DEF Sound, OpenOwned
    <3> QED BY <3>1, <3>2
  <2> QED BY <2>1, <2>2 DEF OpenOwned
<1>7. StagedPend(t)
  <2> SUFFICES ASSUME NEW q \in s.staged
               PROVE  s.out[q] = NoEntry /\ \A b \in OpenOf(t, q) : s.rcpt[b].state \notin Ended
    BY DEF StagedPend
  <2>1. q \in Periods /\ q # s.cur
    BY <1>c
  <2> QED BY <2>1, <1>0 DEF Sound, StagedPend
<1>8. DiskOf(t) = DiskOf(s) \cup {x}
  <2> SUFFICES ASSUME NEW b PROVE b \in DiskOf(t) <=> b \in DiskOf(s) \/ b = x
    OBVIOUS
  <2>1. ASSUME b \in DiskOf(t) PROVE b \in DiskOf(s) \/ b = x
    <3>1. PICK q \in Periods : b \in OpenOf(t, q) \/ b \in PagesOf(t, q)
      BY <2>1, DiskIs
    <3> QED BY <3>1, <1>0, DiskIs
  <2>2. ASSUME b \in DiskOf(s) PROVE b \in DiskOf(t)
    <3>1. PICK q \in Periods : b \in OpenOf(s, q) \/ b \in PagesOf(s, q)
      BY <2>2, DiskIs
    <3>2. b \in OpenOf(t, q) \/ b \in PagesOf(t, q)
      BY <3>1, <1>0
    <3> QED BY <3>2, DiskIs
  <2>3. x \in DiskOf(t)
    <3>1. x \in OpenOf(t, s.cur) /\ s.cur \in Periods
      BY <1>0
    <3> QED BY <3>1, DiskIs
  <2> QED BY <2>1, <2>2, <2>3
<1>9. Room(t) <= Room(s) + 3
  <2> DEFINE z == <<s.cur, y>>
  <2>1. OpenFiles(t, Periods) \subseteq OpenFiles(s, Periods) \cup {z}
    BY <1>f DEF OpenFiles
  <2>2. ToCopy(t) \subseteq ToCopy(s) \cup {z}
    BY <1>f DEF ToCopy
  <2>3. Finalized(t) = Finalized(s) /\ Listed(t) \subseteq Listed(s) \cup {x}
    BY <1>0 DEF Finalized, Listed
  <2>4. Dirs(t) \subseteq Dirs(s)
    <3>1. s.open[s.cur] # NoDir
      BY DEF NoDir
    <3> QED BY <3>1 DEF Dirs, InOpenDir, InOutbox
  <2> DEFINE a(u) == Cardinality(OpenFiles(u, Periods)) b(u) == Cardinality(ToCopy(u)) c(u) == Cardinality(Finalized(u))
             d(u) == Cardinality(Listed(u)) e(u) == Cardinality(Dirs(u))
  <2>5. \A u \in {s, t} : a(u) \in Nat /\ b(u) \in Nat /\ c(u) \in Nat /\ d(u) \in Nat /\ e(u) \in Nat
    BY RoomSets, FS_CardinalityType
  <2>6. a(t) <= a(s) + 1 /\ b(t) <= b(s) + 1 /\ c(t) = c(s) /\ d(t) <= d(s) + 1 /\ e(t) <= e(s)
    <3> HIDE DEF z
    <3>1. a(t) <= a(s) + 1
      BY <2>1, RoomSets, CardAdd
    <3>2. b(t) <= b(s) + 1
      BY <2>2, RoomSets, CardAdd
    <3>3. d(t) <= d(s) + 1
      BY <2>3, RoomSets, CardAdd
    <3>4. e(t) <= e(s)
      BY <2>4, RoomSets, FS_Subset
    <3> QED BY <3>1, <3>2, <3>3, <3>4, <2>3
  <2>7. Room(s) = a(s) + b(s) + c(s) + d(s) + e(s) /\ Room(t) = a(t) + b(t) + c(t) + d(t) + e(t)
    BY DEF Room
  <2> HIDE DEF a, b, c, d, e
  <2> QED BY <2>5, <2>6, <2>7
<1>10. \A q \in Periods : \A b \in OpenOf(t, q) : b = x \/ b \in OpenOf(s, q)
  BY <1>0
<1> QED BY <1>0, <1>1, <1>2, <1>3, <1>4, <1>5, <1>6, <1>7, <1>8, <1>9, <1>10 DEF Sound

----------------------------------------------------------------------------
(* The outcomes of operations on stores.                                    *)
Outcome == [s : Stores, how : {"ok", "refused", "crashed", "failed"}, cost : Nat]

(* What the four kinds of outcome say.                                      *)
LEMMA OutcomeIs ==
  ASSUME NEW s \in Stores, NEW op
  PROVE  /\ Ok(s) \in Outcome /\ Ok(s).s = s /\ Ok(s).how = "ok"
         /\ Crashes(s) \in Outcome /\ Crashes(s).s = s /\ Crashes(s).how = "crashed"
         /\ Refuses(s) \in Outcome /\ Refuses(s).s = s /\ Refuses(s).how = "refused"
         /\ \A o \in Fails(s, op) : o \in Outcome /\ o.s = s /\ o.how = "failed" /\ op \in Failing
BY DEF Ok, Crashes, Refuses, Fails, Outcome

(* A call that stops in s leaves s.                                         *)
LEMMA StopsAt ==
  ASSUME NEW s \in Stores, NEW op, NEW o, o = Crashes(s) \/ o \in Fails(s, op)
  PROVE  o \in Outcome /\ o.how \in {"crashed", "failed"} /\ o.s = s
BY OutcomeIs

(* write_bytes_atomic leaves the file as it was, or whole.                  *)
LEMMA WriteIs ==
  ASSUME NEW s \in Stores, NEW t \in Stores, NEW op, NEW o \in Write(s, t, op)
  PROVE  /\ o \in Outcome /\ o.how \in {"ok", "crashed", "failed"}
         /\ o.how = "ok" => o.s = t
         /\ o.how = "crashed" => o.s \in {s, t}
         /\ o.how = "failed" => o.s = s /\ op \in Failing
BY OutcomeIs DEF Write

(* Receipts written one after the other.                                    *)
LEMMA WriteReceiptsIs ==
  ASSUME NEW s \in Stores, NEW bs \in SUBSET Batches, NEW op,
         NEW to \in [period : Periods, state : {"Pending"} \cup Ended],
         NEW o \in WriteReceipts(s, bs, to, op)
  PROVE  /\ o \in Outcome /\ o.how \in {"ok", "crashed", "failed"}
         /\ \E d \in SUBSET bs : Gives(s, o.s, d, to) /\ (o.how = "ok" => d = bs)
         /\ o.how = "failed" => op \in Failing
<1> DEFINE Rc(d) == [b \in Batches |-> IF b \in d THEN to ELSE s.rcpt[b]]
           Done(d) == [s EXCEPT !.rcpt = Rc(d)]
<1>1. ASSUME NEW d \in SUBSET bs
      PROVE  /\ Done(d) \in Stores /\ Gives(s, Done(d), d, to)
  <2>1. /\ Rc(d) \in [Batches -> {NoReceipt} \cup [period : Periods, state : {"Pending"} \cup Ended]]
        /\ \A b \in Batches : Rc(d)[b] = IF b \in d THEN to ELSE s.rcpt[b]
    BY StoreFields
  <2> HIDE DEF Rc
  <2>2. /\ Done(d) \in Stores /\ Done(d).rcpt = Rc(d)
        /\ Done(d).open = s.open /\ Done(d).out = s.out /\ Done(d).staged = s.staged /\ Done(d).cur = s.cur /\ Done(d).has = s.has
    BY <2>1 DEF Stores
  <2> HIDE DEF Done
  <2> QED BY <2>1, <2>2 DEF Gives
<1>2. \/ o = Ok(Done(bs)) \/ \E d \in SUBSET bs : o = Crashes(Done(d)) \/ o \in Fails(Done(d), op)
  BY DEF WriteReceipts
<1> HIDE DEF Done
<1>3. CASE o = Ok(Done(bs))
  BY <1>1, <1>3, OutcomeIs
<1>4. CASE \E d \in SUBSET bs : o = Crashes(Done(d)) \/ o \in Fails(Done(d), op)
  <2>1. PICK d \in SUBSET bs : o = Crashes(Done(d)) \/ o \in Fails(Done(d), op)
    BY <1>4
  <2>2. Done(d) \in Stores /\ Gives(s, Done(d), d, to)
    BY <1>1
  <2>3. o \in Outcome /\ o.how \in {"crashed", "failed"} /\ o.s = Done(d) /\ (o.how = "failed" => op \in Failing)
    BY <2>1, <2>2, OutcomeIs
  <2> QED BY <2>2, <2>3
<1> QED BY <1>2, <1>3, <1>4

(* mark_period, over a period whose pending batches have ended that way.    *)
LEMMA MarksOut ==
  ASSUME NEW s \in Stores, NEW J, NEW D, NEW p \in Periods, NEW st \in Ended, Sound(s, J, D),
         s.out[p] = NoEntry \/ s.out[p].mark # "none", p \notin s.staged,
         \A b \in Batches : s.rcpt[b] = Pending(p) =>
           (st = "Delivered" => b \in J) /\ (st = "Discarded" => b \in D),
         NEW o \in Marks(s, p, st)
  PROVE  /\ o \in Outcome /\ o.how \in {"ok", "crashed", "failed"} /\ Moves(s, o.s, J, D)
         /\ o.s.open = s.open /\ o.s.out = s.out /\ o.s.staged = s.staged /\ o.s.has = s.has
         /\ o.how = "ok" => \A b \in Batches : o.s.rcpt[b] # Pending(p)
<1> DEFINE bs == {b \in Batches : s.rcpt[b] = Pending(p)}
           to == [period |-> p, state |-> st]
<1>1. o \in WriteReceipts(s, bs, to, "tombstone")
  BY DEF Marks, Pending
<1>2. bs \in SUBSET Batches /\ to \in [period : Periods, state : {"Pending"} \cup Ended] /\ to # Pending(p)
  BY DEF Ended, Pending
<1>3. \A b \in Batches : b \in bs <=> s.rcpt[b] = Pending(p)
  OBVIOUS
<1>t. to = [period |-> p, state |-> st]
  OBVIOUS
<1> HIDE DEF bs, to
<1>4. /\ o \in Outcome /\ o.how \in {"ok", "crashed", "failed"}
      /\ \E d \in SUBSET bs : Gives(s, o.s, d, to) /\ (o.how = "ok" => d = bs)
  BY <1>1, <1>2, WriteReceiptsIs
<1>5. PICK d \in SUBSET bs : Gives(s, o.s, d, to) /\ (o.how = "ok" => d = bs)
  BY <1>4
<1>6. o.s \in Stores
  BY <1>4 DEF Outcome
<1>7. /\ \A b \in d : s.rcpt[b] = Pending(p)
      /\ d \in SUBSET Batches
      /\ st = "Delivered" => d \subseteq J
      /\ st = "Discarded" => d \subseteq D
  BY <1>2, <1>3
<1>8. Moves(s, o.s, J, D)
  BY <1>5, <1>6, <1>7, <1>t, ReceiptsEnd
<1>9. o.how = "ok" => \A b \in Batches : o.s.rcpt[b] # Pending(p)
  BY <1>5, <1>2, <1>3 DEF Gives
<1> QED BY <1>4, <1>5, <1>8, <1>9 DEF Gives

(* An open period is removed.                                               *)
LEMMA RemoveOpenOut ==
  ASSUME NEW s \in Stores, NEW J, NEW D, NEW p \in Periods, Sound(s, J, D), "rmdir" \notin Failing,
         s.out[p] = NoEntry => \A b \in OpenOf(s, p) : s.rcpt[b].state \in Ended,
         NEW o \in RemoveOpen(s, p)
  PROVE  /\ o \in Outcome /\ o.how \in {"ok", "crashed", "failed"} /\ Moves(s, o.s, J, D)
         /\ o.s.out = s.out /\ o.s.rcpt = s.rcpt /\ o.s.staged = s.staged /\ o.s.has = s.has /\ o.s.bytes = s.bytes
         /\ \A q \in Periods \ {p} : o.s.open[q] = s.open[q]
         /\ o.how = "ok" => o.s.open[p] = NoDir
         /\ o.how = "failed" => o.s.open[p].meta = s.open[p].meta
<1> USE StoreFields
<1> DEFINE Like(t) == /\ t \in Stores /\ t.out = s.out /\ t.rcpt = s.rcpt /\ t.staged = s.staged /\ t.has = s.has /\ t.cur = s.cur /\ t.bytes = s.bytes
                      /\ \A q \in Periods \ {p} : t.open[q] = s.open[q]
<1>1. ASSUME NEW t \in PartlyGone(s, p)
      PROVE  Like(t) /\ t.open[p].meta = s.open[p].meta /\ t.open[p].files \subseteq s.open[p].files
  <2>0. PICK k \in 0..FileMax : t = Left(s, p, k)
    BY DEF PartlyGone
  <2> DEFINE After == {f \in s.open[p].files : f[1] > k}
  <2>1. After \in Files /\ After \subseteq s.open[p].files
    BY DEF Files
  <2> HIDE DEF After
  <2> DEFINE dir == [s.open[p] EXCEPT !.files = After]
             opens == [s.open EXCEPT ![p] = dir]
  <2>2. dir \in [meta : BOOLEAN, files : Files] /\ dir.meta = s.open[p].meta /\ dir.files = After
    BY <2>1
  <2>3. t = [s EXCEPT !.open = opens]
    BY <2>0 DEF Left, After
  <2> HIDE DEF dir
  <2>4. opens \in [Periods -> [meta : BOOLEAN, files : Files]] /\ opens[p] = dir /\ \A q \in Periods \ {p} : opens[q] = s.open[q]
    BY <2>2
  <2> HIDE DEF opens
  <2> QED BY <2>1, <2>2, <2>3, <2>4 DEF Stores
<1>2. Like(Gone(s, p)) /\ Gone(s, p).open[p] = NoDir
  BY DEF Stores, NoDir, Files, Gone
<1>3. \/ o = Ok(Gone(s, p)) \/ o = Crashes(Gone(s, p))
      \/ \E t \in PartlyGone(s, p) : o = Crashes(t) \/ o \in Fails(t, "remove")
  <2>1. \/ o = Ok(Gone(s, p)) \/ o = Crashes(Gone(s, p))
        \/ \E t \in PartlyGone(s, p) : o = Crashes(t) \/ o \in Fails(t, IF t.open[p].files = {} THEN "rmdir" ELSE "remove")
        \/ o \in Fails(Gone(s, p), "rmdir")
    BY DEF RemoveOpen
  <2>2. \A t : Fails(t, "rmdir") = {}
    BY DEF Fails
  <2> QED BY <2>1, <2>2
<1>4. ASSUME NEW t, Like(t), t.open[p] = NoDir \/ (t.open[p].meta = s.open[p].meta /\ t.open[p].files \subseteq s.open[p].files)
      PROVE  Moves(s, t, J, D)
  <2>1. t.open[p].files \subseteq s.open[p].files
    BY <1>4 DEF NoDir
  <2>2. t.open[p] = NoDir \/ t.open[p].meta = s.open[p].meta
    BY <1>4
  <2>3. s.out[p] = NoEntry => \A b \in OpenOf(s, p) \ OpenOf(t, p) : s.rcpt[b].state \in Ended
    OBVIOUS
  <2> QED BY <1>4, <2>1, <2>2, <2>3, LessOpen
<1>5. CASE o = Ok(Gone(s, p)) \/ o = Crashes(Gone(s, p))
  <2>1. Moves(s, Gone(s, p), J, D)
    BY <1>2, <1>4
  <2> QED BY <1>2, <2>1, <1>5, OutcomeIs
<1>7. CASE \E t \in PartlyGone(s, p) : o = Crashes(t) \/ o \in Fails(t, "remove")
  <2>1. PICK t \in PartlyGone(s, p) : o = Crashes(t) \/ o \in Fails(t, "remove")
    BY <1>7
  <2>2. Like(t) /\ Moves(s, t, J, D) /\ t.open[p].meta = s.open[p].meta
    BY <1>1, <1>4
  <2>3. o \in Outcome /\ o.how \in {"crashed", "failed"} /\ o.s = t
    BY <2>1, <2>2, OutcomeIs
  <2> QED BY <2>2, <2>3
<1> QED BY <1>3, <1>5, <1>7

(* An outcome of a step that goes on from a successful one.                 *)
Sum(a, r) == [s |-> r.s, how |-> r.how, cost |-> a.cost + r.cost]

(* Costs add up; the later store and ending stand.                          *)
LEMMA SumIs ==
  ASSUME NEW a \in Outcome, NEW r \in Outcome
  PROVE  Sum(a, r) \in Outcome /\ Sum(a, r).s = r.s /\ Sum(a, r).how = r.how
BY DEF Sum, Outcome

(* An outcome has a store.                                                  *)
LEMMA OutcomeStore == ASSUME NEW o \in Outcome PROVE o.s \in Stores
BY DEF Outcome

(* No file operation loses a receipt of an open batch.                      *)
LEMMA MovesRepaired ==
  ASSUME NEW s, NEW t, NEW J, NEW D, Moves(s, t, J, D), Repaired(s), s \in Stores
  PROVE  Repaired(t)
<1> SUFFICES ASSUME NEW p \in Periods, NEW b \in OpenOf(t, p) PROVE t.rcpt[b] # NoReceipt
  BY DEF Repaired
<1>1. b \in OpenOf(s, p)
  BY BatchesOfSub DEF Moves, OpenOf
<1>2. b \in WithReceipt(s)
  BY <1>1, OpenInBatches DEF Repaired, WithReceipt
<1> QED BY <1>2 DEF Moves, WithReceipt

(* A change of memory only.                                                 *)
LEMMA SameMoves ==
  ASSUME NEW s \in Stores, NEW t \in Stores, NEW J, NEW D, Sound(s, J, D),
         t.open = s.open, t.out = s.out, t.rcpt = s.rcpt, t.staged = s.staged, t.cur = s.cur
  PROVE  Moves(s, t, J, D)
<1>1. Fresh(t)
  BY DEF Sound, Fresh
<1> QED BY <1>1, SameDisk, RoomNat DEF Moves, Lets

(* Refreshing the full flag changes nothing else.                           *)
LEMMA RefreshIs ==
  ASSUME NEW s \in Stores
  PROVE  LET t == RefreshFull(s)
         IN  /\ t \in Stores
             /\ t.open = s.open /\ t.out = s.out /\ t.rcpt = s.rcpt /\ t.staged = s.staged /\ t.cur = s.cur
             /\ t.has = s.has /\ t.bytes = s.bytes /\ t.ctx = s.ctx /\ t.due = s.due
<1>1. RefreshFull(s) = s \/ RefreshFull(s) = [s EXCEPT !.full = FALSE]
  BY DEF RefreshFull
<1> QED BY <1>1 DEF Stores

(* Refreshing the full flag is a change of memory.                          *)
LEMMA RefreshMoves ==
  ASSUME NEW s \in Stores, NEW J, NEW D, Sound(s, J, D)
  PROVE  Moves(s, RefreshFull(s), J, D)
BY RefreshIs, SameMoves

(* A finished entry is removed.                                             *)
LEMMA RemoveEntryOut ==
  ASSUME NEW s \in Stores, NEW J, NEW D, NEW p \in Periods, Sound(s, J, D),
         s.out[p].mark # "none", \A b \in Batches : s.rcpt[b] # Pending(p),
         NEW o \in RemoveEntry(s, p)
  PROVE  /\ o \in Outcome /\ o.how \in {"ok", "crashed", "failed"} /\ Moves(s, o.s, J, D)
         /\ o.s.open = s.open /\ o.s.rcpt = s.rcpt /\ o.s.staged = s.staged /\ o.s.has = s.has
         /\ \A q \in Periods \ {p} : o.s.out[q] = s.out[q]
         /\ o.s.out[p].pages \subseteq s.out[p].pages
         /\ o.how = "ok" => o.s.out[p] = NoEntry
<1> USE StoreFields
<1> DEFINE Bare == [s EXCEPT !.out[p].pages = {}]
           Marked == [Bare EXCEPT !.out[p].meta = FALSE]
           Removed == [s EXCEPT !.out[p] = NoEntry]
           Like(t) == /\ t \in Stores /\ t.open = s.open /\ t.rcpt = s.rcpt /\ t.staged = s.staged /\ t.has = s.has /\ t.cur = s.cur
                      /\ \A q \in Periods \ {p} : t.out[q] = s.out[q]
           Ends3(t) == t.out[p] = NoEntry \/ (t.out[p].pages = {} /\ t.out[p].mark = s.out[p].mark)
           O(x) == [s EXCEPT !.out = [s.out EXCEPT ![p] = x]]
<1>1. ASSUME NEW x \in [meta : BOOLEAN, pages : Files, mark : {"none"} \cup Ended]
      PROVE  Like(O(x)) /\ O(x).out[p] = x
  <2> DEFINE outs == [s.out EXCEPT ![p] = x]
  <2>1. /\ outs \in [Periods -> [meta : BOOLEAN, pages : Files, mark : {"none"} \cup Ended]]
        /\ outs[p] = x /\ \A q \in Periods \ {p} : outs[q] = s.out[q]
    OBVIOUS
  <2>2. O(x) = [s EXCEPT !.out = outs]
    OBVIOUS
  <2> HIDE DEF outs, O
  <2> QED BY <2>1, <2>2 DEF Stores
<1> DEFINE x1 == [s.out[p] EXCEPT !.pages = {}]
           x2 == [x1 EXCEPT !.meta = FALSE]
<1>2. /\ {x1, x2, NoEntry} \subseteq [meta : BOOLEAN, pages : Files, mark : {"none"} \cup Ended]
      /\ x1.pages = {} /\ x1.mark = s.out[p].mark /\ x2.pages = {} /\ x2.mark = s.out[p].mark /\ NoEntry.pages = {}
  <2>0. {} \in Files
    BY DEF Files
  <2>e. s.out[p] \in [meta : BOOLEAN, pages : Files, mark : {"none"} \cup Ended]
    OBVIOUS
  <2>1. x1 \in [meta : BOOLEAN, pages : Files, mark : {"none"} \cup Ended] /\ x1.pages = {} /\ x1.mark = s.out[p].mark
    BY <2>0, <2>e
  <2> HIDE DEF x1
  <2>2. x2 \in [meta : BOOLEAN, pages : Files, mark : {"none"} \cup Ended] /\ x2.pages = {} /\ x2.mark = s.out[p].mark
    BY <2>1
  <2> HIDE DEF x2
  <2>3. NoEntry \in [meta : BOOLEAN, pages : Files, mark : {"none"} \cup Ended] /\ NoEntry.pages = {}
    BY <2>0 DEF NoEntry
  <2> QED BY <2>1, <2>2, <2>3
<1>3. Bare = O(x1) /\ Marked = O(x2) /\ Removed = O(NoEntry)
  BY DEF Stores
<1>4. \/ o = Ok(Removed) \/ \E t \in {s, Bare, Marked, Removed} : o = Crashes(t) \/ o \in Fails(t, "remove")
  BY DEF RemoveEntry
<1> HIDE DEF Bare, Marked, Removed, x1, x2, O
<1>5. ASSUME NEW t \in {Bare, Marked, Removed} PROVE Like(t) /\ Ends3(t)
  BY <1>1, <1>2, <1>3
<1>6. Like(Removed) /\ Removed.out[p] = NoEntry
  BY <1>1, <1>2, <1>3
<1>7. ASSUME NEW t \in {s, Bare, Marked, Removed}
      PROVE  Like(t) /\ Moves(s, t, J, D) /\ t.out[p].pages \subseteq s.out[p].pages
  <2>1. CASE t = s
    BY <2>1, MovesSelf
  <2>2. CASE t \in {Bare, Marked, Removed}
    <3>1. Like(t) /\ Ends3(t)
      BY <2>2, <1>5
    <3>2. Moves(s, t, J, D)
      BY <3>1, LessOut
    <3> QED BY <3>1, <3>2, <1>2
  <2> QED BY <2>1, <2>2
<1>8. CASE o = Ok(Removed)
  <2>1. Removed \in Stores
    BY <1>6
  <2>2. o \in Outcome /\ o.how = "ok" /\ o.s = Removed
    BY <2>1, <1>8, OutcomeIs
  <2> QED BY <2>2, <1>7, <1>6
<1>9. CASE \E t \in {s, Bare, Marked, Removed} : o = Crashes(t) \/ o \in Fails(t, "remove")
  <2>1. PICK t \in {s, Bare, Marked, Removed} : o = Crashes(t) \/ o \in Fails(t, "remove")
    BY <1>9
  <2>2. Like(t) /\ Moves(s, t, J, D) /\ t.out[p].pages \subseteq s.out[p].pages
    BY <1>7
  <2>a. t \in Stores
    BY <2>2
  <2>3. o \in Outcome /\ o.how \in {"crashed", "failed"} /\ o.s = t
    BY <2>1, <2>a, StopsAt
  <2> QED BY <2>2, <2>3
<1> QED BY <1>4, <1>8, <1>9

(* What ending an entry leaves alone.                                       *)
EntryEnds(s, o, p, J, D) ==
  /\ o \in Outcome /\ o.how \in {"ok", "crashed", "failed"} /\ Moves(s, o.s, J, D)
  /\ o.s.open = s.open /\ o.s.has = s.has
  /\ \A q \in Periods \ {p} : o.s.out[q] = s.out[q]
  /\ o.s.out[p].pages \subseteq s.out[p].pages

(* Ending an entry, in parts.                                               *)
LEMMA EntryEndsTrans ==
  ASSUME NEW s \in Stores, NEW a, NEW r, NEW p \in Periods, NEW J, NEW D,
         EntryEnds(s, a, p, J, D), EntryEnds(a.s, r, p, J, D)
  PROVE  EntryEnds(s, Sum(a, r), p, J, D)
<1>1. Sum(a, r) \in Outcome /\ Sum(a, r).s = r.s /\ Sum(a, r).how = r.how
  BY SumIs DEF EntryEnds
<1>2. Moves(s, r.s, J, D)
  BY MovesTrans DEF EntryEnds
<1> QED BY <1>1, <1>2 DEF EntryEnds

(* The receipts of a marked entry get its mark.                             *)
LEMMA MarkedEnds ==
  ASSUME NEW s \in Stores, NEW J, NEW D, NEW p \in Periods, Sound(s, J, D), s.out[p].mark # "none",
         NEW o \in Marks(s, p, s.out[p].mark)
  PROVE  EntryEnds(s, o, p, J, D) /\ o.s.out = s.out /\ (o.how = "ok" => \A b \in Batches : o.s.rcpt[b] # Pending(p))
<1> USE StoreFields
<1>1. s.out[p].mark \in Ended /\ s.out[p] # NoEntry
  <2>1. s.out[p].mark \in {"none"} \cup Ended
    OBVIOUS
  <2> QED BY <2>1 DEF NoEntry
<1>2. p \notin s.staged
  BY <1>1 DEF Sound, StagedPend
<1>s. PICK st \in Ended : st = s.out[p].mark
  BY <1>1
<1>m. o \in Marks(s, p, st)
  BY <1>s
<1>3. ASSUME NEW b \in Batches, s.rcpt[b] = Pending(p)
      PROVE  (st = "Delivered" => b \in J) /\ (st = "Discarded" => b \in D)
  <2>1. b \in PagesOf(s, p)
    BY <1>1, <1>3 DEF Sound, Placed, Pending
  <2> QED BY <2>1, <1>s DEF Sound, MarksHold
<1>4. /\ o \in Outcome /\ o.how \in {"ok", "crashed", "failed"} /\ Moves(s, o.s, J, D)
      /\ o.s.open = s.open /\ o.s.out = s.out /\ o.s.staged = s.staged /\ o.s.has = s.has
      /\ o.how = "ok" => \A b \in Batches : o.s.rcpt[b] # Pending(p)
  <2> HIDE StoreFields
  <2>1. s.out[p] = NoEntry \/ s.out[p].mark # "none"
    OBVIOUS
  <2>2. \A b \in Batches : s.rcpt[b] = Pending(p) => (st = "Delivered" => b \in J) /\ (st = "Discarded" => b \in D)
    BY <1>3
  <2> QED BY <1>m, <1>2, <2>1, <2>2, MarksOut
<1> QED BY <1>4 DEF EntryEnds

(* A marked entry without pending receipts is removed.                      *)
LEMMA RemovedEnds ==
  ASSUME NEW s \in Stores, NEW J, NEW D, NEW p \in Periods, Sound(s, J, D),
         s.out[p].mark # "none", \A b \in Batches : s.rcpt[b] # Pending(p),
         NEW o \in RemoveEntry(s, p)
  PROVE  EntryEnds(s, o, p, J, D)
BY RemoveEntryOut DEF EntryEnds

(* write_outbox_terminal on an entry whose batches have ended that way, or  *)
(* that has a mark.                                                         *)
LEMMA MarkerWritten ==
  ASSUME NEW s \in Stores, NEW J, NEW D, NEW p \in Periods, NEW st \in Ended, Sound(s, J, D), s.out[p].meta,
         s.out[p].mark = "none" =>
           (st = "Delivered" => PagesOf(s, p) \subseteq J) /\ (st = "Discarded" => PagesOf(s, p) \subseteq D),
         NEW o \in WriteMarker(s, p, st)
  PROVE  EntryEnds(s, o, p, J, D) /\ (o.how = "ok" => o.s.out[p].mark # "none")
<1> USE StoreFields
<1>1. CASE s.out[p].mark # "none"
  <2>1. o = Ok(s)
    BY <1>1 DEF WriteMarker
  <2>2. o \in Outcome /\ o.how = "ok" /\ o.s = s
    BY <2>1, OutcomeIs
  <2> QED BY <1>1, <2>2, MovesSelf DEF EntryEnds
<1>2. CASE s.out[p].mark = "none"
  <2> DEFINE t == [s EXCEPT !.out[p].mark = st]
             x == [s.out[p] EXCEPT !.mark = st]
             outs == [s.out EXCEPT ![p] = x]
  <2>1. o \in Write(s, t, "marker")
    BY <1>2 DEF WriteMarker
  <2>e. s.out[p] \in [meta : BOOLEAN, pages : Files, mark : {"none"} \cup Ended]
    OBVIOUS
  <2>2. x \in [meta : BOOLEAN, pages : Files, mark : {"none"} \cup Ended] /\ x.meta = s.out[p].meta /\ x.pages = s.out[p].pages /\ x.mark = st
    BY <2>e
  <2>3. t = [s EXCEPT !.out = outs]
    BY DEF Stores
  <2> HIDE DEF x, t
  <2>4. /\ outs \in [Periods -> [meta : BOOLEAN, pages : Files, mark : {"none"} \cup Ended]]
        /\ outs[p] = x /\ \A q \in Periods \ {p} : outs[q] = s.out[q]
    BY <2>2
  <2> HIDE DEF outs
  <2>5. /\ t \in Stores /\ t.open = s.open /\ t.rcpt = s.rcpt /\ t.staged = s.staged /\ t.has = s.has /\ t.cur = s.cur
        /\ t.out = outs
    BY <2>3, <2>4 DEF Stores
  <2>6. Moves(s, t, J, D)
    BY <1>2, <2>2, <2>4, <2>5, EntryMarked
  <2>7. /\ o \in Outcome /\ o.how \in {"ok", "crashed", "failed"} /\ o.s \in {s, t}
        /\ o.how = "ok" => o.s = t
    BY <2>1, <2>5, WriteIs
  <2>8. CASE o.s = s
    BY <2>8, <2>7, <2>2, <2>4, <2>5, MovesSelf DEF EntryEnds, Ended
  <2>9. CASE o.s = t
    BY <2>9, <2>7, <2>6, <2>2, <2>4, <2>5 DEF EntryEnds, Ended
  <2> QED BY <2>7, <2>8, <2>9
<1> QED BY <1>1, <1>2

(* The mark, the receipts and the removal, stopped anywhere, leave the      *)
(* store sound.                                                             *)
LEMMA EndEntryOut ==
  ASSUME NEW s \in Stores, NEW J, NEW D, NEW p \in Periods, NEW st \in Ended, Sound(s, J, D), s.out[p].meta,
         s.out[p].mark = "none" =>
           (st = "Delivered" => PagesOf(s, p) \subseteq J) /\ (st = "Discarded" => PagesOf(s, p) \subseteq D),
         NEW o \in EndEntry(s, p, st)
  PROVE  EntryEnds(s, o, p, J, D)
<1> DEFINE Two == Then(WriteMarker(s, p, st), LAMBDA t : Marks(t, p, t.out[p].mark))
<1>1. ASSUME NEW a \in Two
      PROVE  /\ EntryEnds(s, a, p, J, D)
             /\ a.how = "ok" => a.s.out[p].mark # "none" /\ \A b \in Batches : a.s.rcpt[b] # Pending(p)
  <2>1. PICK w \in WriteMarker(s, p, st) :
          \/ w.how # "ok" /\ a = w
          \/ w.how = "ok" /\ \E m \in Marks(w.s, p, w.s.out[p].mark) : a = Sum(w, m)
    BY <1>1 DEF Then, Sum
  <2>2. EntryEnds(s, w, p, J, D) /\ (w.how = "ok" => w.s.out[p].mark # "none")
    BY MarkerWritten
  <2>3. CASE w.how # "ok" /\ a = w
    BY <2>2, <2>3
  <2>4. CASE w.how = "ok" /\ \E m \in Marks(w.s, p, w.s.out[p].mark) : a = Sum(w, m)
    <3>1. PICK m \in Marks(w.s, p, w.s.out[p].mark) : a = Sum(w, m)
      BY <2>4
    <3>2. w.s \in Stores /\ Sound(w.s, J, D)
      BY <2>2 DEF EntryEnds, Moves
    <3>3. EntryEnds(w.s, m, p, J, D) /\ m.s.out = w.s.out /\ (m.how = "ok" => \A b \in Batches : m.s.rcpt[b] # Pending(p))
      BY <2>2, <2>4, <3>2, MarkedEnds
    <3>4. EntryEnds(s, Sum(w, m), p, J, D)
      BY <2>2, <3>3, EntryEndsTrans
    <3>5. Sum(w, m).s = m.s /\ Sum(w, m).how = m.how
      BY DEF Sum
    <3> QED BY <2>2, <2>4, <3>1, <3>3, <3>4, <3>5
  <2> QED BY <2>1, <2>3, <2>4
<1>2. EndEntry(s, p, st) = Then(Two, LAMBDA t : RemoveEntry(t, p))
  BY DEF EndEntry
<1> HIDE DEF Two
<1>3. PICK a \in Two :
        \/ a.how # "ok" /\ o = a
        \/ a.how = "ok" /\ \E r \in RemoveEntry(a.s, p) : o = Sum(a, r)
  BY <1>2 DEF Then, Sum
<1>4. /\ EntryEnds(s, a, p, J, D)
      /\ a.how = "ok" => a.s.out[p].mark # "none" /\ \A b \in Batches : a.s.rcpt[b] # Pending(p)
  BY <1>1
<1>5. CASE a.how # "ok" /\ o = a
  BY <1>4, <1>5
<1>6. CASE a.how = "ok" /\ \E r \in RemoveEntry(a.s, p) : o = Sum(a, r)
  <2>1. PICK r \in RemoveEntry(a.s, p) : o = Sum(a, r)
    BY <1>6
  <2>2. a.s \in Stores /\ Sound(a.s, J, D)
    BY <1>4 DEF EntryEnds, Moves
  <2>3. EntryEnds(a.s, r, p, J, D)
    BY <1>4, <1>6, <2>2, RemovedEnds
  <2> QED BY <1>4, <2>1, <2>3, EntryEndsTrans
<1> QED BY <1>3, <1>5, <1>6

(* delivered, for an entry that the journal has.                            *)
LEMMA DeliversOut ==
  ASSUME NEW s \in Stores, NEW J, NEW D, NEW p \in Periods, Sound(s, J, D), s.out[p].meta,
         s.out[p].mark = "none" => PagesOf(s, p) \subseteq J,
         NEW o \in Delivers(s, p)
  PROVE  EntryEnds(s, o, p, J, D)
<1>1. PICK a \in EndEntry(s, p, "Delivered") :
        \/ a.how # "ok" /\ o = a
        \/ a.how = "ok" /\ o = Sum(a, Ok(RefreshFull(a.s)))
  BY DEF Delivers, Then, Sum
<1>2. EntryEnds(s, a, p, J, D)
  BY EndEntryOut DEF Ended
<1>3. a.s \in Stores /\ Sound(a.s, J, D)
  BY <1>2 DEF EntryEnds, Moves
<1> DEFINE t == RefreshFull(a.s)
<1>4. /\ t \in Stores /\ t.open = a.s.open /\ t.out = a.s.out /\ t.has = a.s.has /\ Moves(a.s, t, J, D)
  BY <1>3, RefreshIs, RefreshMoves
<1> HIDE DEF t
<1>5. Ok(t) \in Outcome /\ Ok(t).s = t /\ Ok(t).how = "ok"
  BY <1>4, OutcomeIs
<1>6. EntryEnds(a.s, Ok(t), p, J, D)
  BY <1>4, <1>5 DEF EntryEnds
<1> QED BY <1>1, <1>2, <1>6, EntryEndsTrans DEF t

(* load finishes a marked entry.                                            *)
LEMMA FinishMarkedOut ==
  ASSUME NEW s \in Stores, NEW J, NEW D, NEW p \in Periods, Sound(s, J, D), NEW o \in FinishMarked(s, p)
  PROVE  EntryEnds(s, o, p, J, D)
<1>1. CASE s.out[p].mark = "none"
  <2>1. o = Ok(s)
    BY <1>1 DEF FinishMarked
  <2>2. o \in Outcome /\ o.how = "ok" /\ o.s = s
    BY <2>1, OutcomeIs
  <2> QED BY <1>1, <2>2, MovesSelf DEF EntryEnds
<1>2. CASE s.out[p].mark # "none" /\ ~s.out[p].meta
  <2>1. o \in RemoveEntry(s, p)
    BY <1>2 DEF FinishMarked
  <2>2. s.out[p] # NoEntry /\ PagesOf(s, p) = {}
    BY <1>2 DEF NoEntry, Sound, Shape, PagesOf, BatchesOf
  <2>3. \A b \in Batches : s.rcpt[b] # Pending(p)
    BY <2>2 DEF Sound, Placed, Pending
  <2> QED BY <1>2, <2>1, <2>3, RemovedEnds
<1>3. CASE s.out[p].mark # "none" /\ s.out[p].meta
  <2>1. PICK a \in Marks(s, p, s.out[p].mark) :
          \/ a.how # "ok" /\ o = a
          \/ a.how = "ok" /\ \E r \in RemoveEntry(a.s, p) : o = Sum(a, r)
    BY <1>3 DEF FinishMarked, Then, Sum
  <2>2. EntryEnds(s, a, p, J, D) /\ a.s.out = s.out /\ (a.how = "ok" => \A b \in Batches : a.s.rcpt[b] # Pending(p))
    BY <1>3, MarkedEnds
  <2>3. CASE a.how = "ok" /\ \E r \in RemoveEntry(a.s, p) : o = Sum(a, r)
    <3>1. PICK r \in RemoveEntry(a.s, p) : o = Sum(a, r)
      BY <2>3
    <3>2. a.s \in Stores /\ Sound(a.s, J, D)
      BY <2>2 DEF EntryEnds, Moves
    <3>3. EntryEnds(a.s, r, p, J, D)
      BY <1>3, <2>2, <2>3, <3>2, RemovedEnds
    <3> QED BY <2>2, <3>1, <3>3, EntryEndsTrans
  <2> QED BY <2>1, <2>2, <2>3
<1> QED BY <1>1, <1>2, <1>3

(* What ending an open period leaves alone.                                 *)
PeriodEnds(s, o, p, J, D) ==
  /\ o \in Outcome /\ o.how \in {"ok", "crashed", "failed"} /\ Moves(s, o.s, J, D)
  /\ o.s.rcpt = s.rcpt /\ o.s.has = s.has /\ o.s.bytes = s.bytes
  /\ \A q \in Periods \ {p} : o.s.open[q] = s.open[q] /\ o.s.out[q] = s.out[q]

(* Ending an open period, in parts.                                         *)
LEMMA PeriodEndsTrans ==
  ASSUME NEW s \in Stores, NEW a, NEW r, NEW p \in Periods, NEW J, NEW D,
         PeriodEnds(s, a, p, J, D), PeriodEnds(a.s, r, p, J, D)
  PROVE  PeriodEnds(s, Sum(a, r), p, J, D)
<1>1. Sum(a, r) \in Outcome /\ Sum(a, r).s = r.s /\ Sum(a, r).how = r.how
  BY SumIs DEF PeriodEnds
<1>2. Moves(s, r.s, J, D)
  BY MovesTrans DEF PeriodEnds
<1> QED BY <1>1, <1>2 DEF PeriodEnds

(* Removing an open period whose batches are copied or have ended.          *)
LEMMA OpenRemoved ==
  ASSUME NEW s \in Stores, NEW J, NEW D, NEW p \in Periods, Sound(s, J, D), "rmdir" \notin Failing,
         s.out[p] = NoEntry => \A b \in OpenOf(s, p) : s.rcpt[b].state \in Ended,
         NEW o \in RemoveOpen(s, p)
  PROVE  PeriodEnds(s, o, p, J, D)
BY RemoveOpenOut DEF PeriodEnds

(* finalize_dir of a period all of whose batches are pending, stopped       *)
(* anywhere.                                                                *)
LEMMA FinalizeOut ==
  ASSUME NEW s \in Stores, NEW J, NEW D, NEW p \in Periods, Sound(s, J, D), "rmdir" \notin Failing,
         s.open[p].meta, p # s.cur,
         \A b \in OpenOf(s, p) : s.rcpt[b] # NoReceipt /\ s.rcpt[b].state \notin Ended,
         NEW o \in Finalize(s, p)
  PROVE  PeriodEnds(s, o, p, J, D)
<1>1. CASE s.out[p] # NoEntry
  <2>1. o \in RemoveOpen(s, p)
    BY <1>1 DEF Finalize
  <2> QED BY <1>1, <2>1, OpenRemoved
<1>2. CASE s.out[p] = NoEntry
  <2> DEFINE copied == [s EXCEPT !.staged = @ \cup {p}]
             entry == [meta |-> TRUE, pages |-> s.open[p].files, mark |-> "none"]
             renamed == [s EXCEPT !.staged = @ \ {p}, !.out[p] = entry]
             removed == [s EXCEPT !.staged = @ \ {p}]
             Settled(t) == IF s.open[p].files = {} THEN Write(t, removed, "remove")
                           ELSE Write(t, renamed, "finalize")
             First == {Ok(copied), Crashes(s), Crashes(copied)} \cup Fails(copied, "finalize")
             Two == Then(First, Settled)
             outs == [s.out EXCEPT ![p] = entry]
             Frame(t) == /\ t \in Stores /\ t.open = s.open /\ t.rcpt = s.rcpt /\ t.cur = s.cur /\ t.has = s.has /\ t.bytes = s.bytes
                         /\ \A q \in Periods \ {p} : t.out[q] = s.out[q]
  <2>1. Frame(copied) /\ copied.out = s.out /\ copied.staged = s.staged \cup {p}
    BY StoreFields DEF Stores
  <2>2. Frame(removed) /\ removed.out = s.out /\ removed.staged = s.staged \ {p}
    BY StoreFields DEF Stores
  <2>3. Frame(renamed) /\ renamed.out[p] = entry /\ renamed.staged = s.staged \ {p}
    <3>1. entry \in [meta : BOOLEAN, pages : Files, mark : {"none"} \cup Ended]
      BY StoreFields
    <3>2. renamed = [[s EXCEPT !.staged = @ \ {p}] EXCEPT !.out = outs]
      BY DEF Stores
    <3> HIDE DEF entry
    <3>3. /\ outs \in [Periods -> [meta : BOOLEAN, pages : Files, mark : {"none"} \cup Ended]]
          /\ outs[p] = entry /\ \A q \in Periods \ {p} : outs[q] = s.out[q]
      BY <3>1, StoreFields
    <3> HIDE DEF outs, renamed
    <3> QED BY <3>2, <3>3, StoreFields DEF Stores
  <2>4. Finalize(s, p) = Then(Two, LAMBDA t : RemoveOpen(t, p))
    BY <1>2 DEF Finalize
  <2>f. \A a : a \in First => a = Ok(copied) \/ (\E t \in {s, copied} : a = Crashes(t) \/ a \in Fails(t, "finalize"))
    OBVIOUS
  <2>x. \A t : \/ s.open[p].files = {} /\ Settled(t) = Write(t, removed, "remove")
               \/ s.open[p].files # {} /\ Settled(t) = Write(t, renamed, "finalize")
    OBVIOUS
  <2>5. Moves(s, copied, J, D)
    <3> HIDE DEF copied
    <3> QED BY <1>2, <2>1, Stages
  <2>6. Moves(s, removed, J, D)
    <3> HIDE DEF removed
    <3> QED BY <2>2, Sweeps
  <2>7. Moves(s, renamed, J, D)
    <3>1. renamed.out[p] = [meta |-> TRUE, pages |-> s.open[p].files, mark |-> "none"]
      BY <2>3
    <3> HIDE DEF renamed, entry
    <3> QED BY <1>2, <2>3, <3>1, Renames
  <2>n. renamed.out[p] # NoEntry
    BY <2>3 DEF NoEntry
  <2>e. s.open[p].files = {} => OpenOf(removed, p) = {}
    BY <2>2 DEF OpenOf, BatchesOf
  <2> HIDE DEF copied, removed, renamed, entry, outs, First, Settled
  <2>w. ASSUME NEW a \in Two
        PROVE  \E c \in First : \/ c.how # "ok" /\ a = c
                                \/ c.how = "ok" /\ \E w \in Settled(c.s) : a = Sum(c, w)
    BY <2>w DEF Then, Sum
  <2> HIDE DEF Two
  <2>8. ASSUME NEW t \in {s, copied, removed, renamed}
        PROVE  Frame(t) /\ Moves(s, t, J, D)
    <3>1. CASE t = s
      BY <3>1, MovesSelf
    <3>2. CASE t \in {copied, removed, renamed}
      BY <3>2, <2>1, <2>2, <2>3, <2>5, <2>6, <2>7
    <3> QED BY <3>1, <3>2
  <2>9. ASSUME NEW a \in Two
        PROVE  /\ a \in Outcome /\ a.how \in {"ok", "crashed", "failed"} /\ a.s \in {s, copied, removed, renamed}
               /\ a.how = "ok" => IF s.open[p].files = {} THEN a.s = removed ELSE a.s = renamed
    <3>1. PICK c \in First : \/ c.how # "ok" /\ a = c
                             \/ c.how = "ok" /\ \E w \in Settled(c.s) : a = Sum(c, w)
      BY <2>9, <2>w
    <3>s. s \in Stores /\ copied \in Stores /\ removed \in Stores /\ renamed \in Stores
      BY <2>8
    <3>2. /\ c \in Outcome /\ c.how \in {"ok", "crashed", "failed"} /\ c.s \in {s, copied}
          /\ c.how = "ok" => c.s = copied
      <4>1. CASE c = Ok(copied)
        BY <4>1, <3>s, OutcomeIs
      <4>2. CASE \E t \in {s, copied} : c = Crashes(t) \/ c \in Fails(t, "finalize")
        <5>1. PICK t \in {s, copied} : c = Crashes(t) \/ c \in Fails(t, "finalize")
          BY <4>2
        <5>2. t \in Stores
          BY <3>s
        <5>3. c \in Outcome /\ c.how \in {"crashed", "failed"} /\ c.s = t
          BY <5>1, <5>2, StopsAt
        <5> QED BY <5>3
      <4> QED BY <2>f, <4>1, <4>2
    <3>3. CASE c.how # "ok" /\ a = c
      BY <3>3, <3>2
    <3>4. CASE c.how = "ok" /\ \E w \in Settled(c.s) : a = Sum(c, w)
      <4>1. PICK w \in Settled(copied) : a = Sum(c, w)
        BY <3>4, <3>2
      <4>2. /\ w \in Outcome /\ w.how \in {"ok", "crashed", "failed"} /\ w.s \in {copied, removed, renamed}
            /\ w.how = "ok" => IF s.open[p].files = {} THEN w.s = removed ELSE w.s = renamed
        <5>1. CASE s.open[p].files = {}
          <6>1. w \in Write(copied, removed, "remove")
            BY <5>1, <2>x
          <6> QED BY <5>1, <6>1, <3>s, WriteIs
        <5>2. CASE s.open[p].files # {}
          <6>1. w \in Write(copied, renamed, "finalize")
            BY <5>2, <2>x
          <6> QED BY <5>2, <6>1, <3>s, WriteIs
        <5> QED BY <5>1, <5>2
      <4>3. a \in Outcome /\ a.s = w.s /\ a.how = w.how
        BY <4>1, <4>2, <3>2, SumIs
      <4> QED BY <4>2, <4>3
    <3> QED BY <3>1, <3>3, <3>4
  <2>10. ASSUME NEW a \in Two PROVE PeriodEnds(s, a, p, J, D)
    <3>1. a.s \in {s, copied, removed, renamed} /\ a \in Outcome /\ a.how \in {"ok", "crashed", "failed"}
      BY <2>9, <2>10
    <3>2. Frame(a.s) /\ Moves(s, a.s, J, D)
      BY <3>1, <2>8
    <3> QED BY <3>1, <3>2 DEF PeriodEnds
  <2>11. PICK a \in Two : \/ a.how # "ok" /\ o = a
                          \/ a.how = "ok" /\ \E r \in RemoveOpen(a.s, p) : o = Sum(a, r)
    BY <2>4 DEF Then, Sum
  <2>12. CASE a.how # "ok" /\ o = a
    BY <2>10, <2>12
  <2>13. CASE a.how = "ok" /\ \E r \in RemoveOpen(a.s, p) : o = Sum(a, r)
    <3>1. PICK r \in RemoveOpen(a.s, p) : o = Sum(a, r)
      BY <2>13
    <3>2. PeriodEnds(s, a, p, J, D)
      BY <2>10
    <3>3. a.s \in Stores /\ Sound(a.s, J, D)
      BY <3>2 DEF PeriodEnds, Moves
    <3>4. a.s.out[p] = NoEntry => \A b \in OpenOf(a.s, p) : a.s.rcpt[b].state \in Ended
      BY <2>9, <2>13, <2>n, <2>e
    <3>5. PeriodEnds(a.s, r, p, J, D)
      BY <3>3, <3>4, OpenRemoved
    <3> QED BY <3>1, <3>2, <3>5, PeriodEndsTrans
  <2> QED BY <2>11, <2>12, <2>13
<1> QED BY <1>1, <1>2

(* A store between two calls, while the app runs.                           *)
Steady(s, J, D) == s \in Stores /\ Sound(s, J, D) /\ Based(s) /\ Repaired(s)

(* What a rotation leaves.                                                  *)
Turns(s, o, J, D) ==
  /\ o \in Outcome /\ Sound(o.s, J, D) /\ DiskOf(o.s) = DiskOf(s) /\ Room(o.s) <= Room(s)
  /\ Based(o.s) /\ Repaired(o.s) /\ o.s.rcpt = s.rcpt
  /\ \A q \in Periods : s.out[q] # NoEntry => o.s.out[q] = s.out[q]
  /\ o.how = "ok" => o.s.bytes = 0 \/ o.s.bytes = s.bytes

(* A rotation that changes nothing.                                         *)
LEMMA SteadyTurn ==
  ASSUME NEW s, NEW J, NEW D, Steady(s, J, D), NEW o \in Outcome, o.s = s
  PROVE  Turns(s, o, J, D)
BY RoomNat DEF Turns, Steady

(* A pending batch stays while its period is finalized.                     *)
LEMMA PeriodKept ==
  ASSUME NEW s \in Stores, NEW o, NEW J, NEW D, NEW p \in Periods, Sound(s, J, D), PeriodEnds(s, o, p, J, D),
         s.out[p] = NoEntry,
         \A b \in OpenOf(s, p) : s.rcpt[b] # NoReceipt /\ s.rcpt[b].state \notin Ended
  PROVE  DiskOf(s) \subseteq DiskOf(o.s)
<1> SUFFICES ASSUME NEW b \in DiskOf(s) PROVE b \in DiskOf(o.s)
  OBVIOUS
<1>1. PICK q \in Periods : b \in OpenOf(s, q) \/ b \in PagesOf(s, q)
  BY DiskIs
<1>2. CASE q # p
  <2>1. o.s.open[q] = s.open[q] /\ o.s.out[q] = s.out[q]
    BY <1>2 DEF PeriodEnds
  <2>2. b \in OpenOf(o.s, q) \/ b \in PagesOf(o.s, q)
    BY <1>1, <2>1 DEF OpenOf, PagesOf
  <2> QED BY <2>2, DiskIs
<1>3. CASE q = p
  <2>1. PagesOf(s, p) = {}
    BY DEF PagesOf, BatchesOf, NoEntry
  <2>2. b \in OpenOf(s, p) /\ b \in Batches
    BY <1>1, <1>3, <2>1, OpenInBatches
  <2>3. s.rcpt[b] = [period |-> p, state |-> "Pending"]
    <3>1. PICK r \in Periods, st \in {"Pending", "Discarded", "Delivered"} : s.rcpt[b] = [period |-> r, state |-> st]
      BY <2>2, ReceiptCases
    <3>2. s.rcpt[b].period = p /\ s.rcpt[b].state \notin Ended
      BY <2>2 DEF Sound, OpenOwned
    <3> QED BY <3>1, <3>2 DEF Ended
  <2>4. o.s.rcpt = s.rcpt /\ Placed(o.s)
    BY DEF PeriodEnds, Moves, Sound
  <2>5. b \in OpenOf(o.s, p) \/ b \in PagesOf(o.s, p)
    BY <2>2, <2>3, <2>4 DEF Placed
  <2> QED BY <2>5, DiskIs
<1> QED BY <1>2, <1>3

(* rotate loses no batch, stopped anywhere, and touches no entry that is    *)
(* there.                                                                   *)
LEMMA RotateOut ==
  ASSUME NEW s, NEW J, NEW D, Steady(s, J, D), "rmdir" \notin Failing, NEW o \in Rotate(s)
  PROVE  Turns(s, o, J, D) /\ (o.how = "ok" => o.s.bytes = 0)
<1>s. s \in Stores /\ Sound(s, J, D) /\ Based(s) /\ Repaired(s)
  BY DEF Steady
<1>1. CASE HasTerminal(s)
  <2>1. o = Refuses(s)
    BY <1>1 DEF Rotate
  <2>2. o \in Outcome /\ o.s = s /\ o.how = "refused"
    BY <2>1, <1>s, OutcomeIs
  <2> QED BY <2>2, SteadyTurn
<1>2. CASE ~HasTerminal(s) /\ NewOpen(s).cur \notin Periods
  BY <1>2 DEF Rotate
<1>3. CASE ~HasTerminal(s) /\ NewOpen(s).cur \in Periods
  <2> DEFINE n == NewOpen(s)
             p == s.cur
  <2>1. /\ n \in Stores /\ n.open = s.open /\ n.out = s.out /\ n.rcpt = s.rcpt /\ n.staged = s.staged
        /\ Sound(n, J, D) /\ Based(n) /\ ~n.has /\ n.bytes = 0
        /\ s.open[s.cur] # NoDir => n.cur # s.cur
    BY <1>s, <1>3, NewOpenIs
  <2>2. DiskOf(n) = DiskOf(s) /\ Room(n) = Room(s) /\ Repaired(n)
    BY <1>s, <2>1, SameDisk
  <2>r. Room(s) \in Nat
    BY <1>s, RoomNat
  <2>p. p \in Periods
    BY <1>s, StoreFields
  <2>3. CASE ~s.has
    <3>1. o = Ok(n)
      BY <1>3, <2>3 DEF Rotate
    <3> HIDE DEF n
    <3>2. o \in Outcome /\ o.s = n
      BY <3>1, <2>1, OutcomeIs
    <3> QED BY <3>2, <2>1, <2>2, <2>r DEF Turns
  <2>4. CASE s.has
    <3>1. PICK a \in Finalize(n, p) :
            \/ a.how # "ok" /\ o = a
            \/ a.how = "ok" /\ \E t \in {a.s, RefreshFull(a.s)} : o = Sum(a, Ok(t))
      BY <1>3, <2>4 DEF Rotate, Then, Sum
    <3> HIDE DEF n
    <3>2. n.open[p].meta /\ p # n.cur /\ n.out[p] = NoEntry
      <4>1. s.open[p].meta
        BY <1>s, <2>4 DEF Based
      <4>2. s.open[p] # NoDir
        BY <4>1 DEF NoDir
      <4> QED BY <4>1, <4>2, <2>1, <1>s DEF Sound, Fresh
    <3>3. \A b \in OpenOf(n, p) : n.rcpt[b] # NoReceipt /\ n.rcpt[b].state \notin Ended
      <4>1. OpenOf(n, p) = OpenOf(s, s.cur)
        BY <2>1 DEF OpenOf
      <4>2. \A b \in OpenOf(s, s.cur) : s.rcpt[b].state \notin Ended
        BY <1>3, <2>4 DEF HasTerminal, OpenOf
      <4>3. \A b \in OpenOf(s, s.cur) : s.rcpt[b] # NoReceipt
        BY <1>s, <2>p DEF Repaired
      <4> QED BY <4>1, <4>2, <4>3, <2>1
    <3> HIDE DEF p
    <3>4. PeriodEnds(n, a, p, J, D)
      BY <2>1, <2>p, <3>2, <3>3, FinalizeOut
    <3>5. a.s \in Stores /\ Sound(a.s, J, D) /\ Moves(n, a.s, J, D) /\ a \in Outcome
      BY <3>4 DEF PeriodEnds, Moves
    <3>6. PICK t : (t = a.s \/ t = RefreshFull(a.s)) /\ ((o = a /\ t = a.s) \/ o = Sum(a, Ok(t)))
      BY <3>1
    <3>7. /\ t \in Stores /\ t.open = a.s.open /\ t.out = a.s.out /\ t.rcpt = a.s.rcpt /\ t.cur = a.s.cur /\ t.has = a.s.has /\ t.bytes = a.s.bytes
          /\ Moves(a.s, t, J, D)
      <4>1. CASE t = a.s
        BY <4>1, <3>5, MovesSelf
      <4>2. CASE t = RefreshFull(a.s)
        BY <4>2, <3>5, RefreshIs, RefreshMoves
      <4> QED BY <3>6, <4>1, <4>2
    <3>8. o \in Outcome /\ o.s = t
      <4>1. Ok(t) \in Outcome /\ Ok(t).s = t
        BY <3>7, OutcomeIs
      <4> QED BY <3>5, <3>6, <4>1, SumIs
    <3>9. Moves(n, t, J, D)
      BY <2>1, <3>5, <3>7, MovesTrans
    <3>10. Repaired(t)
      BY <2>1, <2>2, <3>9, MovesRepaired
    <3>11. Based(t)
      <4>1. n.open[n.cur] = NoDir /\ n.cur \in Periods
        BY <2>1, StoreFields DEF Based
      <4>2. t.open[n.cur] = NoDir /\ t.cur = n.cur
        BY <4>1, <3>9 DEF Moves
      <4>3. ~t.has
        BY <2>1, <3>4, <3>7 DEF PeriodEnds
      <4> QED BY <4>2, <4>3 DEF Based
    <3>12. DiskOf(t) \subseteq DiskOf(s) /\ Room(t) <= Room(s) /\ Sound(t, J, D)
      BY <3>9, <2>2 DEF Moves, Lets
    <3>15. DiskOf(n) \subseteq DiskOf(a.s)
      BY <2>1, <2>p, <3>2, <3>3, <3>4, PeriodKept
    <3>16. DiskOf(t) = DiskOf(a.s)
      BY <3>7 DEF DiskOf, OpenOf, PagesOf
    <3>17. DiskOf(t) = DiskOf(s)
      BY <2>2, <3>12, <3>15, <3>16
    <3>13. t.rcpt = s.rcpt /\ t.bytes = 0
      BY <2>1, <3>4, <3>7 DEF PeriodEnds
    <3>14. \A q \in Periods : s.out[q] # NoEntry => t.out[q] = s.out[q]
      BY <2>1, <3>2, <3>4, <3>7 DEF PeriodEnds
    <3> QED BY <3>8, <3>10, <3>11, <3>12, <3>13, <3>14, <3>17 DEF Turns
  <2> QED BY <2>3, <2>4
<1> QED BY <1>1, <1>2, <1>3

(* What a commit of b leaves, n bodies larger at most.                      *)
Commits(s, o, b, n, J, D) ==
  /\ o \in Outcome /\ o.how \in {"ok", "crashed", "failed"} /\ Sound(o.s, J, D)
  /\ o.s.out = s.out /\ o.s.cur = s.cur /\ Room(o.s) <= Room(s) + n
  /\ DiskOf(s) \subseteq DiskOf(o.s) /\ DiskOf(o.s) \subseteq DiskOf(s) \cup {b}
  /\ o.how = "failed" => Based(o.s) /\ Repaired(o.s)

(* The three writes of a commit.                                            *)
WithDir(s) ==
  IF s.has THEN {Ok(s)} ELSE Write(s, [s EXCEPT !.open[s.cur].meta = TRUE, !.has = TRUE], "period")

(* period.json: one directory more.                                         *)
LEMMA DirMade ==
  ASSUME NEW s, NEW J, NEW D, Steady(s, J, D), NEW b, NEW o \in WithDir(s)
  PROVE  /\ Commits(s, o, b, IF s.has THEN 0 ELSE 1, J, D) /\ o.s.rcpt = s.rcpt
         /\ o.how = "ok" => Steady(o.s, J, D) /\ o.s.has /\ o.s.bytes = s.bytes
<1>s. s \in Stores /\ Sound(s, J, D) /\ Based(s) /\ Repaired(s) /\ Room(s) \in Nat
  BY RoomNat DEF Steady
<1>1. CASE s.has
  <2>1. o = Ok(s)
    BY <1>1 DEF WithDir
  <2>2. o \in Outcome /\ o.s = s /\ o.how = "ok"
    BY <2>1, <1>s, OutcomeIs
  <2> QED BY <1>1, <1>s, <2>2 DEF Commits, Steady
<1>2. CASE ~s.has
  <2> DEFINE t == [s EXCEPT !.open[s.cur].meta = TRUE, !.has = TRUE]
             x == [s.open[s.cur] EXCEPT !.meta = TRUE]
             opens == [s.open EXCEPT ![s.cur] = x]
  <2>1. o \in Write(s, t, "period")
    BY <1>2 DEF WithDir
  <2>2. s.open[s.cur] = NoDir /\ s.cur \in Periods
    BY <1>s, <1>2, StoreFields DEF Based
  <2>3. t = [[s EXCEPT !.has = TRUE] EXCEPT !.open = opens]
    <3> HIDE DEF x
    <3> QED BY <1>s DEF Stores, x
  <2>4. x \in [meta : BOOLEAN, files : Files] /\ x.meta /\ x.files = {}
    <3>1. s.open[s.cur] \in [meta : BOOLEAN, files : Files] /\ s.open[s.cur].files = {}
      <4>1. s.open[s.cur] \in [meta : BOOLEAN, files : Files]
        BY <1>s, <2>2, StoreFields
      <4> QED BY <4>1, <2>2 DEF NoDir
    <3> QED BY <3>1
  <2>5. /\ opens \in [Periods -> [meta : BOOLEAN, files : Files]] /\ opens[s.cur] = x
        /\ \A q \in Periods \ {s.cur} : opens[q] = s.open[q]
    <3> HIDE DEF x
    <3> QED BY <2>2, <2>4, <1>s, StoreFields
  <2> HIDE DEF t, opens
  <2>6. /\ t \in Stores /\ t.out = s.out /\ t.staged = s.staged /\ t.rcpt = s.rcpt /\ t.cur = s.cur /\ t.has = TRUE
        /\ t.open = opens /\ t.bytes = s.bytes
    <3> HIDE DEF x
    <3> QED BY <2>3, <2>5, <1>s, StoreFields DEF Stores
  <2>7. /\ Sound(t, J, D) /\ Based(t) /\ DiskOf(t) = DiskOf(s) /\ Room(t) <= Room(s) + 1
        /\ \A q \in Periods : OpenOf(t, q) = OpenOf(s, q)
    <3> HIDE DEF x
    <3> QED BY <1>s, <2>2, <2>4, <2>5, <2>6, GetsDir
  <2>8. Repaired(t)
    BY <1>s, <2>6, <2>7 DEF Repaired
  <2>9. /\ o \in Outcome /\ o.how \in {"ok", "crashed", "failed"} /\ o.s \in {s, t}
        /\ o.how = "ok" => o.s = t
    BY <2>1, <2>6, <1>s, WriteIs
  <2> QED BY <1>2, <1>s, <2>6, <2>7, <2>8, <2>9 DEF Commits, Steady
<1> QED BY <1>1, <1>2

Holding(t, b) == [t EXCEPT !.open[t.cur].files = @ \cup {<<t.bytes + 1, b>>}, !.bytes = t.bytes + 1]

(* The batch: its bytes, its future copy and its future receipt.            *)
LEMMA BatchWritten ==
  ASSUME NEW s, NEW J, NEW D, Steady(s, J, D), s.has, s.bytes + 1 <= FileMax,
         NEW b \in Batches, s.rcpt[b] = NoReceipt,
         NEW o \in Write(s, Holding(s, b), "batch")
  PROVE  /\ Commits(s, o, b, 3, J, D) /\ o.s.rcpt = s.rcpt
         /\ o.how = "ok" => /\ o.s.open[o.s.cur].meta /\ o.s.has /\ b \in OpenOf(o.s, o.s.cur)
                            /\ \A q \in Periods : \A c \in OpenOf(o.s, q) : c = b \/ o.s.rcpt[c] # NoReceipt
<1>s. s \in Stores /\ Sound(s, J, D) /\ Based(s) /\ Repaired(s) /\ Room(s) \in Nat
  BY RoomNat DEF Steady
<1> DEFINE t == Holding(s, b)
           y == <<s.bytes + 1, b>>
           fs == s.open[s.cur].files \cup {y}
           x == [s.open[s.cur] EXCEPT !.files = fs]
           opens == [s.open EXCEPT ![s.cur] = x]
<1>1. s.open[s.cur].meta /\ s.cur \in Periods /\ s.open[s.cur] \in [meta : BOOLEAN, files : Files] /\ s.bytes \in 0..FileMax
  BY <1>s, StoreFields DEF Based
<1>2. s.bytes + 1 \in 1..FileMax /\ s.bytes + 1 \in 0..FileMax
  BY <1>1, BrowserAssumption
<1>3. fs \in Files
  BY <1>1, <1>2 DEF Files
<1>4. t = [[s EXCEPT !.bytes = s.bytes + 1] EXCEPT !.open = opens]
  BY <1>s DEF Holding, Stores
<1>y. y[2] = b /\ fs = s.open[s.cur].files \cup {y}
  OBVIOUS
<1> HIDE DEF y, fs, t
<1>5. x \in [meta : BOOLEAN, files : Files] /\ x.meta = s.open[s.cur].meta /\ x.files = fs
  BY <1>1, <1>3
<1> HIDE DEF x
<1>6. /\ opens \in [Periods -> [meta : BOOLEAN, files : Files]] /\ opens[s.cur] = x
      /\ \A q \in Periods \ {s.cur} : opens[q] = s.open[q]
  BY <1>1, <1>5, <1>s, StoreFields
<1> HIDE DEF opens
<1>7. /\ t \in Stores /\ t.out = s.out /\ t.staged = s.staged /\ t.rcpt = s.rcpt /\ t.cur = s.cur /\ t.has = s.has
      /\ t.open = opens
  BY <1>2, <1>4, <1>6, <1>s, StoreFields DEF Stores
<1>8. /\ Sound(t, J, D) /\ DiskOf(t) = DiskOf(s) \cup {b} /\ Room(t) <= Room(s) + 3
      /\ b \in OpenOf(t, s.cur)
      /\ \A q \in Periods : \A c \in OpenOf(t, q) : c = b \/ c \in OpenOf(s, q)
  <2>1. t.open[s.cur].meta /\ t.open[s.cur].files = s.open[s.cur].files \cup {y}
    BY <1>1, <1>5, <1>6, <1>7, <1>y
  <2>2. \A q \in Periods \ {s.cur} : t.open[q] = s.open[q]
    BY <1>6, <1>7
  <2> QED BY <1>1, <1>s, <1>y, <1>7, <2>1, <2>2, GetsFile
<1>9. /\ o \in Outcome /\ o.how \in {"ok", "crashed", "failed"} /\ o.s \in {s, t}
      /\ o.how = "ok" => o.s = t
      /\ o.how = "failed" => o.s = s
  <2>1. o \in Write(s, t, "batch")
    BY DEF t
  <2> QED BY <2>1, <1>7, <1>s, WriteIs
<1>10. t.open[t.cur].meta
  BY <1>1, <1>5, <1>6, <1>7
<1>11. \A q \in Periods : \A c \in OpenOf(t, q) : c = b \/ t.rcpt[c] # NoReceipt
  BY <1>7, <1>8, <1>s DEF Repaired
<1>12. CASE o.s = s
  BY <1>12, <1>s, <1>9, <1>10, <1>11, <1>8, <1>7 DEF Commits
<1>13. CASE o.s = t
  <2>1. o.how # "failed" \/ t = s
    BY <1>9, <1>13
  <2> QED BY <2>1, <1>13, <1>s, <1>9, <1>10, <1>11, <1>8, <1>7 DEF Commits
<1> QED BY <1>9, <1>12, <1>13

Receipted(t, b) == [t EXCEPT !.rcpt[b] = [period |-> t.cur, state |-> "Pending"]]

(* The receipt takes the room that was kept for it.                         *)
LEMMA ReceiptWritten ==
  ASSUME NEW s \in Stores, NEW J, NEW D, Sound(s, J, D), "receipt" \notin Failing,
         s.open[s.cur].meta, s.has,
         NEW b \in Batches, s.rcpt[b] = NoReceipt, b \in OpenOf(s, s.cur),
         \A q \in Periods : \A c \in OpenOf(s, q) : c = b \/ s.rcpt[c] # NoReceipt,
         NEW o \in Write(s, Receipted(s, b), "receipt")
  PROVE  /\ Commits(s, o, b, 0, J, D)
         /\ o.how = "ok" => Steady(o.s, J, D) /\ b \in DiskOf(o.s)
<1> DEFINE t == Receipted(s, b)
           rc == [s.rcpt EXCEPT ![b] = Pending(s.cur)]
<1>1. s.cur \in Periods /\ Room(s) \in Nat
  BY StoreFields, RoomNat
<1>2. /\ rc \in [Batches -> {NoReceipt} \cup [period : Periods, state : {"Pending"} \cup Ended]]
      /\ \A c \in Batches : rc[c] = IF c \in {b} THEN Pending(s.cur) ELSE s.rcpt[c]
  <2>1. Pending(s.cur) \in [period : Periods, state : {"Pending"} \cup Ended]
    BY <1>1 DEF Pending
  <2> QED BY <2>1, StoreFields
<1>3. t = [s EXCEPT !.rcpt = rc]
  BY DEF Receipted, Pending, Stores
<1> HIDE DEF t, rc
<1>4. /\ t \in Stores /\ t.rcpt = rc /\ t.open = s.open /\ t.out = s.out /\ t.staged = s.staged /\ t.cur = s.cur /\ t.has = s.has
  BY <1>2, <1>3, StoreFields DEF Stores
<1> DEFINE d == {b}
<1>5. Gives(s, t, d, Pending(s.cur))
  BY <1>2, <1>4 DEF Gives
<1>6. d \in SUBSET OpenOf(s, s.cur) /\ \A c \in d : s.rcpt[c] = NoReceipt
  OBVIOUS
<1> HIDE DEF d
<1>7. Moves(s, t, J, D)
  BY <1>1, <1>4, <1>5, <1>6, ReceiptsGiven
<1>8. b \in DiskOf(s) /\ DiskOf(t) = DiskOf(s)
  <2>1. b \in DiskOf(s)
    BY <1>1, DiskIs
  <2>2. DiskOf(t) = DiskOf(s)
    BY <1>4 DEF DiskOf, OpenOf, PagesOf
  <2> QED BY <2>1, <2>2
<1>9. Repaired(t) /\ Based(t)
  <2>1. Pending(s.cur) # NoReceipt
    BY DEF Pending, NoReceipt
  <2>2. ASSUME NEW q \in Periods, NEW c \in OpenOf(s, q) PROVE t.rcpt[c] # NoReceipt
    <3>1. c \in Batches
      BY OpenInBatches
    <3> QED BY <3>1, <2>1, <1>2, <1>4
  <2> QED BY <2>2, <1>4 DEF Repaired, OpenOf, Based
<1>10. /\ o \in Outcome /\ o.how \in {"ok", "crashed"} /\ o.s \in {s, t}
       /\ o.how = "ok" => o.s = t
  <2>1. o \in Write(s, t, "receipt")
    BY DEF t
  <2> QED BY <2>1, <1>4, WriteIs
<1>11. Sound(t, J, D) /\ Room(t) <= Room(s)
  BY <1>7 DEF Moves
<1> QED BY <1>1, <1>4, <1>8, <1>9, <1>10, <1>11 DEF Commits, Steady

(* A commit, in parts.                                                      *)
LEMMA CommitsTrans ==
  ASSUME NEW s \in Stores, NEW a, NEW r, NEW b, NEW m \in Nat, NEW n \in Nat, NEW J, NEW D,
         Commits(s, a, b, m, J, D), Commits(a.s, r, b, n, J, D)
  PROVE  Commits(s, Sum(a, r), b, m + n, J, D)
<1>1. Sum(a, r) \in Outcome /\ Sum(a, r).s = r.s /\ Sum(a, r).how = r.how
  BY SumIs DEF Commits
<1>2. Room(r.s) <= Room(s) + (m + n)
  <2>1. Room(s) \in Nat /\ Room(a.s) \in Nat /\ Room(r.s) \in Nat
    BY OutcomeStore, RoomNat DEF Commits
  <2>2. Room(a.s) <= Room(s) + m /\ Room(r.s) <= Room(a.s) + n
    BY DEF Commits
  <2> QED BY <2>1, <2>2
<1> QED BY <1>1, <1>2 DEF Commits

(* A looser bound on what a commit takes.                                   *)
LEMMA CommitsMore ==
  ASSUME NEW s \in Stores, NEW o, NEW b, NEW m \in Nat, NEW n \in Nat, m <= n, NEW J, NEW D, Commits(s, o, b, m, J, D)
  PROVE  Commits(s, o, b, n, J, D)
<1>1. Room(s) \in Nat /\ Room(o.s) \in Nat
  BY OutcomeStore, RoomNat DEF Commits
<1>2. Room(o.s) <= Room(s) + m
  BY DEF Commits
<1>3. Room(o.s) <= Room(s) + n
  BY <1>1, <1>2
<1> QED BY <1>3 DEF Commits

(* commit takes at most what offer asked room for, and ends with the batch  *)
(* on disk.                                                                 *)
LEMMA CommitOut ==
  ASSUME NEW s, NEW J, NEW D, Steady(s, J, D), s.bytes + 1 <= FileMax, "receipt" \notin Failing,
         NEW b \in Batches, s.rcpt[b] = NoReceipt, NEW o \in Commit(s, b)
  PROVE  /\ Commits(s, o, b, 3 + (IF s.has THEN 0 ELSE 1), J, D)
         /\ o.how = "ok" => Steady(o.s, J, D) /\ b \in DiskOf(o.s)
<1> DEFINE n == IF s.has THEN 0 ELSE 1
           One == WithDir(s)
           Two == Then(One, LAMBDA t : Write(t, Holding(t, b), "batch"))
           Three == Then(Two, LAMBDA t : Write(t, Receipted(t, b), "receipt"))
           Ctx(t) == [t EXCEPT !.ctx = @ \/ b \notin Deltas]
<1>0. Commit(s, b) = Then(Three, LAMBDA t : {Ok(Ctx(t))})
  BY DEF Commit, WithDir, Holding, Receipted
<1>s. s \in Stores /\ n \in Nat /\ n + 3 \in Nat
  BY DEF Steady
<1>2. ASSUME NEW o1 \in One
      PROVE  /\ Commits(s, o1, b, n, J, D) /\ o1.s.rcpt = s.rcpt
             /\ o1.how = "ok" => Steady(o1.s, J, D) /\ o1.s.has /\ o1.s.bytes = s.bytes
  BY DirMade
<1> HIDE DEF One, n, Ctx
<1>3. ASSUME NEW o2 \in Two
      PROVE  /\ Commits(s, o2, b, n + 3, J, D) /\ o2.s.rcpt = s.rcpt
             /\ o2.how = "ok" => /\ o2.s.open[o2.s.cur].meta /\ o2.s.has /\ b \in OpenOf(o2.s, o2.s.cur)
                                 /\ \A q \in Periods : \A c \in OpenOf(o2.s, q) : c = b \/ o2.s.rcpt[c] # NoReceipt
  <2>1. PICK a \in One : \/ a.how # "ok" /\ o2 = a
                         \/ a.how = "ok" /\ \E r \in Write(a.s, Holding(a.s, b), "batch") : o2 = Sum(a, r)
    BY <1>3 DEF Then, Sum
  <2>2. /\ Commits(s, a, b, n, J, D) /\ a.s.rcpt = s.rcpt
        /\ a.how = "ok" => Steady(a.s, J, D) /\ a.s.has /\ a.s.bytes = s.bytes
    BY <1>2
  <2>3. CASE a.how # "ok" /\ o2 = a
    <3>1. Commits(s, a, b, n + 3, J, D)
      BY <1>s, <2>2, CommitsMore
    <3> QED BY <2>2, <2>3, <3>1
  <2>4. CASE a.how = "ok" /\ \E r \in Write(a.s, Holding(a.s, b), "batch") : o2 = Sum(a, r)
    <3>1. PICK r \in Write(a.s, Holding(a.s, b), "batch") : o2 = Sum(a, r)
      BY <2>4
    <3>0. a.s.bytes + 1 <= FileMax /\ a.s.rcpt[b] = NoReceipt
      BY <2>2, <2>4
    <3>2. /\ Commits(a.s, r, b, 3, J, D) /\ r.s.rcpt = a.s.rcpt
          /\ r.how = "ok" => /\ r.s.open[r.s.cur].meta /\ r.s.has /\ b \in OpenOf(r.s, r.s.cur)
                             /\ \A q \in Periods : \A c \in OpenOf(r.s, q) : c = b \/ r.s.rcpt[c] # NoReceipt
      BY <2>2, <2>4, <3>0, BatchWritten
    <3>3. Commits(s, o2, b, n + 3, J, D)
      BY <1>s, <2>2, <3>1, <3>2, CommitsTrans
    <3>4. o2.s = r.s /\ o2.how = r.how
      BY <3>1 DEF Sum
    <3> QED BY <2>2, <3>2, <3>3, <3>4
  <2> QED BY <2>1, <2>3, <2>4
<1> HIDE DEF Two
<1>4. ASSUME NEW o3 \in Three
      PROVE  /\ Commits(s, o3, b, n + 3, J, D)
             /\ o3.how = "ok" => Steady(o3.s, J, D) /\ b \in DiskOf(o3.s)
  <2>1. PICK a \in Two : \/ a.how # "ok" /\ o3 = a
                         \/ a.how = "ok" /\ \E r \in Write(a.s, Receipted(a.s, b), "receipt") : o3 = Sum(a, r)
    BY <1>4 DEF Then, Sum
  <2>2. /\ Commits(s, a, b, n + 3, J, D) /\ a.s.rcpt = s.rcpt
        /\ a.how = "ok" => /\ a.s.open[a.s.cur].meta /\ a.s.has /\ b \in OpenOf(a.s, a.s.cur)
                           /\ \A q \in Periods : \A c \in OpenOf(a.s, q) : c = b \/ a.s.rcpt[c] # NoReceipt
    BY <1>3
  <2>3. CASE a.how # "ok" /\ o3 = a
    BY <2>2, <2>3
  <2>4. CASE a.how = "ok" /\ \E r \in Write(a.s, Receipted(a.s, b), "receipt") : o3 = Sum(a, r)
    <3>1. PICK r \in Write(a.s, Receipted(a.s, b), "receipt") : o3 = Sum(a, r)
      BY <2>4
    <3>0. a.s \in Stores /\ Sound(a.s, J, D) /\ a.s.rcpt[b] = NoReceipt
      BY <2>2, OutcomeStore DEF Commits
    <3>2. /\ Commits(a.s, r, b, 0, J, D)
          /\ r.how = "ok" => Steady(r.s, J, D) /\ b \in DiskOf(r.s)
      BY <2>2, <2>4, <3>0, ReceiptWritten
    <3>3. Commits(s, o3, b, n + 3 + 0, J, D)
      BY <1>s, <2>2, <3>1, <3>2, CommitsTrans
    <3>4. o3.s = r.s /\ o3.how = r.how /\ n + 3 + 0 = n + 3
      BY <3>1, <1>s DEF Sum
    <3> QED BY <3>2, <3>3, <3>4
  <2> QED BY <2>1, <2>3, <2>4
<1> HIDE DEF Three
<1>5. PICK a \in Three : \/ a.how # "ok" /\ o = a
                         \/ a.how = "ok" /\ o = Sum(a, Ok(Ctx(a.s)))
  BY <1>0 DEF Then, Sum
<1>6. /\ Commits(s, a, b, n + 3, J, D)
      /\ a.how = "ok" => Steady(a.s, J, D) /\ b \in DiskOf(a.s)
  BY <1>4
<1>7. n + 3 = 3 + (IF s.has THEN 0 ELSE 1)
  BY DEF n
<1>8. CASE a.how # "ok" /\ o = a
  BY <1>6, <1>7, <1>8
<1>9. CASE a.how = "ok" /\ o = Sum(a, Ok(Ctx(a.s)))
  <2> DEFINE t == Ctx(a.s)
  <2>1. a.s \in Stores /\ a \in Outcome
    BY <1>6, OutcomeStore DEF Commits
  <2>2. /\ t \in Stores /\ t.open = a.s.open /\ t.out = a.s.out /\ t.rcpt = a.s.rcpt /\ t.staged = a.s.staged
        /\ t.cur = a.s.cur /\ t.has = a.s.has
    BY <2>1 DEF Stores, Ctx
  <2> HIDE DEF t
  <2>3. o \in Outcome /\ o.s = t /\ o.how = "ok"
    <3>1. Ok(t) \in Outcome /\ Ok(t).s = t /\ Ok(t).how = "ok"
      BY <2>2, OutcomeIs
    <3> QED BY <1>9, <2>1, <3>1, SumIs DEF t
  <2>4. Fresh(t)
    BY <1>6, <1>9, <2>2 DEF Steady, Sound, Fresh
  <2>5. Sound(t, J, D) /\ DiskOf(t) = DiskOf(a.s) /\ Room(t) = Room(a.s) /\ Repaired(t)
    BY <1>6, <1>9, <2>2, <2>4, SameDisk DEF Steady
  <2>6. Based(t)
    BY <1>6, <1>9, <2>2 DEF Steady, Based
  <2> QED BY <1>6, <1>7, <1>9, <2>2, <2>3, <2>5, <2>6 DEF Commits, Steady
<1> QED BY <1>5, <1>8, <1>9

(* What spool_bytes counts covers what the store may come to use.           *)
LEMMA RoomSpool ==
  ASSUME NEW s \in Stores, Repaired(s)
  PROVE  Room(s) <= SpoolBytes(s) /\ SpoolBytes(s) \in Nat
<1> DEFINE of == OpenFiles(s, Periods) fi == Finalized(s) so == OpenFiles(s, s.staged)
           wr == WithReceipt(s) io == InOpenDir(s) iu == InOutbox(s) tc == ToCopy(s) li == Listed(s) di == Dirs(s)
<1>1. tc \subseteq of
  BY DEF ToCopy, OpenFiles
<1>2. li \subseteq wr
  BY DEF Listed, WithReceipt, Repaired
<1>3. di = (io \cup iu) \cup s.staged
  BY DEF Dirs
<1>4. IsFiniteSet(of) /\ IsFiniteSet(tc) /\ IsFiniteSet(fi) /\ IsFiniteSet(li) /\ IsFiniteSet(di)
  BY RoomSets
<1>5. so \subseteq of /\ wr \subseteq Batches
  <2>1. s.staged \subseteq Periods
    BY StoreFields
  <2> QED BY <2>1 DEF OpenFiles, WithReceipt
<1>6. IsFiniteSet(so) /\ IsFiniteSet(wr)
  BY <1>4, <1>5, FS_Subset, BrowserAssumption
<1>7. IsFiniteSet(io) /\ IsFiniteSet(iu) /\ IsFiniteSet(s.staged) /\ IsFiniteSet(io \cup iu)
  BY <1>3, <1>4, FS_Subset
<1> DEFINE cof == Cardinality(of) cfi == Cardinality(fi) cso == Cardinality(so) cwr == Cardinality(wr)
           cio == Cardinality(io) ciu == Cardinality(iu) ctc == Cardinality(tc) cli == Cardinality(li)
           cdi == Cardinality(di) cst == Cardinality(s.staged) cu == Cardinality(io \cup iu)
<1>8. /\ cof \in Nat /\ cfi \in Nat /\ cso \in Nat /\ cwr \in Nat /\ cio \in Nat /\ ciu \in Nat /\ ctc \in Nat
      /\ cli \in Nat /\ cdi \in Nat /\ cst \in Nat /\ cu \in Nat
  BY <1>4, <1>6, <1>7, FS_CardinalityType
<1>9. ctc <= cof /\ cli <= cwr
  BY <1>1, <1>2, <1>4, <1>6, FS_Subset
<1>10. cdi <= cu + cst /\ cu <= cio + ciu
  BY <1>3, <1>7, CardUnion
<1>11. Room(s) = cof + ctc + cfi + cli + cdi
  BY DEF Room
<1>12. SpoolBytes(s) = 2 * cof + (cfi + cso) + cwr + cio + ciu + cst
  BY DEF SpoolBytes, OpenBytes, OutboxBytes, Receipts
<1> HIDE DEF cof, cfi, cso, cwr, cio, ciu, ctc, cli, cdi, cst, cu
<1> QED BY <1>8, <1>9, <1>10, <1>11, <1>12

(* What an offer of b leaves.                                               *)
Serves(s, o, b, J, D) ==
  /\ o \in Outcome /\ Sound(o.s, J, D) /\ Room(o.s) <= SpoolMax
  /\ o.how # "crashed" => Based(o.s) /\ Repaired(o.s)
  /\ DiskOf(o.s) \subseteq DiskOf(s) \cup {b} /\ DiskOf(s) \subseteq DiskOf(o.s)
  /\ \A q \in Periods : s.out[q] # NoEntry => o.s.out[q] = s.out[q]

(* An offer that only rotates.                                              *)
LEMMA TurnServes ==
  ASSUME NEW s, NEW o, NEW b, NEW J, NEW D, Turns(s, o, J, D), Room(s) <= SpoolMax, s \in Stores
  PROVE  Serves(s, o, b, J, D)
<1>1. Room(o.s) <= SpoolMax
  <2>1. Room(o.s) \in Nat /\ Room(s) \in Nat /\ Room(o.s) <= Room(s) /\ SpoolMax \in Nat
    BY OutcomeStore, RoomNat, BrowserAssumption DEF Turns
  <2> QED BY <2>1
<1> QED BY <1>1 DEF Turns, Serves

(* An offer that rotates first.                                             *)
LEMMA TurnThenServes ==
  ASSUME NEW s, NEW a, NEW r, NEW b, NEW J, NEW D, Turns(s, a, J, D), Serves(a.s, r, b, J, D)
  PROVE  Serves(s, Sum(a, r), b, J, D)
<1>1. Sum(a, r) \in Outcome /\ Sum(a, r).s = r.s /\ Sum(a, r).how = r.how
  BY SumIs DEF Turns, Serves
<1>2. DiskOf(r.s) \subseteq DiskOf(s) \cup {b} /\ DiskOf(s) \subseteq DiskOf(r.s)
  BY DEF Turns, Serves
<1>3. \A q \in Periods : s.out[q] # NoEntry => r.s.out[q] = s.out[q]
  BY DEF Turns, Serves
<1> QED BY <1>1, <1>2, <1>3 DEF Serves

(* An admitted batch fits the bound, wherever its commit stops.             *)
LEMMA AdmitOut ==
  ASSUME NEW s, NEW J, NEW D, Steady(s, J, D), s.bytes + 1 <= FileMax, "receipt" \notin Failing, Room(s) <= SpoolMax,
         NEW b \in Batches, s.rcpt[b] = NoReceipt, NEW o \in Admit(s, b)
  PROVE  Serves(s, o, b, J, D) /\ (o.how = "ok" => b \in DiskOf(o.s))
<1>s. s \in Stores /\ Sound(s, J, D) /\ Based(s) /\ Repaired(s)
  BY DEF Steady
<1>1. ASSUME NEW t \in Stores, t.open = s.open, t.out = s.out, t.rcpt = s.rcpt, t.staged = s.staged, t.cur = s.cur, t.has = s.has
      PROVE  Steady(t, J, D) /\ DiskOf(t) = DiskOf(s) /\ Room(t) = Room(s)
  <2>1. Fresh(t) /\ Based(t)
    BY <1>s, <1>1 DEF Sound, Fresh, Based
  <2> QED BY <1>s, <1>1, <2>1, SameDisk DEF Steady
<1>2. ASSUME NEW t \in Stores, t.open = s.open, t.out = s.out, t.rcpt = s.rcpt, t.staged = s.staged, t.cur = s.cur, t.has = s.has,
             o = Refuses(t)
      PROVE  Serves(s, o, b, J, D) /\ o.how # "ok"
  <2>1. o \in Outcome /\ o.s = t /\ o.how = "refused"
    BY <1>2, OutcomeIs
  <2>2. Steady(t, J, D) /\ DiskOf(t) = DiskOf(s) /\ Room(t) = Room(s)
    BY <1>1, <1>2
  <2> QED BY <2>1, <2>2, <1>2 DEF Serves, Steady
<1> DEFINE f == [s EXCEPT !.full = TRUE]
           t == RefreshFull(s)
<1>3. CASE Needs(s) > SpoolMax
  <2>1. o = Refuses(f)
    BY <1>3 DEF Admit
  <2>2. f \in Stores /\ f.open = s.open /\ f.out = s.out /\ f.rcpt = s.rcpt /\ f.staged = s.staged /\ f.cur = s.cur /\ f.has = s.has
    BY <1>s DEF Stores
  <2> HIDE DEF f
  <2> QED BY <2>1, <2>2, <1>2
<1>t. /\ t \in Stores /\ t.open = s.open /\ t.out = s.out /\ t.rcpt = s.rcpt /\ t.staged = s.staged /\ t.cur = s.cur
      /\ t.has = s.has /\ t.bytes = s.bytes
  BY <1>s, RefreshIs
<1>4. CASE ~(Needs(s) > SpoolMax) /\ b \in Deltas /\ ~s.ctx
  <2>1. o = Refuses(t)
    BY <1>4 DEF Admit
  <2> HIDE DEF t
  <2> QED BY <2>1, <1>t, <1>2
<1>5. CASE ~(Needs(s) > SpoolMax) /\ ~(b \in Deltas /\ ~s.ctx)
  <2>1. o \in Commit(t, b)
    BY <1>5 DEF Admit
  <2> HIDE DEF t
  <2>2. Steady(t, J, D) /\ DiskOf(t) = DiskOf(s) /\ Room(t) = Room(s)
    BY <1>1, <1>t
  <2> DEFINE n == 3 + (IF s.has THEN 0 ELSE 1)
  <2>3. /\ Commits(t, o, b, n, J, D)
        /\ o.how = "ok" => Steady(o.s, J, D) /\ b \in DiskOf(o.s)
    <3>1. t.bytes + 1 <= FileMax /\ t.rcpt[b] = NoReceipt
      BY <1>t
    <3>2. /\ Commits(t, o, b, 3 + (IF t.has THEN 0 ELSE 1), J, D)
          /\ o.how = "ok" => Steady(o.s, J, D) /\ b \in DiskOf(o.s)
      BY <2>1, <2>2, <3>1, CommitOut
    <3> QED BY <3>2, <1>t
  <2>4. Room(o.s) <= SpoolMax
    <3>1. Room(s) <= SpoolBytes(s) /\ SpoolBytes(s) \in Nat /\ Room(s) \in Nat
      BY <1>s, RoomSpool, RoomNat
    <3>2. Needs(s) = SpoolBytes(s) + n /\ n \in Nat
      BY <3>1 DEF Needs
    <3>3. Room(o.s) <= Room(s) + n /\ Room(o.s) \in Nat
      BY <2>2, <2>3, OutcomeStore, RoomNat DEF Commits
    <3>4. SpoolMax \in Nat
      BY BrowserAssumption
    <3> HIDE DEF n
    <3> QED BY <1>5, <3>1, <3>2, <3>3, <3>4
  <2>5. o.how # "crashed" => Based(o.s) /\ Repaired(o.s)
    BY <2>3 DEF Commits, Steady
  <2> QED BY <1>t, <2>2, <2>3, <2>4, <2>5 DEF Commits, Serves
<1> QED BY <1>3, <1>4, <1>5

(* Two rotations.                                                           *)
LEMMA TurnsTrans ==
  ASSUME NEW s \in Stores, NEW a, NEW r, NEW J, NEW D, Turns(s, a, J, D), Turns(a.s, r, J, D)
  PROVE  Turns(s, Sum(a, r), J, D) \/ (r.how = "ok" /\ a.how # "ok")
<1>1. Sum(a, r) \in Outcome /\ Sum(a, r).s = r.s /\ Sum(a, r).how = r.how
  BY SumIs DEF Turns
<1>2. Room(r.s) <= Room(s)
  <2>1. Room(r.s) \in Nat /\ Room(a.s) \in Nat /\ Room(s) \in Nat
    BY OutcomeStore, RoomNat DEF Turns
  <2> QED BY <2>1 DEF Turns
<1>3. DiskOf(r.s) = DiskOf(s)
  BY DEF Turns
<1> QED BY <1>1, <1>2, <1>3 DEF Turns

(* A batch with a receipt is held, or what became of it has happened.       *)
LEMMA KnownKept ==
  ASSUME NEW s \in Stores, NEW J, NEW D, Sound(s, J, D), NEW b \in Batches, s.rcpt[b] # NoReceipt
  PROVE  b \in DiskOf(s) \cup J \cup D
<1>1. PICK p \in Periods, st \in {"Pending", "Discarded", "Delivered"} : s.rcpt[b] = [period |-> p, state |-> st]
  BY ReceiptCases
<1>2. CASE st = "Pending"
  <2>1. b \in OpenOf(s, p) \/ b \in PagesOf(s, p)
    BY <1>1, <1>2 DEF Sound, Placed
  <2> QED BY <2>1, DiskIs
<1>3. CASE st # "Pending"
  BY <1>1, <1>3 DEF Sound, Told
<1> QED BY <1>2, <1>3

(* offer answers accepted or duplicate only if the batch is on disk, with a *)
(* journal, or discarded.                                                   *)
LEMMA OffersOut ==
  ASSUME NEW s, NEW J, NEW D, Steady(s, J, D), "receipt" \notin Failing, "rmdir" \notin Failing, Room(s) <= SpoolMax,
         NEW b \in Batches, NEW o \in Offers(s, b)
  PROVE  Serves(s, o, b, J, D) /\ (o.how = "ok" => b \in DiskOf(o.s) \cup J \cup D)
<1>s. s \in Stores /\ Sound(s, J, D)
  BY DEF Steady
<1>1. CASE s.rcpt[b] # NoReceipt
  <2>1. o = Ok(s)
    BY <1>1 DEF Offers
  <2>2. o \in Outcome /\ o.s = s
    BY <2>1, <1>s, OutcomeIs
  <2> QED BY <1>1, <1>s, <2>2, KnownKept, SteadyTurn, TurnServes
<1>2. CASE s.rcpt[b] = NoReceipt /\ HasTerminal(s)
  <2>1. o = Refuses(s)
    BY <1>2 DEF Offers
  <2>2. o \in Outcome /\ o.s = s /\ o.how = "refused"
    BY <2>1, <1>s, OutcomeIs
  <2> QED BY <1>s, <2>2, SteadyTurn, TurnServes
<1>3. CASE s.rcpt[b] = NoReceipt /\ ~HasTerminal(s)
  <2> DEFINE OnTime == IF s.due THEN Rotate(s) ELSE {Ok(s)}
             Fitting(t) == IF t.bytes > 0 /\ t.bytes + 1 > FileMax THEN Rotate(t) ELSE {Ok(t)}
             Ready == Then(OnTime, Fitting)
  <2>1. Offers(s, b) = Then(Ready, LAMBDA t : Admit(t, b))
    BY <1>3 DEF Offers
  <2>2. ASSUME NEW a \in OnTime PROVE Turns(s, a, J, D)
    <3>1. CASE s.due
      BY <3>1, RotateOut
    <3>2. CASE ~s.due
      <4>1. a = Ok(s)
        BY <3>2
      <4>2. a \in Outcome /\ a.s = s
        BY <4>1, <1>s, OutcomeIs
      <4> QED BY <4>2, SteadyTurn
    <3> QED BY <3>1, <3>2
  <2>3. ASSUME NEW t, Steady(t, J, D), NEW a \in Fitting(t)
        PROVE  Turns(t, a, J, D) /\ (a.how = "ok" => a.s.bytes + 1 <= FileMax)
    <3>1. t.bytes \in 0..FileMax /\ FileMax \in Nat \ {0} /\ t \in Stores
      BY <2>3, StoreFields, BrowserAssumption DEF Steady
    <3>2. CASE t.bytes > 0 /\ t.bytes + 1 > FileMax
      <4>1. a \in Rotate(t)
        BY <3>2
      <4>2. Turns(t, a, J, D) /\ (a.how = "ok" => a.s.bytes = 0)
        BY <4>1, <2>3, RotateOut
      <4> QED BY <4>2, <3>1
    <3>3. CASE ~(t.bytes > 0 /\ t.bytes + 1 > FileMax)
      <4>1. a = Ok(t)
        BY <3>3
      <4>2. a \in Outcome /\ a.s = t
        BY <4>1, <3>1, OutcomeIs
      <4>3. t.bytes + 1 <= FileMax
        BY <3>1, <3>3
      <4> QED BY <4>2, <4>3, <2>3, SteadyTurn
    <3> QED BY <3>2, <3>3
  <2> HIDE DEF OnTime, Fitting
  <2>4. ASSUME NEW c \in Ready
        PROVE  Turns(s, c, J, D) /\ (c.how = "ok" => c.s.bytes + 1 <= FileMax)
    <3>1. PICK a \in OnTime : \/ a.how # "ok" /\ c = a
                              \/ a.how = "ok" /\ \E r \in Fitting(a.s) : c = Sum(a, r)
      BY <2>4 DEF Then, Sum
    <3>2. Turns(s, a, J, D)
      BY <2>2
    <3>3. CASE a.how = "ok" /\ \E r \in Fitting(a.s) : c = Sum(a, r)
      <4>1. PICK r \in Fitting(a.s) : c = Sum(a, r)
        BY <3>3
      <4>2. Steady(a.s, J, D)
        BY <3>2, OutcomeStore DEF Turns, Steady
      <4>3. Turns(a.s, r, J, D) /\ (r.how = "ok" => r.s.bytes + 1 <= FileMax)
        BY <2>3, <4>2
      <4>4. c.s = r.s /\ c.how = r.how
        BY <4>1 DEF Sum
      <4> QED BY <1>s, <3>2, <3>3, <4>1, <4>3, <4>4, TurnsTrans
    <3> QED BY <3>1, <3>2, <3>3
  <2> HIDE DEF Ready
  <2>5. PICK c \in Ready : \/ c.how # "ok" /\ o = c
                           \/ c.how = "ok" /\ \E r \in Admit(c.s, b) : o = Sum(c, r)
    BY <2>1 DEF Then, Sum
  <2>6. Turns(s, c, J, D) /\ (c.how = "ok" => c.s.bytes + 1 <= FileMax) /\ Serves(s, c, b, J, D)
    BY <1>s, <2>4, TurnServes
  <2>7. CASE c.how # "ok" /\ o = c
    BY <2>6, <2>7
  <2>8. CASE c.how = "ok" /\ \E r \in Admit(c.s, b) : o = Sum(c, r)
    <3>1. PICK r \in Admit(c.s, b) : o = Sum(c, r)
      BY <2>8
    <3>2. Steady(c.s, J, D) /\ c.s.rcpt[b] = NoReceipt
      BY <1>3, <2>6, OutcomeStore DEF Turns, Steady
    <3>3. Room(c.s) <= SpoolMax
      BY <2>6 DEF Serves
    <3>4. Serves(c.s, r, b, J, D) /\ (r.how = "ok" => b \in DiskOf(r.s))
      BY <2>6, <2>8, <3>2, <3>3, AdmitOut
    <3>5. o.s = r.s /\ o.how = r.how
      BY <3>1 DEF Sum
    <3> QED BY <2>6, <3>1, <3>4, <3>5, TurnThenServes
  <2> QED BY <2>5, <2>7, <2>8
<1> QED BY <1>1, <1>2, <1>3

----------------------------------------------------------------------------
(* What a visit of one period leaves.                                       *)
Visits(s, o, J, D) ==
  o \in Outcome /\ o.how \in {"ok", "crashed", "failed"} /\ Moves(s, o.s, J, D) /\ o.s.has = s.has

(* Visits of periods, one after the other.                                  *)
LEMMA VisitsTrans ==
  ASSUME NEW s \in Stores, NEW a, NEW r, NEW J, NEW D, Visits(s, a, J, D), Visits(a.s, r, J, D)
  PROVE  Visits(s, Sum(a, r), J, D) /\ Sum(a, r).s = r.s /\ Sum(a, r).how = r.how
<1>1. Sum(a, r) \in Outcome /\ Sum(a, r).s = r.s /\ Sum(a, r).how = r.how
  BY SumIs DEF Visits
<1> QED BY <1>1, MovesTrans DEF Visits

(* No visit at all.                                                         *)
LEMMA VisitsSelf ==
  ASSUME NEW s \in Stores, NEW J, NEW D, Sound(s, J, D)
  PROVE  Visits(s, Ok(s), J, D) /\ Ok(s).s = s /\ Ok(s).how = "ok"
BY OutcomeIs, MovesSelf DEF Visits

(* load's repair leaves each batch of the period with a receipt.            *)
LEMMA RepairOut ==
  ASSUME NEW s \in Stores, NEW J, NEW D, NEW p \in Periods, Sound(s, J, D), "rmdir" \notin Failing, NEW o \in Repair(s, p)
  PROVE  /\ Visits(s, o, J, D)
         /\ o.how = "ok" => \A b \in OpenOf(o.s, p) : o.s.rcpt[b] # NoReceipt
<1> DEFINE dir == s.open[p]
<1>1. CASE dir = NoDir
  <2>1. o = Ok(s)
    BY <1>1 DEF Repair
  <2>2. OpenOf(s, p) = {}
    BY <1>1 DEF OpenOf, NoDir, BatchesOf
  <2> QED BY <2>1, <2>2, VisitsSelf
<1>2. CASE dir # NoDir /\ (~dir.meta \/ dir.files = {})
  <2>1. o \in RemoveOpen(s, p)
    BY <1>2 DEF Repair
  <2>2. OpenOf(s, p) = {}
    BY <1>2 DEF Sound, Shape, OpenOf, BatchesOf
  <2>3. PeriodEnds(s, o, p, J, D)
    BY <2>1, <2>2, OpenRemoved
  <2>4. OpenOf(o.s, p) \subseteq OpenOf(s, p)
    BY <2>3, BatchesOfSub DEF PeriodEnds, Moves, OpenOf
  <2> QED BY <2>2, <2>3, <2>4 DEF PeriodEnds, Visits
<1>3. CASE dir # NoDir /\ ~(~dir.meta \/ dir.files = {})
  <2> DEFINE bs == {b \in OpenOf(s, p) : s.rcpt[b] = NoReceipt}
  <2>1. o \in WriteReceipts(s, bs, Pending(p), "receipt")
    BY <1>3 DEF Repair, Pending, OpenOf
  <2>2. bs \in SUBSET Batches /\ Pending(p) \in [period : Periods, state : {"Pending"} \cup Ended]
    BY OpenInBatches DEF Pending
  <2>3. /\ \A b \in bs : b \in OpenOf(s, p) /\ s.rcpt[b] = NoReceipt
        /\ \A b \in OpenOf(s, p) : b \in bs \/ s.rcpt[b] # NoReceipt
    OBVIOUS
  <2> HIDE DEF bs
  <2>4. /\ o \in Outcome /\ o.how \in {"ok", "crashed", "failed"}
        /\ \E d \in SUBSET bs : Gives(s, o.s, d, Pending(p)) /\ (o.how = "ok" => d = bs)
    BY <2>1, <2>2, WriteReceiptsIs
  <2>5. PICK d \in SUBSET bs : Gives(s, o.s, d, Pending(p)) /\ (o.how = "ok" => d = bs)
    BY <2>4
  <2>6. d \in SUBSET OpenOf(s, p) /\ \A b \in d : s.rcpt[b] = NoReceipt
    BY <2>3
  <2>7. Moves(s, o.s, J, D)
    BY <2>4, <2>5, <2>6, OutcomeStore, ReceiptsGiven
  <2>8. Pending(p) # NoReceipt
    BY DEF Pending, NoReceipt
  <2>9. ASSUME o.how = "ok", NEW b \in OpenOf(o.s, p) PROVE o.s.rcpt[b] # NoReceipt
    <3>1. b \in OpenOf(s, p) /\ b \in Batches
      BY <2>5, OpenInBatches DEF Gives, OpenOf
    <3> QED BY <2>3, <2>5, <2>8, <2>9, <3>1 DEF Gives
  <2> QED BY <2>4, <2>5, <2>7, <2>9 DEF Visits, Gives
<1> QED BY <1>1, <1>2, <1>3

(* load's removal of open copies of ended batches.                          *)
LEMMA DropEndedOut ==
  ASSUME NEW s \in Stores, NEW J, NEW D, NEW p \in Periods, Sound(s, J, D), "rmdir" \notin Failing, NEW o \in DropEnded(s, p)
  PROVE  /\ Visits(s, o, J, D) /\ o.s.rcpt = s.rcpt
         /\ o.how = "ok" => \A b \in OpenOf(o.s, p) : o.s.rcpt[b].state \notin Ended
<1> DEFINE whole == Cut(s, p, FileMax)
           First == {Ok(whole)} \cup {Crashes(t) : t \in PartlyCut(s, p)}
                      \cup (UNION {Fails(t, "remove") : t \in PartlyCut(s, p) \ {whole}})
           Rest(t) == IF t.open[p].files = {} /\ t.open[p] # NoDir THEN RemoveOpen(t, p) ELSE {Ok(t)}
<1>0. DropEnded(s, p) = Then(First, Rest)
  BY DEF DropEnded
<1>1. ASSUME NEW t \in PartlyCut(s, p)
      PROVE  /\ t \in Stores /\ t.rcpt = s.rcpt /\ t.has = s.has /\ Moves(s, t, J, D)
             /\ t = whole => \A b \in OpenOf(t, p) : s.rcpt[b].state \notin Ended
  <2>0. PICK k \in 0..FileMax : t = Cut(s, p, k)
    BY DEF PartlyCut
  <2> DEFINE Kept(j) == {f \in s.open[p].files : f[1] > j \/ s.rcpt[f[2]].state \notin Ended}
             C(j) == [s EXCEPT !.open[p].files = Kept(j)]
  <2>1. ASSUME NEW j
        PROVE  /\ Kept(j) \in Files /\ Kept(j) \subseteq s.open[p].files
               /\ \A f \in s.open[p].files \ Kept(j) : s.rcpt[f[2]].state \in Ended
    BY StoreFields DEF Files
  <2>2. \A f \in Kept(FileMax) : s.rcpt[f[2]].state \notin Ended
    <3>1. \A f \in s.open[p].files : f[1] \in 1..FileMax
      BY StoreFields DEF Files
    <3>2. \A i \in 1..FileMax : ~(i > FileMax)
      BY BrowserAssumption
    <3> QED BY <3>1, <3>2
  <2>3. \A j : Cut(s, p, j) = C(j)
    BY DEF Cut
  <2> HIDE DEF Kept
  <2>4. ASSUME NEW j
        PROVE  /\ C(j) \in Stores /\ C(j).out = s.out /\ C(j).staged = s.staged /\ C(j).rcpt = s.rcpt /\ C(j).cur = s.cur /\ C(j).has = s.has
               /\ \A q \in Periods \ {p} : C(j).open[q] = s.open[q]
               /\ C(j).open[p].meta = s.open[p].meta /\ C(j).open[p].files = Kept(j)
    <3> DEFINE dir == [s.open[p] EXCEPT !.files = Kept(j)]
               opens == [s.open EXCEPT ![p] = dir]
    <3>0. s.open[p] \in [meta : BOOLEAN, files : Files] /\ s.open \in [Periods -> [meta : BOOLEAN, files : Files]]
      BY StoreFields
    <3>2. dir \in [meta : BOOLEAN, files : Files] /\ dir.meta = s.open[p].meta /\ dir.files = Kept(j)
      BY <2>1, <3>0
    <3>3. C(j) = [s EXCEPT !.open = opens]
      BY DEF Stores
    <3> HIDE DEF dir
    <3>4. opens \in [Periods -> [meta : BOOLEAN, files : Files]] /\ opens[p] = dir /\ \A q \in Periods \ {p} : opens[q] = s.open[q]
      BY <3>0, <3>2
    <3> HIDE DEF opens, C
    <3> QED BY <3>2, <3>3, <3>4, StoreFields DEF Stores
  <2>5. t = C(k) /\ whole = C(FileMax)
    BY <2>0, <2>3
  <2> HIDE DEF C, whole
  <2>6. Moves(s, C(k), J, D)
    <3>1. \A b \in OpenOf(s, p) \ OpenOf(C(k), p) : s.rcpt[b].state \in Ended
      BY <2>1, <2>4 DEF OpenOf, BatchesOf
    <3>2. C(k).open[p].files \subseteq s.open[p].files
      BY <2>1, <2>4
    <3> QED BY <2>4, <3>1, <3>2, LessOpen
  <2>7. \A b \in OpenOf(C(FileMax), p) : s.rcpt[b].state \notin Ended
    BY <2>2, <2>4 DEF OpenOf, BatchesOf
  <2> QED BY <2>4, <2>5, <2>6, <2>7
<1>w. whole \in PartlyCut(s, p)
  BY BrowserAssumption DEF PartlyCut
<1>2. ASSUME NEW a \in First
      PROVE  Visits(s, a, J, D) /\ a.s.rcpt = s.rcpt /\ (a.how = "ok" => \A b \in OpenOf(a.s, p) : s.rcpt[b].state \notin Ended)
  <2>1. a = Ok(whole) \/ \E t \in PartlyCut(s, p) : a = Crashes(t) \/ a \in Fails(t, "remove")
    BY <1>2
  <2> HIDE DEF whole
  <2>2. CASE a = Ok(whole)
    <3>1. whole \in Stores
      BY <1>1, <1>w
    <3>2. a \in Outcome /\ a.s = whole /\ a.how = "ok"
      BY <2>2, <3>1, OutcomeIs
    <3> QED BY <3>2, <1>1, <1>w DEF Visits
  <2>3. CASE \E t \in PartlyCut(s, p) : a = Crashes(t) \/ a \in Fails(t, "remove")
    <3>1. PICK t \in PartlyCut(s, p) : a = Crashes(t) \/ a \in Fails(t, "remove")
      BY <2>3
    <3>2. t \in Stores /\ t.rcpt = s.rcpt /\ t.has = s.has /\ Moves(s, t, J, D)
      BY <1>1
    <3>3. a \in Outcome /\ a.how \in {"crashed", "failed"} /\ a.s = t
      BY <3>1, <3>2, StopsAt
    <3> QED BY <3>2, <3>3 DEF Visits
  <2> QED BY <2>1, <2>2, <2>3
<1>r. \A t : \/ t.open[p].files = {} /\ Rest(t) = RemoveOpen(t, p)
             \/ Rest(t) = {Ok(t)}
  OBVIOUS
<1> HIDE DEF First, Rest
<1>3. PICK a \in First : \/ a.how # "ok" /\ o = a
                         \/ a.how = "ok" /\ \E r \in Rest(a.s) : o = Sum(a, r)
  BY <1>0 DEF Then, Sum
<1>4. Visits(s, a, J, D) /\ a.s.rcpt = s.rcpt /\ (a.how = "ok" => \A b \in OpenOf(a.s, p) : s.rcpt[b].state \notin Ended)
  BY <1>2
<1>5. a.s \in Stores /\ Sound(a.s, J, D)
  BY <1>4 DEF Visits, Moves
<1>6. CASE a.how = "ok" /\ \E r \in Rest(a.s) : o = Sum(a, r)
  <2>1. PICK r \in Rest(a.s) : o = Sum(a, r)
    BY <1>6
  <2>2. Visits(a.s, r, J, D) /\ r.s.rcpt = a.s.rcpt /\ OpenOf(r.s, p) \subseteq OpenOf(a.s, p)
    <3>1. CASE Rest(a.s) = {Ok(a.s)}
      BY <2>1, <3>1, <1>5, VisitsSelf
    <3>2. CASE a.s.open[p].files = {} /\ Rest(a.s) = RemoveOpen(a.s, p)
      <4>1. OpenOf(a.s, p) = {}
        BY <3>2 DEF OpenOf, BatchesOf
      <4>2. PeriodEnds(a.s, r, p, J, D)
        BY <2>1, <3>2, <4>1, <1>5, OpenRemoved
      <4>3. OpenOf(r.s, p) \subseteq OpenOf(a.s, p)
        BY <4>2, BatchesOfSub DEF PeriodEnds, Moves, OpenOf
      <4> QED BY <4>2, <4>3 DEF PeriodEnds, Visits
    <3> QED BY <1>r, <3>1, <3>2
  <2>3. Visits(s, o, J, D) /\ o.s = r.s /\ o.how = r.how
    BY <1>4, <2>1, <2>2, VisitsTrans
  <2> QED BY <1>4, <1>6, <2>2, <2>3
<1> QED BY <1>3, <1>4, <1>6

(* load's finalization of what the last run left open.                      *)
LEMMA FinalizeLeftOut ==
  ASSUME NEW s \in Stores, NEW J, NEW D, NEW p \in Periods, Sound(s, J, D), "rmdir" \notin Failing,
         s.open[s.cur] = NoDir,
         \A b \in OpenOf(s, p) : s.rcpt[b] # NoReceipt /\ s.rcpt[b].state \notin Ended,
         NEW o \in FinalizeLeft(s, p)
  PROVE  Visits(s, o, J, D) /\ o.s.rcpt = s.rcpt
<1>1. CASE s.open[p].meta /\ s.open[p].files # {}
  <2>1. o \in Finalize(s, p) /\ p # s.cur
    BY <1>1 DEF FinalizeLeft, NoDir
  <2> QED BY <1>1, <2>1, FinalizeOut DEF PeriodEnds, Visits
<1>2. CASE ~(s.open[p].meta /\ s.open[p].files # {})
  <2>1. o = Ok(s)
    BY <1>2 DEF FinalizeLeft
  <2> QED BY <2>1, VisitsSelf
<1> QED BY <1>1, <1>2

----------------------------------------------------------------------------
(* There is a smallest number in a set of numbers.                          *)
LEMMA Least ==
  ASSUME NEW S \in SUBSET Nat, S # {}
  PROVE  \E n \in S : \A m \in S : n <= m
<1> DEFINE R == OpToRel(<, Nat)
<1>1. \A m \in Nat, n \in Nat : m < n => <<m, n>> \in R
  BY DEF OpToRel
<1>2. IsWellFoundedOn(R, Nat)
  BY NatLessThanWellFounded
<1> HIDE DEF R
<1>3. PICK n \in S : \A m \in S : ~(<<m, n>> \in R)
  BY <1>2, WFMin
<1>4. \A m \in S : m \in Nat /\ n \in Nat /\ ~(m < n)
  BY <1>1, <1>3
<1> QED BY <1>4

(* One round of a loop over periods.                                        *)
Round(what, ps, outcomes, i) ==
  IF i \in ps THEN Then(outcomes, LAMBDA t : Visit(what, t, i)) ELSE outcomes

(* f holds the outcomes after each round.                                   *)
Rounds(what, s, ps, n, f) ==
  f = [i \in 0..n |-> IF i = 0 THEN {Ok(s)} ELSE Round(what, ps, f[i - 1], i)]

(* There is such a function: the recursion of ForEach is well founded.      *)
LEMMA RoundsExist ==
  ASSUME NEW what, NEW s, NEW ps, NEW n \in Nat
  PROVE  \E f : Rounds(what, s, ps, n, f)
<1> DEFINE Bad == {m \in Nat : ~\E f : Rounds(what, s, ps, m, f)}
<1> SUFFICES ASSUME Bad # {} PROVE FALSE
  OBVIOUS
<1>1. PICK m \in Bad : \A k \in Bad : m <= k
  BY Least
<1>2. m # 0
  <2> DEFINE f == [i \in 0..0 |-> {Ok(s)}]
  <2>1. 0..0 = {0}
    OBVIOUS
  <2>2. f = [i \in 0..0 |-> IF i = 0 THEN {Ok(s)} ELSE Round(what, ps, f[i - 1], i)]
    BY <2>1
  <2>3. Rounds(what, s, ps, 0, f)
    BY <2>2 DEF Rounds
  <2> QED BY <2>3
<1>3. m - 1 \in Nat /\ m - 1 \notin Bad /\ m \in Nat
  BY <1>1, <1>2
<1>4. PICK f : Rounds(what, s, ps, m - 1, f)
  BY <1>3
<1> DEFINE g == [i \in 0..m |-> IF i < m THEN f[i] ELSE Round(what, ps, f[m - 1], m)]
<1>5. ASSUME NEW i \in 0..m
      PROVE  g[i] = IF i = 0 THEN {Ok(s)} ELSE Round(what, ps, g[i - 1], i)
  <2>0. \A j \in 0..(m - 1) : f[j] = IF j = 0 THEN {Ok(s)} ELSE Round(what, ps, f[j - 1], j)
    BY <1>4 DEF Rounds
  <2>g. \A j \in 0..(m - 1) : g[j] = f[j]
    BY <1>3
  <2>m. g[m] = Round(what, ps, f[m - 1], m)
    BY <1>3
  <2> HIDE DEF g
  <2>1. CASE i = 0
    BY <2>1, <2>0, <2>g, <1>3, <1>2
  <2>2. CASE i \in 1..(m - 1)
    <3>1. i - 1 \in 0..(m - 1) /\ i \in 0..(m - 1) /\ i # 0
      BY <2>2, <1>3
    <3>2. g[i] = f[i] /\ g[i - 1] = f[i - 1] /\ f[i] = Round(what, ps, f[i - 1], i)
      BY <3>1, <2>0, <2>g
    <3> QED BY <3>1, <3>2
  <2>3. CASE i = m
    <3>1. m - 1 \in 0..(m - 1)
      BY <1>3, <1>2
    <3>2. g[m - 1] = f[m - 1]
      BY <3>1, <2>g
    <3> QED BY <2>3, <2>m, <3>2, <1>2
  <2> QED BY <2>1, <2>2, <2>3, <1>3
<1>6. Rounds(what, s, ps, m, g)
  <2>1. g = [i \in 0..m |-> g[i]]
    OBVIOUS
  <2> HIDE DEF g
  <2> QED BY <1>5, <2>1 DEF Rounds
<1> QED BY <1>1, <1>6

(* ForEach is its last value.                                               *)
LEMMA ForEachIs ==
  ASSUME NEW what, NEW s, NEW ps
  PROVE  \E f : Rounds(what, s, ps, MaxPeriods, f) /\ ForEach(what, s, ps) = f[MaxPeriods]
<1> DEFINE g == CHOOSE f : f = [i \in 0..MaxPeriods |->
                  IF i = 0 THEN {Ok(s)}
                  ELSE IF i \in ps THEN Then(f[i - 1], LAMBDA t : Visit(what, t, i))
                  ELSE f[i - 1]]
<1>1. ForEach(what, s, ps) = g[MaxPeriods]
  BY DEF ForEach
<1>2. g = CHOOSE f : Rounds(what, s, ps, MaxPeriods, f)
  BY DEF Rounds, Round
<1> HIDE DEF g
<1>3. \E f : Rounds(what, s, ps, MaxPeriods, f)
  BY RoundsExist, BrowserAssumption
<1>4. Rounds(what, s, ps, MaxPeriods, g)
  BY <1>2, <1>3, Zenon
<1> QED BY <1>1, <1>4

(* A loop over periods stays in sets of outcomes that each round carries on. *)
LEMMA LoopIn ==
  ASSUME NEW what, NEW s, NEW ps, NEW H,
         Ok(s) \in H[0],
         \A i \in Periods : \A a \in H[i - 1] :
           /\ a.how # "ok" \/ i \notin ps => a \in H[i]
           /\ a.how = "ok" /\ i \in ps => \A r \in Visit(what, a.s, i) : Sum(a, r) \in H[i]
  PROVE  ForEach(what, s, ps) \subseteq H[MaxPeriods]
<1>1. PICK f : Rounds(what, s, ps, MaxPeriods, f) /\ ForEach(what, s, ps) = f[MaxPeriods]
  BY ForEachIs
<1>n. MaxPeriods \in Nat /\ Periods = 1..MaxPeriods
  BY BrowserAssumption DEF Periods
<1>2. f[0] = {Ok(s)} /\ \A i \in Periods : f[i] = Round(what, ps, f[i - 1], i)
  <2>1. f = [i \in 0..MaxPeriods |-> IF i = 0 THEN {Ok(s)} ELSE Round(what, ps, f[i - 1], i)]
    BY <1>1 DEF Rounds
  <2>2. \A i \in 0..MaxPeriods : f[i] = IF i = 0 THEN {Ok(s)} ELSE Round(what, ps, f[i - 1], i)
    BY <2>1
  <2>3. 0 \in 0..MaxPeriods /\ \A i \in Periods : i \in 0..MaxPeriods /\ i # 0
    BY <1>n
  <2> QED BY <2>2, <2>3
<1> DEFINE Bad == {i \in 0..MaxPeriods : ~(f[i] \subseteq H[i])}
<1>3. ASSUME Bad # {} PROVE FALSE
  <2>1. PICK m \in Bad : \A k \in Bad : m <= k
    <3>1. Bad \in SUBSET Nat
      OBVIOUS
    <3> HIDE DEF Bad
    <3> QED BY <1>3, <3>1, Least
  <2>2. m # 0
    BY <1>2
  <2>3. m - 1 \in 0..MaxPeriods /\ m \in Periods /\ m - 1 \notin Bad
    BY <2>1, <2>2, <1>n
  <2>4. f[m - 1] \subseteq H[m - 1]
    BY <2>3
  <2>5. ~(f[m] \subseteq H[m])
    OBVIOUS
  <2> HIDE DEF Bad
  <2>6. f[m] = Round(what, ps, f[m - 1], m)
    BY <1>2, <2>3
  <2>7. CASE m \notin ps
    BY <2>3, <2>4, <2>5, <2>6, <2>7 DEF Round
  <2>8. CASE m \in ps
    <3>1. PICK o \in f[m] : o \notin H[m]
      BY <2>5
    <3>2. f[m] = Then(f[m - 1], LAMBDA t : Visit(what, t, m))
      BY <2>6, <2>8 DEF Round
    <3>3. PICK a \in f[m - 1] : \/ a.how # "ok" /\ o = a
                                \/ a.how = "ok" /\ \E r \in Visit(what, a.s, m) : o = Sum(a, r)
      BY <3>1, <3>2 DEF Then, Sum
    <3>4. a \in H[m - 1]
      BY <2>4
    <3> QED BY <2>3, <2>8, <3>1, <3>3, <3>4
  <2> QED BY <2>7, <2>8
<1>4. f[MaxPeriods] \subseteq H[MaxPeriods]
  BY <1>3, <1>n
<1> QED BY <1>1, <1>4

(* The five visits.                                                         *)
LEMMA VisitIs ==
  ASSUME NEW s, NEW p
  PROVE  /\ Visit("repair", s, p) = Repair(s, p)
         /\ Visit("finish", s, p) = FinishMarked(s, p)
         /\ Visit("drop", s, p) = DropEnded(s, p)
         /\ Visit("finalize", s, p) = FinalizeLeft(s, p)
         /\ Visit("discard", s, p) = Tries(EndEntry(s, p, "Discarded"))
BY DEF Visit

(* Earlier rounds are those up to the one before.                           *)
LEMMA Earlier ==
  /\ \A i \in Periods : i - 1 \in 0..MaxPeriods /\ i \in 0..MaxPeriods
  /\ \A i, p \in Periods : p <= i - 1 => p <= i
  /\ \A i, p \in Periods : p <= i => p = i \/ p <= i - 1
  /\ \A p \in Periods : p <= MaxPeriods /\ ~(p <= 0)
  /\ 0 \in 0..MaxPeriods /\ MaxPeriods \in 0..MaxPeriods
BY BrowserAssumption DEF Periods

(* File operations put nothing into an open period.                         *)
LEMMA OpenLess ==
  ASSUME NEW s, NEW t, NEW J, NEW D, Moves(s, t, J, D), NEW p \in Periods
  PROVE  OpenOf(t, p) \subseteq OpenOf(s, p)
BY BatchesOfSub DEF Moves, OpenOf

(* Each batch of an open period has a receipt.                              *)
HasReceipts(s, p) == \A b \in OpenOf(s, p) : s.rcpt[b] # NoReceipt

(* That is never undone.                                                    *)
LEMMA HasReceiptsKept ==
  ASSUME NEW s \in Stores, NEW t, NEW J, NEW D, Moves(s, t, J, D), NEW p \in Periods, HasReceipts(s, p)
  PROVE  HasReceipts(t, p)
<1> SUFFICES ASSUME NEW b \in OpenOf(t, p) PROVE t.rcpt[b] # NoReceipt
  BY DEF HasReceipts
<1>1. b \in OpenOf(s, p) /\ b \in Batches
  BY OpenLess, OpenInBatches
<1>2. b \in WithReceipt(s)
  BY <1>1 DEF HasReceipts, WithReceipt
<1> QED BY <1>2 DEF Moves, WithReceipt

(* load's first loop.                                                       *)
LEMMA RepairLoop ==
  ASSUME NEW s \in Stores, NEW J, NEW D, Sound(s, J, D), "rmdir" \notin Failing, NEW ps \in SUBSET Periods,
         NEW o \in ForEach("repair", s, ps)
  PROVE  Visits(s, o, J, D) /\ (o.how = "ok" => \A p \in ps : HasReceipts(o.s, p))
<1> DEFINE In(i) == {x \in Outcome : Visits(s, x, J, D) /\ (x.how = "ok" => \A p \in ps : p <= i => HasReceipts(x.s, p))}
           H == [i \in 0..MaxPeriods |-> In(i)]
<1>h. /\ \A i \in Periods : H[i] = In(i) /\ H[i - 1] = In(i - 1)
      /\ H[0] = In(0) /\ H[MaxPeriods] = In(MaxPeriods)
  BY Earlier
<1>1. Ok(s) \in In(0)
  BY Earlier, VisitsSelf DEF Visits
<1>2. ASSUME NEW i \in Periods, NEW a \in In(i - 1), a.how # "ok" \/ i \notin ps
      PROVE  a \in In(i)
  BY <1>2, Earlier
<1>3. ASSUME NEW i \in Periods, NEW a \in In(i - 1), a.how = "ok" /\ i \in ps, NEW r \in Visit("repair", a.s, i)
      PROVE  Sum(a, r) \in In(i)
  <2>1. a.s \in Stores /\ Sound(a.s, J, D) /\ Visits(s, a, J, D)
    BY DEF Visits, Moves
  <2>2. r \in Repair(a.s, i)
    BY <1>3, VisitIs
  <2>3. Visits(a.s, r, J, D) /\ (r.how = "ok" => HasReceipts(r.s, i))
    BY <2>1, <2>2, RepairOut DEF HasReceipts
  <2>4. Visits(s, Sum(a, r), J, D) /\ Sum(a, r).s = r.s /\ Sum(a, r).how = r.how
    BY <2>1, <2>3, VisitsTrans
  <2>5. ASSUME r.how = "ok", NEW p \in ps, p <= i PROVE HasReceipts(r.s, p)
    <3>1. CASE p = i
      BY <2>3, <2>5, <3>1
    <3>2. CASE p <= i - 1
      <4>1. HasReceipts(a.s, p)
        BY <1>3, <3>2
      <4> QED BY <2>1, <2>3, <4>1, HasReceiptsKept DEF Visits
    <3> QED BY <2>5, <3>1, <3>2, Earlier
  <2> QED BY <2>4, <2>5 DEF Visits
<1> HIDE DEF In, H
<1>r. ASSUME NEW i \in Periods, NEW a \in H[i - 1]
      PROVE  /\ a.how # "ok" \/ i \notin ps => a \in H[i]
             /\ a.how = "ok" /\ i \in ps => \A r \in Visit("repair", a.s, i) : Sum(a, r) \in H[i]
  <2>1. a \in In(i - 1) /\ H[i] = In(i)
    BY <1>h, <1>r
  <2> QED BY <1>2, <1>3, <2>1
<1>z. Ok(s) \in H[0]
  BY <1>h, <1>1
<1>4. ForEach("repair", s, ps) \subseteq H[MaxPeriods]
  BY <1>r, <1>z, LoopIn
<1>5. o \in In(MaxPeriods)
  BY <1>4, <1>h
<1> QED BY <1>5, Earlier DEF In

(* load's second loop.                                                      *)
LEMMA FinishLoop ==
  ASSUME NEW s \in Stores, NEW J, NEW D, Sound(s, J, D), NEW ps \in SUBSET Periods,
         NEW o \in ForEach("finish", s, ps)
  PROVE  Visits(s, o, J, D)
<1> DEFINE All == {x \in Outcome : Visits(s, x, J, D)}
           H == [i \in 0..MaxPeriods |-> All]
<1>h. /\ \A i \in Periods : H[i] = All /\ H[i - 1] = All
      /\ H[0] = All /\ H[MaxPeriods] = All
  BY Earlier
<1>1. Ok(s) \in All
  BY VisitsSelf DEF Visits
<1>3. ASSUME NEW i \in Periods, NEW a \in All, NEW r \in Visit("finish", a.s, i)
      PROVE  Sum(a, r) \in All
  <2>1. a.s \in Stores /\ Sound(a.s, J, D) /\ Visits(s, a, J, D)
    BY DEF Visits, Moves
  <2>2. r \in FinishMarked(a.s, i)
    BY <1>3, VisitIs
  <2>3. Visits(a.s, r, J, D)
    BY <2>1, <2>2, FinishMarkedOut DEF EntryEnds, Visits
  <2> QED BY <2>1, <2>3, VisitsTrans DEF Visits
<1> HIDE DEF All, H
<1>4. ForEach("finish", s, ps) \subseteq H[MaxPeriods]
  BY <1>h, <1>1, <1>3, LoopIn
<1> QED BY <1>4, <1>h DEF All

(* No batch of an open period has ended.                                    *)
NoneEnded(s, p) == \A b \in OpenOf(s, p) : s.rcpt[b].state \notin Ended

(* load's third loop.                                                       *)
LEMMA DropLoop ==
  ASSUME NEW s \in Stores, NEW J, NEW D, Sound(s, J, D), "rmdir" \notin Failing, NEW ps \in SUBSET Periods,
         NEW o \in ForEach("drop", s, ps)
  PROVE  Visits(s, o, J, D) /\ (o.how = "ok" => \A p \in ps : NoneEnded(o.s, p))
<1> DEFINE In(i) == {x \in Outcome : Visits(s, x, J, D) /\ (x.how = "ok" => \A p \in ps : p <= i => NoneEnded(x.s, p))}
           H == [i \in 0..MaxPeriods |-> In(i)]
<1>h. /\ \A i \in Periods : H[i] = In(i) /\ H[i - 1] = In(i - 1)
      /\ H[0] = In(0) /\ H[MaxPeriods] = In(MaxPeriods)
  BY Earlier
<1>1. Ok(s) \in In(0)
  BY Earlier, VisitsSelf DEF Visits
<1>2. ASSUME NEW i \in Periods, NEW a \in In(i - 1), a.how # "ok" \/ i \notin ps
      PROVE  a \in In(i)
  BY <1>2, Earlier
<1>3. ASSUME NEW i \in Periods, NEW a \in In(i - 1), a.how = "ok" /\ i \in ps, NEW r \in Visit("drop", a.s, i)
      PROVE  Sum(a, r) \in In(i)
  <2>1. a.s \in Stores /\ Sound(a.s, J, D) /\ Visits(s, a, J, D)
    BY DEF Visits, Moves
  <2>2. r \in DropEnded(a.s, i)
    BY <1>3, VisitIs
  <2>3. Visits(a.s, r, J, D) /\ r.s.rcpt = a.s.rcpt /\ (r.how = "ok" => NoneEnded(r.s, i))
    BY <2>1, <2>2, DropEndedOut DEF NoneEnded
  <2>4. Visits(s, Sum(a, r), J, D) /\ Sum(a, r).s = r.s /\ Sum(a, r).how = r.how
    BY <2>1, <2>3, VisitsTrans
  <2>5. ASSUME r.how = "ok", NEW p \in ps, p <= i PROVE NoneEnded(r.s, p)
    <3>1. CASE p = i
      BY <2>3, <2>5, <3>1
    <3>2. CASE p <= i - 1
      <4>1. NoneEnded(a.s, p)
        BY <1>3, <3>2
      <4>2. OpenOf(r.s, p) \subseteq OpenOf(a.s, p)
        BY <2>3, OpenLess DEF Visits
      <4> QED BY <2>3, <4>1, <4>2 DEF NoneEnded
    <3> QED BY <2>5, <3>1, <3>2, Earlier
  <2> QED BY <2>4, <2>5 DEF Visits
<1> HIDE DEF In, H
<1>r. ASSUME NEW i \in Periods, NEW a \in H[i - 1]
      PROVE  /\ a.how # "ok" \/ i \notin ps => a \in H[i]
             /\ a.how = "ok" /\ i \in ps => \A r \in Visit("drop", a.s, i) : Sum(a, r) \in H[i]
  <2>1. a \in In(i - 1) /\ H[i] = In(i)
    BY <1>h, <1>r
  <2> QED BY <1>2, <1>3, <2>1
<1>z. Ok(s) \in H[0]
  BY <1>h, <1>1
<1>4. ForEach("drop", s, ps) \subseteq H[MaxPeriods]
  BY <1>r, <1>z, LoopIn
<1>5. o \in In(MaxPeriods)
  BY <1>4, <1>h
<1> QED BY <1>5, Earlier DEF In

(* load's fourth loop.                                                      *)
LEMMA FinalizeLoop ==
  ASSUME NEW s \in Stores, NEW J, NEW D, Sound(s, J, D), "rmdir" \notin Failing, NEW ps \in SUBSET Periods,
         s.open[s.cur] = NoDir, \A p \in ps : HasReceipts(s, p) /\ NoneEnded(s, p),
         NEW o \in ForEach("finalize", s, ps)
  PROVE  Visits(s, o, J, D)
<1> DEFINE All == {x \in Outcome : Visits(s, x, J, D) /\ x.s.rcpt = s.rcpt}
           H == [i \in 0..MaxPeriods |-> All]
<1>h. /\ \A i \in Periods : H[i] = All /\ H[i - 1] = All
      /\ H[0] = All /\ H[MaxPeriods] = All
  BY Earlier
<1>1. Ok(s) \in All
  BY VisitsSelf DEF Visits
<1>3. ASSUME NEW i \in Periods, NEW a \in All, i \in ps, NEW r \in Visit("finalize", a.s, i)
      PROVE  Sum(a, r) \in All
  <2>1. a.s \in Stores /\ Sound(a.s, J, D) /\ Visits(s, a, J, D) /\ a.s.rcpt = s.rcpt /\ a.s.cur = s.cur
    BY DEF Visits, Moves
  <2>2. r \in FinalizeLeft(a.s, i)
    BY <1>3, VisitIs
  <2>3. a.s.open[a.s.cur] = NoDir
    BY <2>1, StoreFields DEF Visits, Moves
  <2>4. OpenOf(a.s, i) \subseteq OpenOf(s, i)
    BY <2>1, OpenLess DEF Visits
  <2>5. \A b \in OpenOf(a.s, i) : a.s.rcpt[b] # NoReceipt /\ a.s.rcpt[b].state \notin Ended
    BY <1>3, <2>1, <2>4 DEF HasReceipts, NoneEnded
  <2>6. Visits(a.s, r, J, D) /\ r.s.rcpt = a.s.rcpt
    BY <2>1, <2>2, <2>3, <2>5, FinalizeLeftOut
  <2>7. Visits(s, Sum(a, r), J, D) /\ Sum(a, r).s = r.s
    BY <2>1, <2>6, VisitsTrans
  <2> QED BY <2>1, <2>6, <2>7 DEF Visits
<1> HIDE DEF All, H
<1>4. ForEach("finalize", s, ps) \subseteq H[MaxPeriods]
  BY <1>h, <1>1, <1>3, LoopIn
<1> QED BY <1>4, <1>h DEF All

----------------------------------------------------------------------------
(* Discarding what waits.                                                   *)

(* A failure in discard_waiting is an outcome it goes on from.              *)
LEMMA TriesIs ==
  ASSUME NEW S, \A r \in S : r \in Outcome /\ r.how \in {"ok", "crashed", "failed"}, NEW o \in Tries(S)
  PROVE  \E r \in S : o \in Outcome /\ o.s = r.s /\ o.how \in {"ok", "crashed"} /\ (o.how = "crashed" <=> r.how = "crashed")
<1>1. PICK r \in S : o = IF r.how = "failed" THEN [r EXCEPT !.how = "ok"] ELSE r
  BY DEF Tries
<1>2. r \in Outcome /\ r.how \in {"ok", "crashed", "failed"}
  OBVIOUS
<1>3. o \in Outcome /\ o.s = r.s /\ o.how = IF r.how = "failed" THEN "ok" ELSE r.how
  BY <1>1, <1>2 DEF Outcome
<1> QED BY <1>2, <1>3

(* The receipts of the open period end as discarded.                        *)
LEMMA DiscardMarks ==
  ASSUME NEW s \in Stores, NEW J, NEW D, NEW p \in Periods, Sound(s, J, D), s.out[p] = NoEntry, p \notin s.staged,
         \A b \in Batches : s.rcpt[b] = Pending(p) => b \in D,
         NEW o \in Marks(s, p, "Discarded")
  PROVE  /\ o \in Outcome /\ o.how \in {"ok", "crashed", "failed"} /\ Moves(s, o.s, J, D)
         /\ o.s.open = s.open /\ o.s.out = s.out /\ o.s.has = s.has
         /\ o.how = "ok" => \A b \in Batches : o.s.rcpt[b] # Pending(p)
<1>1. PICK st \in Ended : st = "Discarded"
  BY DEF Ended
<1>2. o \in Marks(s, p, st)
  BY <1>1
<1>3. \A b \in Batches : s.rcpt[b] = Pending(p) => (st = "Delivered" => b \in J) /\ (st = "Discarded" => b \in D)
  BY <1>1
<1>4. s.out[p] = NoEntry \/ s.out[p].mark # "none"
  OBVIOUS
<1> QED BY <1>2, <1>3, <1>4, MarksOut

(* Discarding the open period, stopped anywhere; if the process lives,      *)
(* has_dir is right.                                                        *)
LEMMA DiscardOpenOut ==
  ASSUME NEW s, NEW J, NEW D, Steady(s, J, D), s.has, OpenOf(s, s.cur) \subseteq D, "rmdir" \notin Failing,
         NEW o \in DiscardOpen(s)
  PROVE  /\ o \in Outcome /\ o.how \in {"ok", "crashed", "failed"} /\ Moves(s, o.s, J, D) /\ o.s.out = s.out
         /\ o.how # "crashed" => Based(o.s)
<1>s. s \in Stores /\ Sound(s, J, D) /\ Based(s) /\ Repaired(s) /\ s.open[s.cur].meta
  BY DEF Steady, Based
<1> DEFINE p == s.cur
           Marked == Marks(s, p, "Discarded")
           Emptied == Then(Marked, LAMBDA t : RemoveOpen(t, p))
<1>p. p \in Periods /\ s.out[p] = NoEntry /\ p \notin s.staged
  BY <1>s, StoreFields DEF Sound, Fresh
<1>1. DiscardOpen(s) = Then(Emptied, LAMBDA t : {Ok([t EXCEPT !.has = FALSE, !.bytes = 0, !.ctx = FALSE])})
  BY DEF DiscardOpen
<1>d. OpenOf(s, p) \subseteq D /\ s.open[p].meta
  BY <1>s
<1>c. s.cur = p
  OBVIOUS
<1> HIDE DEF p
<1>2. ASSUME NEW a \in Marked
      PROVE  /\ a \in Outcome /\ a.how \in {"ok", "crashed", "failed"} /\ Moves(s, a.s, J, D)
             /\ a.s.open = s.open /\ a.s.out = s.out /\ a.s.has = s.has
             /\ a.how = "ok" => \A b \in Batches : a.s.rcpt[b] # Pending(p)
  <2>1. \A b \in Batches : s.rcpt[b] = Pending(p) => b \in D
    BY <1>s, <1>p, <1>d DEF Sound, Placed, Pending
  <2>2. a \in Marks(s, p, "Discarded")
    BY <1>2
  <2> HIDE DEF Marked, Emptied
  <2>3. s \in Stores /\ Sound(s, J, D)
    BY <1>s
  <2>4. a \in Outcome
    BY <1>p, <2>1, <2>2, <2>3, DiscardMarks
  <2>5. a.how \in {"ok", "crashed", "failed"}
    BY <1>p, <2>1, <2>2, <2>3, DiscardMarks
  <2>6. Moves(s, a.s, J, D)
    BY <1>p, <2>1, <2>2, <2>3, DiscardMarks
  <2>7. a.s.open = s.open /\ a.s.out = s.out
    BY <1>p, <2>1, <2>2, <2>3, DiscardMarks
  <2>8. a.s.has = s.has
    BY <1>p, <2>1, <2>2, <2>3, DiscardMarks
  <2>9. a.how = "ok" => \A b \in Batches : a.s.rcpt[b] # Pending(p)
    BY <1>p, <2>1, <2>2, <2>3, DiscardMarks
  <2> QED BY <2>4, <2>5, <2>6, <2>7, <2>8, <2>9
<1> HIDE DEF Marked
<1>3. ASSUME NEW c \in Emptied
      PROVE  /\ c \in Outcome /\ c.how \in {"ok", "crashed", "failed"} /\ Moves(s, c.s, J, D) /\ c.s.out = s.out
             /\ c.how = "ok" => c.s.open[p] = NoDir
             /\ c.how = "failed" => Based(c.s)
  <2>1. PICK a \in Marked : \/ a.how # "ok" /\ c = a
                            \/ a.how = "ok" /\ \E r \in RemoveOpen(a.s, p) : c = Sum(a, r)
    BY <1>3 DEF Then, Sum
  <2>2. /\ a \in Outcome /\ a.how \in {"ok", "crashed", "failed"} /\ Moves(s, a.s, J, D)
        /\ a.s.open = s.open /\ a.s.out = s.out /\ a.s.has = s.has
        /\ a.how = "ok" => \A b \in Batches : a.s.rcpt[b] # Pending(p)
    BY <1>2
  <2>3. a.s \in Stores /\ Sound(a.s, J, D) /\ a.s.cur = p /\ Repaired(a.s) /\ a.s.open[p].meta
    BY <2>2, <1>s, <1>c, <1>d, MovesRepaired DEF Moves
  <2>4. CASE a.how # "ok" /\ c = a
    <3>1. Based(a.s)
      BY <2>2, <2>3 DEF Based
    <3> QED BY <2>2, <2>4, <3>1
  <2>5. CASE a.how = "ok" /\ \E r \in RemoveOpen(a.s, p) : c = Sum(a, r)
    <3>1. PICK r \in RemoveOpen(a.s, p) : c = Sum(a, r)
      BY <2>5
    <3>2. \A b \in OpenOf(a.s, p) : a.s.rcpt[b].state \in Ended
      <4> SUFFICES ASSUME NEW b \in OpenOf(a.s, p) PROVE a.s.rcpt[b].state \in Ended
        OBVIOUS
      <4>1. b \in Batches /\ a.s.rcpt[b] # NoReceipt /\ a.s.rcpt[b].period = p
        BY <1>p, <2>3, OpenInBatches DEF Repaired, Sound, OpenOwned
      <4>2. PICK q \in Periods, st \in {"Pending", "Discarded", "Delivered"} : a.s.rcpt[b] = [period |-> q, state |-> st]
        BY <2>3, <4>1, ReceiptCases
      <4>3. q = p
        BY <4>1, <4>2
      <4>4. a.s.rcpt[b] # Pending(p)
        BY <2>2, <2>5, <4>1
      <4> QED BY <4>2, <4>3, <4>4 DEF Ended, Pending
    <3>3. /\ r \in Outcome /\ r.how \in {"ok", "crashed", "failed"} /\ Moves(a.s, r.s, J, D)
          /\ r.s.out = a.s.out /\ r.s.has = a.s.has
          /\ r.how = "ok" => r.s.open[p] = NoDir
          /\ r.how = "failed" => r.s.open[p].meta = a.s.open[p].meta
      <4>1. PICK u \in Stores : u = a.s /\ r \in RemoveOpen(u, p)
        BY <2>3, <3>1
      <4>2. Sound(u, J, D) /\ (u.out[p] = NoEntry => \A b \in OpenOf(u, p) : u.rcpt[b].state \in Ended)
        BY <2>3, <3>2, <4>1
      <4> QED BY <1>p, <4>1, <4>2, RemoveOpenOut
    <3>4. c \in Outcome /\ c.s = r.s /\ c.how = r.how
      BY <2>2, <3>1, <3>3, SumIs
    <3>5. Moves(s, r.s, J, D)
      BY <1>s, <2>2, <3>3, MovesTrans
    <3>6. r.how = "failed" => Based(r.s)
      BY <2>2, <2>3, <3>3 DEF Based, Moves
    <3> QED BY <2>2, <3>3, <3>4, <3>5, <3>6
  <2> QED BY <2>1, <2>4, <2>5
<1> HIDE DEF Emptied
<1>4. PICK c \in Emptied : \/ c.how # "ok" /\ o = c
                           \/ c.how = "ok" /\ o = Sum(c, Ok([c.s EXCEPT !.has = FALSE, !.bytes = 0, !.ctx = FALSE]))
  BY <1>1 DEF Then, Sum
<1>5. CASE c.how # "ok" /\ o = c
  BY <1>3, <1>5
<1>6. CASE c.how = "ok" /\ o = Sum(c, Ok([c.s EXCEPT !.has = FALSE, !.bytes = 0, !.ctx = FALSE]))
  <2>1. PICK t : t = [c.s EXCEPT !.has = FALSE, !.bytes = 0, !.ctx = FALSE]
    OBVIOUS
  <2>2. c.s \in Stores /\ Sound(c.s, J, D) /\ c.s.cur = p /\ c.s.open[p] = NoDir /\ Moves(s, c.s, J, D)
    BY <1>3, <1>6, <1>c DEF Moves
  <2>3. /\ t \in Stores /\ t.open = c.s.open /\ t.out = c.s.out /\ t.rcpt = c.s.rcpt /\ t.staged = c.s.staged
        /\ t.cur = c.s.cur /\ ~t.has
    <3>1. 0 \in 0..FileMax
      BY BrowserAssumption
    <3>2. t \in Stores
      BY <2>1, <2>2, <3>1 DEF Stores
    <3>3. /\ c.s = [c.s EXCEPT !.has = c.s.has] /\ t.open = c.s.open /\ t.out = c.s.out /\ t.rcpt = c.s.rcpt /\ t.staged = c.s.staged
          /\ t.cur = c.s.cur /\ t.has = FALSE
      BY <2>1, <2>2 DEF Stores
    <3> QED BY <3>2, <3>3
  <2>4. Moves(s, t, J, D)
    BY <1>s, <2>2, <2>3, SameMoves, MovesTrans
  <2>5. Based(t)
    BY <2>2, <2>3 DEF Based
  <2>6. Ok(t) \in Outcome /\ Ok(t).s = t /\ Ok(t).how = "ok"
    BY <2>3, OutcomeIs
  <2>7. o \in Outcome /\ o.s = t /\ o.how = "ok"
    BY <1>3, <1>6, <2>1, <2>6, SumIs
  <2> QED BY <1>3, <2>3, <2>4, <2>5, <2>7
<1> QED BY <1>4, <1>5, <1>6

(* What the loop over the outbox leaves alone.                              *)
Spares(s, o, J, D) ==
  o \in Outcome /\ o.how \in {"ok", "crashed"} /\ Moves(s, o.s, J, D) /\ o.s.open = s.open /\ o.s.has = s.has

(* discard_waiting's loop spares the entries it does not visit.             *)
LEMMA DiscardLoop ==
  ASSUME NEW s \in Stores, NEW J, NEW D, Sound(s, J, D), NEW ps \in SUBSET Periods,
         \A p \in ps : s.out[p].meta /\ PagesOf(s, p) \subseteq D,
         NEW o \in ForEach("discard", s, ps)
  PROVE  Spares(s, o, J, D) /\ \A q \in Periods \ ps : o.s.out[q] = s.out[q]
<1> DEFINE In(i) == {x \in Outcome : /\ Spares(s, x, J, D)
                                     /\ \A q \in Periods : q \notin ps \/ ~(q <= i) => x.s.out[q] = s.out[q]}
           H == [i \in 0..MaxPeriods |-> In(i)]
<1>h. /\ \A i \in Periods : H[i] = In(i) /\ H[i - 1] = In(i - 1)
      /\ H[0] = In(0) /\ H[MaxPeriods] = In(MaxPeriods)
  BY Earlier
<1>1. Ok(s) \in In(0)
  BY VisitsSelf DEF Visits, Spares
<1>2. ASSUME NEW i \in Periods, NEW a \in In(i - 1), a.how # "ok" \/ i \notin ps
      PROVE  a \in In(i)
  BY <1>2, Earlier
<1>3. ASSUME NEW i \in Periods, NEW a \in In(i - 1), a.how = "ok" /\ i \in ps, NEW r \in Visit("discard", a.s, i)
      PROVE  Sum(a, r) \in In(i)
  <2>1. a.s \in Stores /\ Sound(a.s, J, D) /\ Spares(s, a, J, D) /\ a \in Outcome
    BY DEF Spares, Moves
  <2>2. r \in Tries(EndEntry(a.s, i, "Discarded"))
    BY <1>3, VisitIs
  <2>3. a.s.out[i] = s.out[i]
    <3>1. ~(i <= i - 1)
      BY PeriodIds
    <3> QED BY <1>3, <3>1
  <2>4. a.s.out[i].meta /\ PagesOf(a.s, i) \subseteq D
    BY <1>3, <2>3 DEF PagesOf
  <2>5. ASSUME NEW e \in EndEntry(a.s, i, "Discarded")
        PROVE  EntryEnds(a.s, e, i, J, D) /\ e \in Outcome /\ e.how \in {"ok", "crashed", "failed"}
    <3>1. "Discarded" \in Ended /\ "Discarded" # "Delivered"
      BY DEF Ended
    <3>2. EntryEnds(a.s, e, i, J, D)
      BY <2>1, <2>4, <2>5, <3>1, EndEntryOut
    <3> QED BY <3>2 DEF EntryEnds
  <2>6. PICK e \in EndEntry(a.s, i, "Discarded") :
          r \in Outcome /\ r.s = e.s /\ r.how \in {"ok", "crashed"}
    BY <2>2, <2>5, TriesIs
  <2>7. EntryEnds(a.s, e, i, J, D)
    BY <2>5
  <2>8. Sum(a, r) \in Outcome /\ Sum(a, r).s = e.s /\ Sum(a, r).how = r.how
    BY <2>1, <2>6, SumIs
  <2>9. Moves(s, e.s, J, D) /\ e.s.open = s.open /\ e.s.has = s.has
    BY <2>1, <2>7, MovesTrans DEF EntryEnds, Spares
  <2>10. ASSUME NEW q \in Periods, q \notin ps \/ ~(q <= i) PROVE e.s.out[q] = s.out[q]
    <3>1. q # i /\ (q \notin ps \/ ~(q <= i - 1))
      BY <1>3, <2>10, Earlier, PeriodIds
    <3> QED BY <1>3, <2>7, <3>1 DEF EntryEnds
  <2> QED BY <2>6, <2>8, <2>9, <2>10 DEF Spares
<1> HIDE DEF In, H
<1>r. ASSUME NEW i \in Periods, NEW a \in H[i - 1]
      PROVE  /\ a.how # "ok" \/ i \notin ps => a \in H[i]
             /\ a.how = "ok" /\ i \in ps => \A r \in Visit("discard", a.s, i) : Sum(a, r) \in H[i]
  <2>1. a \in In(i - 1) /\ H[i] = In(i)
    BY <1>h, <1>r
  <2> QED BY <1>2, <1>3, <2>1
<1>z. Ok(s) \in H[0]
  BY <1>h, <1>1
<1>4. ForEach("discard", s, ps) \subseteq H[MaxPeriods]
  BY <1>r, <1>z, LoopIn
<1>5. o \in In(MaxPeriods)
  BY <1>4, <1>h
<1> QED BY <1>5, Earlier DEF In

(* What a discard leaves.                                                   *)
Clears(s, o, reserved, J, D) ==
  /\ o \in Outcome /\ Moves(s, o.s, J, D) /\ (o.how # "crashed" => Based(o.s))
  /\ \A q \in reserved : o.s.out[q] = s.out[q]

(* discard_waiting loses only what it says it discards, and spares the      *)
(* entry being sent.                                                        *)
LEMMA DiscardsOut ==
  ASSUME NEW s, NEW J, NEW D, Steady(s, J, D), "rmdir" \notin Failing, NEW reserved \in SUBSET Periods,
         Waiting(s, reserved) \subseteq D, NEW o \in Discards(s, reserved)
  PROVE  Clears(s, o, reserved, J, D)
<1>s. s \in Stores /\ Sound(s, J, D) /\ Based(s) /\ Repaired(s)
  BY DEF Steady
<1> DEFINE ps == AllOutbox(s) \ reserved
           Open(t) == IF t.has /\ t.open[t.cur].files # {} THEN Tries(DiscardOpen(t)) ELSE {Ok(t)}
           Cleared == ForEach("discard", s, ps)
           Emptied == Then(Cleared, Open)
<1>1. Discards(s, reserved) = Then(Emptied, LAMBDA t : {Ok(RefreshFull(t))})
  BY DEF Discards
<1>2. ps \in SUBSET Periods /\ \A p \in ps : s.out[p].meta /\ PagesOf(s, p) \subseteq D
  BY DEF AllOutbox, Waiting, PagesOf
<1>3. s.has => OpenOf(s, s.cur) \subseteq D
  BY DEF Waiting, OpenOf
<1>4. \A q \in reserved : q \in Periods \ ps
  OBVIOUS
<1>5. ASSUME NEW a \in Cleared
      PROVE  Spares(s, a, J, D) /\ \A q \in reserved : a.s.out[q] = s.out[q]
  <2> HIDE DEF ps
  <2> QED BY <1>s, <1>2, <1>4, <1>5, DiscardLoop
<1>6. ASSUME NEW t, Steady(t, J, D), t.has => OpenOf(t, t.cur) \subseteq D, NEW r \in Open(t)
      PROVE  /\ r \in Outcome /\ Moves(t, r.s, J, D) /\ r.s.out = t.out
             /\ r.how # "crashed" => Based(r.s)
  <2>t. t \in Stores /\ Sound(t, J, D) /\ Based(t)
    BY <1>6 DEF Steady
  <2>1. CASE t.has /\ t.open[t.cur].files # {}
    <3>1. r \in Tries(DiscardOpen(t))
      BY <1>6, <2>1
    <3>2. \A e \in DiscardOpen(t) :
             /\ e \in Outcome /\ e.how \in {"ok", "crashed", "failed"} /\ Moves(t, e.s, J, D) /\ e.s.out = t.out
             /\ e.how # "crashed" => Based(e.s)
      BY <1>6, <2>1, DiscardOpenOut
    <3>3. PICK e \in DiscardOpen(t) :
             r \in Outcome /\ r.s = e.s /\ (r.how = "crashed" <=> e.how = "crashed")
      BY <3>1, <3>2, TriesIs
    <3> QED BY <3>2, <3>3
  <2>2. CASE ~(t.has /\ t.open[t.cur].files # {})
    <3>1. r = Ok(t)
      BY <1>6, <2>2
    <3>2. r \in Outcome /\ r.s = t
      BY <3>1, <2>t, OutcomeIs
    <3> QED BY <3>2, <2>t, MovesSelf
  <2> QED BY <2>1, <2>2
<1> HIDE DEF Cleared, Open, ps
<1>7. ASSUME NEW c \in Emptied
      PROVE  Clears(s, c, reserved, J, D)
  <2>1. PICK a \in Cleared : \/ a.how # "ok" /\ c = a
                             \/ a.how = "ok" /\ \E r \in Open(a.s) : c = Sum(a, r)
    BY <1>7 DEF Then, Sum
  <2>2. Spares(s, a, J, D) /\ \A q \in reserved : a.s.out[q] = s.out[q]
    BY <1>5
  <2>3. CASE a.how # "ok" /\ c = a
    BY <2>2, <2>3 DEF Spares, Clears
  <2>4. CASE a.how = "ok" /\ \E r \in Open(a.s) : c = Sum(a, r)
    <3>1. PICK r \in Open(a.s) : c = Sum(a, r)
      BY <2>4
    <3>2. a.s \in Stores /\ Sound(a.s, J, D) /\ a.s.cur = s.cur /\ a.s.open = s.open /\ a.s.has = s.has /\ Moves(s, a.s, J, D)
      BY <2>2 DEF Spares, Moves
    <3>3. Based(a.s) /\ Repaired(a.s)
      BY <1>s, <3>2, MovesRepaired DEF Based
    <3>4. Steady(a.s, J, D)
      BY <3>2, <3>3 DEF Steady
    <3>5. a.s.has => OpenOf(a.s, a.s.cur) \subseteq D
      BY <1>3, <3>2 DEF OpenOf
    <3>6. /\ r \in Outcome /\ Moves(a.s, r.s, J, D) /\ r.s.out = a.s.out
          /\ r.how # "crashed" => Based(r.s)
      BY <1>6, <3>4, <3>5
    <3>7. c \in Outcome /\ c.s = r.s /\ c.how = r.how
      BY <2>2, <3>1, <3>6, SumIs DEF Spares
    <3>8. Moves(s, r.s, J, D)
      BY <1>s, <3>2, <3>6, MovesTrans
    <3> QED BY <2>2, <3>6, <3>7, <3>8 DEF Clears
  <2> QED BY <2>1, <2>3, <2>4
<1> HIDE DEF Emptied
<1>8. PICK c \in Emptied : \/ c.how # "ok" /\ o = c
                           \/ c.how = "ok" /\ o = Sum(c, Ok(RefreshFull(c.s)))
  BY <1>1 DEF Then, Sum
<1>9. Clears(s, c, reserved, J, D)
  BY <1>7
<1>10. CASE c.how = "ok" /\ o = Sum(c, Ok(RefreshFull(c.s)))
  <2>1. PICK t : t = RefreshFull(c.s)
    OBVIOUS
  <2>2. c.s \in Stores /\ Sound(c.s, J, D) /\ Moves(s, c.s, J, D) /\ c \in Outcome /\ Based(c.s)
    BY <1>9, <1>10 DEF Clears, Moves
  <2>3. t \in Stores /\ t.open = c.s.open /\ t.out = c.s.out /\ t.cur = c.s.cur /\ t.has = c.s.has
    BY <2>1, <2>2, RefreshIs
  <2>4. Moves(c.s, t, J, D)
    BY <2>1, <2>2, RefreshMoves
  <2>5. Moves(s, t, J, D) /\ Based(t)
    BY <1>s, <2>2, <2>3, <2>4, MovesTrans DEF Based
  <2>6. Ok(t) \in Outcome /\ Ok(t).s = t
    BY <2>3, OutcomeIs
  <2>7. o \in Outcome /\ o.s = t
    BY <1>10, <2>1, <2>2, <2>6, SumIs
  <2> QED BY <1>9, <2>3, <2>5, <2>7 DEF Clears
<1> QED BY <1>8, <1>9, <1>10

----------------------------------------------------------------------------
(* A launch.                                                                *)
LEMMA ForgottenIs ==
  ASSUME NEW s \in Stores, NEW J, NEW D, Sound(s, J, D), NewOpen(s).cur \in Periods
  PROVE  LET t == [NewOpen(s) EXCEPT !.full = FALSE]
         IN  /\ t \in Stores /\ t.open = s.open /\ t.out = s.out /\ t.rcpt = s.rcpt /\ t.staged = s.staged
             /\ Sound(t, J, D) /\ Based(t) /\ ~t.has
             /\ DiskOf(t) = DiskOf(s) /\ Room(t) = Room(s) /\ (Repaired(s) <=> Repaired(t))
<1> DEFINE n == NewOpen(s)
           t == [n EXCEPT !.full = FALSE]
<1>1. /\ n \in Stores /\ n.open = s.open /\ n.out = s.out /\ n.rcpt = s.rcpt /\ n.staged = s.staged
      /\ Sound(n, J, D) /\ Based(n) /\ ~n.has
  BY NewOpenIs
<1> HIDE DEF n
<1>2. /\ t \in Stores /\ t.open = n.open /\ t.out = n.out /\ t.rcpt = n.rcpt /\ t.staged = n.staged /\ t.cur = n.cur
      /\ t.has = n.has
  BY <1>1 DEF Stores
<1> SUFFICES /\ t \in Stores /\ t.open = s.open /\ t.out = s.out /\ t.rcpt = s.rcpt /\ t.staged = s.staged
             /\ Sound(t, J, D) /\ Based(t) /\ ~t.has
             /\ DiskOf(t) = DiskOf(s) /\ Room(t) = Room(s) /\ (Repaired(s) <=> Repaired(t))
  BY DEF n
<1> HIDE DEF t
<1>3. Fresh(t) /\ Based(t)
  BY <1>1, <1>2 DEF Sound, Fresh, Based
<1>4. Sound(t, J, D)
  BY <1>1, <1>2, <1>3, SameDisk
<1>5. DiskOf(t) = DiskOf(s) /\ Room(t) = Room(s) /\ (Repaired(s) <=> Repaired(t))
  BY <1>1, <1>2, SameDisk
<1> QED BY <1>1, <1>2, <1>3, <1>4, <1>5

(* load, stopped anywhere, loses nothing that no journal has and no owner   *)
(* discarded, takes no more room, and ends with every open batch receipted. *)
LEMMA LoadsOut ==
  ASSUME NEW s \in Stores, NEW J, NEW D, Sound(s, J, D), "rmdir" \notin Failing, NEW o \in Loads(s)
  PROVE  /\ o \in Outcome /\ o.how \in {"ok", "crashed", "failed"}
         /\ Sound(o.s, J, D) /\ Lets(s, o.s, J, D) /\ Room(o.s) <= Room(s)
         /\ o.how = "ok" => Steady(o.s, J, D) /\ ~o.s.has
<1> DEFINE n == [NewOpen(s) EXCEPT !.full = FALSE]
           ps == 1..s.cur
           fresh == IF NewOpen(s).cur \in Periods THEN {Ok(n)} ELSE {}
           E1 == Then(fresh, LAMBDA t : ForEach("repair", t, ps))
           E2 == Then(E1, LAMBDA t : ForEach("finish", t, ps))
           E3 == Then(E2, LAMBDA t : ForEach("drop", t, ps))
           E4 == Then(E3, LAMBDA t : ForEach("finalize", t, ps))
           Swept(t) == {Ok([t EXCEPT !.staged = {}]), Crashes(t)} \cup Fails(t, "remove")
           E5 == Then(E4, Swept)
<1>1. Loads(s) = Then(E5, LAMBDA t : {Ok(RefreshFull(t))})
  BY DEF Loads
<1>2. ps \in SUBSET Periods /\ s.cur \in Nat
  <2>1. s.cur \in Periods
    BY StoreFields
  <2> QED BY <2>1, BrowserAssumption DEF Periods
<1>3. \A p \in Periods : p \notin ps => s.open[p] = NoDir
  <2>1. \A p \in Periods : p \notin ps => p > s.cur
    BY <1>2, PeriodIds
  <2> QED BY <2>1 DEF Sound, Fresh
<1>p. ASSUME fresh # {} PROVE NewOpen(s).cur \in Periods /\ fresh = {Ok(n)}
  BY <1>p
<1>4. ASSUME fresh # {}
      PROVE  /\ n \in Stores /\ n.open = s.open /\ Sound(n, J, D) /\ n.open[n.cur] = NoDir /\ ~n.has
             /\ DiskOf(n) = DiskOf(s) /\ Room(n) = Room(s)
  BY <1>p, <1>4, ForgottenIs DEF Based
<1> HIDE DEF n, ps, fresh
<1>5. ASSUME NEW c \in E1
      PROVE  fresh # {} /\ Visits(n, c, J, D) /\ (c.how = "ok" => Repaired(c.s))
  <2>1. PICK a \in fresh : \/ a.how # "ok" /\ c = a
                           \/ a.how = "ok" /\ \E r \in ForEach("repair", a.s, ps) : c = Sum(a, r)
    BY <1>5 DEF Then, Sum
  <2>2. fresh # {}
    BY <2>1
  <2>3. a = Ok(n) /\ n \in Stores /\ n.open = s.open /\ Sound(n, J, D)
    BY <1>p, <1>4, <2>2
  <2>4. Visits(n, a, J, D) /\ a.s = n /\ a.how = "ok"
    BY <2>3, VisitsSelf
  <2>5. PICK r \in ForEach("repair", n, ps) : c = Sum(a, r)
    BY <2>1, <2>4
  <2>6. Visits(n, r, J, D) /\ (r.how = "ok" => \A p \in ps : HasReceipts(r.s, p))
    BY <1>2, <2>3, RepairLoop
  <2>7. Visits(n, c, J, D) /\ c.s = r.s /\ c.how = r.how
    BY <2>3, <2>4, <2>5, <2>6, VisitsTrans
  <2>8. ASSUME r.how = "ok", NEW p \in Periods, NEW b \in OpenOf(r.s, p) PROVE r.s.rcpt[b] # NoReceipt
    <3>1. CASE p \in ps
      BY <2>6, <2>8, <3>1 DEF HasReceipts
    <3>2. CASE p \notin ps
      <4>1. r.s.open[p] = NoDir
        BY <1>3, <2>3, <2>6, <3>2 DEF Visits, Moves
      <4> QED BY <2>8, <4>1 DEF OpenOf, BatchesOf, NoDir
    <3> QED BY <3>1, <3>2
  <2> QED BY <2>2, <2>7, <2>8 DEF Repaired
<1> HIDE DEF E1
<1>6. ASSUME NEW c \in E2
      PROVE  fresh # {} /\ Visits(n, c, J, D) /\ (c.how = "ok" => Repaired(c.s))
  <2>1. PICK a \in E1 : \/ a.how # "ok" /\ c = a
                        \/ a.how = "ok" /\ \E r \in ForEach("finish", a.s, ps) : c = Sum(a, r)
    BY <1>6 DEF Then, Sum
  <2>2. fresh # {} /\ Visits(n, a, J, D) /\ (a.how = "ok" => Repaired(a.s)) /\ n \in Stores
    BY <1>4, <1>5
  <2>3. CASE a.how = "ok" /\ \E r \in ForEach("finish", a.s, ps) : c = Sum(a, r)
    <3>1. PICK r \in ForEach("finish", a.s, ps) : c = Sum(a, r)
      BY <2>3
    <3>2. a.s \in Stores /\ Sound(a.s, J, D)
      BY <2>2 DEF Visits, Moves
    <3>3. Visits(a.s, r, J, D)
      BY <1>2, <3>1, <3>2, FinishLoop
    <3>4. Visits(n, c, J, D) /\ c.s = r.s /\ c.how = r.how
      BY <2>2, <3>1, <3>3, VisitsTrans
    <3>5. Repaired(r.s)
      BY <2>2, <2>3, <3>2, <3>3, MovesRepaired DEF Visits
    <3> QED BY <2>2, <3>4, <3>5
  <2> QED BY <2>1, <2>2, <2>3
<1> HIDE DEF E2
<1>7. ASSUME NEW c \in E3
      PROVE  fresh # {} /\ Visits(n, c, J, D) /\ (c.how = "ok" => Repaired(c.s) /\ \A p \in ps : NoneEnded(c.s, p))
  <2>1. PICK a \in E2 : \/ a.how # "ok" /\ c = a
                        \/ a.how = "ok" /\ \E r \in ForEach("drop", a.s, ps) : c = Sum(a, r)
    BY <1>7 DEF Then, Sum
  <2>2. fresh # {} /\ Visits(n, a, J, D) /\ (a.how = "ok" => Repaired(a.s)) /\ n \in Stores
    BY <1>4, <1>6
  <2>3. CASE a.how = "ok" /\ \E r \in ForEach("drop", a.s, ps) : c = Sum(a, r)
    <3>1. PICK r \in ForEach("drop", a.s, ps) : c = Sum(a, r)
      BY <2>3
    <3>2. a.s \in Stores /\ Sound(a.s, J, D)
      BY <2>2 DEF Visits, Moves
    <3>3. Visits(a.s, r, J, D) /\ (r.how = "ok" => \A p \in ps : NoneEnded(r.s, p))
      BY <1>2, <3>1, <3>2, DropLoop
    <3>4. Visits(n, c, J, D) /\ c.s = r.s /\ c.how = r.how
      BY <2>2, <3>1, <3>3, VisitsTrans
    <3>5. Repaired(r.s)
      BY <2>2, <2>3, <3>2, <3>3, MovesRepaired DEF Visits
    <3> QED BY <2>2, <3>3, <3>4, <3>5
  <2> QED BY <2>1, <2>2, <2>3
<1> HIDE DEF E3
<1>8. ASSUME NEW c \in E4
      PROVE  fresh # {} /\ Visits(n, c, J, D) /\ (c.how = "ok" => Repaired(c.s))
  <2>1. PICK a \in E3 : \/ a.how # "ok" /\ c = a
                        \/ a.how = "ok" /\ \E r \in ForEach("finalize", a.s, ps) : c = Sum(a, r)
    BY <1>8 DEF Then, Sum
  <2>2. /\ fresh # {} /\ Visits(n, a, J, D) /\ (a.how = "ok" => Repaired(a.s) /\ \A p \in ps : NoneEnded(a.s, p))
        /\ n \in Stores /\ n.open[n.cur] = NoDir
    BY <1>4, <1>7
  <2>3. CASE a.how = "ok" /\ \E r \in ForEach("finalize", a.s, ps) : c = Sum(a, r)
    <3>1. PICK r \in ForEach("finalize", a.s, ps) : c = Sum(a, r)
      BY <2>3
    <3>2. a.s \in Stores /\ Sound(a.s, J, D)
      BY <2>2 DEF Visits, Moves
    <3>o. a.s.open[a.s.cur] = NoDir
      BY <2>2, StoreFields DEF Visits, Moves
    <3>p. \A p \in ps : HasReceipts(a.s, p) /\ NoneEnded(a.s, p)
      BY <1>2, <2>2, <2>3 DEF Repaired, HasReceipts
    <3>3. Visits(a.s, r, J, D)
      BY <1>2, <3>1, <3>2, <3>o, <3>p, FinalizeLoop
    <3>4. Visits(n, c, J, D) /\ c.s = r.s /\ c.how = r.how
      BY <2>2, <3>1, <3>3, VisitsTrans
    <3>5. Repaired(r.s)
      BY <2>2, <2>3, <3>2, <3>3, MovesRepaired DEF Visits
    <3> QED BY <2>2, <3>4, <3>5
  <2> QED BY <2>1, <2>2, <2>3
<1> HIDE DEF E4
<1>s. ASSUME NEW t \in Stores, Sound(t, J, D), NEW r \in Swept(t)
      PROVE  Visits(t, r, J, D)
  <2>1. PICK u : u = [t EXCEPT !.staged = {}]
    OBVIOUS
  <2>2. /\ u \in Stores /\ u.open = t.open /\ u.out = t.out /\ u.rcpt = t.rcpt /\ u.cur = t.cur /\ u.has = t.has
        /\ u.staged = {}
    BY <2>1 DEF Stores
  <2>3. Moves(t, u, J, D) /\ Moves(t, t, J, D)
    BY <1>s, <2>2, Sweeps, MovesSelf
  <2>4. r = Ok(u) \/ r = Crashes(t) \/ r \in Fails(t, "remove")
    BY <1>s, <2>1
  <2>5. CASE r = Ok(u)
    <3>1. r \in Outcome /\ r.s = u /\ r.how = "ok"
      BY <2>2, <2>5, OutcomeIs
    <3> QED BY <2>2, <2>3, <3>1 DEF Visits
  <2>6. CASE r = Crashes(t) \/ r \in Fails(t, "remove")
    <3>1. r \in Outcome /\ r.s = t /\ r.how \in {"crashed", "failed"}
      BY <2>6, StopsAt
    <3> QED BY <2>3, <3>1 DEF Visits
  <2> QED BY <2>4, <2>5, <2>6
<1> HIDE DEF Swept
<1>9. ASSUME NEW c \in E5
      PROVE  fresh # {} /\ Visits(n, c, J, D) /\ (c.how = "ok" => Repaired(c.s))
  <2>1. PICK a \in E4 : \/ a.how # "ok" /\ c = a
                        \/ a.how = "ok" /\ \E r \in Swept(a.s) : c = Sum(a, r)
    BY <1>9 DEF Then, Sum
  <2>2. fresh # {} /\ Visits(n, a, J, D) /\ (a.how = "ok" => Repaired(a.s)) /\ n \in Stores
    BY <1>4, <1>8
  <2>3. CASE a.how = "ok" /\ \E r \in Swept(a.s) : c = Sum(a, r)
    <3>1. PICK r \in Swept(a.s) : c = Sum(a, r)
      BY <2>3
    <3>2. a.s \in Stores /\ Sound(a.s, J, D)
      BY <2>2 DEF Visits, Moves
    <3>3. Visits(a.s, r, J, D)
      BY <1>s, <3>1, <3>2
    <3>4. Visits(n, c, J, D) /\ c.s = r.s /\ c.how = r.how
      BY <2>2, <3>1, <3>3, VisitsTrans
    <3>5. Repaired(r.s)
      BY <2>2, <2>3, <3>2, <3>3, MovesRepaired DEF Visits
    <3> QED BY <2>2, <3>4, <3>5
  <2> QED BY <2>1, <2>2, <2>3
<1> HIDE DEF E5
<1>10. PICK c \in E5 : \/ c.how # "ok" /\ o = c
                       \/ c.how = "ok" /\ o = Sum(c, Ok(RefreshFull(c.s)))
  BY <1>1 DEF Then, Sum
<1>11. /\ fresh # {} /\ Visits(n, c, J, D) /\ (c.how = "ok" => Repaired(c.s))
  BY <1>9
<1>12. /\ n \in Stores /\ n.open[n.cur] = NoDir /\ ~n.has /\ n.cur \in Periods
       /\ DiskOf(n) = DiskOf(s) /\ Room(n) = Room(s)
  BY <1>4, <1>11, StoreFields
<1>13. Visits(n, o, J, D) /\ (o.how = "ok" => Repaired(o.s))
  <2>1. CASE c.how = "ok" /\ o = Sum(c, Ok(RefreshFull(c.s)))
    <3>1. PICK t : t = RefreshFull(c.s)
      OBVIOUS
    <3>2. c.s \in Stores /\ Sound(c.s, J, D) /\ Repaired(c.s)
      BY <1>11, <2>1 DEF Visits, Moves
    <3>3. t \in Stores /\ t.has = c.s.has /\ Moves(c.s, t, J, D)
      BY <3>1, <3>2, RefreshIs, RefreshMoves
    <3>4. Ok(t) \in Outcome /\ Ok(t).s = t /\ Ok(t).how = "ok"
      BY <3>3, OutcomeIs
    <3>5. Visits(c.s, Ok(t), J, D)
      BY <3>3, <3>4 DEF Visits
    <3>6. Visits(n, o, J, D) /\ o.s = t
      BY <1>11, <1>12, <2>1, <3>1, <3>4, <3>5, VisitsTrans
    <3> QED BY <3>2, <3>3, <3>6, MovesRepaired
  <2> QED BY <1>10, <1>11, <2>1
<1>14. Lets(s, o.s, J, D) /\ Room(o.s) <= Room(s)
  BY <1>12, <1>13 DEF Visits, Moves, Lets
<1>15. o.s \in Stores /\ Sound(o.s, J, D) /\ o.s.open[o.s.cur] = NoDir /\ ~o.s.has
  BY <1>12, <1>13 DEF Visits, Moves
<1> QED BY <1>13, <1>14, <1>15 DEF Visits, Steady, Based

----------------------------------------------------------------------------
(* The host.                                                                *)

(* A sound store stays sound as journals store more and the owner discards  *)
(* more.                                                                    *)
LEMMA MoreGone ==
  ASSUME NEW s, NEW J, NEW D, NEW K, NEW E, Sound(s, J, D), J \subseteq K, D \subseteq E
  PROVE  Sound(s, K, E)
<1>1. MarksHold(s, K, E)
  BY DEF Sound, MarksHold
<1>2. Told(s, K, E)
  BY DEF Sound, Told
<1>3. Copied(s, K, E)
  <2>1. Copied(s, J, D)
    BY DEF Sound
  <2> QED BY <2>1 DEF Copied
<1> QED BY <1>1, <1>2, <1>3 DEF Sound

(* What lies on the disk is within Room: a staged copy is one that Room     *)
(* counts.                                                                  *)
LEMMA BytesInRoom ==
  ASSUME NEW s \in Stores, NEW J, NEW D, Sound(s, J, D)
  PROVE  BytesUsed(s) <= Room(s)
<1> DEFINE St == OpenFiles(s, s.staged)
           Rc == WithReceipt(s)
<1>1. /\ IsFiniteSet(OpenFiles(s, Periods)) /\ IsFiniteSet(ToCopy(s)) /\ IsFiniteSet(Finalized(s))
      /\ IsFiniteSet(Listed(s)) /\ IsFiniteSet(Dirs(s))
  BY RoomSets
<1>2. St \subseteq ToCopy(s)
  <2> SUFFICES ASSUME NEW p \in s.staged, NEW f \in s.open[p].files PROVE <<p, f>> \in ToCopy(s)
    BY DEF OpenFiles
  <2>1. p \in Periods /\ s.out[p] = NoEntry
    BY StoreFields DEF Sound, StagedPend
  <2>2. f[2] \in OpenOf(s, p)
    BY DEF OpenOf, BatchesOf
  <2>3. s.rcpt[f[2]].state \notin Ended
    BY <2>2 DEF Sound, StagedPend
  <2> QED BY <2>1, <2>3 DEF ToCopy
<1>3. Rc \subseteq Listed(s)
  BY DEF WithReceipt, Listed
<1> HIDE DEF St, Rc
<1>4. /\ Cardinality(St) <= Cardinality(ToCopy(s)) /\ Cardinality(Rc) <= Cardinality(Listed(s))
      /\ IsFiniteSet(St) /\ IsFiniteSet(Rc)
  BY <1>1, <1>2, <1>3, FS_Subset
<1>5. /\ Cardinality(St) \in Nat /\ Cardinality(Rc) \in Nat
      /\ Cardinality(OpenFiles(s, Periods)) \in Nat /\ Cardinality(ToCopy(s)) \in Nat
      /\ Cardinality(Finalized(s)) \in Nat /\ Cardinality(Listed(s)) \in Nat /\ Cardinality(Dirs(s)) \in Nat
  BY <1>1, <1>4, FS_CardinalityType
<1>6. BytesUsed(s) = Cardinality(OpenFiles(s, Periods)) + (Cardinality(Finalized(s)) + Cardinality(St))
                       + Cardinality(Rc) + Cardinality(Dirs(s))
  BY DEF BytesUsed, OpenBytes, OutboxBytes, Receipts, Dirs, St, Rc
<1>7. Room(s) = Cardinality(OpenFiles(s, Periods)) + Cardinality(ToCopy(s)) + Cardinality(Finalized(s))
                  + Cardinality(Listed(s)) + Cardinality(Dirs(s))
  BY DEF Room
<1> QED BY <1>4, <1>5, <1>6, <1>7

(* The store that the next call finds, whether or not the process lived.    *)
LEMMA After ==
  ASSUME NEW o \in Outcome, NEW t, NEW J, NEW D, Sound(o.s, J, D), Room(o.s) <= SpoolMax,
         o.how # "crashed" => Based(o.s),
         \/ o.how = "crashed" /\ t = Forgotten(o.s) /\ t.cur \in Periods
         \/ o.how # "crashed" /\ t = o.s
  PROVE  /\ t \in Stores /\ Sound(t, J, D) /\ Based(t) /\ Room(t) <= SpoolMax
         /\ DiskOf(t) = DiskOf(o.s) /\ t.out = o.s.out
         /\ o.how = "crashed" => ~t.has
<1>1. o.s \in Stores
  BY OutcomeStore
<1>2. CASE o.how = "crashed" /\ t = Forgotten(o.s) /\ t.cur \in Periods
  <2>1. t = [NewOpen(o.s) EXCEPT !.full = FALSE]
    BY <1>2 DEF Forgotten
  <2>2. NewOpen(o.s).cur \in Periods
    <3>1. PICK w : w = IF Used(o.s, o.s.cur) THEN o.s.cur + 1 ELSE o.s.cur
      OBVIOUS
    <3>2. NewOpen(o.s) = [o.s EXCEPT !.cur = w, !.has = FALSE, !.bytes = 0, !.ctx = FALSE, !.due = FALSE]
      BY <3>1 DEF NewOpen
    <3>3. t.cur = w /\ NewOpen(o.s).cur = w
      BY <1>1, <2>1, <3>2 DEF Stores
    <3> QED BY <1>2, <3>3
  <2> QED BY <1>1, <1>2, <2>1, <2>2, ForgottenIs
<1>3. CASE o.how # "crashed" /\ t = o.s
  BY <1>1, <1>3
<1> QED BY <1>2, <1>3

(* Restated on the store alone.                                             *)
LEMMA DiskIsOnDisk == OnDisk = DiskOf(store)
BY DEF OnDisk, InOpen, DiskOf, OpenOf, PagesOf

(* The inductive invariant.                                                 *)
BrowserInv == TypeOK /\ HostInv /\ AcceptedKept

(* What a step does besides keeping it: it is one of the custody's, and     *)
(* nothing discarded reaches a journal.                                     *)
Keeps ==
  /\ \/ OnDisk \subseteq OnDisk' /\ journal' = journal /\ dropped' = dropped
     \/ /\ journal \subseteq journal' /\ dropped \subseteq dropped'
        /\ journal' \cup dropped' \subseteq journal \cup dropped \cup OnDisk
        /\ OnDisk' \subseteq OnDisk /\ OnDisk \subseteq OnDisk' \cup journal' \cup dropped'
  /\ \A b \in Batches : store.rcpt[b].state = "Discarded" /\ b \in journal' => b \in journal

(* The empty store satisfies the invariant.                                 *)
LEMMA BrowserInit == Init => BrowserInv
<1> SUFFICES ASSUME Init PROVE BrowserInv
  OBVIOUS
<1>0. /\ 1 \in Periods /\ 0 \in 0..FileMax /\ 0 \in 0..MaxFaults /\ SpoolMax \in Nat
  BY BrowserAssumption, HostAssumption DEF Periods
<1>1. store = EmptyStore /\ journal = {} /\ dropped = {} /\ acked = {} /\ ~up /\ ~failed /\ sending = 0
  BY DEF Init
<1>2. /\ store.open = [p \in Periods |-> NoDir] /\ store.out = [p \in Periods |-> NoEntry] /\ store.staged = {}
      /\ store.rcpt = [b \in Batches |-> NoReceipt] /\ store.cur = 1 /\ ~store.has
  BY <1>1 DEF EmptyStore
<1>3. TypeOK
  <2>1. NoDir \in [meta : BOOLEAN, files : Files]
    BY DEF NoDir, Files
  <2>2. NoEntry \in [meta : BOOLEAN, pages : Files, mark : {"none"} \cup Ended]
    BY DEF NoEntry, Files
  <2>3. EmptyStore \in Stores
    BY <1>0, <2>1, <2>2 DEF EmptyStore, Stores
  <2> QED BY <1>0, <1>1, <2>3 DEF TypeOK, Init
<1>4. \A p \in Periods : store.open[p] = NoDir /\ store.out[p] = NoEntry /\ OpenOf(store, p) = {} /\ PagesOf(store, p) = {}
  BY <1>2 DEF OpenOf, PagesOf, BatchesOf, NoDir, NoEntry
<1>5. \A b \in Batches : store.rcpt[b] = NoReceipt /\ store.rcpt[b].state = "none"
  BY <1>2 DEF NoReceipt
<1>6. Sound(store, journal, dropped)
  <2>1. Shape(store) /\ Fresh(store)
    BY <1>0, <1>2, <1>4 DEF Shape, Fresh, NoDir, NoEntry
  <2>2. MarksHold(store, journal, dropped) /\ Copied(store, journal, dropped) /\ PagesOwned(store)
    BY <1>4 DEF MarksHold, Copied, PagesOwned
  <2>3. Told(store, journal, dropped)
    BY <1>5 DEF Told
  <2>4. Placed(store)
    <3>1. \A b \in Batches, p \in Periods : store.rcpt[b] # [period |-> p, state |-> "Pending"]
      BY <1>5
    <3> QED BY <3>1 DEF Placed
  <2>5. OpenOwned(store) /\ StagedPend(store)
    BY <1>2, <1>4 DEF OpenOwned, StagedPend
  <2> QED BY <2>1, <2>2, <2>3, <2>4, <2>5 DEF Sound
<1>7. Based(store)
  BY <1>0, <1>2, <1>4 DEF Based
<1>8. Room(store) <= SpoolMax
  <2>1. OpenFiles(store, Periods) = {}
    BY <1>4 DEF OpenFiles, NoDir
  <2>2. ToCopy(store) = {}
    BY <1>4 DEF ToCopy, NoDir
  <2>3. Finalized(store) = {}
    BY <1>4 DEF Finalized, NoEntry
  <2>4. Listed(store) = {}
    BY <1>4, <1>5 DEF Listed
  <2>5. Dirs(store) = {}
    BY <1>2, <1>4 DEF Dirs, InOpenDir, InOutbox
  <2> QED BY <1>0, <2>1, <2>2, <2>3, <2>4, <2>5, FS_EmptySet DEF Room
<1> QED BY <1>1, <1>2, <1>3, <1>6, <1>7, <1>8 DEF BrowserInv, HostInv, AcceptedKept

(* The invariant after a step, part by part.                                *)
LEMMA Assemble ==
  ASSUME store' \in Stores, Sound(store', journal', dropped'), Based(store'), Room(store') <= SpoolMax,
         up' \in BOOLEAN, failed' \in BOOLEAN, quiescing' \in BOOLEAN,
         asked' \subseteq Batches, journal' \subseteq Batches, acked' \subseteq Batches, dropped' \subseteq Batches,
         acked' \subseteq DiskOf(store') \cup journal' \cup dropped',
         todo' \subseteq Periods, sending' \in {0} \cup Periods, faults' \in 0..MaxFaults,
         up' /\ ~failed' => Repaired(store'), ~up' \/ failed' => ~store'.has, failed' => up',
         sending' # 0 => up' /\ ~failed' /\ store'.out[sending'].meta /\ store'.out[sending'].mark = "none"
  PROVE  BrowserInv'
<1>1. TypeOK'
  BY DEF TypeOK
<1>2. HostInv'
  BY DEF HostInv
<1>3. OnDisk' = DiskOf(store')
  BY DEF OnDisk, InOpen, DiskOf, OpenOf, PagesOf
<1>4. AcceptedKept'
  BY <1>3 DEF AcceptedKept
<1> QED BY <1>1, <1>2, <1>4 DEF BrowserInv

(* The invariant, part by part.                                             *)
LEMMA InvIs ==
  ASSUME BrowserInv
  PROVE  /\ store \in Stores /\ Sound(store, journal, dropped) /\ Based(store) /\ Room(store) <= SpoolMax
         /\ up \in BOOLEAN /\ failed \in BOOLEAN /\ quiescing \in BOOLEAN
         /\ asked \subseteq Batches /\ journal \subseteq Batches /\ acked \subseteq Batches /\ dropped \subseteq Batches
         /\ acked \subseteq DiskOf(store) \cup journal \cup dropped
         /\ todo \subseteq Periods /\ sending \in {0} \cup Periods /\ faults \in 0..MaxFaults
         /\ (up /\ ~failed => Repaired(store)) /\ (~up \/ failed => ~store.has) /\ (failed => up)
         /\ sending # 0 => up /\ ~failed /\ store.out[sending].meta /\ store.out[sending].mark = "none"
<1>1. TypeOK /\ HostInv /\ AcceptedKept
  BY DEF BrowserInv
<1>2. store \in Stores /\ up \in BOOLEAN /\ failed \in BOOLEAN /\ quiescing \in BOOLEAN
  BY <1>1 DEF TypeOK
<1>3. asked \subseteq Batches /\ journal \subseteq Batches /\ acked \subseteq Batches /\ dropped \subseteq Batches
  BY <1>1 DEF TypeOK
<1>4. todo \subseteq Periods /\ sending \in {0} \cup Periods /\ faults \in 0..MaxFaults
  BY <1>1 DEF TypeOK
<1>5. acked \subseteq DiskOf(store) \cup journal \cup dropped
  BY <1>1, DiskIsOnDisk DEF AcceptedKept
<1> QED BY <1>1, <1>2, <1>3, <1>4, <1>5 DEF HostInv

(* A call of the store keeps the invariant, however it ends.                *)
LEMMA CallKeeps ==
  ASSUME BrowserInv, up, NEW o \in Outcome, Costs(o.cost),
         Sound(o.s, journal', dropped'), Room(o.s) <= SpoolMax,
         journal \subseteq journal', dropped \subseteq dropped', journal' \cup dropped' \subseteq Batches,
         DiskOf(store) \subseteq DiskOf(o.s) \cup journal' \cup dropped',
         acked' \subseteq acked \cup DiskOf(o.s) \cup journal' \cup dropped', acked' \subseteq Batches,
         o.how # "crashed" => /\ Based(o.s)
                              /\ IF failed THEN ~o.s.has ELSE Repaired(o.s)
                              /\ asked' \subseteq Batches /\ quiescing' \in BOOLEAN /\ todo' \subseteq Periods
                              /\ (sending' = 0 \/ (sending' = sending /\ o.s.out[sending] = store.out[sending])),
         \/ o.how = "crashed" /\ store' = Forgotten(o.s) /\ IdLeft /\ Down
         \/ o.how # "crashed" /\ store' = o.s /\ UNCHANGED <<up, failed>>
  PROVE  BrowserInv' /\ OnDisk' = DiskOf(o.s) /\ OnDisk = DiskOf(store)
<1>i. /\ store \in Stores /\ up \in BOOLEAN /\ failed \in BOOLEAN
      /\ acked \subseteq DiskOf(store) \cup journal \cup dropped
      /\ sending \in {0} \cup Periods /\ faults \in 0..MaxFaults
      /\ (failed => up)
      /\ sending # 0 => up /\ ~failed /\ store.out[sending].meta /\ store.out[sending].mark = "none"
  BY InvIs
<1>1. /\ store' \in Stores /\ Sound(store', journal', dropped') /\ Based(store') /\ Room(store') <= SpoolMax
      /\ DiskOf(store') = DiskOf(o.s) /\ store'.out = o.s.out
      /\ o.how = "crashed" => ~store'.has
  BY After DEF IdLeft
<1>2. faults' \in 0..MaxFaults
  <2>1. o.cost \in Nat
    BY DEF Outcome
  <2> QED BY <1>i, <2>1, HostAssumption DEF Costs
<1>3. acked' \subseteq DiskOf(store') \cup journal' \cup dropped'
  BY <1>i, <1>1
<1>4. OnDisk' = DiskOf(store')
  BY DEF OnDisk, InOpen, DiskOf, OpenOf, PagesOf
<1>5. CASE o.how = "crashed"
  <2>1. /\ up' = FALSE /\ failed' = FALSE /\ asked' = {} /\ quiescing' = FALSE
        /\ todo' = {} /\ sending' = 0
    BY <1>5 DEF Down
  <2>2. BrowserInv'
    BY <1>1, <1>2, <1>3, <1>5, <2>1, Assemble
  <2> QED BY <1>1, <1>4, <2>2, DiskIsOnDisk
<1>6. CASE o.how # "crashed"
  <2>1. /\ up' = up /\ failed' = failed /\ asked' \subseteq Batches /\ quiescing' \in BOOLEAN /\ todo' \subseteq Periods
        /\ (sending' = 0 \/ (sending' = sending /\ store'.out[sending] = store.out[sending]))
        /\ store' = o.s
    BY <1>1, <1>6
  <2>2. up' /\ ~failed' => Repaired(store')
    BY <1>6, <2>1
  <2>3. ~up' \/ failed' => ~store'.has
    BY <1>6, <2>1
  <2>4. sending' # 0 => up' /\ ~failed' /\ store'.out[sending'].meta /\ store'.out[sending'].mark = "none"
    BY <1>i, <2>1
  <2>5. BrowserInv'
    BY <1>i, <1>1, <1>2, <1>3, <2>1, <2>2, <2>3, <2>4, Assemble
  <2> QED BY <1>1, <1>4, <2>5, DiskIsOnDisk
<1> QED BY <1>5, <1>6

(* A step that leaves the store and what has become of the batches.         *)
LEMMA QuietKeeps ==
  ASSUME BrowserInv, UNCHANGED <<store, up, failed, journal, acked, dropped>>,
         asked' \subseteq Batches, quiescing' \in BOOLEAN, todo' \subseteq Periods, faults' \in 0..MaxFaults,
         sending' \in {0} \cup Periods,
         sending' # 0 => up /\ ~failed /\ store.out[sending'].meta /\ store.out[sending'].mark = "none"
  PROVE  BrowserInv' /\ Keeps
<1>u. store' = store /\ up' = up /\ failed' = failed /\ journal' = journal /\ acked' = acked /\ dropped' = dropped
  OBVIOUS
<1>1. BrowserInv'
  BY <1>u, InvIs, Assemble
<1>2. OnDisk' = OnDisk
  BY <1>u DEF OnDisk, InOpen
<1> QED BY <1>u, <1>1, <1>2 DEF Keeps

----------------------------------------------------------------------------
(* One lemma per action.                                                    *)

(* The steps of the hub and of the delivery pass that do not call the       *)
(* store.                                                                   *)
LEMMA QuietSteps ==
  ASSUME BrowserInv, Resume \/ StartPass \/ TakeNext \/ \E b \in Batches : Ask(b) \/ OfferFailed(b)
  PROVE  BrowserInv' /\ Keeps
<1>i. /\ store \in Stores /\ Sound(store, journal, dropped) /\ asked \subseteq Batches /\ quiescing \in BOOLEAN
      /\ todo \subseteq Periods /\ sending \in {0} \cup Periods /\ faults \in 0..MaxFaults
      /\ sending # 0 => up /\ ~failed /\ store.out[sending].meta /\ store.out[sending].mark = "none"
  BY InvIs
<1>1. CASE Resume
  BY <1>i, <1>1, QuietKeeps DEF Resume
<1>2. CASE StartPass
  <2>1. Outbox(store) \subseteq Periods
    BY DEF Outbox, AllOutbox
  <2>2. /\ UNCHANGED <<store, up, failed, journal, acked, dropped>> /\ asked' = asked /\ quiescing' = quiescing
        /\ faults' = faults /\ sending' = sending /\ todo' = Outbox(store)
    BY <1>2 DEF StartPass
  <2> QED BY <1>i, <2>1, <2>2, QuietKeeps
<1>3. CASE TakeNext
  <2>1. PICK p \in todo : todo' = todo \ {p} /\ sending' = IF Reservable(p) THEN p ELSE 0
    BY <1>3 DEF TakeNext
  <2>2. /\ UNCHANGED <<store, up, failed, journal, acked, dropped>> /\ asked' = asked /\ quiescing' = quiescing
        /\ faults' = faults /\ up
    BY <1>3 DEF TakeNext
  <2>3. Reservable(p) => ~failed /\ store.out[p].meta /\ store.out[p].mark = "none"
    <3>1. p \in Periods /\ store.out[p].meta \in BOOLEAN
      BY <1>i, StoreFields
    <3> QED BY <1>i, <3>1 DEF Reservable, Sound, Shape
  <2>4. todo' \subseteq Periods /\ sending' \in {0} \cup Periods
    BY <1>i, <2>1
  <2>5. sending' # 0 => up /\ ~failed /\ store.out[sending'].meta /\ store.out[sending'].mark = "none"
    BY <2>1, <2>2, <2>3
  <2>6. asked' \subseteq Batches /\ quiescing' \in BOOLEAN /\ faults' \in 0..MaxFaults
    BY <1>i, <2>2
  <2> QED BY <2>2, <2>4, <2>5, <2>6, QuietKeeps
<1>4. CASE \E b \in Batches : Ask(b) \/ OfferFailed(b)
  <2>1. PICK b \in Batches : Ask(b) \/ OfferFailed(b)
    BY <1>4
  <2>2. /\ UNCHANGED <<store, up, failed, journal, acked, dropped>> /\ quiescing' = quiescing
        /\ faults' = faults /\ sending' = sending /\ todo' = todo /\ (asked' = asked \cup {b} \/ asked' = asked \ {b})
    BY <2>1 DEF Ask, OfferFailed
  <2>3. asked' \subseteq Batches
    BY <1>i, <2>2
  <2> QED BY <1>i, <2>2, <2>3, QuietKeeps
<1> QED BY <1>1, <1>2, <1>3, <1>4

(* The clock.                                                               *)
LEMMA TimeKeeps ==
  ASSUME BrowserInv, TimePasses
  PROVE  BrowserInv' /\ Keeps
<1>i. /\ store \in Stores /\ Sound(store, journal, dropped) /\ Based(store) /\ Room(store) <= SpoolMax
      /\ acked \subseteq DiskOf(store) \cup journal \cup dropped
      /\ (up /\ ~failed => Repaired(store))
  BY InvIs
<1>1. /\ up /\ ~failed /\ store' = [store EXCEPT !.due = TRUE] /\ asked' = asked /\ quiescing' = quiescing
      /\ todo' = todo /\ sending' = sending /\ up' = up /\ failed' = failed /\ journal' = journal
      /\ acked' = acked /\ dropped' = dropped /\ faults' = faults
  BY DEF TimePasses, Stays
<1>2. /\ store' \in Stores /\ store'.open = store.open /\ store'.out = store.out /\ store'.rcpt = store.rcpt
      /\ store'.staged = store.staged /\ store'.cur = store.cur /\ store'.has = store.has
  BY <1>i, <1>1 DEF Stores
<1>3. Fresh(store') /\ Based(store')
  BY <1>i, <1>2 DEF Sound, Fresh, Based
<1>4. /\ Sound(store', journal, dropped) /\ DiskOf(store') = DiskOf(store) /\ Room(store') = Room(store)
      /\ Repaired(store')
  BY <1>i, <1>1, <1>2, <1>3, SameDisk
<1>5. acked' \subseteq DiskOf(store') \cup journal' \cup dropped'
  BY <1>i, <1>1, <1>4
<1>6. Sound(store', journal', dropped') /\ Room(store') <= SpoolMax
  BY <1>i, <1>1, <1>4
<1>7. sending' # 0 => up' /\ ~failed' /\ store'.out[sending'].meta /\ store'.out[sending'].mark = "none"
  BY <1>1, <1>2, InvIs
<1>8. /\ asked' \subseteq Batches /\ journal' \subseteq Batches /\ acked' \subseteq Batches /\ dropped' \subseteq Batches
      /\ todo' \subseteq Periods /\ sending' \in {0} \cup Periods /\ faults' \in 0..MaxFaults
      /\ up' \in BOOLEAN /\ failed' \in BOOLEAN /\ quiescing' \in BOOLEAN /\ up' /\ ~failed'
  BY <1>1, InvIs
<1>9. BrowserInv'
  BY <1>2, <1>3, <1>4, <1>5, <1>6, <1>7, <1>8, Assemble
<1>10. OnDisk' = OnDisk
  BY <1>2 DEF OnDisk, InOpen
<1> QED BY <1>1, <1>9, <1>10 DEF Keeps

(* The process ends; its memory goes.                                       *)
LEMMA StopKeeps ==
  ASSUME BrowserInv, Stop
  PROVE  BrowserInv' /\ Keeps
<1>i. /\ store \in Stores /\ Sound(store, journal, dropped) /\ Room(store) <= SpoolMax
      /\ acked \subseteq DiskOf(store) \cup journal \cup dropped
      /\ journal \subseteq Batches /\ acked \subseteq Batches /\ dropped \subseteq Batches /\ faults \in 0..MaxFaults
  BY InvIs
<1>1. /\ store' = Forgotten(store) /\ store'.cur \in Periods /\ journal' = journal
      /\ acked' = acked /\ dropped' = dropped /\ faults' = faults
      /\ up' = FALSE /\ failed' = FALSE /\ asked' = {} /\ quiescing' = FALSE /\ todo' = {} /\ sending' = 0
  BY DEF Stop, IdLeft, Down
<1>2. Crashes(store) \in Outcome /\ Crashes(store).s = store /\ Crashes(store).how = "crashed"
  BY <1>i, OutcomeIs
<1>3. PICK o \in Outcome : o.s = store /\ o.how = "crashed"
  BY <1>2
<1>4. /\ store' \in Stores /\ Sound(store', journal, dropped) /\ Based(store') /\ Room(store') <= SpoolMax
      /\ DiskOf(store') = DiskOf(store) /\ ~store'.has /\ store'.out = store.out
  BY <1>i, <1>1, <1>3, After
<1>5. acked' \subseteq DiskOf(store') \cup journal' \cup dropped' /\ Sound(store', journal', dropped')
  BY <1>i, <1>1, <1>4
<1>6. BrowserInv'
  BY <1>i, <1>1, <1>4, <1>5, Assemble
<1>7. OnDisk' = DiskOf(store') /\ OnDisk = DiskOf(store)
  BY DEF OnDisk, InOpen, DiskOf, OpenOf, PagesOf
<1> QED BY <1>1, <1>4, <1>6, <1>7 DEF Keeps

(* The journal may have stored the entry without saying so.                 *)
LEMMA NotStoredKeeps ==
  ASSUME BrowserInv, NotStored
  PROVE  BrowserInv' /\ Keeps
<1>i. /\ store \in Stores /\ Sound(store, journal, dropped) /\ Room(store) <= SpoolMax
      /\ acked \subseteq DiskOf(store) \cup journal \cup dropped
      /\ journal \subseteq Batches /\ acked \subseteq Batches /\ dropped \subseteq Batches /\ faults \in 0..MaxFaults
      /\ sending \in {0} \cup Periods
      /\ sending # 0 => store.out[sending].mark = "none"
  BY InvIs
<1>1. /\ store' = store /\ up' = up /\ failed' = failed /\ asked' = asked /\ quiescing' = quiescing
      /\ acked' = acked /\ dropped' = dropped /\ sending' = 0 /\ todo' = {} /\ sending # 0
      /\ journal' \in {journal, journal \cup PagesOf(store, sending)} /\ Costs(1)
  BY DEF NotStored, PagesOf
<1>2. sending \in Periods /\ PagesOf(store, sending) \subseteq Batches
  BY <1>i, <1>1, OpenInBatches
<1>3. PagesOf(store, sending) \subseteq OnDisk
  BY <1>2, DiskIsOnDisk, DiskIs
<1>4. \A b \in PagesOf(store, sending) : store.rcpt[b].state # "Discarded"
  BY <1>i, <1>1, <1>2 DEF Sound, PagesOwned
<1>5. journal \subseteq journal' /\ journal' \subseteq Batches
  BY <1>i, <1>1, <1>2
<1>6. Sound(store, journal', dropped')
  BY <1>i, <1>1, <1>5, MoreGone
<1>7. faults' \in 0..MaxFaults
  BY <1>i, <1>1, HostAssumption DEF Costs
<1>8. acked' \subseteq DiskOf(store') \cup journal' \cup dropped'
  BY <1>i, <1>1, <1>5
<1>9. /\ up' \in BOOLEAN /\ failed' \in BOOLEAN /\ quiescing' \in BOOLEAN /\ asked' \subseteq Batches
      /\ (up' /\ ~failed' => Repaired(store')) /\ (~up' \/ failed' => ~store'.has) /\ (failed' => up')
      /\ store' \in Stores /\ Sound(store', journal', dropped') /\ Based(store') /\ Room(store') <= SpoolMax
      /\ acked' \subseteq Batches /\ dropped' \subseteq Batches
  BY <1>1, <1>6, InvIs
<1>10. BrowserInv'
  BY <1>1, <1>5, <1>7, <1>8, <1>9, Assemble
<1>11. OnDisk' = OnDisk
  BY <1>1 DEF OnDisk, InOpen
<1>12. journal' \cup dropped' \subseteq journal \cup dropped \cup OnDisk
  BY <1>1, <1>3
<1>13. \A b \in Batches : store.rcpt[b].state = "Discarded" /\ b \in journal' => b \in journal
  BY <1>1, <1>4
<1> QED BY <1>1, <1>5, <1>10, <1>11, <1>12, <1>13 DEF Keeps

(* A launch that loads, fails to load or is killed while loading.           *)
LEMMA LaunchKeeps ==
  ASSUME BrowserInv, Launch, "rmdir" \notin Failing
  PROVE  BrowserInv' /\ Keeps
<1>i. /\ store \in Stores /\ Sound(store, journal, dropped) /\ Room(store) <= SpoolMax
      /\ acked \subseteq DiskOf(store) \cup journal \cup dropped
      /\ journal \subseteq Batches /\ acked \subseteq Batches /\ dropped \subseteq Batches /\ faults \in 0..MaxFaults
      /\ asked \subseteq Batches /\ quiescing \in BOOLEAN /\ todo \subseteq Periods /\ sending \in {0} \cup Periods
      /\ sending # 0 => up
  BY InvIs
<1>1. PICK o \in Loads(store) :
        /\ Costs(o.cost) /\ up' = (o.how # "crashed") /\ failed' = (o.how = "failed")
        /\ store' = IF o.how = "ok" THEN o.s ELSE Forgotten(o.s)
        /\ store'.cur \in Periods
  BY DEF Launch, IdLeft
<1>2. /\ ~up /\ journal' = journal /\ acked' = acked /\ dropped' = dropped
      /\ asked' = asked /\ quiescing' = quiescing /\ todo' = todo /\ sending' = sending
  BY DEF Launch, Stays
<1>3. /\ o \in Outcome /\ o.how \in {"ok", "crashed", "failed"}
      /\ Sound(o.s, journal, dropped) /\ Lets(store, o.s, journal, dropped) /\ Room(o.s) <= Room(store)
      /\ o.how = "ok" => Steady(o.s, journal, dropped) /\ ~o.s.has
  BY <1>i, <1>1, LoadsOut
<1>4. Room(o.s) <= SpoolMax /\ o.s \in Stores
  <2>1. o.s \in Stores
    BY <1>3, OutcomeStore
  <2>2. Room(o.s) \in Nat /\ Room(store) \in Nat /\ SpoolMax \in Nat
    BY <1>i, <2>1, RoomNat, BrowserAssumption
  <2> QED BY <1>i, <1>3, <2>1, <2>2
<1>5. /\ store' \in Stores /\ Sound(store', journal, dropped) /\ Based(store') /\ Room(store') <= SpoolMax
      /\ DiskOf(store') = DiskOf(o.s) /\ ~store'.has /\ (o.how = "ok" => Repaired(store'))
  <2>1. CASE o.how = "ok"
    BY <1>1, <1>3, <1>4, <2>1 DEF Steady
  <2>2. CASE o.how # "ok"
    <3>1. Crashes(o.s) \in Outcome /\ Crashes(o.s).s = o.s /\ Crashes(o.s).how = "crashed"
      BY <1>4, OutcomeIs
    <3>2. PICK c \in Outcome : c.s = o.s /\ c.how = "crashed"
      BY <3>1
    <3>3. store' = Forgotten(c.s) /\ store'.cur \in Periods /\ Sound(c.s, journal, dropped) /\ Room(c.s) <= SpoolMax
      BY <1>1, <1>3, <1>4, <2>2, <3>2
    <3>4. /\ store' \in Stores /\ Sound(store', journal, dropped) /\ Based(store') /\ Room(store') <= SpoolMax
          /\ DiskOf(store') = DiskOf(c.s) /\ ~store'.has
      BY <3>2, <3>3, After
    <3> QED BY <2>2, <3>2, <3>4
  <2> QED BY <2>1, <2>2
<1>6. acked' \subseteq DiskOf(store') \cup journal' \cup dropped' /\ Sound(store', journal', dropped')
  BY <1>i, <1>2, <1>3, <1>5 DEF Lets
<1>7. faults' \in 0..MaxFaults
  <2>1. o.cost \in Nat
    BY <1>3 DEF Outcome
  <2> QED BY <1>i, <1>1, <2>1, HostAssumption DEF Costs
<1>8. /\ up' \in BOOLEAN /\ failed' \in BOOLEAN /\ (up' /\ ~failed' => Repaired(store'))
      /\ (~up' \/ failed' => ~store'.has) /\ (failed' => up') /\ sending' = 0
  BY <1>i, <1>1, <1>2, <1>3, <1>5
<1>9. BrowserInv'
  BY <1>i, <1>2, <1>5, <1>6, <1>7, <1>8, Assemble
<1>10. OnDisk' = DiskOf(store') /\ OnDisk = DiskOf(store)
  BY DEF OnDisk, InOpen, DiskOf, OpenOf, PagesOf
<1>11. OnDisk' \subseteq OnDisk /\ OnDisk \subseteq OnDisk' \cup journal' \cup dropped'
  BY <1>2, <1>3, <1>5, <1>10 DEF Lets
<1> QED BY <1>2, <1>9, <1>11 DEF Keeps

(* What Ends says, without the formula it takes.                            *)
LEMMA TurnKeeps ==
  ASSUME BrowserInv, up, NEW o, Turns(store, o, journal, dropped) \/ (o \in Outcome /\ o.s = store /\ o.how # "crashed"),
         failed => o.s = store /\ o.how # "crashed",
         Costs(o.cost), UNCHANGED <<journal, acked, dropped>>,
         o.how # "crashed" => UNCHANGED <<asked, todo, sending>> /\ quiescing' \in BOOLEAN,
         \/ o.how = "crashed" /\ store' = Forgotten(o.s) /\ IdLeft /\ Down
         \/ o.how # "crashed" /\ store' = o.s /\ UNCHANGED <<up, failed>>
  PROVE  BrowserInv' /\ Keeps
<1>i. /\ store \in Stores /\ Sound(store, journal, dropped) /\ Based(store) /\ Room(store) <= SpoolMax
      /\ journal \subseteq Batches /\ acked \subseteq Batches /\ dropped \subseteq Batches
      /\ asked \subseteq Batches /\ todo \subseteq Periods /\ sending \in {0} \cup Periods
      /\ (up /\ ~failed => Repaired(store)) /\ (~up \/ failed => ~store.has)
      /\ sending # 0 => store.out[sending].meta
  BY InvIs
<1>u. journal' = journal /\ acked' = acked /\ dropped' = dropped
  OBVIOUS
<1>1. /\ o \in Outcome /\ Sound(o.s, journal, dropped) /\ DiskOf(o.s) = DiskOf(store) /\ Based(o.s)
      /\ IF failed THEN ~o.s.has ELSE Repaired(o.s)
      /\ \A q \in Periods : store.out[q] # NoEntry => o.s.out[q] = store.out[q]
  BY <1>i DEF Turns
<1>2. Room(o.s) <= SpoolMax
  <2>1. Room(o.s) \in Nat /\ Room(store) \in Nat /\ SpoolMax \in Nat
    BY <1>i, <1>1, OutcomeStore, RoomNat, BrowserAssumption
  <2>2. Room(o.s) <= Room(store)
    BY <2>1 DEF Turns
  <2> QED BY <1>i, <2>1, <2>2
<1>3. Sound(o.s, journal', dropped')
  BY <1>u, <1>1
<1>4. o.how # "crashed" => (sending' = 0 \/ (sending' = sending /\ o.s.out[sending] = store.out[sending]))
  <2>1. sending # 0 => store.out[sending] # NoEntry /\ sending \in Periods
    BY <1>i DEF NoEntry
  <2>2. sending # 0 => o.s.out[sending] = store.out[sending]
    BY <1>1, <2>1
  <2>3. o.how # "crashed" => sending' = sending
    OBVIOUS
  <2> QED BY <2>2, <2>3
<1>5. o.how # "crashed" => /\ Based(o.s)
                           /\ IF failed THEN ~o.s.has ELSE Repaired(o.s)
                           /\ asked' \subseteq Batches /\ quiescing' \in BOOLEAN /\ todo' \subseteq Periods
                           /\ (sending' = 0 \/ (sending' = sending /\ o.s.out[sending] = store.out[sending]))
  BY <1>i, <1>1, <1>4
<1>6. DiskOf(store) \subseteq DiskOf(o.s) \cup journal' \cup dropped'
  BY <1>1
<1>7. /\ acked' \subseteq acked \cup DiskOf(o.s) \cup journal' \cup dropped' /\ acked' \subseteq Batches
      /\ journal \subseteq journal' /\ dropped \subseteq dropped' /\ journal' \cup dropped' \subseteq Batches
  BY <1>i, <1>u
<1>8. BrowserInv' /\ OnDisk' = DiskOf(o.s) /\ OnDisk = DiskOf(store)
  BY <1>1, <1>2, <1>3, <1>5, <1>6, <1>7, CallKeeps
<1> QED BY <1>u, <1>1, <1>8 DEF Keeps

(* The clock's rotation.                                                    *)
LEMMA TickKeeps ==
  ASSUME BrowserInv, Tick, "rmdir" \notin Failing
  PROVE  BrowserInv' /\ Keeps
<1>1. up /\ ~failed /\ UNCHANGED <<journal, acked, dropped>>
  BY DEF Tick
<1>2. PICK o \in Rotate(store) :
        /\ Costs(o.cost)
        /\ o.how # "crashed" => UNCHANGED <<asked, todo, sending>> /\ quiescing' = quiescing
        /\ \/ o.how = "crashed" /\ store' = Forgotten(o.s) /\ IdLeft /\ Down
           \/ o.how # "crashed" /\ store' = o.s /\ UNCHANGED <<up, failed>>
  BY DEF Tick, Ends, Stays
<1>3. Steady(store, journal, dropped) /\ quiescing \in BOOLEAN
  BY <1>1, InvIs DEF Steady
<1>4. Turns(store, o, journal, dropped)
  BY <1>3, RotateOut
<1> QED BY <1>1, <1>2, <1>3, <1>4, TurnKeeps

(* finalize_now, on a store that has loaded or has not.                     *)
LEMMA QuiesceKeeps ==
  ASSUME BrowserInv, Quiesce, "rmdir" \notin Failing
  PROVE  BrowserInv' /\ Keeps
<1>1. up /\ UNCHANGED <<journal, acked, dropped>>
  BY DEF Quiesce
<1>2. PICK o \in IF store.has THEN Rotate(store) ELSE {Ok(store)} :
        /\ Costs(o.cost)
        /\ o.how # "crashed" => UNCHANGED <<asked, todo, sending>> /\ quiescing' = TRUE
        /\ \/ o.how = "crashed" /\ store' = Forgotten(o.s) /\ IdLeft /\ Down
           \/ o.how # "crashed" /\ store' = o.s /\ UNCHANGED <<up, failed>>
  BY DEF Quiesce, Ends
<1>3. store \in Stores /\ (failed => ~store.has) /\ (~failed => Steady(store, journal, dropped))
  BY <1>1, InvIs DEF Steady
<1>4. CASE store.has
  <2>1. ~failed /\ o \in Rotate(store)
    BY <1>2, <1>3, <1>4
  <2>2. Turns(store, o, journal, dropped)
    BY <1>3, <2>1, RotateOut
  <2> QED BY <1>1, <1>2, <2>1, <2>2, TurnKeeps
<1>5. CASE ~store.has
  <2>1. o = Ok(store)
    BY <1>2, <1>5
  <2>2. o \in Outcome /\ o.s = store /\ o.how = "ok"
    BY <1>3, <2>1, OutcomeIs
  <2> QED BY <1>1, <1>2, <2>2, TurnKeeps
<1> QED BY <1>4, <1>5

(* A batch is offered, and the process may be killed in its commit.         *)
LEMMA OfferKeeps ==
  ASSUME BrowserInv, NEW b \in Batches, Offer(b), "rmdir" \notin Failing, "receipt" \notin Failing
  PROVE  BrowserInv' /\ Keeps
<1>1. up /\ ~failed /\ journal' = journal /\ dropped' = dropped
  BY DEF Offer
<1>2. PICK o \in Offers(store, b) :
        /\ Costs(o.cost) /\ acked' = IF o.how = "ok" THEN acked \cup {b} ELSE acked
        /\ o.how # "crashed" => asked' = asked \ {b} /\ quiescing' = quiescing /\ todo' = todo /\ sending' = sending
        /\ \/ o.how = "crashed" /\ store' = Forgotten(o.s) /\ IdLeft /\ Down
           \/ o.how # "crashed" /\ store' = o.s /\ UNCHANGED <<up, failed>>
  BY DEF Offer, Ends
<1>i. /\ store \in Stores /\ Steady(store, journal, dropped) /\ Room(store) <= SpoolMax
      /\ journal \subseteq Batches /\ acked \subseteq Batches /\ dropped \subseteq Batches
      /\ asked \subseteq Batches /\ quiescing \in BOOLEAN /\ todo \subseteq Periods /\ sending \in {0} \cup Periods
      /\ sending # 0 => store.out[sending].meta
  BY <1>1, InvIs DEF Steady
<1>3. /\ Serves(store, o, b, journal, dropped)
      /\ o.how = "ok" => b \in DiskOf(o.s) \cup journal \cup dropped
  BY <1>i, OffersOut
<1>4. /\ o \in Outcome /\ Sound(o.s, journal', dropped') /\ Room(o.s) <= SpoolMax
      /\ DiskOf(store) \subseteq DiskOf(o.s) \cup journal' \cup dropped' /\ DiskOf(store) \subseteq DiskOf(o.s)
      /\ o.how # "crashed" => Based(o.s) /\ Repaired(o.s)
  BY <1>1, <1>3 DEF Serves
<1>5. sending # 0 => o.s.out[sending] = store.out[sending]
  <2>1. sending # 0 => store.out[sending] # NoEntry /\ sending \in Periods
    BY <1>i DEF NoEntry
  <2> QED BY <1>3, <2>1 DEF Serves
<1>6. o.how # "crashed" => /\ Based(o.s)
                           /\ IF failed THEN ~o.s.has ELSE Repaired(o.s)
                           /\ asked' \subseteq Batches /\ quiescing' \in BOOLEAN /\ todo' \subseteq Periods
                           /\ (sending' = 0 \/ (sending' = sending /\ o.s.out[sending] = store.out[sending]))
  BY <1>i, <1>1, <1>2, <1>4, <1>5
<1>7. /\ acked' \subseteq acked \cup DiskOf(o.s) \cup journal' \cup dropped' /\ acked' \subseteq Batches
      /\ journal \subseteq journal' /\ dropped \subseteq dropped' /\ journal' \cup dropped' \subseteq Batches
  BY <1>i, <1>1, <1>2, <1>3
<1>8. BrowserInv' /\ OnDisk' = DiskOf(o.s) /\ OnDisk = DiskOf(store)
  BY <1>1, <1>2, <1>4, <1>6, <1>7, CallKeeps
<1> QED BY <1>1, <1>4, <1>8 DEF Keeps

(* The owner discards what waits.                                           *)
LEMMA DiscardKeeps ==
  ASSUME BrowserInv, Discard, "rmdir" \notin Failing
  PROVE  BrowserInv' /\ Keeps
<1>1. up /\ ~failed /\ journal' = journal /\ acked' = acked /\ dropped' = dropped \cup Waiting(store, Reserved)
  BY DEF Discard
<1>2. PICK o \in Discards(store, Reserved) :
        /\ Costs(o.cost)
        /\ o.how # "crashed" => asked' = asked /\ quiescing' = quiescing /\ todo' = todo /\ sending' = sending
        /\ \/ o.how = "crashed" /\ store' = Forgotten(o.s) /\ IdLeft /\ Down
           \/ o.how # "crashed" /\ store' = o.s /\ UNCHANGED <<up, failed>>
  BY DEF Discard, Ends, Stays
<1>i. /\ store \in Stores /\ Sound(store, journal, dropped) /\ Based(store) /\ Repaired(store) /\ Room(store) <= SpoolMax
      /\ journal \subseteq Batches /\ acked \subseteq Batches /\ dropped \subseteq Batches
      /\ asked \subseteq Batches /\ quiescing \in BOOLEAN /\ todo \subseteq Periods /\ sending \in {0} \cup Periods
  BY <1>1, InvIs
<1>3. Waiting(store, Reserved) \subseteq DiskOf(store) /\ Waiting(store, Reserved) \subseteq Batches
  <2> SUFFICES ASSUME NEW b \in Waiting(store, Reserved) PROVE b \in DiskOf(store) /\ b \in Batches
    OBVIOUS
  <2>1. \/ \E p \in AllOutbox(store) \ Reserved : b \in PagesOf(store, p)
        \/ b \in OpenOf(store, store.cur)
    BY DEF Waiting, PagesOf, OpenOf
  <2>2. store.cur \in Periods /\ AllOutbox(store) \subseteq Periods
    BY <1>i, StoreFields DEF AllOutbox
  <2>3. PICK p \in Periods : b \in OpenOf(store, p) \/ b \in PagesOf(store, p)
    BY <2>1, <2>2
  <2> QED BY <1>i, <2>3, DiskIs, OpenInBatches
<1>4. dropped \subseteq dropped' /\ journal \subseteq journal' /\ Waiting(store, Reserved) \subseteq dropped'
  BY <1>1
<1>5. Steady(store, journal', dropped')
  BY <1>i, <1>4, MoreGone DEF Steady
<1>6. Reserved \in SUBSET Periods
  BY <1>i DEF Reserved
<1>7. Clears(store, o, Reserved, journal', dropped')
  BY <1>4, <1>5, <1>6, DiscardsOut
<1>8. o \in Outcome /\ Moves(store, o.s, journal', dropped') /\ (o.how # "crashed" => Based(o.s)) /\ Repaired(o.s)
  BY <1>i, <1>7, MovesRepaired DEF Clears
<1>9. Room(o.s) <= SpoolMax
  <2>1. Room(o.s) \in Nat /\ Room(store) \in Nat /\ SpoolMax \in Nat
    BY <1>i, <1>8, OutcomeStore, RoomNat, BrowserAssumption
  <2> QED BY <1>i, <1>8, <2>1 DEF Moves
<1>10. Sound(o.s, journal', dropped') /\ Lets(store, o.s, journal', dropped')
  BY <1>8 DEF Moves
<1>11. sending # 0 => o.s.out[sending] = store.out[sending]
  BY <1>7 DEF Clears, Reserved
<1>12. o.how # "crashed" => /\ Based(o.s)
                            /\ IF failed THEN ~o.s.has ELSE Repaired(o.s)
                            /\ asked' \subseteq Batches /\ quiescing' \in BOOLEAN /\ todo' \subseteq Periods
                            /\ (sending' = 0 \/ (sending' = sending /\ o.s.out[sending] = store.out[sending]))
  BY <1>i, <1>1, <1>2, <1>8, <1>11
<1>13. /\ acked' \subseteq acked \cup DiskOf(o.s) \cup journal' \cup dropped' /\ acked' \subseteq Batches
       /\ journal' \cup dropped' \subseteq Batches
       /\ DiskOf(store) \subseteq DiskOf(o.s) \cup journal' \cup dropped' /\ DiskOf(o.s) \subseteq DiskOf(store)
  BY <1>i, <1>1, <1>3, <1>10 DEF Lets
<1>14. BrowserInv' /\ OnDisk' = DiskOf(o.s) /\ OnDisk = DiskOf(store)
  BY <1>1, <1>2, <1>4, <1>8, <1>9, <1>10, <1>12, <1>13, CallKeeps
<1>15. journal' \cup dropped' \subseteq journal \cup dropped \cup DiskOf(store)
  BY <1>1, <1>3
<1> QED BY <1>1, <1>4, <1>13, <1>14, <1>15 DEF Keeps

(* The journal has stored the entry being sent.                             *)
LEMMA StoredKeeps ==
  ASSUME BrowserInv, Stored
  PROVE  BrowserInv' /\ Keeps
<1>1. /\ up /\ sending # 0 /\ acked' = acked /\ dropped' = dropped
      /\ journal' = journal \cup PagesOf(store, sending)
  BY DEF Stored, PagesOf
<1>2. PICK o \in Delivers(store, sending) :
        /\ Costs(o.cost)
        /\ o.how # "crashed" => asked' = asked /\ quiescing' = quiescing /\ (todo' = todo \/ todo' = {}) /\ sending' = 0
        /\ \/ o.how = "crashed" /\ store' = Forgotten(o.s) /\ IdLeft /\ Down
           \/ o.how # "crashed" /\ store' = o.s /\ UNCHANGED <<up, failed>>
  BY DEF Stored, Ends
<1>i. /\ store \in Stores /\ Sound(store, journal, dropped) /\ Based(store) /\ Room(store) <= SpoolMax
      /\ journal \subseteq Batches /\ acked \subseteq Batches /\ dropped \subseteq Batches
      /\ asked \subseteq Batches /\ quiescing \in BOOLEAN /\ todo \subseteq Periods /\ sending \in Periods
      /\ ~failed /\ Repaired(store) /\ store.out[sending].meta /\ store.out[sending].mark = "none"
  BY <1>1, InvIs
<1>3. PagesOf(store, sending) \subseteq DiskOf(store) /\ PagesOf(store, sending) \subseteq Batches
  BY <1>i, DiskIs, OpenInBatches
<1>4. /\ dropped \subseteq dropped' /\ journal \subseteq journal' /\ PagesOf(store, sending) \subseteq journal'
      /\ journal' \cup dropped' \subseteq Batches /\ journal' \cup dropped' \subseteq journal \cup dropped \cup DiskOf(store)
  BY <1>i, <1>1, <1>3
<1>5. Sound(store, journal', dropped')
  BY <1>i, <1>4, MoreGone
<1>6. EntryEnds(store, o, sending, journal', dropped')
  BY <1>i, <1>4, <1>5, DeliversOut
<1>7. /\ o \in Outcome /\ Moves(store, o.s, journal', dropped') /\ Repaired(o.s)
      /\ o.s.open = store.open /\ o.s.has = store.has
  BY <1>i, <1>6, MovesRepaired DEF EntryEnds
<1>8. Based(o.s)
  BY <1>i, <1>7 DEF Based, Moves
<1>9. Room(o.s) <= SpoolMax
  <2>1. Room(o.s) \in Nat /\ Room(store) \in Nat /\ SpoolMax \in Nat
    BY <1>i, <1>7, OutcomeStore, RoomNat, BrowserAssumption
  <2> QED BY <1>i, <1>7, <2>1 DEF Moves
<1>10. Sound(o.s, journal', dropped') /\ Lets(store, o.s, journal', dropped')
  BY <1>7 DEF Moves
<1>11. o.how # "crashed" => /\ Based(o.s)
                            /\ IF failed THEN ~o.s.has ELSE Repaired(o.s)
                            /\ asked' \subseteq Batches /\ quiescing' \in BOOLEAN /\ todo' \subseteq Periods
                            /\ (sending' = 0 \/ (sending' = sending /\ o.s.out[sending] = store.out[sending]))
  BY <1>i, <1>2, <1>7, <1>8
<1>12. /\ acked' \subseteq acked \cup DiskOf(o.s) \cup journal' \cup dropped' /\ acked' \subseteq Batches
       /\ DiskOf(store) \subseteq DiskOf(o.s) \cup journal' \cup dropped' /\ DiskOf(o.s) \subseteq DiskOf(store)
  BY <1>i, <1>1, <1>10 DEF Lets
<1>13. BrowserInv' /\ OnDisk' = DiskOf(o.s) /\ OnDisk = DiskOf(store)
  BY <1>1, <1>2, <1>4, <1>7, <1>9, <1>10, <1>11, <1>12, CallKeeps
<1>14. \A b \in PagesOf(store, sending) : store.rcpt[b].state # "Discarded"
  BY <1>i DEF Sound, PagesOwned
<1>15. \A b \in Batches : store.rcpt[b].state = "Discarded" /\ b \in journal' => b \in journal
  BY <1>1, <1>14
<1> QED BY <1>4, <1>12, <1>13, <1>15 DEF Keeps

(* Every step keeps the invariant and the custody.                          *)
LEMMA BrowserStep ==
  ASSUME BrowserInv, [Next]_vars, "rmdir" \notin Failing, "receipt" \notin Failing
  PROVE  BrowserInv' /\ Keeps
<1>1. CASE UNCHANGED vars
  <2>1. /\ UNCHANGED <<store, up, failed, journal, acked, dropped>> /\ asked' = asked /\ quiescing' = quiescing
        /\ faults' = faults /\ sending' = sending /\ todo' = todo
    BY <1>1 DEF vars
  <2> QED BY <2>1, InvIs, QuietKeeps
<1>2. CASE Launch
  BY <1>2, LaunchKeeps
<1>3. CASE Stop
  BY <1>3, StopKeeps
<1>4. CASE TimePasses
  BY <1>4, TimeKeeps
<1>5. CASE Tick
  BY <1>5, TickKeeps
<1>6. CASE Quiesce
  BY <1>6, QuiesceKeeps
<1>7. CASE Discard
  BY <1>7, DiscardKeeps
<1>8. ASSUME NEW b \in Batches, Offer(b) PROVE BrowserInv' /\ Keeps
  BY <1>8, OfferKeeps
<1>9. CASE Resume \/ StartPass \/ TakeNext \/ \E b \in Batches : Ask(b) \/ OfferFailed(b)
  BY <1>9, QuietSteps
<1>10. CASE Stored
  BY <1>10, StoredKeeps
<1>11. CASE NotStored
  BY <1>11, NotStoredKeeps
<1> QED BY <1>1, <1>2, <1>3, <1>4, <1>5, <1>6, <1>7, <1>8, <1>9, <1>10, <1>11 DEF Next

(* The inductive invariant holds in every behaviour, for any batches,       *)
(* bounds and number of faults: the directories stay consistent through a   *)
(* kill or a failure after any file operation of commit, finalize_dir,      *)
(* delivered, discard_waiting or load. A failing removal of an emptied      *)
(* directory and a failing receipt write are left out, as in the run.       *)
THEOREM BrowserInvariant ==
  ASSUME "rmdir" \notin Failing, "receipt" \notin Failing
  PROVE  Spec => []BrowserInv
<1>1. BrowserInv /\ [Next]_vars => BrowserInv'
  BY BrowserStep
<1> QED BY BrowserInit, <1>1, PTL DEF Spec

(* The hub and its store are well typed: in particular a period's bytes     *)
(* stay within the file bound and the current id within the ids.            *)
THEOREM BrowserTypeCorrect ==
  ASSUME "rmdir" \notin Failing, "receipt" \notin Failing
  PROVE  Spec => []TypeOK
<1>1. BrowserInv => TypeOK
  BY DEF BrowserInv
<1> QED BY BrowserInvariant, <1>1, PTL

(* What offer answered as accepted or duplicate is on disk until a journal  *)
(* has stored it or the owner has discarded it, wherever the process is     *)
(* killed.                                                                  *)
THEOREM AcceptedIsKept ==
  ASSUME "rmdir" \notin Failing, "receipt" \notin Failing
  PROVE  Spec => []AcceptedKept
<1>1. BrowserInv => AcceptedKept
  BY DEF BrowserInv
<1> QED BY BrowserInvariant, <1>1, PTL

(* The bytes on disk never exceed the bound that offer checks, staged       *)
(* copies, leftovers and receipts included: what offer keeps free is enough *)
(* for every later finalization and repair.                                 *)
THEOREM SpoolIsBounded ==
  ASSUME "rmdir" \notin Failing, "receipt" \notin Failing
  PROVE  Spec => []SpoolBounded
<1>1. BrowserInv => SpoolBounded
  <2> SUFFICES ASSUME BrowserInv PROVE SpoolBounded
    OBVIOUS
  <2>1. store \in Stores /\ Sound(store, journal, dropped) /\ Room(store) <= SpoolMax
    BY InvIs
  <2>2. BytesUsed(store) <= Room(store)
    BY <2>1, BytesInRoom
  <2>3. Room(store) \in Nat /\ SpoolMax \in Nat /\ BytesUsed(store) \in Int
    <3>1. /\ IsFiniteSet(OpenFiles(store, Periods)) /\ IsFiniteSet(ToCopy(store)) /\ IsFiniteSet(Finalized(store))
          /\ IsFiniteSet(Listed(store)) /\ IsFiniteSet(Dirs(store))
      BY <2>1, RoomSets
    <3>2. OpenFiles(store, store.staged) \subseteq OpenFiles(store, Periods) /\ WithReceipt(store) \subseteq Listed(store)
      BY <2>1, StoreFields DEF OpenFiles, WithReceipt, Listed
    <3>3. IsFiniteSet(OpenFiles(store, store.staged)) /\ IsFiniteSet(WithReceipt(store))
      BY <3>1, <3>2, FS_Subset
    <3>4. /\ Cardinality(OpenFiles(store, Periods)) \in Nat /\ Cardinality(Finalized(store)) \in Nat
          /\ Cardinality(OpenFiles(store, store.staged)) \in Nat /\ Cardinality(WithReceipt(store)) \in Nat
          /\ Cardinality(Dirs(store)) \in Nat
      BY <3>1, <3>3, FS_CardinalityType
    <3>5. BytesUsed(store) = Cardinality(OpenFiles(store, Periods))
             + (Cardinality(Finalized(store)) + Cardinality(OpenFiles(store, store.staged)))
             + Cardinality(WithReceipt(store)) + Cardinality(Dirs(store))
      BY DEF BytesUsed, OpenBytes, OutboxBytes, Receipts, Dirs
    <3> QED BY <2>1, <3>4, <3>5, RoomNat, BrowserAssumption
  <2> QED BY <2>1, <2>2, <2>3 DEF SpoolBounded
<1> QED BY BrowserInvariant, <1>1, PTL

(* A receipt says delivered only of what a journal stored and discarded     *)
(* only of what the owner discarded, and nothing so discarded is stored by  *)
(* a journal later (write_outbox_terminal, mark_period, load).              *)
THEOREM ReceiptsAreTrue ==
  ASSUME "rmdir" \notin Failing, "receipt" \notin Failing
  PROVE  Spec => ReceiptsHold
<1>1. BrowserInv /\ [Next]_vars
        => [\A b \in Batches :
              /\ ReceiptHolds(b)'
              /\ store.rcpt[b].state = "Discarded" /\ b \in journal' => b \in journal]_vars
  <2> SUFFICES ASSUME BrowserInv, [Next]_vars, NEW b \in Batches
               PROVE  /\ ReceiptHolds(b)'
                      /\ store.rcpt[b].state = "Discarded" /\ b \in journal' => b \in journal
    OBVIOUS
  <2>1. BrowserInv' /\ Keeps
    BY BrowserStep
  <2>2. Told(store, journal, dropped)'
    BY <2>1 DEF BrowserInv, HostInv, Sound
  <2>3. ReceiptHolds(b)'
    BY <2>2 DEF Told, ReceiptHolds
  <2> QED BY <2>1, <2>3 DEF Keeps
<1> QED BY BrowserInvariant, <1>1, PTL DEF Spec, ReceiptsHold

(* The store implements Custody: each step takes batches in, or hands them  *)
(* to a journal or lets the owner discard them, and lets go of nothing      *)
(* else.                                                                    *)
THEOREM BrowserCustody ==
  ASSUME "rmdir" \notin Failing, "receipt" \notin Failing
  PROVE  Spec => ImplementsCustody
<1>1. Init => Promise!Init
  <2> SUFFICES ASSUME Init PROVE OnDisk = {} /\ journal \cup dropped = {}
    BY DEF Promise!Init
  <2>1. store.open = [p \in Periods |-> NoDir] /\ store.out = [p \in Periods |-> NoEntry]
    BY DEF Init, EmptyStore
  <2>2. \A p \in Periods : InOpen(p) = {} /\ BatchesOf(store.out[p].pages) = {}
    BY <2>1 DEF InOpen, BatchesOf, NoDir, NoEntry
  <2> QED BY <2>2 DEF Init, OnDisk
<1>2. BrowserInv /\ [Next]_vars => [Promise!Next]_<<OnDisk, journal \cup dropped>>
  <2> SUFFICES ASSUME BrowserInv, [Next]_vars PROVE Promise!Take \/ Promise!HandOver
    BY DEF Promise!Next
  <2>1. Keeps
    BY BrowserStep
  <2> QED BY <2>1 DEF Keeps, Promise!Take, Promise!HandOver
<1> QED BY BrowserInvariant, <1>1, <1>2, PTL DEF Spec, ImplementsCustody, Promise!Spec
=============================================================================
