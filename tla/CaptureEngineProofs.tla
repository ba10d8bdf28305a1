------------------------ MODULE CaptureEngineProofs ------------------------
(***************************************************************************)
(* Proofs about CaptureEngine, for every value of its constants: the engine *)
(* keeps its type, shows a storage fault whenever something is owed to the  *)
(* disk, owes only what is on the disk, runs no media source while paused,  *)
(* writes nothing that the owner has revoked, keeps a recorded pause and    *)
(* lets alone a source that it has given up.                                *)
(*                                                                          *)
(* A handler of the engine is a composition of operators on engine records. *)
(* There is one lemma per operator: from a Good record it makes a Good      *)
(* record, and it either leaves the pauses and the media sources alone or   *)
(* only stops sources (Calms), or it starts sources and the lemma says      *)
(* when.  The lemmas compose along the source's call chains up to one lemma *)
(* per action, and EngineInv is inductive.                                  *)
(***************************************************************************)
EXTENDS CaptureEngine, FiniteSetTheorems, SequenceTheorems, TLAPS

(* StorageHonest, of any engine record.                                     *)
Shown(s) == ~s.fault => s.pending = {} /\ s.rows = <<>> /\ ~s.stalled

(* OwedSegmentsExist and NoRevokedWrite, of any engine record, and a source *)
(* whose breaker is open waits for no retry.                                *)
Kept(s) ==
  /\ s.pending \cup ({s.seg} \ {None}) \subseteq s.inc
  /\ \A ev \in s.out : ~ev.revoked
  /\ \A k \in Kinds : BreakerOpen(s.fails[k]) => s.retry[k] = None

Honest(s) == Shown(s) /\ Kept(s)

Good(s) == s \in EngineType /\ Honest(s)

(* What the owner has revoked is out of date in the channel.                *)
OutOfDate(q) == \A i \in DOMAIN q : q[i].revoked => ~q[i].fresh

(* t has the pauses of s, on disk too, and nothing revoked became fresh.    *)
Frame(s, t) ==
  /\ t.owner = s.owner /\ t.system = s.system /\ t.file = s.file
  /\ OutOfDate(s.q) => OutOfDate(t.q)

(* No media source has a worker.                                            *)
Silenced(s) == \A k \in Media : s.dev[k] = "Off"

(* PausedIsSilent of any engine record, and the reason for NoRevokedWrite.  *)
Obeys(s) == (IsPaused(s) => Silenced(s)) /\ OutOfDate(s.q)

(* From s to t a changed owner pause was written to its file, or could not. *)
Records(s, t, x) ==
  IF t.owner = s.owner THEN t.file = s.file ELSE "pause" \in x.bad \/ t.file = t.owner

(* From s to t the pauses stay and no media source is started.              *)
Calms(s, t) == Frame(s, t) /\ \A k \in Media : t.dev[k] \in {s.dev[k], "Off"}

(* The phase is Paused exactly while a pause is in effect.                  *)
LEMMA PhasePaused == \A s : Phase(s) = "Paused" <=> IsPaused(s)
  BY DEF Phase

(* The storage failure count starts within its range.                       *)
LEMMA CapType == StorageCap \in Nat /\ StorageCap >= 1 /\ 0 \in 0..StorageCap
  BY EngineAssumption DEF EngineAssumption

(* A time has a window (segment_for).                                       *)
LEMMA WindowType == ASSUME NEW t \in Nat PROVE WindowOf(t) \in Nat
  BY EngineAssumption DEF EngineAssumption, WindowOf

(* A window has a start.                                                    *)
LEMMA StartType == ASSUME NEW k \in Nat PROVE StartOf(k) \in Nat
  BY EngineAssumption DEF EngineAssumption, StartOf

(* The scaled delay is a natural number.                                    *)
LEMMA ScaleType ==
  ASSUME NEW a \in Nat, NEW b \in Nat PROVE a * b \in Nat
  OBVIOUS

(* current_backoff yields a delay.                                          *)
LEMMA BackoffType ==
  ASSUME NEW n \in Nat, n >= 1, Multiplier^(n - 1) \in Nat
  PROVE  CurrentBackoff(n) \in Nat
<1>1. InitialDelay * Multiplier^(n - 1) \in Nat
  <2> DEFINE m == Multiplier^(n - 1)
  <2> HIDE DEF m
  <2>1. InitialDelay \in Nat BY LifecycleAssumption DEF LifecycleAssumption
  <2>2. m \in Nat BY DEF m
  <2>3. InitialDelay * m \in Nat BY <2>1, <2>2, ScaleType
  <2> QED BY <2>3 DEF m
<1>2. MaxDelay \in Nat BY LifecycleAssumption DEF LifecycleAssumption
<1> QED BY <1>1, <1>2 DEF CurrentBackoff

(* on_failure keeps the count in range and its delay is defined.            *)
LEMMA FailureBackoff ==
  ASSUME NEW n \in FailureCounts
  PROVE  /\ OnFailure(n) \in FailureCounts
         /\ CurrentBackoff(OnFailure(n)) \in Nat
<1>1. Threshold \in Nat /\ Threshold >= 1 BY LifecycleAssumption DEF LifecycleAssumption
<1>2. OnFailure(n) \in FailureCounts /\ OnFailure(n) \in Nat /\ OnFailure(n) >= 1
  BY <1>1 DEF OnFailure, FailureCounts
<1>3. OnFailure(n) - 1 \in 0..Threshold BY <1>1, <1>2 DEF FailureCounts
<1>4. Multiplier^(OnFailure(n) - 1) \in Nat
  BY <1>3, LifecycleAssumption DEF LifecycleAssumption
<1> QED BY <1>2, <1>4, BackoffType

(* note_storage_fault: raising the fault is always honest.                  *)
LEMMA NoteGood ==
  ASSUME NEW s \in EngineType, Kept(s)
  PROVE  Good(NoteStorageFault(s)) /\ Calms(s, NoteStorageFault(s))
         /\ NoteStorageFault(s).inc = s.inc
  BY DEF EngineType, NoteStorageFault, Good, Honest, Shown, Kept, Calms, Frame

(* clear_storage_fault is honest when nothing is owed.                      *)
LEMMA ClearGood ==
  ASSUME NEW s \in EngineType, Kept(s), s.pending = {}, s.rows = <<>>, ~s.stalled
  PROVE  Good(ClearStorageFault(s)) /\ Calms(s, ClearStorageFault(s))
         /\ ClearStorageFault(s).inc = s.inc
  BY CapType DEF EngineType, ClearStorageFault, OnSuccess, Good, Honest, Shown, Kept, Calms, Frame

(* attempt_clear_storage clears the fault only when nothing is owed.        *)
LEMMA AttemptGood ==
  ASSUME NEW s, Good(s)
  PROVE  Good(AttemptClearStorage(s)) /\ Calms(s, AttemptClearStorage(s))
         /\ AttemptClearStorage(s).inc = s.inc
<1>1. CASE s.fault /\ StorageHealthy(s)
  BY <1>1, ClearGood DEF Good, Honest, StorageHealthy, AttemptClearStorage
<1>2. CASE ~(s.fault /\ StorageHealthy(s))
  BY <1>2 DEF Calms, Frame, AttemptClearStorage
<1> QED BY <1>1, <1>2

(* flush_activity_queue restores honesty about rows from honesty about the  *)
(* rest.                                                                    *)
LEMMA FlushGood ==
  ASSUME NEW s \in EngineType, Kept(s), NEW x, ~s.fault => s.pending = {} /\ ~s.stalled
  PROVE  Good(FlushActivityQueue(s, x)) /\ Calms(s, FlushActivityQueue(s, x))
         /\ s.inc \subseteq FlushActivityQueue(s, x).inc
<1> DEFINE written == {i \in DOMAIN s.rows : \A j \in 1..i : Appendable(s, s.rows[j], x)}
           n == Cardinality(written)
           t == [s EXCEPT !.rows = SubSeq(@, n + 1, Len(@)),
                          !.inc  = @ \cup {s.rows[i] : i \in written}]
<1>1. s.rows \in Seq(Nat) BY DEF EngineType
<1>2. n \in Nat
  <2>0. Len(s.rows) \in Int BY <1>1
  <2>1. IsFiniteSet(1..Len(s.rows)) BY <2>0, FS_Interval
  <2>2. written \subseteq 1..Len(s.rows) BY <1>1
  <2> QED BY <2>1, <2>2, FS_Subset, FS_CardinalityType
<1>3. SubSeq(s.rows, n + 1, Len(s.rows)) \in Seq(Nat)
  <2> HIDE DEF n
  <2>1. \A i \in n + 1 .. Len(s.rows) : s.rows[i] \in Nat
    BY <1>1, <1>2
  <2> QED BY <1>1, <1>2, <2>1, SubSeqProperties
<1>4. {s.rows[i] : i \in written} \subseteq Nat
  BY <1>1
<1>5. t \in EngineType /\ t.fault = s.fault /\ t.pending = s.pending /\ t.stalled = s.stalled
      /\ Calms(s, t) /\ Kept(t) /\ s.inc \subseteq t.inc
  <2> HIDE DEF written, n
  <2>1. t \in EngineType BY <1>3, <1>4 DEF EngineType
  <2>2. t.fault = s.fault /\ t.pending = s.pending /\ t.stalled = s.stalled /\ Calms(s, t)
    BY DEF EngineType, Calms, Frame
  <2>3. /\ t.inc = s.inc \cup {s.rows[i] : i \in written} /\ t.seg = s.seg
        /\ t.out = s.out /\ t.pending = s.pending
    BY DEF EngineType
  <2>4. Kept(t) /\ s.inc \subseteq t.inc BY <2>3 DEF Kept
  <2> QED BY <2>1, <2>2, <2>4
<1> HIDE DEF t
<1>6. CASE s.rows = <<>>
  BY <1>6 DEF FlushActivityQueue, Good, Honest, Shown, Kept, Calms, Frame
<1>7. CASE s.rows # <<>> /\ t.rows = <<>>
  <2>1. Good(t) BY <1>5, <1>7 DEF Good, Honest, Shown, Kept
  <2>2. FlushActivityQueue(s, x) = AttemptClearStorage(t)
    BY <1>7 DEF FlushActivityQueue, t
  <2> QED BY <2>1, <2>2, <1>5, AttemptGood DEF Calms, Frame
<1>8. CASE s.rows # <<>> /\ t.rows # <<>>
  <2>2. FlushActivityQueue(s, x) = NoteStorageFault(t)
    BY <1>8 DEF FlushActivityQueue, t
  <2> QED BY <2>2, <1>5, NoteGood DEF Calms, Frame
<1> QED BY <1>6, <1>7, <1>8

(* append_activity_row queues a row and flushes.                            *)
LEMMA AppendGood ==
  ASSUME NEW s, Good(s), NEW ts \in Nat, NEW x
  PROVE  Good(AppendActivityRow(s, ts, x)) /\ Calms(s, AppendActivityRow(s, ts, x))
         /\ s.inc \subseteq AppendActivityRow(s, ts, x).inc
<1> DEFINE t == [s EXCEPT !.rows = Append(@, WindowOf(ts))]
<1>1. WindowOf(ts) \in Nat BY WindowType
<1>a. Append(s.rows, WindowOf(ts)) \in Seq(Nat) BY <1>1 DEF Good, EngineType
<1>2. t \in EngineType /\ Calms(s, t) /\ (~t.fault => t.pending = {} /\ ~t.stalled)
  BY <1>a DEF EngineType, Good, Honest, Shown, Calms, Frame
<1>b. Kept(t) /\ t.inc = s.inc BY DEF EngineType, Good, Honest, Kept
<1> HIDE DEF t
<1>3. Good(FlushActivityQueue(t, x)) /\ Calms(t, FlushActivityQueue(t, x))
      /\ t.inc \subseteq FlushActivityQueue(t, x).inc
  BY <1>2, <1>b, FlushGood
<1>4. Calms(s, FlushActivityQueue(t, x)) BY <1>2, <1>3 DEF Calms, Frame
<1> QED BY <1>3, <1>4, <1>b DEF AppendActivityRow, t

(* Closing the activity interval files a row.                               *)
LEMMA IntervalGood ==
  ASSUME NEW s, Good(s), NEW r \in Nat \cup {None}, NEW x
  PROVE  Good(CloseInterval(s, r, x)) /\ Calms(s, CloseInterval(s, r, x))
         /\ s.inc \subseteq CloseInterval(s, r, x).inc
<1> DEFINE t == [s EXCEPT !.act = r]
<1>1. CASE s.act = None
  BY <1>1 DEF CloseInterval, Calms, Frame
<1>2. CASE s.act # None
  <2>1. s.act \in Nat BY <1>2 DEF Good, EngineType
  <2>2. Good(t) /\ Calms(s, t) /\ t.inc = s.inc
    BY DEF Good, Honest, Shown, Kept, EngineType, Calms, Frame
  <2> HIDE DEF t
  <2>3. Good(AppendActivityRow(t, s.act, x)) /\ Calms(t, AppendActivityRow(t, s.act, x))
        /\ t.inc \subseteq AppendActivityRow(t, s.act, x).inc
    BY <2>1, <2>2, AppendGood
  <2>4. CloseInterval(s, r, x) = AppendActivityRow(t, s.act, x)
    BY <1>2 DEF CloseInterval, t
  <2> QED BY <2>2, <2>3, <2>4 DEF Calms, Frame
<1> QED BY <1>1, <1>2

(* apply_source_report and handle_fault_transition touch neither storage    *)
(* nor sources.                                                             *)
LEMMA ReportsGood ==
  ASSUME NEW s, Good(s), now \in Nat,
         NEW reps \in [Kinds -> SourceStates \cup {"None"}], NEW forced
  PROVE  Good(ApplyReports(s, reps, forced)) /\ Calms(s, ApplyReports(s, reps, forced))
<1> DEFINE failed(k) == reps[k] = "Faulted" /\ (k \in forced \/ s.rep[k] \notin Faulty)
           recovered(k) == s.rep[k] \in Faulty /\ reps[k] \notin Faulty
           fails == [k \in Kinds |-> IF failed(k) THEN OnFailure(s.fails[k])
                                     ELSE IF recovered(k) THEN OnSuccess ELSE s.fails[k]]
           retry == [k \in Kinds |-> IF failed(k)
                                     THEN IF BreakerOpen(OnFailure(s.fails[k])) THEN None
                                          ELSE now + CurrentBackoff(OnFailure(s.fails[k]))
                                     ELSE IF recovered(k) THEN None ELSE s.retry[k]]
<1>1. \A k \in Kinds : s.fails[k] \in FailureCounts /\ s.retry[k] \in Nat \cup {None}
  BY DEF Good, EngineType
<1>2. OnSuccess \in FailureCounts
  BY LifecycleAssumption DEF LifecycleAssumption, OnSuccess, FailureCounts
<1>3. \A k \in Kinds : /\ OnFailure(s.fails[k]) \in FailureCounts
                       /\ now + CurrentBackoff(OnFailure(s.fails[k])) \in Nat
  BY <1>1, FailureBackoff
<1> HIDE DEF failed, recovered
<1>4. fails \in [Kinds -> FailureCounts] BY <1>1, <1>2, <1>3
<1>5. retry \in [Kinds -> Nat \cup {None}] BY <1>1, <1>3
<1>a. ~BreakerOpen(OnSuccess)
  BY LifecycleAssumption DEF LifecycleAssumption, OnSuccess, BreakerOpen
<1>b. \A k \in Kinds : BreakerOpen(fails[k]) => retry[k] = None
  BY <1>a DEF Good, Honest, Kept
<1>6. ApplyReports(s, reps, forced) = [s EXCEPT !.rep = reps, !.fails = fails, !.retry = retry]
  BY DEF ApplyReports, failed, recovered
<1> HIDE DEF fails, retry
<1> DEFINE t == [s EXCEPT !.rep = reps, !.fails = fails, !.retry = retry]
<1>7. t \in EngineType BY <1>4, <1>5 DEF Good, EngineType
<1>8. Honest(t) /\ Calms(s, t) BY <1>b DEF Good, Honest, Shown, Kept, EngineType, Calms, Frame
<1> HIDE DEF t
<1>9. ApplyReports(s, reps, forced) = t BY <1>6 DEF t
<1> QED BY <1>7, <1>8, <1>9 DEF Good

(* The same for one kind.                                                   *)
LEMMA ReportGood ==
  ASSUME NEW s, Good(s), now \in Nat, NEW k \in Kinds, NEW st \in SourceStates
  PROVE  Good(ApplySourceReport(s, k, st)) /\ Calms(s, ApplySourceReport(s, k, st))
<1>1. [s.rep EXCEPT ![k] = st] \in [Kinds -> SourceStates \cup {"None"}]
  BY DEF Good, EngineType
<1> QED BY <1>1, ReportsGood DEF ApplySourceReport

(* The same for apply_encoder_error.                                        *)
LEMMA EncoderErrorGood ==
  ASSUME NEW s, Good(s), now \in Nat
  PROVE  Good(ApplyEncoderError(s)) /\ Calms(s, ApplyEncoderError(s))
<1>1. "Faulted" \in SourceStates BY DEF SourceStates
<1> QED BY <1>1, ReportGood DEF ApplyEncoderError, Calms, Frame

(* source_state reports a SourceState.                                      *)
LEMMA StateType ==
  ASSUME NEW s, Good(s), NEW k \in Kinds
  PROVE  SourceState(s, k) \in SourceStates
<1>1. s.dev[k] \in Devices BY DEF Good, EngineType
<1> QED BY <1>1 DEF SourceState, Observed, Devices, SourceStates

(* fold_source_states only changes reports, retries and failure counts.     *)
LEMMA FoldGood ==
  ASSUME NEW s, Good(s), now \in Nat
  PROVE  Good(FoldSourceStates(s)) /\ Calms(s, FoldSourceStates(s))
<1> DEFINE reps == [k \in Kinds |-> IF k = "Screen" /\ s.encErr THEN "Faulted"
                                    ELSE SourceState(s, k)]
<1>1. reps \in [Kinds -> SourceStates \cup {"None"}]
  BY StateType DEF SourceStates
<1> HIDE DEF reps
<1>2. Good(ApplyReports(s, reps, {})) /\ Calms(s, ApplyReports(s, reps, {}))
  BY <1>1, ReportsGood
<1> QED BY <1>2 DEF FoldSourceStates, reps

(* attach_segment flushes what waited for a segment.                        *)
LEMMA AttachGood ==
  ASSUME NEW s, Good(s), NEW k \in Nat, k \in s.inc, NEW x
  PROVE  Good(AttachSegment(s, k, x)) /\ Calms(s, AttachSegment(s, k, x))
<1> DEFINE t == [s EXCEPT !.seg = k, !.encOpen = FALSE]
<1>a. t \in EngineType BY DEF Good, EngineType
<1>b. Honest(t) /\ Calms(s, t) BY DEF Good, Honest, Shown, Kept, EngineType, Calms, Frame
<1>1. Good(t) /\ Calms(s, t) BY <1>a, <1>b DEF Good
<1> HIDE DEF t
<1>2. Good(FlushActivityQueue(t, x)) /\ Calms(t, FlushActivityQueue(t, x))
  BY <1>1, FlushGood DEF Good, Honest, Shown
<1> QED BY <1>1, <1>2 DEF AttachSegment, t, Calms, Frame

(* open_segment_key raises the fault or may clear it.                       *)
LEMMA OpenGood ==
  ASSUME NEW s, Good(s), NEW k \in Nat, NEW x
  PROVE  Good(OpenSegmentKey(s, k, x)) /\ Calms(s, OpenSegmentKey(s, k, x))
<1>1. CASE s.seg # None
  BY <1>1 DEF OpenSegmentKey, Calms, Frame
<1>2. CASE s.seg = None /\ "open" \in x.bad
  BY <1>2, NoteGood DEF OpenSegmentKey, Good, Honest
<1>3. CASE s.seg = None /\ "open" \notin x.bad
  <2> DEFINE t == [s EXCEPT !.inc = @ \cup {k}]
             u == AttachSegment(t, k, x)
  <2>a. t \in EngineType BY DEF Good, EngineType
  <2>b. Honest(t) /\ Calms(s, t) BY DEF Good, Honest, Shown, Kept, EngineType, Calms, Frame
  <2>1. Good(t) /\ Calms(s, t) BY <2>a, <2>b DEF Good
  <2>c. k \in t.inc BY DEF Good, EngineType
  <2>2. OpenSegmentKey(s, k, x) = AttemptClearStorage(u) BY <1>3 DEF OpenSegmentKey
  <2> HIDE DEF t
  <2>3. Good(u) /\ Calms(t, u) BY <2>1, <2>c, AttachGood
  <2> HIDE DEF u
  <2>4. Good(AttemptClearStorage(u)) /\ Calms(u, AttemptClearStorage(u))
    BY <2>3, AttemptGood
  <2> QED BY <2>1, <2>2, <2>3, <2>4 DEF Calms, Frame
<1> QED BY <1>1, <1>2, <1>3

(* seal_segment: a seal that is put off raises the fault.                   *)
LEMMA SealGood ==
  ASSUME NEW s, Good(s), NEW k \in Nat, k \in s.inc, NEW x, now \in Nat
  PROVE  Good(SealSegment(s, k, x)) /\ Calms(s, SealSegment(s, k, x))
<1> DEFINE t == [s EXCEPT !.seg = None, !.encOpen = FALSE]
           u == [t EXCEPT !.encErr = TRUE]
           p == [t EXCEPT !.pending = @ \cup {k}]
           d == [t EXCEPT !.pending = @ \ {k}, !.inc = @ \ {k}, !.sealed = @ \cup {k}]
<1>1. Good(u) /\ Calms(s, u) BY DEF Good, Honest, Shown, Kept, EngineType, Calms, Frame
<1>a. s.pending \cup {k} \in SUBSET Nat BY DEF Good, EngineType
<1>b. p \in EngineType BY <1>a DEF Good, EngineType
<1>c. p.pending = s.pending \cup {k} /\ p.seg = None /\ p.inc = s.inc /\ p.out = s.out
  BY DEF Good, EngineType
<1>d. Kept(p) BY <1>c DEF Good, Honest, Kept
<1>e. Calms(s, p) BY DEF Good, EngineType, Calms, Frame
<1>2. p \in EngineType /\ Calms(s, p) /\ Kept(p) BY <1>b, <1>d, <1>e
<1>3. Good(d) /\ Calms(s, d) BY DEF Good, Honest, Shown, Kept, EngineType, Calms, Frame
<1>4. SealSegment(s, k, x) \in {ApplyEncoderError(u), NoteStorageFault(p), AttemptClearStorage(d)}
  BY DEF SealSegment
<1> HIDE DEF u, p, d
<1>5. Good(ApplyEncoderError(u)) /\ Calms(u, ApplyEncoderError(u)) BY <1>1, EncoderErrorGood
<1>6. Good(NoteStorageFault(p)) /\ Calms(p, NoteStorageFault(p)) BY <1>2, NoteGood
<1>7. Good(AttemptClearStorage(d)) /\ Calms(d, AttemptClearStorage(d)) BY <1>3, AttemptGood
<1> QED BY <1>1, <1>2, <1>3, <1>4, <1>5, <1>6, <1>7 DEF Calms, Frame

(* Calms is transitive.                                                     *)
LEMMA CalmsTrans ==
  ASSUME NEW a, NEW b, NEW c, Calms(a, b), Calms(b, c) PROVE Calms(a, c)
  BY DEF Calms, Frame

(* Stopping desktop activity stops no media source, and starts none.        *)
LEMMA StopActivityGood ==
  ASSUME NEW s, Good(s)
  PROVE  Good(StopActivityDevice(s)) /\ Calms(s, StopActivityDevice(s))
         /\ StopActivityDevice(s).inc = s.inc
<1> DEFINE dev == [s.dev EXCEPT ![Activity] = "Off"]
           t == [s EXCEPT !.dev = dev]
<1>1. s.dev \in [Kinds -> Devices] BY DEF Good, EngineType
<1>2. dev \in [Kinds -> Devices] /\ \A k \in Media : dev[k] = s.dev[k]
  BY <1>1 DEF Devices, Media
<1>3. StopActivityDevice(s) = t BY DEF StopActivityDevice, Good, EngineType
<1> HIDE DEF dev
<1>4. t \in EngineType BY <1>2 DEF Good, EngineType
<1>5. Honest(t) /\ Calms(s, t) BY <1>2 DEF Good, Honest, Shown, Kept, EngineType, Calms, Frame
<1>6. t.inc = s.inc BY DEF Good, EngineType
<1> QED BY <1>3, <1>4, <1>5, <1>6 DEF Good

(* One pass of rotate_segments.                                             *)
LEMMA RotateOpenGood ==
  ASSUME NEW s, Good(s), NEW k \in Nat, k \in s.inc, NEW closing, NEW x, now \in Nat
  PROVE  Good(RotateOpen(s, k, closing, x)) /\ Calms(s, RotateOpen(s, k, closing, x))
<1> DEFINE back == now < StartOf(k)
           c == CloseAll(s, x)
           a == IF back THEN StopActivityDevice(c) ELSE OnBoundary(s, StartOf(k + 1), x)
           t == SealSegment(a, k, x)
           next == IF back THEN WindowOf(now) ELSE k + 1
<1>1. Good(c) /\ Calms(s, c) /\ s.inc \subseteq c.inc
  BY IntervalGood DEF CloseAll, None
<1>2. StartOf(k + 1) \in Nat BY StartType
<1>3. Good(OnBoundary(s, StartOf(k + 1), x)) /\ Calms(s, OnBoundary(s, StartOf(k + 1), x))
      /\ s.inc \subseteq OnBoundary(s, StartOf(k + 1), x).inc
  BY <1>2, IntervalGood DEF OnBoundary
<1>4. Good(StopActivityDevice(c)) /\ Calms(c, StopActivityDevice(c))
      /\ StopActivityDevice(c).inc = c.inc
  BY <1>1, StopActivityGood
<1>5. Good(a) /\ Calms(s, a) /\ k \in a.inc
  BY <1>1, <1>3, <1>4, CalmsTrans
<1>6. next \in Nat BY WindowType
<1>7. RotateOpen(s, k, closing, x) \in {t, OpenSegmentKey(t, next, x)}
  BY DEF RotateOpen, OpenNext
<1> HIDE DEF a, next
<1>8. Good(t) /\ Calms(a, t) BY <1>5, SealGood
<1> HIDE DEF t
<1>9. Good(OpenSegmentKey(t, next, x)) /\ Calms(t, OpenSegmentKey(t, next, x))
  BY <1>6, <1>8, OpenGood
<1> QED BY <1>5, <1>7, <1>8, <1>9, CalmsTrans

(* One pass, or none when the window has not changed.                       *)
LEMMA RotateOnceGood ==
  ASSUME NEW s, Good(s), NEW closing, NEW x, now \in Nat
  PROVE  Good(RotateOnce(s, closing, x)) /\ Calms(s, RotateOnce(s, closing, x))
<1>1. CASE s.seg = None \/ s.seg = WindowOf(now)
  BY <1>1 DEF RotateOnce, Calms, Frame
<1>2. CASE ~(s.seg = None \/ s.seg = WindowOf(now))
  <2>1. s.seg \in Nat /\ s.seg \in s.inc BY <1>2 DEF Good, Honest, Kept, EngineType
  <2> QED BY <1>2, <2>1, RotateOpenGood DEF RotateOnce
<1> QED BY <1>1, <1>2

(* rotate_segments.                                                         *)
LEMMA RotateGood ==
  ASSUME NEW s, Good(s), NEW closing, NEW x, now \in Nat
  PROVE  Good(RotateSegments(s, closing, x)) /\ Calms(s, RotateSegments(s, closing, x))
<1> DEFINE t == RotateOnce(s, closing, x)
<1>1. Good(t) /\ Calms(s, t) BY RotateOnceGood
<1> HIDE DEF t
<1>2. Good(RotateOnce(t, closing, x)) /\ Calms(t, RotateOnce(t, closing, x))
  BY <1>1, RotateOnceGood
<1> QED BY <1>1, <1>2, CalmsTrans DEF RotateSegments, t

(* ensure_segment_for_now.                                                  *)
LEMMA EnsureGood ==
  ASSUME NEW s, Good(s), NEW x, now \in Nat
  PROVE  Good(EnsureSegmentForNow(s, x)) /\ Calms(s, EnsureSegmentForNow(s, x))
<1> DEFINE t == RotateSegments(s, FALSE, x)
<1>1. Good(t) /\ Calms(s, t) BY RotateGood
<1>2. WindowOf(now) \in Nat BY WindowType
<1>3. EnsureSegmentForNow(s, x) = OpenSegmentKey(t, WindowOf(now), x)
  BY DEF EnsureSegmentForNow
<1> HIDE DEF t
<1>4. Good(OpenSegmentKey(t, WindowOf(now), x)) /\ Calms(t, OpenSegmentKey(t, WindowOf(now), x))
  BY <1>1, <1>2, OpenGood
<1> QED BY <1>1, <1>3, <1>4, CalmsTrans

(* The retry of owed seals: what still cannot be sealed stays owed, and the *)
(* fault stays up.                                                          *)
LEMMA RetrySealsGood ==
  ASSUME NEW s, Good(s), NEW x
  PROVE  Good(RetrySeals(s, x)) /\ Calms(s, RetrySeals(s, x))
<1> DEFINE tried == s.pending \ ({s.seg} \cup RangeOf(s.rows))
           done == tried \ x.stuck
           t == [s EXCEPT !.pending = @ \ done, !.inc = @ \ done, !.sealed = @ \cup done,
                          !.fault = @ \/ tried \cap x.stuck # {}]
<1>1. RetrySeals(s, x) = t BY DEF RetrySeals
<1>2. done \subseteq Nat /\ s.seg \notin done BY DEF Good, EngineType
<1> HIDE DEF done, tried
<1>3. t \in EngineType BY <1>2 DEF Good, EngineType
<1>4. Honest(t) /\ Calms(s, t) BY <1>2 DEF Good, Honest, Shown, Kept, EngineType, Calms, Frame
<1> QED BY <1>1, <1>3, <1>4 DEF Good

(* A retry of everything owed to the disk.                                  *)
LEMMA RetryStorageGood ==
  ASSUME NEW s, Good(s), NEW x, now \in Nat
  PROVE  Good(RetryStorage(s, x)) /\ Calms(s, RetryStorage(s, x))
<1> DEFINE s1 == FlushActivityQueue(s, x)
           s2 == RetrySeals(s1, x)
           s3 == OpenSegmentKey(s2, WindowOf(now), x)
<1>1. RetryStorage(s, x) \in {s2, s3} BY DEF RetryStorage, RetryOpen
<1>2. Good(s1) /\ Calms(s, s1) BY FlushGood DEF Good, Honest, Shown, Kept
<1> HIDE DEF s1
<1>3. Good(s2) /\ Calms(s, s2) BY <1>2, RetrySealsGood, CalmsTrans
<1> HIDE DEF s2
<1>4. WindowOf(now) \in Nat BY WindowType
<1>5. Good(s3) /\ Calms(s2, s3) BY <1>3, <1>4, OpenGood
<1> HIDE DEF s3
<1> QED BY <1>1, <1>3, <1>5, CalmsTrans

(* Putting the retry off keeps the fault as it is.                          *)
LEMMA BackOffGood ==
  ASSUME NEW s, Good(s), now \in Nat
  PROVE  Good(BackOffStorage(s)) /\ Calms(s, BackOffStorage(s))
<1> DEFINE n == IF s.sfails < StorageCap THEN s.sfails + 1 ELSE StorageCap
           u == [s EXCEPT !.sfails = n, !.sretry = now + CurrentBackoff(n)]
<1>1. BackOffStorage(s) = u BY DEF BackOffStorage
<1>2. s.sfails \in 0..StorageCap BY DEF Good, EngineType
<1>3. n \in 0..StorageCap /\ n >= 1 BY <1>2, CapType
<1> HIDE DEF n
<1>4. n - 1 \in 0..StorageCap BY <1>3, CapType
<1>5. Multiplier^(n - 1) \in Nat BY <1>4, EngineAssumption DEF EngineAssumption
<1>6. CurrentBackoff(n) \in Nat BY <1>3, <1>5, BackoffType, CapType
<1>7. now + CurrentBackoff(n) \in Nat BY <1>6
<1>8. u \in EngineType BY <1>3, <1>7 DEF Good, EngineType
<1>9. Honest(u) /\ Calms(s, u) BY DEF Good, Honest, Shown, Kept, EngineType, Calms, Frame
<1> QED BY <1>1, <1>8, <1>9 DEF Good

(* service_storage: the fault clears only when every debt is paid.          *)
LEMMA ServiceGood ==
  ASSUME NEW s, Good(s), NEW x, now \in Nat
  PROVE  Good(ServiceStorage(s, x)) /\ Calms(s, ServiceStorage(s, x))
<1> DEFINE t == RetryStorage(s, x)
           clear(r) == ClearStorageFault(r)
<1>1. \/ ServiceStorage(s, x) \in {s, BackOffStorage(t)}
      \/ StorageHealthy(t) /\ ServiceStorage(s, x) = clear(t)
      \/ StorageHealthy(s) /\ ServiceStorage(s, x) = clear(s)
  BY DEF ServiceStorage, ConcludeStorage
<1>2. Good(t) /\ Calms(s, t) BY RetryStorageGood
<1> HIDE DEF t
<1>3. Good(BackOffStorage(t)) /\ Calms(t, BackOffStorage(t)) BY <1>2, BackOffGood
<1>4. StorageHealthy(t) => Good(clear(t)) /\ Calms(t, clear(t))
  BY <1>2, ClearGood DEF Good, Honest, StorageHealthy
<1>5. StorageHealthy(s) => Good(clear(s)) /\ Calms(s, clear(s))
  BY ClearGood DEF Good, Honest, StorageHealthy
<1>6. Calms(s, s) BY DEF Calms, Frame
<1> HIDE DEF clear
<1> QED BY <1>1, <1>2, <1>3, <1>4, <1>5, <1>6, CalmsTrans

(* A queue rewritten in place is a queue.                                   *)
LEMMA MappedQueue ==
  ASSUME NEW S, NEW q \in Seq(S), NEW f \in [DOMAIN q -> S]
  PROVE  f \in Seq(S)
<1>1. DOMAIN q = 1..Len(q) /\ Len(q) \in Nat OBVIOUS
<1> QED BY <1>1, SeqDef

(* increment_generation only rewrites the queue.                            *)
LEMMA BumpGood ==
  ASSUME NEW s, Good(s), NEW K
  PROVE  LET t == BumpGeneration(s, K) IN
         Good(t) /\ Calms(s, t) /\ t.dev = s.dev /\ t.on = s.on /\ t.eligible = s.eligible
<1> DEFINE f == [i \in DOMAIN s.q |-> IF s.q[i].kind \in K THEN [s.q[i] EXCEPT !.fresh = FALSE]
                                      ELSE s.q[i]]
           t == [s EXCEPT !.q = f]
<1>1. s.q \in Seq(Events) BY DEF Good, EngineType
<1>2. \A i \in DOMAIN s.q : s.q[i] \in Events BY <1>1
<1>3. f \in [DOMAIN s.q -> Events] BY <1>2 DEF Events
<1>4. f \in Seq(Events) BY <1>1, <1>3, MappedQueue
<1>5. BumpGeneration(s, K) = t BY DEF BumpGeneration, Good, EngineType
<1>a. OutOfDate(s.q) => OutOfDate(f) BY <1>2 DEF OutOfDate, Events
<1> HIDE DEF f
<1>6. t \in EngineType BY <1>4 DEF Good, EngineType
<1>7. Honest(t) /\ Calms(s, t) /\ t.dev = s.dev /\ t.on = s.on /\ t.eligible = s.eligible
  BY <1>a DEF Good, Honest, Shown, Kept, EngineType, Calms, Frame
<1> QED BY <1>5, <1>6, <1>7 DEF Good

(* The channel once the events of K are revoked, or out of date.            *)
Revoked(q, K) ==
  [i \in DOMAIN q |-> IF q[i].kind \in K THEN [q[i] EXCEPT !.revoked = TRUE] ELSE q[i]]
Aged(q, K) ==
  [i \in DOMAIN q |-> IF q[i].kind \in K THEN [q[i] EXCEPT !.fresh = FALSE] ELSE q[i]]

(* t is s but for its channel.                                              *)
SameBut(s, t) ==
  t.owner = s.owner /\ t.system = s.system /\ t.file = s.file /\ t.dev = s.dev

(* Revoking only rewrites the queue.                                        *)
LEMMA RevokeGood ==
  ASSUME NEW s, Good(s), NEW K
  PROVE  LET t == Revoke(s, K) IN Good(t) /\ SameBut(s, t) /\ t.q = Revoked(s.q, K)
<1> DEFINE f == Revoked(s.q, K)
           t == [s EXCEPT !.q = f]
<1>1. s.q \in Seq(Events) BY DEF Good, EngineType
<1>2. \A i \in DOMAIN s.q : s.q[i] \in Events BY <1>1
<1>3. f \in [DOMAIN s.q -> Events] BY <1>2 DEF Events, Revoked
<1>4. f \in Seq(Events) BY <1>1, <1>3, MappedQueue
<1>5. Revoke(s, K) = t BY DEF Revoke, Revoked, Good, EngineType
<1> HIDE DEF f
<1>6. t \in EngineType BY <1>4 DEF Good, EngineType
<1>7. Honest(t) /\ SameBut(s, t) /\ t.q = f
  BY DEF Good, Honest, Shown, Kept, EngineType, SameBut
<1> QED BY <1>5, <1>6, <1>7 DEF Good, f

(***************************************************************************)
(* A source turned off: its events are revoked, and stop_source then makes  *)
(* the same events out of date (increment_generation).                      *)
(***************************************************************************)
LEMMA RevokeBump ==
  ASSUME NEW s, Good(s), NEW K, OutOfDate(s.q)
  PROVE  OutOfDate(BumpGeneration(Revoke(s, K), K).q)
<1> DEFINE r == Revoke(s, K)
           f == Revoked(s.q, K)
           g == Aged(f, K)
<1>1. Good(r) /\ r.q = f BY RevokeGood
<1>2. s.q \in Seq(Events) BY DEF Good, EngineType
<1>3. \A i \in DOMAIN s.q : s.q[i] \in Events BY <1>2
<1>4. DOMAIN g = DOMAIN s.q BY DEF Revoked, Aged
<1>5. ASSUME NEW i \in DOMAIN s.q PROVE g[i].revoked => ~g[i].fresh
  <2>1. f[i] = IF s.q[i].kind \in K THEN [s.q[i] EXCEPT !.revoked = TRUE] ELSE s.q[i]
    BY DEF Revoked
  <2>2. g[i] = IF f[i].kind \in K THEN [f[i] EXCEPT !.fresh = FALSE] ELSE f[i]
    BY DEF Aged, Revoked
  <2>3. s.q[i] \in Events BY <1>3
  <2> HIDE DEF f, g
  <2>4. f[i].kind = s.q[i].kind /\ f[i] \in Events BY <2>1, <2>3 DEF Events
  <2>5. CASE s.q[i].kind \in K BY <2>2, <2>4, <2>5 DEF Events
  <2>6. CASE s.q[i].kind \notin K BY <2>1, <2>2, <2>4, <2>6 DEF OutOfDate
  <2> QED BY <2>5, <2>6
<1>6. OutOfDate(g) BY <1>4, <1>5 DEF OutOfDate
<1> HIDE DEF r, f, g
<1>7. BumpGeneration(r, K).q = Aged(r.q, K) BY <1>1 DEF BumpGeneration, Aged, Good, EngineType
<1> QED BY <1>1, <1>6, <1>7 DEF r, g

(* Where the start of a source may lead.                                    *)
LEMMA AnswerStart ==
  ASSUME NEW x \in Answers, NEW k \in Kinds
  PROVE  /\ x.start[k] \in SourceStates \cup {"Err", "ErrInactive"}
         /\ k = Activity => x.start[k] \in SourceStates
<1>1. x.start[k] \in StartOutcomes(k) BY DEF Answers
<1>2. WorkerStates(k) \subseteq SourceStates
  BY EngineAssumption DEF EngineAssumption, WorkerStates
<1>3. StartErrors \subseteq {"Err", "ErrInactive"} BY EngineAssumption DEF EngineAssumption
<1>4. k = Activity => k # "Screen" BY DEF Activity
<1> QED BY <1>1, <1>2, <1>3, <1>4 DEF StartOutcomes

(* Where the start of desktop activity may lead.                            *)
LEMMA ActivityStartType ==
  ASSUME NEW s, NEW x \in Answers PROVE ActivityStart(s, x) \in SourceStates
<1>1. Activity \in Kinds BY EngineAssumption DEF EngineAssumption, Activity
<1> QED BY <1>1, AnswerStart DEF ActivityStart, SourceStates

(* start_source keeps the pauses, and starts no media source if none was    *)
(* asked for.                                                               *)
LEMMA StartGood ==
  ASSUME NEW s, Good(s), NEW K, NEW x \in Answers, now \in Nat
  PROVE  LET r == StartSources(s, K, x) IN
         Good(r) /\ Frame(s, r) /\ (K \cap Media = {} => Calms(s, r))
<1> DEFINE started == K \cap Enabled(s)
           failed == {k \in started : x.start[k] \in {"Err", "ErrInactive"}}
           begun == started \ failed
           device(k) == IF k = Activity THEN ActivityStart(s, x)
                        ELSE IF x.start[k] = "Err" THEN "Faulted"
                        ELSE IF x.start[k] = "ErrInactive" THEN "FailedStart" ELSE x.start[k]
           dev == [k \in Kinds |-> IF k \in started THEN device(k) ELSE s.dev[k]]
           retry == [k \in Kinds |-> IF k \in begun THEN None ELSE s.retry[k]]
           fails == [k \in Kinds |-> IF k \in begun THEN OnSuccess ELSE s.fails[k]]
           reps == [k \in Kinds |-> IF k \in failed THEN "Faulted" ELSE s.rep[k]]
           b == BumpGeneration(s, started)
           t == [b EXCEPT !.dev = dev, !.retry = retry, !.fails = fails]
<1>1. Good(b) /\ Calms(s, b) /\ b.dev = s.dev BY BumpGood
<1>2. /\ s.dev \in [Kinds -> Devices] /\ s.retry \in [Kinds -> Nat \cup {None}]
      /\ s.fails \in [Kinds -> FailureCounts]
      /\ s.rep \in [Kinds -> SourceStates \cup {"None"}]
  BY DEF Good, EngineType
<1>3. dev \in [Kinds -> Devices]
  <2>1. \A k \in Kinds : device(k) \in Devices
    BY AnswerStart, ActivityStartType DEF Devices, SourceStates
  <2> HIDE DEF device
  <2> QED BY <1>2, <2>1
<1>4. retry \in [Kinds -> Nat \cup {None}]
  <2> HIDE DEF begun
  <2> QED BY <1>2
<1>5. fails \in [Kinds -> FailureCounts]
  <2> HIDE DEF begun
  <2>1. OnSuccess \in FailureCounts
    BY LifecycleAssumption DEF LifecycleAssumption, OnSuccess, FailureCounts
  <2> QED BY <1>2, <2>1
<1>6. reps \in [Kinds -> SourceStates \cup {"None"}]
  <2> HIDE DEF failed
  <2> QED BY <1>2 DEF SourceStates
<1>7. K \cap Media = {} => \A k \in Media : dev[k] = s.dev[k]
  BY DEF Media
<1>a. ~BreakerOpen(OnSuccess)
  BY LifecycleAssumption DEF LifecycleAssumption, OnSuccess, BreakerOpen
<1>b. \A k \in Kinds : BreakerOpen(fails[k]) => retry[k] = None
  <2> HIDE DEF begun
  <2> QED BY <1>a DEF Good, Honest, Kept
<1>8. StartSources(s, K, x) = ApplyReports(t, reps, failed)
  BY DEF StartSources
<1> HIDE DEF dev, retry, fails, reps, b, failed
<1>9. t \in EngineType BY <1>1, <1>3, <1>4, <1>5 DEF Good, EngineType
<1>10. Honest(t) /\ Frame(s, t) /\ t.dev = dev
  BY <1>1, <1>b DEF Good, Honest, Shown, Kept, EngineType, Calms, Frame
<1>11. Good(t) BY <1>9, <1>10 DEF Good
<1>12. K \cap Media = {} => Calms(s, t)
  BY <1>7, <1>10 DEF Calms
<1> HIDE DEF t
<1>13. Good(ApplyReports(t, reps, failed)) /\ Calms(t, ApplyReports(t, reps, failed))
  BY <1>6, <1>11, ReportsGood
<1>14. Frame(t, ApplyReports(t, reps, failed)) BY <1>13 DEF Calms
<1>15. Frame(s, ApplyReports(t, reps, failed)) BY <1>10, <1>14 DEF Frame
<1> QED BY <1>8, <1>12, <1>13, <1>15, CalmsTrans

(* Stopping every media source silences them.                               *)
LEMMA StopDevicesGood ==
  ASSUME NEW s, Good(s), NEW K
  PROVE  LET r == StopDevices(s, K) IN
         Good(r) /\ Calms(s, r) /\ (Media \subseteq K => Silenced(r))
<1> DEFINE dev == [k \in Kinds |-> IF k \in K THEN "Off" ELSE s.dev[k]]
           t == [s EXCEPT !.dev = dev]
<1>1. s.dev \in [Kinds -> Devices] BY DEF Good, EngineType
<1>2. dev \in [Kinds -> Devices] BY <1>1 DEF Devices
<1>3. \A k \in Media : dev[k] \in {s.dev[k], "Off"} BY DEF Media
<1>4. Media \subseteq K => \A k \in Media : dev[k] = "Off" BY DEF Media
<1>5. StopDevices(s, K) = t BY DEF StopDevices
<1> HIDE DEF dev
<1>6. t \in EngineType BY <1>2 DEF Good, EngineType
<1>7. Honest(t) /\ t.dev = dev /\ Frame(s, t) BY DEF Good, Honest, Shown, Kept, EngineType, Frame
<1> QED BY <1>3, <1>4, <1>5, <1>6, <1>7 DEF Good, Calms, Silenced

(* stop_source only stops.                                                  *)
LEMMA StopSourcesGood ==
  ASSUME NEW s, Good(s), NEW K, NEW x, now \in Nat
  PROVE  LET r == StopSources(s, K, x) IN
         Good(r) /\ Calms(s, r) /\ (OutOfDate(BumpGeneration(s, K).q) => OutOfDate(r.q))
<1> DEFINE b == BumpGeneration(s, K)
           t == StopDevices(b, K \ {Activity})
           u == EnsureSegmentForNow(t, x)
           v == CloseAll(u, x)
<1>1. Good(b) /\ Calms(s, b) BY BumpGood
<1>2. StopSources(s, K, x) \in {t, StopActivityDevice(v)} BY DEF StopSources
<1> HIDE DEF b
<1>3. Good(t) /\ Calms(b, t) BY <1>1, StopDevicesGood
<1> HIDE DEF t
<1>4. Good(u) /\ Calms(t, u) BY <1>3, EnsureGood
<1> HIDE DEF u
<1>5. Good(v) /\ Calms(u, v) BY <1>4, IntervalGood DEF CloseAll, None
<1> HIDE DEF v
<1>6. Good(StopActivityDevice(v)) /\ Calms(v, StopActivityDevice(v)) BY <1>5, StopActivityGood
<1>7. Calms(s, t) BY <1>1, <1>3, CalmsTrans
<1>8. Calms(t, v) BY <1>4, <1>5, CalmsTrans
<1>9. Calms(t, StopActivityDevice(v)) BY <1>6, <1>8, CalmsTrans
<1>10. Calms(s, StopActivityDevice(v)) BY <1>7, <1>9, CalmsTrans
<1>11. OutOfDate(b.q) => OutOfDate(t.q) /\ OutOfDate(StopActivityDevice(v).q)
  BY <1>3, <1>9 DEF Calms, Frame
<1> QED BY <1>2, <1>3, <1>6, <1>7, <1>10, <1>11 DEF b

(* What only calms keeps a pause silent.                                    *)
LEMMA CalmsSilent ==
  ASSUME NEW s, NEW t, Calms(s, t), Obeys(s) PROVE Obeys(t)
  BY DEF Calms, Frame, Obeys, Silenced, IsPaused

(* What only calms keeps the sources silent.                                *)
LEMMA CalmsSilenced ==
  ASSUME NEW s, NEW t, Calms(s, t), Silenced(s) PROVE Silenced(t)
  BY DEF Calms, Silenced

(* Without a pause there is nothing to keep silent.                         *)
LEMMA AwakeSilent ==
  ASSUME NEW s, NEW t, Frame(s, t), ~IsPaused(s), OutOfDate(s.q) PROVE Obeys(t)
  BY DEF Frame, Obeys, IsPaused

(* A restart of some sources keeps the pauses.                              *)
LEMMA RestartGood ==
  ASSUME NEW s, Good(s), NEW K, NEW x \in Answers, now \in Nat
  PROVE  /\ Good(RestartMedia(s, K, x)) /\ Frame(s, RestartMedia(s, K, x))
         /\ Good(RestartActivity(s, K, x)) /\ Frame(s, RestartActivity(s, K, x))
<1> DEFINE M == K \ {Activity}
           a == BumpGeneration(s, M)
           b == StopDevices(a, M)
           c == StartSources(b, M, x)
           p == StopSources(s, {Activity}, x)
           q == StartSources(p, {Activity}, x)
<1>1. RestartMedia(s, K, x) = c BY DEF RestartMedia
<1>2. RestartActivity(s, K, x) \in {s, q} BY DEF RestartActivity
<1> HIDE DEF M
<1>3. Good(a) /\ Frame(s, a) BY BumpGood DEF Calms
<1> HIDE DEF a
<1>4. Good(b) /\ Frame(a, b) BY <1>3, StopDevicesGood DEF Calms
<1> HIDE DEF b
<1>5. Good(c) /\ Frame(b, c) BY <1>4, StartGood
<1> HIDE DEF c
<1>6. Good(p) /\ Frame(s, p) BY StopSourcesGood DEF Calms
<1> HIDE DEF p
<1>7. Good(q) /\ Frame(p, q) BY <1>6, StartGood
<1> HIDE DEF q
<1>8. Frame(s, c) /\ Frame(s, q) /\ Frame(s, s)
  BY <1>3, <1>4, <1>5, <1>6, <1>7 DEF Frame
<1> QED BY <1>1, <1>2, <1>5, <1>7, <1>8

(* retry_due_sources does nothing while paused.                             *)
LEMMA RetryGood ==
  ASSUME NEW s, Good(s), Obeys(s), NEW x \in Answers, now \in Nat
  PROVE  LET r == RetryDueSources(s, x) IN Good(r) /\ Obeys(r) /\ Frame(s, r)
<1> DEFINE due == {k \in Kinds : s.retry[k] # None /\ s.retry[k] <= now}
           K == due \cap Enabled(s)
           retry == [k \in Kinds |-> IF k \in due THEN None ELSE s.retry[k]]
           s1 == [s EXCEPT !.retry = retry]
           s2 == RestartMedia(s1, K, x)
           s3 == RestartActivity(s2, K, x)
<1>1. Good(s1) /\ Frame(s, s1)
  <2> HIDE DEF due
  <2>1. retry \in [Kinds -> Nat \cup {None}] BY DEF Good, EngineType
  <2>a. \A k \in Kinds : BreakerOpen(s.fails[k]) => retry[k] = None BY DEF Good, Honest, Kept
  <2> HIDE DEF retry
  <2>2. s1 \in EngineType BY <2>1 DEF Good, EngineType
  <2>3. Honest(s1) /\ Frame(s, s1) BY <2>a DEF Good, Honest, Shown, Kept, EngineType, Frame
  <2> QED BY <2>2, <2>3 DEF Good
<1>2. IsPaused(s) => RetryDueSources(s, x) = s BY PhasePaused DEF RetryDueSources
<1>3. ~IsPaused(s) => RetryDueSources(s, x) = s3
  BY PhasePaused DEF RetryDueSources
<1> HIDE DEF K, s1
<1>4. Good(s2) /\ Frame(s1, s2) BY <1>1, RestartGood
<1> HIDE DEF s2
<1>5. Good(s3) /\ Frame(s2, s3) BY <1>4, RestartGood
<1> HIDE DEF s3
<1>6. Frame(s, s3) BY <1>1, <1>4, <1>5 DEF Frame
<1>7. ~IsPaused(s) => Obeys(s3) BY <1>6, AwakeSilent DEF Obeys
<1>8. Frame(s, s) BY DEF Frame
<1> QED BY <1>2, <1>3, <1>5, <1>6, <1>7, <1>8

(* encode_screen_frame.                                                     *)
LEMMA EncodeGood ==
  ASSUME NEW s, Good(s), NEW frames \in SUBSET Events, \A ev \in frames : ~ev.revoked,
         NEW x, now \in Nat
  PROVE  LET r == EncodeScreenFrames(s, frames, x) IN Good(r) /\ Calms(s, r)
<1> DEFINE u == [s EXCEPT !.encErr = TRUE]
           w == [s EXCEPT !.encErr = @ /\ s.encOpen, !.encOpen = TRUE, !.out = @ \cup frames]
<1>1. EncodeScreenFrames(s, frames, x) \in {s, ApplyEncoderError(u), w}
  BY DEF EncodeScreenFrames
<1>2. u \in EngineType /\ w \in EngineType
  <2>1. u \in EngineType BY DEF Good, EngineType
  <2>2. (s.encErr /\ s.encOpen) \in BOOLEAN OBVIOUS
  <2>3. s.out \cup frames \in SUBSET Events BY DEF Good, EngineType
  <2>4. w \in EngineType
    <3> DEFINE b == s.encErr /\ s.encOpen
               v == [s EXCEPT !.encErr = b, !.encOpen = TRUE, !.out = s.out \cup frames]
    <3>1. w = v OBVIOUS
    <3>2. b \in BOOLEAN BY <2>2
    <3> HIDE DEF b
    <3>3. v \in EngineType BY <2>3, <3>2 DEF Good, EngineType
    <3> QED BY <3>1, <3>3
  <2> QED BY <2>1, <2>4
<1>a. \A ev \in s.out \cup frames : ~ev.revoked BY DEF Good, Honest, Kept
<1>b. Honest(u) /\ Calms(s, u) /\ Calms(s, s)
  BY DEF Good, Honest, Shown, Kept, EngineType, Calms, Frame
<1>c. Honest(w) /\ Calms(s, w)
  BY <1>a DEF Good, Honest, Shown, Kept, EngineType, Calms, Frame
<1>3. Honest(u) /\ Honest(w) /\ Calms(s, u) /\ Calms(s, w) /\ Calms(s, s) BY <1>b, <1>c
<1> HIDE DEF u, w
<1>4. Good(u) /\ Good(w) BY <1>2, <1>3 DEF Good
<1>5. Good(ApplyEncoderError(u)) /\ Calms(u, ApplyEncoderError(u)) BY <1>4, EncoderErrorGood
<1> QED BY <1>1, <1>3, <1>4, <1>5, CalmsTrans

(* write_audio_chunk: a failed write raises the fault.                      *)
LEMMA WriteGood ==
  ASSUME NEW s, Good(s), NEW chunks \in SUBSET Events, \A ev \in chunks : ~ev.revoked, NEW x
  PROVE  LET r == WriteAudioChunks(s, chunks, x) IN Good(r) /\ Calms(s, r)
<1> DEFINE u == [s EXCEPT !.stalled = TRUE]
           w == [s EXCEPT !.stalled = FALSE, !.out = @ \cup chunks]
<1>1. WriteAudioChunks(s, chunks, x) \in {s, NoteStorageFault(u), w, AttemptClearStorage(w)}
  BY DEF WriteAudioChunks
<1>2. u \in EngineType /\ w \in EngineType
  <2>1. u \in EngineType BY DEF Good, EngineType
  <2>2. s.out \cup chunks \in SUBSET Events BY DEF Good, EngineType
  <2>3. w \in EngineType BY <2>2 DEF Good, EngineType
  <2> QED BY <2>1, <2>3
<1>a. \A ev \in s.out \cup chunks : ~ev.revoked BY DEF Good, Honest, Kept
<1>b. Kept(u) /\ Calms(s, u) /\ Calms(s, s)
  BY DEF Good, Honest, Shown, Kept, EngineType, Calms, Frame
<1>c. Honest(w) /\ Calms(s, w)
  BY <1>a DEF Good, Honest, Shown, Kept, EngineType, Calms, Frame
<1>3. Honest(w) /\ Kept(u) /\ Calms(s, u) /\ Calms(s, w) /\ Calms(s, s) BY <1>b, <1>c
<1> HIDE DEF u, w
<1>4. Good(w) BY <1>2, <1>3 DEF Good
<1>5. Good(NoteStorageFault(u)) /\ Calms(u, NoteStorageFault(u)) BY <1>2, <1>3, NoteGood
<1>6. Good(AttemptClearStorage(w)) /\ Calms(w, AttemptClearStorage(w)) BY <1>4, AttemptGood
<1> QED BY <1>1, <1>3, <1>4, <1>5, <1>6, CalmsTrans

(* handle_event, when nothing it may admit is revoked.                      *)
LEMMA HandleEventsGood ==
  ASSUME NEW s, Good(s), NEW events \in SUBSET Events, NEW x, now \in Nat,
         \A ev \in events : Admitted(s, ev) => ~ev.revoked
  PROVE  LET r == HandleEvents(s, events, x) IN Good(r) /\ Calms(s, r)
<1> DEFINE in == {ev \in events : Admitted(s, ev)}
           frames == {ev \in in : ev.kind = "Screen"}
           chunks == in \ frames
           t == WriteAudioChunks(s, chunks, x)
           u == EncodeScreenFrames(t, frames, x)
<1>1. /\ frames \in SUBSET Events /\ \A ev \in frames : ~ev.revoked
      /\ chunks \in SUBSET Events /\ \A ev \in chunks : ~ev.revoked
  OBVIOUS
<1>2. HandleEvents(s, events, x) = u BY DEF HandleEvents
<1> HIDE DEF frames, chunks
<1>3. Good(t) /\ Calms(s, t) BY <1>1, WriteGood
<1> HIDE DEF t
<1>4. Good(u) /\ Calms(t, u) BY <1>1, <1>3, EncodeGood
<1> QED BY <1>2, <1>3, <1>4, CalmsTrans

(* Without a worker no media source is Active (source_state).               *)
LEMMA SilencedAdmits ==
  ASSUME NEW s, Silenced(s), NEW ev \in Events PROVE ~Admitted(s, ev)
<1>1. ev.kind \in Media BY DEF Events
<1>2. s.dev[ev.kind] = "Off" BY <1>1 DEF Silenced
<1>3. SourceState(s, ev.kind) \in {"Faulted", "Inactive"} BY <1>2 DEF SourceState, Observed
<1> QED BY <1>3 DEF Admitted

(* drain_events, once the media sources are stopped: it empties the channel *)
(* and writes nothing.                                                      *)
LEMMA DrainGood ==
  ASSUME NEW s, Good(s), Silenced(s), NEW x, now \in Nat
  PROVE  LET r == DrainEvents(s, x) IN Good(r) /\ Calms(s, r) /\ OutOfDate(r.q)
<1> DEFINE t == HandleEvents(s, RangeOf(s.q), x)
           u == [t EXCEPT !.q = <<>>]
<1>1. s.q \in Seq(Events) BY DEF Good, EngineType
<1>2. RangeOf(s.q) \in SUBSET Events BY <1>1 DEF RangeOf
<1>a. \A ev \in RangeOf(s.q) : ~Admitted(s, ev) BY <1>2, SilencedAdmits
<1>3. Good(t) /\ Calms(s, t) BY <1>2, <1>a, HandleEventsGood
<1>4. DrainEvents(s, x) = u BY DEF DrainEvents
<1> HIDE DEF t
<1>5. u \in EngineType
  <2>1. <<>> \in Seq(Events) OBVIOUS
  <2> QED BY <1>3, <2>1 DEF Good, EngineType
<1>b. OutOfDate(<<>>) BY DEF OutOfDate
<1>c. u.q = <<>> BY <1>3 DEF Good, EngineType
<1>6. Honest(u) /\ Calms(t, u)
  BY <1>3, <1>b DEF Good, Honest, Shown, Kept, EngineType, Calms, Frame
<1> QED BY <1>3, <1>4, <1>5, <1>6, <1>b, <1>c, CalmsTrans DEF Good

(* pause_capture silences every media source.                               *)
LEMMA PauseGood ==
  ASSUME NEW s, Good(s), NEW x, now \in Nat
  PROVE  LET r == PauseCapture(s, x) IN Good(r) /\ Frame(s, r) /\ Silenced(r) /\ OutOfDate(r.q)
<1> DEFINE a == Revoke(s, Media)
           b == StopDevices(a, Media)
           s1 == RotateSegments(b, TRUE, x)
           c == CloseAll(s1, x)
           s2 == IF ActivityRunsThroughPause(s1) THEN s1 ELSE StopActivityDevice(c)
           dr == DrainEvents(s2, x)
           s3 == [dr EXCEPT !.stalled = FALSE]
           s4 == AttemptClearStorage(s3)
           r == FoldSourceStates(s4)
<1>1. PauseCapture(s, x) = r BY DEF PauseCapture, PauseActivity
<1>2. Good(a) /\ SameBut(s, a) BY RevokeGood
<1> HIDE DEF a
<1>3. Good(b) /\ Calms(a, b) /\ Silenced(b) BY <1>2, StopDevicesGood
<1> HIDE DEF b
<1>4. Good(s1) /\ Calms(b, s1) BY <1>3, RotateGood
<1> HIDE DEF s1
<1>5. Good(c) /\ Calms(s1, c) BY <1>4, IntervalGood DEF CloseAll, None
<1> HIDE DEF c
<1>6. Good(StopActivityDevice(c)) /\ Calms(c, StopActivityDevice(c)) BY <1>5, StopActivityGood
<1>7. Good(s2) /\ Calms(b, s2) BY <1>4, <1>5, <1>6, CalmsTrans
<1> HIDE DEF s2
<1>a. Silenced(s2) BY <1>3, <1>7, CalmsSilenced
<1>8. Good(dr) /\ Calms(s2, dr) /\ OutOfDate(dr.q) BY <1>7, <1>a, DrainGood
<1> HIDE DEF dr
<1>9. Good(s3) /\ Calms(dr, s3)
  <2>1. s3 \in EngineType BY <1>8 DEF Good, EngineType
  <2>2. Honest(s3) /\ Calms(dr, s3) BY <1>8 DEF Good, Honest, Shown, Kept, EngineType, Calms, Frame
  <2> QED BY <2>1, <2>2 DEF Good
<1> HIDE DEF s3
<1>10. Good(s4) /\ Calms(s3, s4) BY <1>9, AttemptGood
<1> HIDE DEF s4
<1>11. Good(r) /\ Calms(s4, r) BY <1>10, FoldGood
<1> HIDE DEF r
<1>12. Calms(b, dr) BY <1>7, <1>8, CalmsTrans
<1>13. Calms(b, s3) BY <1>9, <1>12, CalmsTrans
<1>14. Calms(b, s4) BY <1>10, <1>13, CalmsTrans
<1>15. Calms(b, r) BY <1>11, <1>14, CalmsTrans
<1>16. Silenced(r) BY <1>3, <1>15, CalmsSilenced
<1>17. OutOfDate(r.q) BY <1>8, <1>9, <1>10, <1>11 DEF Calms, Frame
<1>18. Frame(s, r) BY <1>2, <1>3, <1>15, <1>17 DEF Calms, Frame, SameBut
<1> QED BY <1>1, <1>11, <1>16, <1>17, <1>18

(* resume_capture keeps the pauses it finds.                                *)
LEMMA ResumeGood ==
  ASSUME NEW s, Good(s), NEW x \in Answers, now \in Nat
  PROVE  LET r == ResumeCapture(s, x) IN Good(r) /\ Frame(s, r)
<1> DEFINE s1 == EnsureSegmentForNow(s, x)
           idle == IF ActivityActive(s1) THEN Media ELSE Kinds
           s2 == StartSources(s1, idle, x)
<1>1. ResumeCapture(s, x) \in {FoldSourceStates(s2), FoldSourceStates(s)}
  BY DEF ResumeCapture, StartIdle
<1>2. Good(s1) /\ Frame(s, s1) BY EnsureGood DEF Calms
<1> HIDE DEF s1
<1>3. Good(s2) /\ Frame(s1, s2) BY <1>2, StartGood
<1> HIDE DEF s2
<1>4. Good(FoldSourceStates(s2)) /\ Frame(s2, FoldSourceStates(s2)) BY <1>3, FoldGood DEF Calms
<1>5. Good(FoldSourceStates(s)) /\ Frame(s, FoldSourceStates(s)) BY FoldGood DEF Calms
<1>6. Frame(s, FoldSourceStates(s2)) BY <1>2, <1>3, <1>4 DEF Frame
<1> QED BY <1>1, <1>4, <1>5, <1>6

(* settle_pause leaves a paused engine silent.                              *)
LEMMA SettleGood ==
  ASSUME NEW s, Good(s), NEW was \in BOOLEAN, NEW restart, NEW x \in Answers, now \in Nat,
         was /\ IsPaused(s) => Silenced(s), OutOfDate(s.q)
  PROVE  LET r == SettleCapture(s, was, restart, x) IN Good(r) /\ Frame(s, r) /\ Obeys(r)
<1>1. CASE IsPaused(s) /\ ~was
  BY <1>1, PauseGood, PhasePaused DEF SettleCapture, Obeys
<1>2. CASE ~IsPaused(s) /\ (was \/ restart)
  <2>1. SettleCapture(s, was, restart, x) = ResumeCapture(s, x)
    BY <1>2, PhasePaused DEF SettleCapture
  <2> QED BY <1>2, <2>1, ResumeGood, AwakeSilent
<1>3. CASE ~(IsPaused(s) /\ ~was) /\ ~(~IsPaused(s) /\ (was \/ restart))
  BY <1>3, PhasePaused DEF SettleCapture, Obeys, Frame
<1> QED BY <1>1, <1>2, <1>3

(* record_owner_pause only writes the pause file.                           *)
LEMMA RecordGood ==
  ASSUME NEW s, Good(s), NEW before, NEW x
  PROVE  LET r == RecordOwnerPause(s, before, x) IN
         /\ Good(r) /\ (Obeys(s) => Obeys(r)) /\ r.owner = s.owner
         /\ IF s.owner = before THEN r.file = s.file ELSE "pause" \in x.bad \/ r.file = r.owner
<1> DEFINE t == [s EXCEPT !.file = s.owner]
<1>1. t \in EngineType BY DEF Good, EngineType
<1>2. Honest(t) BY DEF Good, Honest, Shown, Kept, EngineType
<1>3. /\ t.owner = s.owner /\ t.system = s.system /\ t.dev = s.dev /\ t.q = s.q
      /\ t.file = s.owner
  BY DEF Good, EngineType
<1>4. RecordOwnerPause(s, before, x) = IF s.owner = before \/ "pause" \in x.bad THEN s ELSE t
  BY DEF RecordOwnerPause
<1> HIDE DEF t
<1>5. Obeys(s) => Obeys(t) BY <1>3 DEF Obeys, IsPaused, Silenced
<1> QED BY <1>1, <1>2, <1>3, <1>4, <1>5 DEF Good

(* auto_resume_if_due: with a system pause still held nothing starts.       *)
LEMMA AutoResumeGood ==
  ASSUME NEW s, Good(s), Obeys(s), NEW x \in Answers, now \in Nat
  PROVE  LET r == AutoResumeIfDue(s, x) IN Good(r) /\ Obeys(r) /\ Records(s, r, x)
<1> DEFINE t == OwnerPauseExpired(s)
           u == SettleCapture(t, TRUE, FALSE, x)
<1>1. CASE ~PauseDueToExpire(s, now) BY <1>1 DEF AutoResumeIfDue, Records
<1>2. CASE PauseDueToExpire(s, now)
  <2>1. s.owner # NoPause BY <1>2 DEF PauseDueToExpire, NoPause
  <2>2. Silenced(s) BY <2>1 DEF Obeys, IsPaused
  <2>3. t \in EngineType BY DEF Good, EngineType, OwnerPauseExpired, Pauses
  <2>4. /\ Honest(t) /\ Silenced(t) /\ t.q = s.q /\ t.owner = NoPause
    BY <2>2 DEF Good, Honest, Shown, Kept, EngineType, OwnerPauseExpired, Silenced
  <2>5. Good(t) BY <2>3, <2>4 DEF Good
  <2> HIDE DEF t
  <2>6. Good(u) /\ Obeys(u) /\ Frame(t, u) BY <2>4, <2>5, SettleGood DEF Obeys
  <2>7. AutoResumeIfDue(s, x) = RecordOwnerPause(u, s.owner, x) BY <1>2 DEF AutoResumeIfDue, t
  <2> HIDE DEF u
  <2>8. u.owner # s.owner BY <2>1, <2>4, <2>6 DEF Frame
  <2> QED BY <2>6, <2>7, <2>8, RecordGood DEF Records
<1> QED BY <1>1, <1>2

(* A switch in the reducer starts nothing.                                  *)
LEMMA EnabledGood ==
  ASSUME NEW s, Good(s), NEW k \in Kinds, NEW b \in BOOLEAN
  PROVE  LET r == SourceEnabled(s, k, b) IN Good(r) /\ Calms(s, r)
<1> DEFINE on == [s.on EXCEPT ![k] = b]
           t == [s EXCEPT !.on = on]
<1>1. on \in [Kinds -> BOOLEAN] BY DEF Good, EngineType
<1>2. SourceEnabled(s, k, b) = t BY DEF SourceEnabled, Good, EngineType
<1> HIDE DEF on
<1>3. t \in EngineType BY <1>1 DEF Good, EngineType
<1>4. Honest(t) /\ Calms(s, t) BY DEF Good, Honest, Shown, Kept, EngineType, Calms, Frame
<1> QED BY <1>2, <1>3, <1>4 DEF Good

(* apply_source_enabled starts a media source only outside a pause.         *)
LEMMA ApplyEnabledGood ==
  ASSUME NEW s, Good(s), Obeys(s), NEW k \in Kinds, NEW enabled, NEW x \in Answers, now \in Nat
  PROVE  LET r == ApplySourceEnabled(s, k, enabled, x) IN Good(r) /\ Obeys(r) /\ Frame(s, r)
<1> DEFINE a == Revoke(s, {k})
           off == StopSources(a, {k}, x)
           noretry == [off EXCEPT !.retry[k] = None]
           gone == SourceEnabled(noretry, k, FALSE)
           g == ApplySourceReport(gone, k, "Inactive")
           on == SourceEnabled(s, k, TRUE)
           u == EnsureSegmentForNow(on, x)
           v == StartSources(u, {k}, x)
<1>1. Good(a) /\ SameBut(s, a) BY RevokeGood
<1>2. Good(on) /\ Calms(s, on) BY EnabledGood
<1>3. CASE ~enabled
  <2>1. ApplySourceEnabled(s, k, enabled, x) = g BY <1>3 DEF ApplySourceEnabled
  <2>a. OutOfDate(BumpGeneration(a, {k}).q) BY RevokeBump DEF Obeys
  <2> HIDE DEF a
  <2>2. Good(off) /\ Calms(a, off) /\ OutOfDate(off.q) BY <1>1, <2>a, StopSourcesGood
  <2> HIDE DEF off
  <2>3. Good(noretry) /\ Calms(off, noretry)
    <3> DEFINE retry == [off.retry EXCEPT ![k] = None]
               t == [off EXCEPT !.retry = retry]
    <3>1. retry \in [Kinds -> Nat \cup {None}] BY <2>2 DEF Good, EngineType
    <3>2. noretry = t BY <2>2 DEF Good, EngineType
    <3>a. \A j \in Kinds : BreakerOpen(off.fails[j]) => retry[j] = None
      BY <2>2 DEF Good, EngineType, Honest, Kept
    <3> HIDE DEF retry
    <3>3. t \in EngineType BY <2>2, <3>1 DEF Good, EngineType
    <3>4. Honest(t) /\ Calms(off, t) BY <2>2, <3>a DEF Good, Honest, Shown, Kept, EngineType, Calms, Frame
    <3> QED BY <3>2, <3>3, <3>4 DEF Good
  <2> HIDE DEF noretry
  <2>4. Good(gone) /\ Calms(noretry, gone) BY <2>3, EnabledGood
  <2> HIDE DEF gone
  <2>5. Good(g) /\ Calms(gone, g) BY <2>4, ReportGood DEF SourceStates
  <2> HIDE DEF g
  <2>b. Calms(s, off) BY <1>1, <2>2 DEF Calms, Frame, SameBut
  <2>6. Calms(s, g) BY <2>b, <2>3, <2>4, <2>5, CalmsTrans
  <2> QED BY <2>1, <2>5, <2>6, CalmsSilent DEF Calms
<1>4. CASE enabled /\ ~SourceMayStart(on, k)
  <2>1. ApplySourceEnabled(s, k, enabled, x) = on BY <1>4 DEF ApplySourceEnabled
  <2> QED BY <1>2, <2>1, CalmsSilent DEF Calms
<1>5. CASE enabled /\ SourceMayStart(on, k)
  <2>1. ApplySourceEnabled(s, k, enabled, x) = v BY <1>5 DEF ApplySourceEnabled
  <2>2. ~IsPaused(on) \/ k = Activity BY <1>5, PhasePaused DEF SourceMayStart
  <2> HIDE DEF on
  <2>3. Good(u) /\ Calms(on, u) BY <1>2, EnsureGood
  <2> HIDE DEF u
  <2>4. Good(v) /\ Frame(u, v) /\ (k = Activity => Calms(u, v))
    BY <2>3, StartGood DEF Media, Activity
  <2> HIDE DEF v
  <2>5. Obeys(u) BY <1>2, <2>3, CalmsSilent
  <2>6. ~IsPaused(on) => Obeys(v) BY <2>3, <2>4, <2>5 DEF Calms, Frame, Obeys, IsPaused
  <2>7. k = Activity => Obeys(v) BY <2>4, <2>5, CalmsSilent
  <2>8. Frame(s, v) BY <1>2, <2>3, <2>4 DEF Calms, Frame
  <2> QED BY <2>1, <2>2, <2>4, <2>6, <2>7, <2>8
<1> QED BY <1>3, <1>4, <1>5

(* follow_desktop_activity starts or stops desktop activity only.           *)
LEMMA FollowGood ==
  ASSUME NEW s, Good(s), Obeys(s), NEW x \in Answers, now \in Nat
  PROVE  LET r == FollowDesktopActivity(s, x) IN Good(r) /\ Obeys(r) /\ Frame(s, r)
<1> DEFINE wanted == DesktopActivityRuns(s.allowed, ScreenOn(s), s.through)
           a == ApplySourceEnabled(s, Activity, wanted, x)
           u == EnsureSegmentForNow(s, x)
           v == StartSources(u, {Activity}, x)
           w == StopSources(s, {Activity}, x)
<1>1. FollowDesktopActivity(s, x) \in {a, s, v, w} BY DEF FollowDesktopActivity
<1>2. Activity \in Kinds /\ {Activity} \cap Media = {}
  BY EngineAssumption DEF EngineAssumption, Activity, Media
<1>3. Good(a) /\ Obeys(a) /\ Frame(s, a) BY <1>2, ApplyEnabledGood
<1>4. Good(u) /\ Calms(s, u) BY EnsureGood
<1> HIDE DEF u
<1>5. Good(v) /\ Calms(u, v) BY <1>2, <1>4, StartGood
<1>6. Good(w) /\ Calms(s, w) BY StopSourcesGood
<1> HIDE DEF a, v, w
<1>7. Calms(s, v) /\ Calms(s, s) BY <1>4, <1>5, CalmsTrans DEF Calms, Frame
<1> QED BY <1>1, <1>3, <1>5, <1>6, <1>7, CalmsSilent DEF Calms

(* pump_desktop_activity starts desktop activity only.                      *)
LEMMA PumpGood ==
  ASSUME NEW s, Good(s), NEW x \in Answers, now \in Nat
  PROVE  LET r == PumpDesktopActivity(s, x) IN Good(r) /\ Calms(s, r)
<1> DEFINE dev == [s.dev EXCEPT ![Activity] = ActivityStart(s, x)]
           t == [s EXCEPT !.dev = dev]
           s1 == IF ActivityActive(s) THEN s ELSE t
           c == CloseInterval(s1, now, x)
           o == [s1 EXCEPT !.act = now]
<1>1. s.dev \in [Kinds -> Devices] BY DEF Good, EngineType
<1>2. dev \in [Kinds -> Devices] /\ \A k \in Media : dev[k] = s.dev[k]
  BY <1>1, ActivityStartType DEF Devices, Media
<1>3. [s EXCEPT !.dev[Activity] = ActivityStart(s, x)] = t BY DEF Good, EngineType
<1>4. PumpDesktopActivity(s, x) \in {s, o, c, s1} BY <1>3 DEF PumpDesktopActivity
<1> HIDE DEF dev
<1>5. t \in EngineType BY <1>2 DEF Good, EngineType
<1>6. Honest(t) /\ Calms(s, t) BY <1>2 DEF Good, Honest, Shown, Kept, EngineType, Calms, Frame
<1>7. Calms(s, s) BY DEF Calms, Frame
<1> HIDE DEF t
<1>8. Good(s1) /\ Calms(s, s1) BY <1>5, <1>6, <1>7 DEF Good
<1> HIDE DEF s1
<1>9. Good(c) /\ Calms(s1, c) BY <1>8, IntervalGood
<1> HIDE DEF c
<1>10. o \in EngineType BY <1>8 DEF Good, EngineType
<1>11. Honest(o) /\ Calms(s1, o) BY <1>8 DEF Good, Honest, Shown, Kept, EngineType, Calms, Frame
<1> QED BY <1>4, <1>7, <1>8, <1>9, <1>10, <1>11, CalmsTrans DEF Good

(* A new engine owes nothing and runs nothing.                              *)
LEMMA FreshGood ==
  ASSUME NEW on \in [Kinds -> BOOLEAN], NEW allowed \in BOOLEAN, NEW through \in BOOLEAN,
         NEW inc \in SUBSET Nat, NEW sealed \in SUBSET Nat, NEW file \in Pauses
  PROVE  LET r == FreshEngine(on, allowed, through, inc, sealed, file) IN Good(r) /\ Silenced(r)
<1> DEFINE r == FreshEngine(on, allowed, through, inc, sealed, file)
<1>1. 0 \in FailureCounts BY LifecycleAssumption DEF LifecycleAssumption, FailureCounts
<1>2. [k \in Kinds |-> 0] \in [Kinds -> FailureCounts] BY <1>1
<1>3. [k \in Kinds |-> "Off"] \in [Kinds -> Devices] BY DEF Devices
<1>4. <<>> \in Seq(Nat) /\ <<>> \in Seq(Events) OBVIOUS
<1>5. NoPause \in Pauses BY DEF Pauses
<1>6. r \in EngineType
  BY <1>2, <1>3, <1>4, <1>5, CapType DEF FreshEngine, EngineType
<1>7. Honest(r) BY DEF FreshEngine, Honest, Shown, Kept
<1>8. Silenced(r) BY DEF FreshEngine, Silenced, Media
<1> QED BY <1>6, <1>7, <1>8 DEF Good

(* A process that ends leaves the disk as it is.                            *)
LEMMA ForgetGood ==
  ASSUME NEW s, Good(s)
  PROVE  Good(Forget(s)) /\ Silenced(Forget(s)) /\ ~Forget(s).fault /\ Forget(s).inc = s.inc
         /\ Forget(s).sealed = s.sealed /\ Forget(s).q = <<>> /\ Forget(s).file = s.file
<1> DEFINE f == FreshEngine(s.on, s.allowed, s.through, s.inc, s.sealed, s.file)
           t == [f EXCEPT !.policy = s.policy, !.eligible = s.eligible]
<1>1. Good(f) /\ Silenced(f)
  <2>1. /\ s.on \in [Kinds -> BOOLEAN] /\ s.allowed \in BOOLEAN /\ s.through \in BOOLEAN
        /\ s.inc \in SUBSET Nat /\ s.sealed \in SUBSET Nat /\ s.file \in Pauses
    BY DEF Good, EngineType
  <2> QED BY <2>1, FreshGood
<1>2. ~f.fault /\ f.inc = s.inc /\ f.sealed = s.sealed /\ f.q = <<>> /\ f.file = s.file
  BY DEF FreshEngine
<1>3. Forget(s) = t BY DEF Forget
<1> HIDE DEF f
<1>4. t \in EngineType BY <1>1 DEF Good, EngineType
<1>5. /\ Honest(t) /\ Silenced(t) /\ ~t.fault /\ t.inc = s.inc /\ t.sealed = s.sealed
      /\ t.q = <<>> /\ t.file = s.file
  BY <1>1, <1>2 DEF Good, Honest, Shown, Kept, EngineType, Silenced
<1> QED BY <1>3, <1>4, <1>5 DEF Good

(* Recovery at launch: deferred seals raise the fault.                      *)
LEMMA NewEngineGood ==
  ASSUME NEW s, Good(s), NEW bare, NEW x
  PROVE  LET r == NewEngine(s, bare, x) IN
         Good(r) /\ Silenced(r) /\ OutOfDate(r.q) /\ r.file = s.file
<1> DEFINE f == Forget(s)
           stale == s.inc \ {WindowOf(now)}
           deferred == (stale \ bare) \cap x.stuck
           resolved == stale \ deferred
           kept == stale \ (bare \cup deferred)
           b == deferred # {}
           t == [f EXCEPT !.ready = TRUE, !.inc = f.inc \ resolved, !.sealed = f.sealed \cup kept,
                          !.pending = deferred, !.fault = b]
<1>1. Good(f) /\ Silenced(f) BY ForgetGood
<1>2. NewEngine(s, bare, x) = t BY DEF NewEngine
<1>3. deferred \in SUBSET Nat /\ resolved \in SUBSET Nat /\ kept \in SUBSET Nat
  BY DEF Good, EngineType
<1>4. b \in BOOLEAN /\ (~b => deferred = {}) OBVIOUS
<1>a. f.inc = s.inc BY ForgetGood
<1>b. deferred \subseteq s.inc \ resolved OBVIOUS
<1> HIDE DEF f, deferred, resolved, kept, b
<1>5. t \in EngineType BY <1>1, <1>3, <1>4 DEF Good, EngineType
<1>6. /\ f.rows = <<>> /\ ~f.stalled /\ f.seg = None /\ f.out = {} /\ f.q = <<>>
      /\ f.file = s.file
  BY DEF f, Forget, FreshEngine
<1>c. /\ t.rows = <<>> /\ ~t.stalled /\ t.seg = None /\ t.out = {} /\ t.q = <<>>
      /\ t.file = s.file /\ t.inc = s.inc \ resolved /\ t.pending = deferred /\ t.fault = b
  BY <1>1, <1>6, <1>a DEF Good, EngineType
<1>d. t.fails = f.fails /\ t.retry = f.retry BY <1>1 DEF Good, EngineType
<1>7. Honest(t) BY <1>1, <1>4, <1>b, <1>c, <1>d DEF Good, Honest, Shown, Kept
<1>8. Silenced(t) BY <1>1 DEF Good, EngineType, Silenced
<1>9. OutOfDate(t.q) BY <1>c DEF OutOfDate
<1> QED BY <1>2, <1>5, <1>7, <1>8, <1>9, <1>c DEF Good

(* The pause file holds a pause that has not run out.                       *)
StillHeld(p) == p # NoPause /\ ~(p \in Nat /\ p <= now)

(* hold_owner_pause_in starts nothing, and takes up a pause still held.     *)
LEMMA HoldGood ==
  ASSUME NEW s, Good(s), Silenced(s), NEW x
  PROVE  LET r == HoldOwnerPauseIn(s, x) IN
         /\ Good(r) /\ Silenced(r) /\ r.q = s.q
         /\ StillHeld(s.file) => r.owner = s.file /\ r.file = s.file
<1> DEFINE p == OwnerPaused(s, s.file)
           c == [s EXCEPT !.file = NoPause]
<1>1. HoldOwnerPauseIn(s, x) = IF StillHeld(s.file) THEN p
                               ELSE IF s.file = NoPause \/ "pause" \in x.bad THEN s ELSE c
  BY DEF HoldOwnerPauseIn, StillHeld
<1>2. p \in EngineType BY DEF Good, EngineType, OwnerPaused
<1>3. c \in EngineType BY DEF Good, EngineType, Pauses
<1>4. Honest(p) /\ Silenced(p) /\ p.q = s.q /\ p.owner = s.file /\ p.file = s.file
  BY DEF Good, Honest, Shown, Kept, EngineType, OwnerPaused, Silenced
<1>5. Honest(c) /\ Silenced(c) /\ c.q = s.q
  BY DEF Good, Honest, Shown, Kept, EngineType, Silenced
<1> HIDE DEF p, c
<1> QED BY <1>1, <1>2, <1>3, <1>4, <1>5 DEF Good

(* adopt_current_segment.                                                   *)
LEMMA AdoptGood ==
  ASSUME NEW s, Good(s), NEW x, now \in Nat
  PROVE  Good(AdoptCurrentSegment(s, x)) /\ Calms(s, AdoptCurrentSegment(s, x))
<1> DEFINE w == WindowOf(now)
<1>1. \/ AdoptCurrentSegment(s, x) \in {s, NoteStorageFault(s)}
      \/ w \in s.inc /\ AdoptCurrentSegment(s, x) = AttachSegment(s, w, x)
  BY DEF AdoptCurrentSegment
<1>2. Good(NoteStorageFault(s)) /\ Calms(s, NoteStorageFault(s)) BY NoteGood DEF Good, Honest
<1>3. w \in s.inc => Good(AttachSegment(s, w, x)) /\ Calms(s, AttachSegment(s, w, x))
  BY WindowType, AttachGood
<1>4. Calms(s, s) BY DEF Calms, Frame
<1> QED BY <1>1, <1>2, <1>3, <1>4

(* start: launched into a pause, no media source starts.                    *)
LEMMA StartEngineGood ==
  ASSUME NEW s, Good(s), Silenced(s), OutOfDate(s.q), NEW x \in Answers, now \in Nat
  PROVE  Good(Start(s, x)) /\ Obeys(Start(s, x)) /\ Frame(s, Start(s, x))
<1> DEFINE r == RequestedStart(s)
           t == AdoptCurrentSegment(r, x)
           first == IF Phase(t) # "Paused" THEN Kinds
                    ELSE IF ActivityRunsThroughPause(t) THEN {Activity} ELSE {}
           u == EnsureSegmentForNow(t, x)
           v == StartSources(u, first, x)
<1>1. Start(s, x) \in {FoldSourceStates(t), FoldSourceStates(v)}
  BY DEF Start, StartFirst
<1>2. r \in EngineType BY DEF Good, EngineType, RequestedStart
<1>3. Honest(r) /\ Silenced(r) /\ Frame(s, r)
  BY DEF Good, Honest, Shown, Kept, EngineType, RequestedStart, Silenced, Frame
<1>4. Good(r) BY <1>2, <1>3 DEF Good
<1> HIDE DEF r
<1>a. Good(t) /\ Calms(r, t) BY <1>4, AdoptGood
<1>5. Good(t) /\ Silenced(t) /\ Frame(s, t) BY <1>3, <1>a, CalmsSilenced DEF Calms, Frame
<1>6. IsPaused(t) => first \cap Media = {} BY PhasePaused DEF Media
<1> HIDE DEF t, first
<1>7. Good(u) /\ Calms(t, u) /\ Silenced(u) BY <1>5, EnsureGood, CalmsSilenced
<1> HIDE DEF u
<1>8. Good(v) /\ Frame(u, v) /\ (first \cap Media = {} => Calms(u, v)) BY <1>7, StartGood
<1> HIDE DEF v
<1>b. Frame(s, v) BY <1>5, <1>7, <1>8 DEF Calms, Frame
<1>c. OutOfDate(t.q) /\ OutOfDate(v.q) BY <1>5, <1>b DEF Frame
<1>9. Obeys(v)
  <2>1. CASE IsPaused(t) BY <1>6, <1>7, <1>8, <1>c, <2>1, CalmsSilenced DEF Obeys
  <2>2. CASE ~IsPaused(t) BY <1>7, <1>8, <1>c, <2>2 DEF Calms, Frame, Obeys, IsPaused
  <2> QED BY <2>1, <2>2
<1>10. Good(FoldSourceStates(t)) /\ Calms(t, FoldSourceStates(t)) BY <1>5, FoldGood
<1>11. Good(FoldSourceStates(v)) /\ Calms(v, FoldSourceStates(v)) BY <1>8, FoldGood
<1>12. Obeys(t) BY <1>5, <1>c DEF Obeys
<1>13. Frame(s, FoldSourceStates(t)) /\ Frame(s, FoldSourceStates(v))
  BY <1>5, <1>10, <1>11, <1>b DEF Calms, Frame
<1> QED BY <1>1, <1>9, <1>10, <1>11, <1>12, <1>13, CalmsSilent

(* stop writes nothing revoked, and leaves the pause file alone.            *)
LEMMA StopEngineGood ==
  ASSUME NEW s, Good(s), NEW x, now \in Nat
  PROVE  Good(StopEngine(s, x)) /\ StopEngine(s, x).file = s.file
<1> DEFINE a == RotateSegments(s, TRUE, x)
           b == StopDevices(a, Media)
           s1 == CloseAll(b, x)
           c == StopActivityDevice(s1)
           d == DrainEvents(c, x)
           s2 == FlushActivityQueue(d, x)
           t == IF s2.seg = None THEN s2 ELSE SealSegment(s2, s2.seg, x)
<1>1. StopEngine(s, x) = FoldSourceStates(t) BY DEF StopEngine, SealCurrent
<1>2. Good(a) /\ a.file = s.file BY RotateGood DEF Calms, Frame
<1> HIDE DEF a
<1>3. Good(b) /\ Silenced(b) /\ b.file = a.file BY <1>2, StopDevicesGood DEF Calms, Frame
<1> HIDE DEF b
<1>4. Good(s1) /\ Calms(b, s1) BY <1>3, IntervalGood DEF CloseAll, None
<1> HIDE DEF s1
<1>5. Good(c) /\ Calms(s1, c) BY <1>4, StopActivityGood
<1> HIDE DEF c
<1>a. Silenced(c) /\ c.file = b.file BY <1>3, <1>4, <1>5, CalmsSilenced DEF Calms, Frame
<1>6. Good(d) /\ d.file = c.file BY <1>5, <1>a, DrainGood DEF Calms, Frame
<1> HIDE DEF d
<1>7. Good(s2) /\ s2.file = d.file BY <1>6, FlushGood DEF Good, Honest, Shown, Calms, Frame
<1> HIDE DEF s2
<1>8. s2.seg # None => s2.seg \in Nat /\ s2.seg \in s2.inc
  BY <1>7 DEF Good, Honest, Kept, EngineType
<1>9. Good(t) /\ t.file = s2.file BY <1>7, <1>8, SealGood DEF Calms, Frame
<1> HIDE DEF t
<1>10. Good(FoldSourceStates(t)) /\ FoldSourceStates(t).file = t.file
  BY <1>9, FoldGood DEF Calms, Frame
<1> QED BY <1>1, <1>2, <1>3, <1>6, <1>7, <1>9, <1>10, <1>a

(***************************************************************************)
(* The inductive invariant.  PausedIsSilent is inductive only with the      *)
(* type, and without `up`: a process that is down runs nothing.             *)
(* NoRevokedWrite needs that what is revoked is out of date in the channel, *)
(* and OwnerPauseHolds that a pause shown as recorded is in the pause file, *)
(* where the next launch finds it, and in effect while the process runs.    *)
(***************************************************************************)
AckHeld == ack # NoPause => e.file = ack /\ (up => e.owner = ack)

EngineInv == TypeOK /\ Honest(e) /\ Obeys(e) /\ AckHeld

(* The invariant, as the operator lemmas want it.                           *)
LEMMA InvGood == EngineInv => Good(e) /\ Obeys(e) /\ now \in Nat
  BY DEF EngineInv, TypeOK, Good

(* A handler begins in a good state.                                        *)
LEMMA EntryGood ==
  ASSUME EngineInv PROVE Good(Entry) /\ Calms(e, Entry) /\ Obeys(Entry)
<1>1. Good(e) /\ Obeys(e) BY InvGood
<1>2. Entry \in EngineType BY <1>1 DEF Good, EngineType, Entry
<1>3. Honest(Entry) /\ Calms(e, Entry) BY <1>1 DEF Good, Honest, Shown, Kept, EngineType, Entry, Calms, Frame
<1> QED BY <1>1, <1>2, <1>3, CalmsSilent DEF Good

(* So does a command, after its rotation.                                   *)
LEMMA PreparedGood ==
  ASSUME EngineInv, NEW x PROVE Good(Prepared(x)) /\ Calms(e, Prepared(x)) /\ Obeys(Prepared(x))
<1>1. Good(Prepared(x)) /\ Calms(Entry, Prepared(x)) BY EntryGood, InvGood, RotateGood DEF Prepared
<1> QED BY <1>1, EntryGood, CalmsTrans, CalmsSilent

(* Commands and events draw from the same answers.                          *)
LEMMA AnswerKinds == CommandAnswers \subseteq Answers /\ EventAnswers \subseteq Answers
  BY DEF CommandAnswers, EventAnswers

(* The trouble bound.                                                       *)
LEMMA CostsType ==
  ASSUME trouble \in 0..MaxTrouble, NEW n \in Nat, Costs(n) PROVE trouble' \in 0..MaxTrouble
  BY EngineAssumption DEF EngineAssumption, Costs

(* A handler that ends in a good, silent record keeps the invariant.        *)
LEMMA CompletesInv ==
  ASSUME EngineInv, NEW t, Good(t), Obeys(t), NEW x, Records(e, t, x), Completes(t, x)
  PROVE  EngineInv'
<1>1. e' = t /\ now' = now /\ up' = up BY DEF Completes
<1>2. ack' \in Pauses
  <2>1. t.owner \in Pauses BY DEF Good, EngineType
  <2>2. NoPause \in Pauses BY DEF Pauses
  <2> QED BY <2>1, <2>2 DEF Completes, EngineInv, TypeOK
<1>3. trouble' \in 0..MaxTrouble BY CostsType DEF Completes, EngineInv, TypeOK
<1>4. TypeOK' BY <1>1, <1>2, <1>3 DEF TypeOK, EngineInv, Good
<1>5. AckHeld'
  <2>1. up /\ ack' = IF t.owner = e.owner THEN ack
                     ELSE IF "pause" \in x.bad THEN NoPause ELSE t.owner
    BY DEF Completes
  <2> QED BY <1>1, <2>1 DEF Records, AckHeld, EngineInv
<1> QED BY <1>1, <1>4, <1>5 DEF EngineInv, Good

(* The pauses untouched are recorded as they were.                          *)
LEMMA FrameRecords ==
  ASSUME NEW s, NEW t, NEW x, Frame(s, t) PROVE Records(s, t, x)
  BY DEF Frame, Records

(* What leaves the pauses alone keeps them recorded.                        *)
LEMMA RecordsFrame ==
  ASSUME NEW s, NEW t, NEW u, NEW x, Records(s, t, x), Frame(t, u) PROVE Records(s, u, x)
  BY DEF Frame, Records

(* Every pause command settles in a good, silent record.                    *)
LEMMA SettledGood ==
  ASSUME EngineInv, NEW x \in Answers,
         NEW c \in PauseCommands(Prepared(x)) \cup ResumeCommands(Prepared(x))
                     \cup {ToggleCommand(Prepared(x))}
  PROVE  LET r == Settle(Prepared(x), c, x) IN Good(r) /\ Obeys(r) /\ r.file = e.file
<1> DEFINE s == Prepared(x)
           was == Phase(s) = "Paused"
<1>1. Good(s) /\ Obeys(s) /\ s.file = e.file BY PreparedGood DEF Calms, Frame
<1>2. now \in Nat BY InvGood
<1> HIDE DEF s
<1>3. c.to \in {OwnerPaused(s, p) : p \in Pauses}
                 \cup {SystemPaused(s), RequestedResume(s), SystemResumed(s)}
  <2>1. ASSUME c \in PauseCommands(s) PROVE c.to \in {OwnerPaused(s, p) : p \in Pauses} \cup {SystemPaused(s)}
    <3>1. ({now + d : d \in PauseLengths} \cap 0..MaxTime) \cup {Forever} \subseteq Pauses
      BY EngineAssumption DEF EngineAssumption, Pauses
    <3> QED BY <2>1, <3>1 DEF PauseCommands
  <2>2. ASSUME c \in ResumeCommands(s) PROVE c.to \in {RequestedResume(s), SystemResumed(s)}
    BY <2>2 DEF ResumeCommands
  <2>3. ASSUME c = ToggleCommand(s)
        PROVE c.to \in {OwnerPaused(s, p) : p \in Pauses} \cup {RequestedResume(s)}
    <3>1. Forever \in Pauses BY DEF Pauses
    <3> QED BY <2>3, <3>1 DEF ToggleCommand
  <2> QED BY <2>1, <2>2, <2>3 DEF s
<1>4. c.to \in EngineType
  <2>1. ASSUME NEW p \in Pauses PROVE OwnerPaused(s, p) \in EngineType
    BY <1>1 DEF Good, EngineType, OwnerPaused
  <2>2. SystemPaused(s) \in EngineType BY <1>1 DEF Good, EngineType, SystemPaused
  <2>3. NoPause \in Pauses BY DEF Pauses
  <2>4. RequestedResume(s) \in EngineType BY <1>1, <2>3 DEF Good, EngineType, RequestedResume
  <2>5. SystemResumed(s) \in EngineType BY <1>1 DEF Good, EngineType, SystemResumed
  <2> QED BY <1>3, <2>1, <2>2, <2>4, <2>5
<1>5. /\ c.to.fault = s.fault /\ c.to.pending = s.pending /\ c.to.rows = s.rows
      /\ c.to.stalled = s.stalled /\ c.to.dev = s.dev /\ c.to.q = s.q /\ c.to.out = s.out
      /\ c.to.seg = s.seg /\ c.to.inc = s.inc /\ c.to.file = s.file
      /\ c.to.fails = s.fails /\ c.to.retry = s.retry
  <2>1. s \in EngineType BY <1>1 DEF Good
  <2>2. ASSUME NEW p \in Pauses, c.to = OwnerPaused(s, p) PROVE <1>5!:
    BY <2>1, <2>2 DEF EngineType, OwnerPaused
  <2>3. ASSUME c.to = SystemPaused(s) PROVE <1>5!: BY <2>1, <2>3 DEF EngineType, SystemPaused
  <2>4. ASSUME c.to = RequestedResume(s) PROVE <1>5!: BY <2>1, <2>4 DEF EngineType, RequestedResume
  <2>5. ASSUME c.to = SystemResumed(s) PROVE <1>5!: BY <2>1, <2>5 DEF EngineType, SystemResumed
  <2> QED BY <1>3, <2>2, <2>3, <2>4, <2>5
<1>6. Good(c.to) BY <1>1, <1>4, <1>5 DEF Good, Honest, Shown, Kept
<1>7. was /\ IsPaused(c.to) => Silenced(c.to) BY <1>1, <1>5, PhasePaused DEF Obeys, Silenced
<1>8. was \in BOOLEAN OBVIOUS
<1> HIDE DEF was
<1>9. LET r == SettleCapture(c.to, was, c.restart, x) IN Good(r) /\ Obeys(r) /\ Frame(c.to, r)
  BY <1>1, <1>2, <1>5, <1>6, <1>7, <1>8, SettleGood DEF Obeys
<1>10. SettleCapture(c.to, was, c.restart, x).file = e.file BY <1>1, <1>5, <1>9 DEF Frame
<1> QED BY <1>9, <1>10 DEF Settle, was, s

(* apply_command: Pause, Resume, SystemResume, TogglePause.                 *)
LEMMA PausingStep ==
  ASSUME EngineInv, NEW x \in Answers, Pause(x) \/ Resume(x) \/ TogglePause(x)
  PROVE  EngineInv'
<1>1. PICK c \in PauseCommands(Prepared(x)) \cup ResumeCommands(Prepared(x))
                   \cup {ToggleCommand(Prepared(x))} :
        Completes(RecordOwnerPause(Settle(Prepared(x), c, x), e.owner, x), x)
  BY DEF Pause, Resume, TogglePause
<1> DEFINE s == Settle(Prepared(x), c, x)
           r == RecordOwnerPause(s, e.owner, x)
<1>2. Good(s) /\ Obeys(s) /\ s.file = e.file BY SettledGood
<1> HIDE DEF s
<1>3. Good(r) /\ Obeys(r) /\ Records(e, r, x) BY <1>2, RecordGood DEF Records
<1>4. Completes(r, x) BY <1>1 DEF s
<1> HIDE DEF r
<1> QED BY <1>3, <1>4, CompletesInv

(* on_display_changed re-acquires only a running screen source.             *)
LEMMA DisplayStep ==
  ASSUME EngineInv, NEW x \in Answers, DisplayChanged(x) PROVE EngineInv'
<1> DEFINE s == Prepared(x)
           b == BumpGeneration(s, {"Screen"})
           to == IF x.start["Screen"] \in {"Err", "ErrInactive"} THEN "Faulted" ELSE x.start["Screen"]
           dev == [b.dev EXCEPT !["Screen"] = to]
           t == [b EXCEPT !.dev = dev]
           r == IF s.on["Screen"] /\ s.dev["Screen"] # "Off" THEN t ELSE s
<1>1. Good(s) /\ Obeys(s) /\ Calms(e, s) BY PreparedGood
<1>2. "Screen" \in Kinds BY DEF DisplayChanged
<1>3. [b EXCEPT !.dev["Screen"] = to] = t
  <2>1. Good(b) BY <1>1, BumpGood
  <2> QED BY <2>1 DEF Good, EngineType
<1>4. Completes(r, x) BY <1>3 DEF DisplayChanged, Reacquire
<1> HIDE DEF s
<1>5. Good(b) /\ Calms(s, b) /\ b.dev = s.dev BY <1>1, BumpGood
<1> HIDE DEF b
<1>6. to \in Devices BY <1>2, AnswerStart DEF Devices, SourceStates
<1> HIDE DEF to
<1>7. dev \in [Kinds -> Devices] BY <1>5, <1>6 DEF Good, EngineType
<1> HIDE DEF dev
<1>8. t \in EngineType BY <1>5, <1>7 DEF Good, EngineType
<1>9. Honest(t) /\ Frame(s, t) BY <1>5 DEF Good, Honest, Shown, Kept, EngineType, Calms, Frame
<1>10. s.dev["Screen"] # "Off" => ~IsPaused(s)
  BY <1>1, <1>2 DEF Obeys, Silenced, Media, Activity
<1>11. Good(r) BY <1>1, <1>8, <1>9 DEF Good
<1>12. Obeys(r) BY <1>1, <1>9, <1>10, AwakeSilent DEF Obeys
<1>13. Frame(e, r) BY <1>1, <1>9 DEF Calms, Frame
<1> HIDE DEF r
<1> QED BY <1>4, <1>11, <1>12, <1>13, FrameRecords, CompletesInv

(* set_source_enabled and set_desktop_activity_through_pause.               *)
LEMMA SwitchStep ==
  ASSUME EngineInv, NEW x \in Answers, NEW k \in Kinds, NEW b \in BOOLEAN,
         SetSourceEnabled(k, b, x) \/ SetDesktopActivityThroughPause(b, x)
  PROVE  EngineInv'
<1> DEFINE p == Prepared(x)
           al == [p EXCEPT !.allowed = b]
           th == [p EXCEPT !.through = b]
           ap == ApplySourceEnabled(p, k, b, x)
           s == IF k = Activity THEN al ELSE ap
           t == IF k \in {Activity, "Screen"} THEN FollowDesktopActivity(s, x) ELSE s
           u == FollowDesktopActivity(th, x)
<1>1. Good(p) /\ Obeys(p) /\ Calms(e, p) /\ now \in Nat BY PreparedGood, InvGood
<1>2. Completes(FoldSourceStates(t), x) \/ Completes(FoldSourceStates(u), x)
  BY DEF SetSourceEnabled, SetDesktopActivityThroughPause
<1> HIDE DEF p
<1>3. al \in EngineType /\ th \in EngineType
  <2>1. al \in EngineType BY <1>1 DEF Good, EngineType
  <2>2. th \in EngineType BY <1>1 DEF Good, EngineType
  <2> QED BY <2>1, <2>2
<1>4. Honest(al) /\ Calms(p, al) BY <1>1 DEF Good, Honest, Shown, Kept, EngineType, Calms, Frame
<1>5. Honest(th) /\ Calms(p, th) BY <1>1 DEF Good, Honest, Shown, Kept, EngineType, Calms, Frame
<1>6. Good(ap) /\ Obeys(ap) /\ Frame(p, ap) BY <1>1, ApplyEnabledGood
<1> HIDE DEF al, th, ap
<1>a. Frame(e, p) BY <1>1 DEF Calms
<1>b. Frame(p, s) BY <1>4, <1>6 DEF Calms
<1>7. Good(s) /\ Obeys(s) BY <1>1, <1>3, <1>4, <1>6, CalmsSilent DEF Good
<1>8. Good(th) /\ Obeys(th) /\ Frame(p, th) BY <1>1, <1>3, <1>5, CalmsSilent DEF Good, Calms
<1> HIDE DEF s
<1>9. Good(t) /\ Obeys(t) /\ Frame(p, t)
  <2>1. LET r == FollowDesktopActivity(s, x) IN Good(r) /\ Obeys(r) /\ Frame(s, r)
    BY <1>1, <1>7, FollowGood
  <2> QED BY <1>7, <1>b, <2>1 DEF Frame
<1>10. Good(u) /\ Obeys(u) /\ Frame(p, u)
  <2>1. Good(u) /\ Obeys(u) /\ Frame(th, u) BY <1>1, <1>8, FollowGood
  <2> QED BY <1>8, <2>1 DEF Frame
<1> HIDE DEF t, u
<1>11. LET r == FoldSourceStates(t) IN Good(r) /\ Obeys(r) /\ Frame(t, r)
  BY <1>1, <1>9, FoldGood, CalmsSilent DEF Calms
<1>12. LET r == FoldSourceStates(u) IN Good(r) /\ Obeys(r) /\ Frame(u, r)
  BY <1>1, <1>10, FoldGood, CalmsSilent DEF Calms
<1>13. Frame(e, FoldSourceStates(t)) BY <1>9, <1>11, <1>a DEF Frame
<1>14. Frame(e, FoldSourceStates(u)) BY <1>10, <1>12, <1>a DEF Frame
<1> QED BY <1>2, <1>11, <1>12, <1>13, <1>14, FrameRecords, CompletesInv

(* SetDesktopActivityPreferences.                                           *)
LEMMA PreferenceStep ==
  ASSUME EngineInv, NEW x, SetDesktopActivityPreferences(x) PROVE EngineInv'
<1> DEFINE p == Prepared(x)
           r == CloseInterval(p, now, x)
<1>1. Good(p) /\ Obeys(p) /\ Calms(e, p) /\ now \in Nat BY PreparedGood, InvGood
<1>2. Completes(r, x) BY DEF SetDesktopActivityPreferences
<1> HIDE DEF p
<1>3. Good(r) /\ Obeys(r) /\ Calms(p, r) BY <1>1, IntervalGood, CalmsSilent
<1> HIDE DEF r
<1>4. Frame(e, r) BY <1>1, <1>3 DEF Calms, Frame
<1> QED BY <1>2, <1>3, <1>4, FrameRecords, CompletesInv

(* run's capture event branch.                                              *)
LEMMA EventStep ==
  ASSUME EngineInv, NEW x, HandleEvent(x) PROVE EngineInv'
<1> DEFINE t == [Entry EXCEPT !.q = Tail(@)]
           r == HandleEvents(t, {Head(e.q)}, x)
<1>1. Good(e) /\ Obeys(e) /\ now \in Nat BY InvGood
<1>2. e.q # <<>> /\ Completes(r, x) BY DEF HandleEvent
<1>3. e.q \in Seq(Events) BY <1>1 DEF Good, EngineType
<1>4. Head(e.q) \in Events /\ Tail(e.q) \in Seq(Events) BY <1>2, <1>3
<1>5. Entry.q = e.q BY <1>1 DEF Entry, Good, EngineType
<1>6. t \in EngineType BY <1>4, <1>5, EntryGood DEF Good, EngineType
<1>a. OutOfDate(e.q) BY <1>1 DEF Obeys
<1>b. OutOfDate(Tail(e.q))
  <2>1. \A i \in DOMAIN Tail(e.q) : i + 1 \in DOMAIN e.q /\ Tail(e.q)[i] = e.q[i + 1]
    BY <1>2, <1>3
  <2> QED BY <1>a, <2>1 DEF OutOfDate
<1>c. Head(e.q).revoked => ~Head(e.q).fresh
  <2>1. 1 \in DOMAIN e.q /\ Head(e.q) = e.q[1] BY <1>2, <1>3
  <2> QED BY <1>a, <2>1 DEF OutOfDate
<1>7. Honest(t) /\ Calms(Entry, t)
  BY <1>5, <1>b, EntryGood DEF Good, Honest, Shown, Kept, EngineType, Calms, Frame
<1>8. Good(t) /\ Obeys(t) BY <1>6, <1>7, EntryGood, CalmsSilent DEF Good
<1> HIDE DEF t
<1>9. /\ {Head(e.q)} \in SUBSET Events
      /\ \A ev \in {Head(e.q)} : Admitted(t, ev) => ~ev.revoked
  BY <1>4, <1>c DEF Admitted
<1>10. Good(r) /\ Obeys(r) /\ Calms(t, r) BY <1>1, <1>8, <1>9, HandleEventsGood, CalmsSilent
<1> HIDE DEF r
<1>11. Frame(e, r) BY <1>7, <1>10, EntryGood DEF Calms, Frame
<1> QED BY <1>2, <1>10, <1>11, FrameRecords, CompletesInv

(* run's tick branch.                                                       *)
LEMMA TickStep ==
  ASSUME EngineInv, NEW x \in Answers, Tick(x) PROVE EngineInv'
<1> DEFINE a == AutoResumeIfDue(Entry, x)
           b == RotateSegments(a, FALSE, x)
           s1 == ServiceStorage(b, x)
           c == RetryDueSources(s1, x)
           d == PumpDesktopActivity(c, x)
           r == FoldSourceStates(d)
<1>1. Completes(r, x) BY DEF Tick, TickOf
<1>2. now \in Nat BY InvGood
<1>3. Good(a) /\ Obeys(a) /\ Records(Entry, a, x) BY <1>2, EntryGood, AutoResumeGood
<1>a. Records(e, a, x) BY <1>3, EntryGood DEF Calms, Frame, Records
<1> HIDE DEF a
<1>4. Good(b) /\ Obeys(b) /\ Frame(a, b) BY <1>2, <1>3, RotateGood, CalmsSilent DEF Calms
<1> HIDE DEF b
<1>5. Good(s1) /\ Obeys(s1) /\ Frame(b, s1) BY <1>2, <1>4, ServiceGood, CalmsSilent DEF Calms
<1> HIDE DEF s1
<1>6. Good(c) /\ Obeys(c) /\ Frame(s1, c) BY <1>2, <1>5, RetryGood
<1> HIDE DEF c
<1>7. Good(d) /\ Obeys(d) /\ Frame(c, d) BY <1>2, <1>6, PumpGood, CalmsSilent DEF Calms
<1> HIDE DEF d
<1>8. Good(r) /\ Obeys(r) /\ Frame(d, r) BY <1>2, <1>7, FoldGood, CalmsSilent DEF Calms
<1> HIDE DEF r
<1>9. Frame(a, r) BY <1>4, <1>5, <1>6, <1>7, <1>8 DEF Frame
<1>10. Records(e, r, x) BY <1>9, <1>a, RecordsFrame
<1> QED BY <1>1, <1>8, <1>10, CompletesInv

(* new, hold_owner_pause_in and start.                                      *)
LEMMA LaunchStep ==
  ASSUME EngineInv, NEW x \in Answers, Launch(x) PROVE EngineInv'
<1>0. PICK bare \in SUBSET (e.inc \ {WindowOf(now)}) :
        /\ e' = Start(HoldOwnerPauseIn(NewEngine(e, bare, x), x), x)
        /\ up' = TRUE /\ now' = now
        /\ ack' = IF ack \in Nat /\ ack <= now THEN NoPause ELSE ack
        /\ Costs(IF Clean(x) THEN 0 ELSE 1)
  BY DEF Launch
<1> DEFINE n == NewEngine(e, bare, x)
           h == HoldOwnerPauseIn(n, x)
           s == Start(h, x)
<1>1. Good(e) /\ now \in Nat BY InvGood
<1>2. Good(n) /\ Silenced(n) /\ OutOfDate(n.q) /\ n.file = e.file BY <1>1, NewEngineGood
<1> HIDE DEF n
<1>3. /\ Good(h) /\ Silenced(h) /\ h.q = n.q
      /\ StillHeld(n.file) => h.owner = n.file /\ h.file = n.file
  BY <1>2, HoldGood
<1> HIDE DEF h
<1>4. Good(s) /\ Obeys(s) /\ Frame(h, s) BY <1>1, <1>2, <1>3, StartEngineGood
<1>5. /\ e' = s /\ up' = TRUE /\ now' = now
      /\ ack' = IF ack \in Nat /\ ack <= now THEN NoPause ELSE ack
  BY <1>0 DEF h, n
<1> HIDE DEF s
<1>6. trouble' \in 0..MaxTrouble BY <1>0, CostsType DEF EngineInv, TypeOK
<1>7. TypeOK'
  <2>1. NoPause \in Pauses BY DEF Pauses
  <2> QED BY <1>4, <1>5, <1>6, <2>1 DEF TypeOK, EngineInv, Good
<1>8. ASSUME ack' # NoPause PROVE e'.file = ack' /\ e'.owner = ack'
  <2>1. ack' = ack /\ ack # NoPause /\ ~(ack \in Nat /\ ack <= now) BY <1>5, <1>8
  <2>2. n.file = ack BY <1>2, <2>1 DEF EngineInv, AckHeld
  <2>3. StillHeld(n.file) BY <2>1, <2>2 DEF StillHeld
  <2> QED BY <1>3, <1>4, <1>5, <2>1, <2>2, <2>3 DEF Frame
<1>9. AckHeld' BY <1>8 DEF AckHeld
<1> QED BY <1>4, <1>5, <1>7, <1>9 DEF EngineInv, Good

(* The process goes.                                                        *)
LEMMA GoesStep ==
  ASSUME EngineInv, NEW s, Good(s), s.file = e.file, Goes(s), Costs(1) PROVE EngineInv'
<1>1. /\ Good(Forget(s)) /\ Silenced(Forget(s))
      /\ Forget(s).q = <<>> /\ Forget(s).file = e.file
  BY ForgetGood
<1>2. e' = Forget(s) /\ up' = FALSE /\ now' = now /\ ack' = ack BY DEF Goes
<1>3. trouble' \in 0..MaxTrouble BY CostsType DEF EngineInv, TypeOK
<1>4. TypeOK' BY <1>1, <1>2, <1>3 DEF TypeOK, EngineInv, Good
<1>5. Obeys(Forget(s)) BY <1>1 DEF Obeys, OutOfDate
<1>6. AckHeld' BY <1>1, <1>2 DEF EngineInv, AckHeld
<1> QED BY <1>1, <1>2, <1>4, <1>5, <1>6 DEF EngineInv, Good

(* Shutdown and crashes.                                                    *)
LEMMA EndStep ==
  ASSUME EngineInv, NEW x \in Answers, Stop(x) \/ Crash \/ CrashBeforeRecord(x) PROVE EngineInv'
<1>1. CASE Stop(x)
  <2>1. Good(StopEngine(Entry, x)) /\ StopEngine(Entry, x).file = e.file
    BY EntryGood, InvGood, StopEngineGood DEF Calms, Frame
  <2> QED BY <1>1, <2>1, GoesStep DEF Stop
<1>2. CASE Crash BY <1>2, InvGood, GoesStep DEF Crash
<1>3. CASE CrashBeforeRecord(x)
  <2>1. PICK c \in PauseCommands(Prepared(x)) \cup ResumeCommands(Prepared(x)) :
          Goes(Settle(Prepared(x), c, x)) /\ Costs(1)
    BY <1>3 DEF CrashBeforeRecord
  <2>2. Good(Settle(Prepared(x), c, x)) /\ Settle(Prepared(x), c, x).file = e.file
    BY SettledGood
  <2> QED BY <2>1, <2>2, GoesStep
<1> QED BY <1>1, <1>2, <1>3

(* Steps of the other threads.                                              *)
LEMMA ExternalInv ==
  ASSUME EngineInv, NEW n \in {0, 1}, e' \in EngineType, Honest(e'), Obeys(e'),
         Frame(Entry, e'), External, Costs(n)
  PROVE  EngineInv'
<1>1. trouble' \in 0..MaxTrouble BY CostsType DEF EngineInv, TypeOK
<1>2. e'.owner = e.owner /\ e'.file = e.file BY EntryGood DEF Calms, Frame
<1>3. AckHeld' BY <1>2 DEF EngineInv, AckHeld, External
<1> QED BY <1>1, <1>3 DEF EngineInv, TypeOK, External

(* A source worker's report: only a running source has one.                 *)
LEMMA WorkerStep ==
  ASSUME EngineInv, NEW k \in Media, WorkerReports(k) PROVE EngineInv'
<1>1. PICK st \in WorkerStates(k) \ {e.dev[k]} : e' = [Entry EXCEPT !.dev[k] = st]
  BY DEF WorkerReports
<1> DEFINE dev == [Entry.dev EXCEPT ![k] = st]
           t == [Entry EXCEPT !.dev = dev]
<1>2. k \in Kinds BY DEF Media
<1>3. st \in Devices
  BY EngineAssumption DEF EngineAssumption, WorkerStates, Devices
<1>4. dev \in [Kinds -> Devices] BY <1>3, EntryGood DEF Good, EngineType
<1>5. e' = t BY <1>1, EntryGood DEF Good, EngineType
<1> HIDE DEF dev
<1>6. t \in EngineType BY <1>4, EntryGood DEF Good, EngineType
<1>7. Honest(t) /\ Frame(Entry, t) BY EntryGood DEF Good, Honest, Shown, Kept, EngineType, Frame
<1>8. ~IsPaused(Entry)
  <2>1. Entry.dev[k] = e.dev[k] BY InvGood DEF Entry, Good, EngineType
  <2>2. e.dev[k] # "Off" BY DEF WorkerReports, Running
  <2> QED BY <2>1, <2>2, EntryGood DEF Obeys, Silenced
<1>9. Obeys(t) BY <1>7, <1>8, EntryGood, AwakeSilent DEF Obeys
<1> HIDE DEF t
<1> QED BY <1>5, <1>6, <1>7, <1>9, ExternalInv DEF WorkerReports

(* A chunk or frame enters the channel.                                     *)
LEMMA EmitStep ==
  ASSUME EngineInv, NEW k \in Media, Emit(k) PROVE EngineInv'
<1> DEFINE ev == [kind |-> k, fresh |-> TRUE, revoked |-> FALSE]
           q == Append(Entry.q, ev)
           t == [Entry EXCEPT !.q = q]
<1>1. e' = t BY DEF Emit
<1>2. ev \in Events BY DEF Events
<1>a. ~ev.revoked OBVIOUS
<1> HIDE DEF ev
<1>b. Entry.q \in Seq(Events) BY EntryGood DEF Good, EngineType
<1>3. q \in Seq(Events) BY <1>2, <1>b
<1>c. OutOfDate(Entry.q) => OutOfDate(q)
  <2>1. \A i \in DOMAIN q : q[i] = ev \/ (i \in DOMAIN Entry.q /\ q[i] = Entry.q[i])
    BY <1>b, <1>2
  <2> HIDE DEF q
  <2> QED BY <1>a, <2>1 DEF OutOfDate
<1> HIDE DEF q
<1>4. t \in EngineType BY <1>3, EntryGood DEF Good, EngineType
<1>5. Honest(t) /\ Calms(Entry, t)
  BY <1>c, EntryGood DEF Good, Honest, Shown, Kept, EngineType, Calms, Frame
<1>6. Obeys(t) BY <1>5, EntryGood, CalmsSilent
<1> HIDE DEF t
<1> QED BY <1>1, <1>4, <1>5, <1>6, ExternalInv DEF Emit, Calms

(* begin_stream.                                                            *)
LEMMA StreamStep ==
  ASSUME EngineInv, NEW k \in Media, BeginStream(k) PROVE EngineInv'
<1> DEFINE t == BumpGeneration(Entry, {k})
<1>1. e' = t BY DEF BeginStream
<1>2. Good(t) /\ Calms(Entry, t) BY EntryGood, BumpGood
<1>3. Obeys(t) BY <1>2, EntryGood, CalmsSilent
<1> HIDE DEF t
<1> QED BY <1>1, <1>2, <1>3, ExternalInv DEF BeginStream, Good, Calms

(* The encoder, the session and the policy file.                            *)
LEMMA WorldStep ==
  ASSUME EngineInv, EncoderFails \/ EligibilityChanges \/ PolicyChanges PROVE EngineInv'
<1> DEFINE nel == ~Entry.eligible
           npol == ~Entry.policy
           a == [Entry EXCEPT !.encErr = TRUE]
           b == [Entry EXCEPT !.eligible = nel]
           c == [Entry EXCEPT !.policy = npol]
<1>1. e' \in {a, b, c} BY DEF EncoderFails, EligibilityChanges, PolicyChanges
<1>a. nel \in BOOLEAN /\ npol \in BOOLEAN OBVIOUS
<1> HIDE DEF nel, npol
<1>2. a \in EngineType BY EntryGood DEF Good, EngineType
<1>3. b \in EngineType BY <1>a, EntryGood DEF Good, EngineType
<1>4. c \in EngineType BY <1>a, EntryGood DEF Good, EngineType
<1>5. Honest(a) /\ Calms(Entry, a) BY EntryGood DEF Good, Honest, Shown, Kept, EngineType, Calms, Frame
<1>6. Honest(b) /\ Calms(Entry, b) BY EntryGood DEF Good, Honest, Shown, Kept, EngineType, Calms, Frame
<1>7. Honest(c) /\ Calms(Entry, c) BY EntryGood DEF Good, Honest, Shown, Kept, EngineType, Calms, Frame
<1> HIDE DEF a, b, c
<1>8. e' \in EngineType /\ Honest(e') /\ Calms(Entry, e') BY <1>1, <1>2, <1>3, <1>4, <1>5, <1>6, <1>7
<1>9. Obeys(e') BY <1>8, EntryGood, CalmsSilent
<1>10. External /\ \E n \in {0, 1} : Costs(n) BY DEF EncoderFails, EligibilityChanges, PolicyChanges
<1> QED BY <1>8, <1>9, <1>10, ExternalInv DEF Calms

(* The clock.                                                               *)
LEMMA ClockStep ==
  ASSUME EngineInv, Advance \/ ClockStepsBack PROVE EngineInv'
<1>1. e' = Entry /\ up' = up /\ ack' = ack BY DEF Advance, ClockStepsBack
<1>2. now' \in Nat BY InvGood, EngineAssumption DEF EngineAssumption, Advance, ClockStepsBack
<1>3. trouble' \in 0..MaxTrouble
  <2>1. CASE Advance BY <2>1 DEF Advance, EngineInv, TypeOK
  <2>2. CASE ClockStepsBack BY <2>2, CostsType DEF ClockStepsBack, EngineInv, TypeOK
  <2> QED BY <2>1, <2>2
<1>4. AckHeld' BY <1>1, EntryGood DEF EngineInv, AckHeld, Calms, Frame
<1> QED BY <1>1, <1>2, <1>3, <1>4, EntryGood DEF EngineInv, TypeOK, Good

(* The invariant holds initially.                                           *)
LEMMA EngineInit == Init => EngineInv
<1> SUFFICES ASSUME Init PROVE EngineInv OBVIOUS
<1>1. PICK on \in [Kinds -> BOOLEAN], allowed \in BOOLEAN, through \in BOOLEAN :
        e = FreshEngine(on, allowed, through, {}, {}, NoPause)
  BY DEF Init
<1>2. NoPause \in Pauses BY DEF Pauses
<1>3. Good(e) /\ Silenced(e) BY <1>1, <1>2, FreshGood
<1>4. MaxTrouble \in Nat BY EngineAssumption DEF EngineAssumption
<1>a. now = 0 /\ up = FALSE /\ ack = NoPause /\ trouble = 0 BY DEF Init
<1>b. e \in EngineType BY <1>3 DEF Good
<1>c. now \in Nat /\ trouble \in 0..MaxTrouble BY <1>4, <1>a
<1>d. up \in BOOLEAN /\ ack \in Pauses BY <1>2, <1>a
<1>5. TypeOK BY <1>b, <1>c, <1>d DEF TypeOK
<1>6. OutOfDate(e.q) BY <1>1 DEF FreshEngine, OutOfDate
<1>7. AckHeld BY <1>a DEF AckHeld
<1> QED BY <1>3, <1>5, <1>6, <1>7 DEF EngineInv, Good, Obeys

(* Every step keeps the invariant, one case per action.                     *)
LEMMA EngineStep == EngineInv /\ [Next]_vars => EngineInv'
<1> SUFFICES ASSUME EngineInv, [Next]_vars PROVE EngineInv' OBVIOUS
<1>1. ASSUME NEW x \in CommandAnswers, Command(x) PROVE EngineInv'
  <2>1. x \in Answers BY AnswerKinds
  <2>2. CASE Pause(x) \/ Resume(x) \/ TogglePause(x) BY <2>1, <2>2, PausingStep
  <2>3. CASE DisplayChanged(x) BY <2>1, <2>3, DisplayStep
  <2>4. CASE \E k \in Kinds, b \in BOOLEAN : SetSourceEnabled(k, b, x) BY <2>1, <2>4, SwitchStep
  <2>5. CASE \E b \in BOOLEAN : SetDesktopActivityThroughPause(b, x)
    <3>1. Activity \in Kinds BY EngineAssumption DEF EngineAssumption, Activity
    <3> QED BY <2>1, <2>5, <3>1, SwitchStep
  <2>6. CASE SetDesktopActivityPreferences(x) BY <2>6, PreferenceStep
  <2> QED BY <1>1, <2>2, <2>3, <2>4, <2>5, <2>6 DEF Command
<1>2. ASSUME NEW x \in CommandAnswers, Launch(x) PROVE EngineInv'
  BY <1>2, AnswerKinds, LaunchStep
<1>3. ASSUME NEW x \in CommandAnswers, CrashBeforeRecord(x) PROVE EngineInv'
  BY <1>3, AnswerKinds, EndStep
<1>4. ASSUME NEW x \in EventAnswers, HandleEvent(x) PROVE EngineInv'
  BY <1>4, EventStep
<1>5. ASSUME NEW x \in EventAnswers, Stop(x) PROVE EngineInv'
  BY <1>5, AnswerKinds, EndStep
<1>6. ASSUME NEW x \in Answers, Tick(x) PROVE EngineInv'
  BY <1>6, TickStep
<1>7. CASE Crash BY <1>7, InvGood, GoesStep DEF Crash
<1>8. CASE Environment
  BY <1>8, WorkerStep, EmitStep, StreamStep, WorldStep, ClockStep DEF Environment
<1>9. CASE UNCHANGED vars
  BY <1>9 DEF vars, EngineInv, TypeOK, AckHeld
<1> QED BY <1>1, <1>2, <1>3, <1>4, <1>5, <1>6, <1>7, <1>8, <1>9 DEF Next

(***************************************************************************)
(* Every reachable state of the engine satisfies the invariant, whatever    *)
(* fails and in whatever order.                                             *)
(***************************************************************************)
THEOREM EngineInvariant == Spec => []EngineInv
  BY EngineInit, EngineStep, PTL DEF Spec

(***************************************************************************)
(* The engine's state, its retry and storage counters included, stays in    *)
(* its type.                                                                *)
(***************************************************************************)
THEOREM TypeCorrect == Spec => []TypeOK
<1>1. EngineInv => TypeOK BY DEF EngineInv
<1> QED BY <1>1, EngineInvariant, PTL

(***************************************************************************)
(* Whatever the disk refuses, the storage fault is raised as long as a      *)
(* seal, an activity row or a stalled write is owed to it.                  *)
(***************************************************************************)
THEOREM StorageIsHonest == Spec => []StorageHonest
<1>1. EngineInv => StorageHonest BY DEF EngineInv, Honest, Shown, Kept, StorageHonest
<1> QED BY <1>1, EngineInvariant, PTL

(***************************************************************************)
(* No media source runs while the phase is Paused: no command, retry,       *)
(* switch, display change, tick or launch starts one.                       *)
(***************************************************************************)
THEOREM PauseIsSilent == Spec => []PausedIsSilent
<1>1. EngineInv => PausedIsSilent BY PhasePaused DEF EngineInv, Obeys, Silenced, PausedIsSilent
<1> QED BY <1>1, EngineInvariant, PTL

(***************************************************************************)
(* Every seal still owed, and the open segment, has its incomplete          *)
(* directory: no rotation, retry, clock step or relaunch loses track of one.*)
(***************************************************************************)
THEOREM OwedExist == Spec => []OwedSegmentsExist
<1>1. EngineInv => OwedSegmentsExist BY DEF EngineInv, Honest, Kept, OwedSegmentsExist
<1> QED BY <1>1, EngineInvariant, PTL

(***************************************************************************)
(* No handler writes to a segment what was captured before a pause, or      *)
(* before its source was turned off: the drain of a pause finds every media *)
(* source stopped, and a source turned off has its generation bumped.       *)
(***************************************************************************)
THEOREM RevokedIsNotWritten == Spec => []NoRevokedWrite
<1>1. EngineInv => NoRevokedWrite BY DEF EngineInv, Honest, Kept, NoRevokedWrite
<1> QED BY <1>1, EngineInvariant, PTL

(***************************************************************************)
(* An owner pause shown as recorded holds through failed writes, crashes at *)
(* any point of a pause command, restarts and clock steps, until the owner  *)
(* ends it or its deadline passes.                                          *)
(***************************************************************************)
THEOREM OwnerPauseIsKept == Spec => []OwnerPauseHolds
<1>1. EngineInv => OwnerPauseHolds
  <2> SUFFICES ASSUME EngineInv, up, ack # NoPause PROVE Phase(e) = "Paused" /\ Silenced(e)
    BY DEF OwnerPauseHolds, Silenced
  <2>1. e.owner # NoPause BY DEF EngineInv, AckHeld
  <2> QED BY <2>1, PhasePaused DEF EngineInv, Obeys, IsPaused
<1> QED BY <1>1, EngineInvariant, PTL

----------------------------------------------------------------------------
(* What a tick does to a source that was given up.                          *)

(* The two fields that matter, of a record of any other shape.              *)
Fields(s) ==
  /\ {"dev", "fails"} \subseteq DOMAIN s
  /\ DOMAIN s.dev = Kinds /\ s.fails \in [Kinds -> Nat]

(* From s to t the workers of the media sources and the open breakers stay. *)
Leaves(s, t) ==
  /\ Fields(t)
  /\ \A k \in Media : t.dev[k] = s.dev[k] /\ (BreakerOpen(s.fails[k]) => BreakerOpen(t.fails[k]))

LEMMA GoodFields == ASSUME NEW s, Good(s) PROVE Fields(s)
  BY LifecycleAssumption DEF Good, EngineType, Fields, FailureCounts, LifecycleAssumption

LEMMA LeavesTrans == ASSUME NEW s, NEW t, NEW u, Leaves(s, t), Leaves(t, u) PROVE Leaves(s, u)
  BY DEF Leaves

(* The storage fault, and the rows.                                         *)
LEMMA FaultLeaves ==
  ASSUME NEW s, Fields(s)
  PROVE  Leaves(s, s) /\ Leaves(s, NoteStorageFault(s)) /\ Leaves(s, ClearStorageFault(s))
         /\ Leaves(s, AttemptClearStorage(s))
  BY DEF Fields, Leaves, NoteStorageFault, ClearStorageFault, AttemptClearStorage

LEMMA FlushLeaves ==
  ASSUME NEW s, Fields(s), NEW x
  PROVE  Leaves(s, FlushActivityQueue(s, x))
<1> DEFINE written == {i \in DOMAIN s.rows : \A j \in 1..i : Appendable(s, s.rows[j], x)}
           rows == SubSeq(s.rows, Cardinality(written) + 1, Len(s.rows))
           inc == s.inc \cup {s.rows[i] : i \in written}
           t == [s EXCEPT !.rows = rows, !.inc = inc]
<1>1. FlushActivityQueue(s, x) \in {s, AttemptClearStorage(t), NoteStorageFault(t)}
  BY DEF FlushActivityQueue
<1> HIDE DEF rows, inc
<1>2. Leaves(s, t) BY DEF Fields, Leaves
<1> HIDE DEF t
<1> QED BY <1>1, <1>2, FaultLeaves, LeavesTrans DEF Leaves

LEMMA IntervalLeaves ==
  ASSUME NEW s, Fields(s), NEW at, NEW x
  PROVE  Leaves(s, CloseInterval(s, at, x))
<1> DEFINE a == [s EXCEPT !.act = at]
           rows == Append(a.rows, WindowOf(s.act))
           b == [a EXCEPT !.rows = rows]
<1>1. CloseInterval(s, at, x) \in {s, FlushActivityQueue(b, x)}
  BY DEF CloseInterval, AppendActivityRow
<1>2. Leaves(s, a) BY DEF Fields, Leaves
<1> HIDE DEF a, rows
<1>3. Leaves(a, b) BY <1>2 DEF Fields, Leaves
<1> HIDE DEF b
<1> QED BY <1>1, <1>2, <1>3, FaultLeaves, FlushLeaves, LeavesTrans DEF Leaves

(* An encoder error only adds a failure.                                    *)
LEMMA EncoderErrorLeaves ==
  ASSUME NEW s, Fields(s)
  PROVE  Leaves(s, ApplyEncoderError(s))
<1> DEFINE reps == [s.rep EXCEPT !["Screen"] = "Faulted"]
           failed(k) == reps[k] = "Faulted" /\ (k \in {} \/ s.rep[k] \notin Faulty)
           recovered(k) == s.rep[k] \in Faulty /\ reps[k] \notin Faulty
           fails == [k \in Kinds |-> IF failed(k) THEN OnFailure(s.fails[k])
                                     ELSE IF recovered(k) THEN OnSuccess ELSE s.fails[k]]
           retry == [k \in Kinds |-> IF failed(k)
                                     THEN IF BreakerOpen(OnFailure(s.fails[k])) THEN None
                                          ELSE now + CurrentBackoff(OnFailure(s.fails[k]))
                                     ELSE IF recovered(k) THEN None ELSE s.retry[k]]
           t == [s EXCEPT !.rep = reps, !.fails = fails, !.retry = retry]
<1>1. ApplyEncoderError(s) \in {s, t}
  BY DEF ApplyEncoderError, ApplySourceReport, ApplyReports
<1>2. \A k \in Kinds : ~recovered(k) BY DEF Faulty
<1> HIDE DEF failed, recovered
<1>3. \A k \in Kinds : /\ OnFailure(s.fails[k]) \in Nat
                       /\ BreakerOpen(s.fails[k]) => BreakerOpen(OnFailure(s.fails[k]))
  BY LifecycleAssumption DEF LifecycleAssumption, Fields, OnFailure, BreakerOpen
<1>4. /\ fails \in [Kinds -> Nat]
      /\ \A k \in Kinds : BreakerOpen(s.fails[k]) => BreakerOpen(fails[k])
  BY <1>2, <1>3 DEF Fields
<1> HIDE DEF fails, retry, reps
<1>5. Leaves(s, t) BY <1>4 DEF Fields, Leaves, Media
<1> HIDE DEF t
<1> QED BY <1>1, <1>5, FaultLeaves

(* Opening and sealing.                                                     *)
LEMMA OpenLeaves ==
  ASSUME NEW s, Fields(s), NEW k, NEW x
  PROVE  Leaves(s, OpenSegmentKey(s, k, x))
<1> DEFINE a == [s EXCEPT !.inc = s.inc \cup {k}]
           b == [a EXCEPT !.seg = k, !.encOpen = FALSE]
           c == FlushActivityQueue(b, x)
<1>1. OpenSegmentKey(s, k, x) \in {s, NoteStorageFault(s), AttemptClearStorage(c)}
  BY DEF OpenSegmentKey, AttachSegment
<1>2. Leaves(s, b) BY DEF Fields, Leaves
<1> HIDE DEF b
<1>3. Leaves(b, c) BY <1>2, FlushLeaves DEF Leaves
<1> HIDE DEF c
<1>4. Leaves(s, c) BY <1>2, <1>3, LeavesTrans
<1> QED BY <1>1, <1>4, FaultLeaves, LeavesTrans DEF Leaves

LEMMA SealLeaves ==
  ASSUME NEW s, Fields(s), NEW k, NEW x
  PROVE  Leaves(s, SealSegment(s, k, x))
<1> DEFINE t == [s EXCEPT !.seg = None, !.encOpen = FALSE]
           p == [t EXCEPT !.encErr = TRUE]
           q == [t EXCEPT !.pending = t.pending \cup {k}]
           r == [t EXCEPT !.pending = t.pending \ {k}, !.inc = t.inc \ {k}, !.sealed = t.sealed \cup {k}]
<1>1. SealSegment(s, k, x) \in {ApplyEncoderError(p), NoteStorageFault(q), AttemptClearStorage(r)}
  BY DEF SealSegment
<1>2. Leaves(s, t) BY DEF Fields, Leaves
<1> HIDE DEF t
<1>3. Leaves(t, p) /\ Leaves(t, q) /\ Leaves(t, r) BY <1>2 DEF Fields, Leaves
<1> HIDE DEF p, q, r
<1>4. Leaves(s, p) /\ Leaves(s, q) /\ Leaves(s, r) BY <1>2, <1>3, LeavesTrans
<1>5. Leaves(p, ApplyEncoderError(p)) BY <1>4, EncoderErrorLeaves DEF Leaves
<1>6. Leaves(q, NoteStorageFault(q)) BY <1>4, FaultLeaves DEF Leaves
<1>7. Leaves(r, AttemptClearStorage(r)) BY <1>4, FaultLeaves DEF Leaves
<1> QED BY <1>1, <1>4, <1>5, <1>6, <1>7, LeavesTrans

LEMMA StopActivityLeaves ==
  ASSUME NEW s, Fields(s), NEW d
  PROVE  Leaves(s, [s EXCEPT !.dev[Activity] = d])
<1> DEFINE dev == [s.dev EXCEPT ![Activity] = d]
<1>1. DOMAIN dev = Kinds /\ \A k \in Media : dev[k] = s.dev[k] BY DEF Fields, Media
<1>2. [s EXCEPT !.dev[Activity] = d] = [s EXCEPT !.dev = dev] BY DEF Fields
<1> HIDE DEF dev
<1> QED BY <1>1, <1>2 DEF Fields, Leaves

(* rotate_segments: the activity probe is the one worker that it may stop.  *)
LEMMA RotateLeaves ==
  ASSUME NEW s, Fields(s), NEW closing, NEW x
  PROVE  Leaves(s, RotateSegments(s, closing, x))
<1>1. ASSUME NEW t, Fields(t), NEW k, NEW n PROVE Leaves(t, OpenNext(SealSegment(t, k, x), n, closing, x))
  <2>1. Leaves(t, SealSegment(t, k, x)) BY <1>1, SealLeaves
  <2>2. Fields(SealSegment(t, k, x)) BY <2>1 DEF Leaves
  <2>3. Leaves(SealSegment(t, k, x), OpenNext(SealSegment(t, k, x), n, closing, x))
    BY <2>2, OpenLeaves, FaultLeaves DEF OpenNext
  <2> QED BY <2>1, <2>3, LeavesTrans
<1>2. ASSUME NEW t, Fields(t) PROVE Leaves(t, RotateOnce(t, closing, x))
  <2> DEFINE a == CloseAll(t, x)
             b == StopActivityDevice(a)
             c == OnBoundary(t, StartOf(t.seg + 1), x)
  <2>1. Leaves(t, a) /\ Leaves(t, c) BY <1>2, IntervalLeaves DEF CloseAll, OnBoundary
  <2>2. Leaves(a, b) BY <2>1, StopActivityLeaves DEF Leaves, StopActivityDevice
  <2>3. RotateOnce(t, closing, x) \in
          {t, OpenNext(SealSegment(b, t.seg, x), WindowOf(now), closing, x),
              OpenNext(SealSegment(c, t.seg, x), t.seg + 1, closing, x)}
    BY DEF RotateOnce, RotateOpen
  <2> HIDE DEF a, b, c
  <2>4. Leaves(t, b) BY <2>1, <2>2, LeavesTrans
  <2>5. Fields(b) /\ Fields(c) BY <2>1, <2>4 DEF Leaves
  <2>6. /\ Leaves(b, OpenNext(SealSegment(b, t.seg, x), WindowOf(now), closing, x))
        /\ Leaves(c, OpenNext(SealSegment(c, t.seg, x), t.seg + 1, closing, x))
    BY <1>1, <2>5
  <2>7. Leaves(t, t) BY <1>2, FaultLeaves
  <2> QED BY <2>1, <2>3, <2>4, <2>6, <2>7, LeavesTrans
<1>3. Leaves(s, RotateOnce(s, closing, x)) BY <1>2
<1>4. Fields(RotateOnce(s, closing, x)) BY <1>3 DEF Leaves
<1>5. Leaves(RotateOnce(s, closing, x), RotateOnce(RotateOnce(s, closing, x), closing, x)) BY <1>2, <1>4
<1> QED BY <1>3, <1>5, LeavesTrans DEF RotateSegments

(* service_storage.                                                         *)
LEMMA ServiceLeaves ==
  ASSUME NEW s, Fields(s), NEW x
  PROVE  Leaves(s, ServiceStorage(s, x))
<1> DEFINE a == FlushActivityQueue(s, x)
           b == RetrySeals(a, x)
           c == RetryOpen(b, x)
           n == IF c.sfails < StorageCap THEN c.sfails + 1 ELSE StorageCap
           d == [c EXCEPT !.sfails = n, !.sretry = now + CurrentBackoff(n)]
<1>1. ServiceStorage(s, x) \in {s, ClearStorageFault(s), ClearStorageFault(c), d}
  BY DEF ServiceStorage, ConcludeStorage, RetryStorage, BackOffStorage
<1>2. Leaves(s, a) BY FlushLeaves
<1> HIDE DEF a, n
<1>3. Leaves(a, b)
  <2> DEFINE tried == a.pending \ ({a.seg} \cup RangeOf(a.rows))
             done == tried \ x.stuck
             f == a.fault \/ tried \cap x.stuck # {}
             t == [a EXCEPT !.pending = a.pending \ done, !.inc = a.inc \ done, !.sealed = a.sealed \cup done,
                            !.fault = f]
  <2>1. b = t BY DEF RetrySeals
  <2> HIDE DEF b, done, f
  <2>2. Leaves(a, t) BY <1>2 DEF Fields, Leaves
  <2> QED BY <2>1, <2>2
<1> HIDE DEF b
<1>4. Leaves(b, c) BY <1>3, OpenLeaves, FaultLeaves DEF RetryOpen, Leaves
<1> HIDE DEF c
<1>5. Leaves(c, d) /\ Leaves(c, ClearStorageFault(c)) BY <1>4, FaultLeaves DEF Fields, Leaves
<1> HIDE DEF d
<1> QED BY <1>1, <1>2, <1>3, <1>4, <1>5, FaultLeaves, LeavesTrans

(* Only workers.                                                            *)
Alive(s, t, K) ==
  /\ "dev" \in DOMAIN t /\ DOMAIN t.dev = Kinds
  /\ \A k \in Media \ K : t.dev[k] = s.dev[k]

(* start_source touches no other source.                                    *)
LEMMA StartAlive ==
  ASSUME NEW s, Fields(s), NEW K, NEW x
  PROVE  Alive(s, StartSources(s, K, x), K)
<1> DEFINE started == K \cap Enabled(s)
           failed == {k \in started : x.start[k] \in {"Err", "ErrInactive"}}
           begun == started \ failed
           device(k) == IF k = Activity THEN ActivityStart(s, x)
                        ELSE IF x.start[k] = "Err" THEN "Faulted"
                        ELSE IF x.start[k] = "ErrInactive" THEN "FailedStart" ELSE x.start[k]
           dev == [k \in Kinds |-> IF k \in started THEN device(k) ELSE s.dev[k]]
           retry == [k \in Kinds |-> IF k \in begun THEN None ELSE s.retry[k]]
           fails == [k \in Kinds |-> IF k \in begun THEN OnSuccess ELSE s.fails[k]]
           reps == [k \in Kinds |-> IF k \in failed THEN "Faulted" ELSE s.rep[k]]
           b == BumpGeneration(s, started)
           t == [b EXCEPT !.dev = dev, !.retry = retry, !.fails = fails]
<1>1. StartSources(s, K, x) = ApplyReports(t, reps, failed) BY DEF StartSources
<1>2. DOMAIN dev = Kinds /\ \A k \in Media \ K : dev[k] = s.dev[k]
  <2> HIDE DEF device
  <2> QED BY DEF Media
<1>3. "dev" \in DOMAIN b BY DEF BumpGeneration, Fields
<1> HIDE DEF dev, retry, fails, reps, b, failed
<1>4. "dev" \in DOMAIN t /\ t.dev = dev BY <1>3
<1> HIDE DEF t
<1>5. LET r == ApplyReports(t, reps, failed) IN "dev" \in DOMAIN r /\ r.dev = t.dev
  BY <1>4 DEF ApplyReports
<1> QED BY <1>1, <1>2, <1>4, <1>5 DEF Alive

(* retry_due_sources restarts only what is due.                             *)
LEMMA RetryAlive ==
  ASSUME NEW s, Good(s), NEW x \in Answers, now \in Nat
  PROVE  LET r == RetryDueSources(s, x)
         IN  \A k \in Media : s.retry[k] = None => r.dev[k] = s.dev[k]
<1> DEFINE due == {k \in Kinds : s.retry[k] # None /\ s.retry[k] <= now}
           K == due \cap Enabled(s)
           M == K \ {Activity}
           retry == [k \in Kinds |-> IF k \in due THEN None ELSE s.retry[k]]
           s1 == [s EXCEPT !.retry = retry]
           a == BumpGeneration(s1, M)
           b == StopDevices(a, M)
           s2 == StartSources(b, M, x)
           p == StopSources(s2, {Activity}, x)
           s3 == StartSources(p, {Activity}, x)
<1>1. RetryDueSources(s, x) \in {s, s2, s3}
  BY DEF RetryDueSources, RestartMedia, RestartActivity
<1>2. Good(s1)
  <2>1. retry \in [Kinds -> Nat \cup {None}]
    <3> HIDE DEF due
    <3> QED BY DEF Good, EngineType
  <2>2. \A k \in Kinds : BreakerOpen(s.fails[k]) => retry[k] = None BY DEF Good, Honest, Kept
  <2> HIDE DEF retry
  <2>3. s1 \in EngineType BY <2>1 DEF Good, EngineType
  <2>4. Honest(s1) BY <2>2 DEF Good, Honest, Shown, Kept, EngineType
  <2> QED BY <2>3, <2>4 DEF Good
<1>3. s1.dev = s.dev BY DEF Good, EngineType
<1>4. \A k \in Media : s.retry[k] = None => k \notin M BY DEF Media
<1> HIDE DEF s1, M
<1>5. Good(a) /\ a.dev = s1.dev BY <1>2, BumpGood
<1> HIDE DEF a
<1>6. Good(b) BY <1>5, StopDevicesGood
<1>7. \A k \in Media \ M : b.dev[k] = a.dev[k]
  <2>1. b.dev = [k \in Kinds |-> IF k \in M THEN "Off" ELSE a.dev[k]]
    BY <1>5 DEF StopDevices, Good, EngineType
  <2> QED BY <2>1 DEF Media
<1> HIDE DEF b
<1>8. Good(s2) BY <1>6, StartGood
<1>9. \A k \in Media \ M : s2.dev[k] = b.dev[k] BY <1>6, GoodFields, StartAlive DEF Alive
<1> HIDE DEF s2
<1>10. Leaves(s2, p)
  <2> DEFINE c == StopDevices(BumpGeneration(s2, {Activity}), {})
             d == EnsureSegmentForNow(c, x)
             f == CloseAll(d, x)
  <2>1. p = StopActivityDevice(f)
    <3>1. {Activity} \ {Activity} = {} OBVIOUS
    <3> QED BY <3>1 DEF StopSources
  <2> DEFINE g == BumpGeneration(s2, {Activity})
  <2>2. Good(g) /\ g.dev = s2.dev BY <1>8, BumpGood
  <2>3. Leaves(s2, c)
    <3>1. g.fails = s2.fails BY <1>8 DEF BumpGeneration, Good, EngineType
    <3>2. Fields(g) BY <2>2, GoodFields
    <3> HIDE DEF g
    <3>3. [g EXCEPT !.dev = [k \in Kinds |-> IF k \in {} THEN "Off" ELSE g.dev[k]]] = StopDevices(g, {})
      BY DEF StopDevices
    <3> QED BY <2>2, <3>1, <3>2, <3>3 DEF Leaves, Fields, Media, g
  <2> HIDE DEF g, c
  <2>4. Leaves(c, d)
    <3> DEFINE r == RotateSegments(c, FALSE, x)
    <3>1. d = OpenSegmentKey(r, WindowOf(now), x) BY DEF EnsureSegmentForNow
    <3>2. Fields(c) BY <2>3 DEF Leaves
    <3>3. Leaves(c, r) BY <3>2, RotateLeaves
    <3> HIDE DEF r
    <3>4. Leaves(r, OpenSegmentKey(r, WindowOf(now), x)) BY <3>3, OpenLeaves DEF Leaves
    <3> QED BY <3>1, <3>3, <3>4, LeavesTrans
  <2> HIDE DEF d
  <2>5. Leaves(d, f) BY <2>4, IntervalLeaves DEF Leaves, CloseAll
  <2> HIDE DEF f
  <2>6. Leaves(f, StopActivityDevice(f)) BY <2>5, StopActivityLeaves DEF Leaves, StopActivityDevice
  <2> QED BY <2>1, <2>3, <2>4, <2>5, <2>6, LeavesTrans
<1> HIDE DEF p
<1>11. \A k \in Media : s3.dev[k] = p.dev[k] BY <1>10, StartAlive DEF Alive, Leaves, Media
<1> HIDE DEF s3
<1> QED BY <1>1, <1>3, <1>4, <1>5, <1>7, <1>9, <1>10, <1>11 DEF Leaves

(* The activity pump starts no media source.                                *)
LEMMA PumpLeaves ==
  ASSUME NEW s, Fields(s), NEW x
  PROVE  Leaves(s, PumpDesktopActivity(s, x))
<1> DEFINE t == [s EXCEPT !.dev[Activity] = ActivityStart(s, x)]
           u == IF ActivityActive(s) THEN s ELSE t
<1>1. Leaves(s, t) /\ Leaves(s, s) BY StopActivityLeaves, FaultLeaves
<1>2. PumpDesktopActivity(s, x) \in {s, [u EXCEPT !.act = now], CloseInterval(u, now, x), u}
  BY DEF PumpDesktopActivity
<1> HIDE DEF t
<1>3. Leaves(s, u) BY <1>1
<1> HIDE DEF u
<1>4. Leaves(u, [u EXCEPT !.act = now]) BY <1>3 DEF Leaves, Fields
<1>5. Leaves(u, CloseInterval(u, now, x)) BY <1>3, IntervalLeaves DEF Leaves
<1> QED BY <1>1, <1>2, <1>3, <1>4, <1>5, LeavesTrans

(* A tick leaves alone a source that was given up.                          *)
LEMMA TickGivesUp ==
  ASSUME EngineInv, NEW x \in Answers, Tick(x), NEW k \in Media,
         BreakerOpen(e.fails[k]), e.dev[k] = "Faulted"
  PROVE  e'.dev[k] = "Faulted"
<1> DEFINE a == AutoResumeIfDue(Entry, x)
           b == RotateSegments(a, FALSE, x)
           s1 == ServiceStorage(b, x)
           c == RetryDueSources(s1, x)
           d == PumpDesktopActivity(c, x)
           r == FoldSourceStates(d)
<1>1. e' = r BY DEF Tick, TickOf, Completes
<1>2. now \in Nat BY InvGood
<1>3. Good(Entry) /\ Obeys(Entry) BY EntryGood
<1>4. Entry.dev = e.dev /\ Entry.fails = e.fails BY InvGood DEF Entry, Good, EngineType
<1>5. a = Entry
  <2>1. ~IsPaused(Entry) BY <1>3, <1>4 DEF Obeys, Silenced
  <2>2. ~PauseDueToExpire(Entry, now) BY <2>1 DEF IsPaused, PauseDueToExpire, NoPause
  <2> QED BY <2>2 DEF AutoResumeIfDue
<1>6. Good(a) /\ Obeys(a) /\ Leaves(Entry, a) BY <1>3, <1>5, GoodFields, FaultLeaves
<1> HIDE DEF a
<1>7. Good(b) /\ Obeys(b) BY <1>2, <1>6, RotateGood, CalmsSilent
<1>8. Leaves(a, b) BY <1>6, GoodFields, RotateLeaves
<1> HIDE DEF b
<1>9. Good(s1) /\ Obeys(s1) BY <1>2, <1>7, ServiceGood, CalmsSilent
<1>10. Leaves(b, s1) BY <1>7, GoodFields, ServiceLeaves
<1> HIDE DEF s1
<1>11. BreakerOpen(s1.fails[k]) /\ s1.dev[k] = "Faulted" BY <1>4, <1>6, <1>8, <1>10 DEF Leaves
<1>12. s1.retry[k] = None BY <1>9, <1>11 DEF Good, Honest, Kept, Media
<1>13. Good(c) /\ c.dev[k] = "Faulted" BY <1>2, <1>9, <1>11, <1>12, RetryGood, RetryAlive
<1> HIDE DEF c
<1>14. Fields(d) /\ d.dev[k] = "Faulted" BY <1>13, GoodFields, PumpLeaves DEF Leaves
<1> HIDE DEF d
<1>15. r.dev = d.dev BY <1>14 DEF FoldSourceStates, ApplyReports, Fields
<1> QED BY <1>1, <1>14, <1>15

(***************************************************************************)
(* "the breaker opens and retries stop until an operator intervenes": no    *)
(* tick starts a media source whose breaker is open, because the failure    *)
(* that opens it cancels the retry that was due (handle_fault_transition).  *)
(***************************************************************************)
THEOREM BreakerStaysOpen == Spec => GiveUpHolds
<1> DEFINE Holds == (\E x \in Answers : Tick(x)) =>
                       \A k \in Media : BreakerOpen(e.fails[k]) /\ e.dev[k] = "Faulted"
                                            => e'.dev[k] = "Faulted"
<1>1. EngineInv /\ [Next]_vars => [Holds]_vars BY TickGivesUp
<1> QED BY <1>1, EngineInvariant, PTL DEF Spec, GiveUpHolds
=============================================================================
