--------------------------- MODULE CaptureEngine ---------------------------
(***************************************************************************)
(* The capture engine of crates/capture-engine: one task that owns the      *)
(* sources, the open segment and the reducer, and handles, one at a time,   *)
(* commands, capture events and a one-second tick (`run`).  Around it run   *)
(* the source worker threads, the screen encoder's thread, the wall clock   *)
(* and the owner.                                                           *)
(*                                                                          *)
(* A handler is a chain of calls on &mut self.  Each engine function is an  *)
(* operator from an engine record to an engine record, and a handler is     *)
(* their composition in the source's order, taken as one step.  What the    *)
(* file system, the encoder and the sources answer during a handler is a    *)
(* record x chosen by the step (`Answers`).                                 *)
(*                                                                          *)
(* Time is in seconds.  A segment key is the index of its window.           *)
(***************************************************************************)
EXTENDS ObserverState, Lifecycle, Sequences, FiniteSets

CONSTANTS
  Kinds,          \* the sources of this instance, a subset of Kind
  SegmentSecs,    \* EngineConfig::segment_secs
  ThreadStates,   \* states a source worker may report in this instance
  FirstStates,    \* those it may reach before the handler that started it ends
  StartErrors,    \* how ScreenSource::start may fail: "Err", "ErrInactive"
  Failures,       \* the sets of operations that may fail together in a handler
  PauseLengths,   \* durations of a timed pause, in seconds
  StorageCap,     \* storage failures counted; the delay no longer grows past it
  MaxTime,        \* bound: the clock's last second
  MaxJump,        \* bound: seconds the clock moves in one step
  MaxQueue,       \* bound: capture events waiting in the channel
  MaxTrouble,     \* bound: failing handlers, crashes, policy and clock faults
  ClockMayStepBack, PolicyMayChange, MayRestart

Operations == {"open", "finalize", "append", "write", "encoder", "pause"}

ASSUME EngineAssumption ==
  /\ Kinds \subseteq Kind
  /\ "DesktopActivity" \in Kinds
  /\ SegmentSecs \in Nat \ {0}
  /\ {"Active"} \subseteq FirstStates
  /\ FirstStates \subseteq ThreadStates /\ ThreadStates \subseteq SourceStates
  /\ StartErrors \subseteq {"Err", "ErrInactive"}
  /\ Failures \subseteq SUBSET Operations
  /\ PauseLengths \subseteq Nat
  /\ StorageCap \in Nat \ {0}
  /\ \A n \in 0..StorageCap : Multiplier^n \in Nat
  /\ InitialDelay * Multiplier^(StorageCap - 1) >= MaxDelay
  /\ {MaxTime, MaxJump, MaxQueue, MaxTrouble} \subseteq Nat
  /\ {ClockMayStepBack, PolicyMayChange, MayRestart} \subseteq BOOLEAN

VARIABLES
  e,        \* the engine, its sources and its disk (EngineType)
  now,      \* the wall clock
  up,       \* the process is running
  ack,      \* history: the owner pause last shown as recorded, or NoPause
  trouble   \* bound: how much has gone wrong so far

vars == <<e, now, up, ack, trouble>>

None == -1
Activity == "DesktopActivity"
Media == Kinds \ {Activity}
WindowOf(t) == t \div SegmentSecs
StartOf(k) == k * SegmentSecs
Windows == 0..WindowOf(MaxTime)
RangeOf(s) == {s[i] : i \in DOMAIN s}

(***************************************************************************)
(* What a source's worker is doing.  "Off" is stopped; "FailedStart" is a   *)
(* start that failed before it could leave SourceState::Inactive; "Faulted" *)
(* has no worker left (desktop activity may keep its hook thread).  state() *)
(* reports Inactive for the first two.                                      *)
(***************************************************************************)
Devices == SourceStates \cup {"Off", "FailedStart"}
Running == {"Inactive", "Active", "NoInput", "Denied"}
Observed(dev) == IF dev \in {"Off", "FailedStart"} THEN "Inactive" ELSE dev

(* The states the workers of capture-wgc, capture-wasapi and platform-win   *)
(* report for each kind.                                                    *)
WorkerStates(k) ==
  ThreadStates \cap
    CASE k = "Screen"      -> {"Inactive", "Active", "Faulted"}
      [] k = "SystemAudio" -> {"Inactive", "Active", "NoInput", "Faulted"}
      [] k = "Mic"         -> SourceStates
      [] OTHER             -> {"Active", "Faulted"}

(***************************************************************************)
(* Where a source stands when its start returns, a worker's first steps     *)
(* included; only ScreenSource::start returns an error.                     *)
(***************************************************************************)
StartOutcomes(k) ==
  (WorkerStates(k) \cap FirstStates) \cup (IF k = "Screen" THEN StartErrors ELSE {})

(***************************************************************************)
(* A chunk or frame in the channel.  `fresh` is the generation check of its *)
(* InputAdmission: neither the source generation nor the stream generation  *)
(* has been bumped since it was emitted.  `revoked` is history: the owner   *)
(* has turned its source off, or capture has paused, since it was emitted.  *)
(***************************************************************************)
Events == [kind : Media, fresh : BOOLEAN, revoked : BOOLEAN]

EngineType ==
  [ready : BOOLEAN, run : BOOLEAN, on : [Kinds -> BOOLEAN],
   owner : Pauses, system : BOOLEAN, fault : BOOLEAN,
   rep : [Kinds -> SourceStates \cup {"None"}],
   dev : [Kinds -> Devices],            \* Sources
   retry : [Kinds -> Nat \cup {None}],  \* retry_at_epoch_secs
   fails : [Kinds -> FailureCounts],    \* lifecycles
   allowed : BOOLEAN,                   \* activity_allowed
   through : BOOLEAN,                   \* activity_through_pause
   policy : BOOLEAN,                    \* the exclusion policy is readable
   eligible : BOOLEAN,                  \* session eligible, message pump in order
   seg : Nat \cup {None},               \* current_segment
   encOpen : BOOLEAN,                   \* screen_encoder_open
   encErr : BOOLEAN,                    \* the encoder's sticky last_error
   act : Nat \cup {None},               \* start of the open activity interval
   rows : Seq(Nat),                     \* pending_activity_rows, by window
   pending : SUBSET Nat,                \* pending_seals
   stalled : BOOLEAN,                   \* write_stalled
   sfails : 0..StorageCap,              \* storage_lifecycle
   sretry : Nat \cup {None},            \* storage_retry_at
   q : Seq(Events),                     \* rx
   out : SUBSET Events,                 \* history: written by this handler
   inc : SUBSET Nat,                    \* disk: <window>.incomplete exists
   sealed : SUBSET Nat,                 \* disk: <window> exists
   file : Pauses]                       \* disk: the held pause

----------------------------------------------------------------------------
(***************************************************************************)
(* The environment's answers during one handler: the operations that fail,  *)
(* the windows the disk refuses to seal (one of them, or all), where each   *)
(* start leads, and what the desktop activity poll finds.                   *)
(***************************************************************************)
Answers ==
  {x \in [bad : Failures \cup {{}}, stuck : {{}, Windows} \cup {{k} : k \in Windows},
          start : [Kinds -> UNION {StartOutcomes(k) : k \in Kinds}],
          probe : {"same", "split"}] :
     /\ (x.stuck # {}) <=> ("finalize" \in x.bad)
     /\ \A k \in Kinds : x.start[k] \in StartOutcomes(k)}

Clean(x) == x.bad = {}

(* Handlers that do not poll desktop activity, and that start no source.    *)
CommandAnswers == {x \in Answers : x.probe = "same"}
EventAnswers == {x \in CommandAnswers : \A k \in Kinds : x.start[k] = "Active"}

----------------------------------------------------------------------------
(* Storage faults.                                                          *)

ShouldBeCapturing(s) == Phase(s) \notin {"Idle", "Paused"}

ActivityRunsThroughPause(s) == s.through /\ s.on[Activity]

SegmentWanted(s) ==
  \/ ShouldBeCapturing(s) /\ AnySourceEnabled(s)
  \/ s.run /\ ActivityRunsThroughPause(s)

(* Mutation: healthy although the segment that should be open is missing.   *)
HealthyWithoutSegment(s) == s.pending = {} /\ ~s.stalled /\ s.rows = <<>>

StorageHealthy(s) ==
  /\ s.pending = {}
  /\ ~s.stalled
  /\ s.rows = <<>>
  /\ ~(ShouldBeCapturing(s) /\ s.seg = None)

NoteStorageFault(s) == [s EXCEPT !.fault = TRUE]

ClearStorageFault(s) == [s EXCEPT !.fault = FALSE, !.sretry = None, !.sfails = OnSuccess]

(* Mutation: the fault clears without asking whether storage is healthy.    *)
AttemptClearBlindly(s) == IF s.fault THEN ClearStorageFault(s) ELSE s

AttemptClearStorage(s) ==
  IF s.fault /\ StorageHealthy(s) THEN ClearStorageFault(s) ELSE s

(***************************************************************************)
(* SegmentFs::append_activity creates the incomplete directory it needs,    *)
(* but never writes next to a segment that is already sealed.  The queue is *)
(* flushed in order and stops at the first row that cannot be written.      *)
(***************************************************************************)
Appendable(s, k, x) == "append" \notin x.bad /\ (k \in s.inc \/ k \notin s.sealed)

FlushActivityQueue(s, x) ==
  LET written == {i \in DOMAIN s.rows : \A j \in 1..i : Appendable(s, s.rows[j], x)}
      n == Cardinality(written)
      t == [s EXCEPT !.rows = SubSeq(@, n + 1, Len(@)),
                     !.inc  = @ \cup {s.rows[i] : i \in written}]
  IN  IF s.rows = <<>> THEN s
      ELSE IF t.rows = <<>> THEN AttemptClearStorage(t)
      ELSE NoteStorageFault(t)

AppendActivityRow(s, ts, x) ==
  FlushActivityQueue([s EXCEPT !.rows = Append(@, WindowOf(ts))], x)

(***************************************************************************)
(* The desktop activity scheduler, reduced to its open interval: closing it *)
(* yields a row filed under the window the interval began in.               *)
(***************************************************************************)
CloseInterval(s, reopenAt, x) ==
  IF s.act = None THEN s
  ELSE AppendActivityRow([s EXCEPT !.act = reopenAt], s.act, x)

CloseAll(s, x) == CloseInterval(s, None, x)
OnBoundary(s, boundary, x) == CloseInterval(s, boundary, x)

----------------------------------------------------------------------------
(* Source reports, faults and retries.                                      *)

(* Mutation: a failed restart of a source already faulted is not counted.   *)
ReportsEntryOnly(s, reps, forced) ==
  LET failed(k) == reps[k] = "Faulted" /\ s.rep[k] \notin Faulty
      n(k) == OnFailure(s.fails[k])
  IN  [s EXCEPT
        !.rep = reps,
        !.fails = [k \in Kinds |-> IF failed(k) THEN n(k) ELSE s.fails[k]],
        !.retry = [k \in Kinds |-> IF failed(k) /\ ~BreakerOpen(n(k))
                                   THEN now + CurrentBackoff(n(k)) ELSE s.retry[k]]]

(* Mutation: the breaker's answer is ignored and a retry always scheduled.  *)
ReportsIgnoringBreaker(s, reps, forced) ==
  LET failed(k) == reps[k] = "Faulted" /\ (k \in forced \/ s.rep[k] \notin Faulty)
      n(k) == OnFailure(s.fails[k])
  IN  [s EXCEPT
        !.rep = reps,
        !.fails = [k \in Kinds |-> IF failed(k) THEN n(k) ELSE s.fails[k]],
        !.retry = [k \in Kinds |-> IF failed(k) THEN now + CurrentBackoff(n(k))
                                   ELSE s.retry[k]]]

(***************************************************************************)
(* apply_source_report for every kind at once: kind k now reports reps[k].  *)
(* A kind whose report does not change is untouched.  `forced` kinds record *)
(* a failure even when they were already faulted (apply_source_error).      *)
(***************************************************************************)
ApplyReports(s, reps, forced) ==
  LET failed(k) == reps[k] = "Faulted" /\ (k \in forced \/ s.rep[k] \notin Faulty)
      recovered(k) == s.rep[k] \in Faulty /\ reps[k] \notin Faulty
      n(k) == OnFailure(s.fails[k])
  IN  [s EXCEPT
        !.rep = reps,
        !.fails = [k \in Kinds |-> IF failed(k) THEN n(k)
                                   ELSE IF recovered(k) THEN OnSuccess ELSE s.fails[k]],
        !.retry = [k \in Kinds |-> IF failed(k)
                                   THEN IF BreakerOpen(n(k)) THEN None
                                        ELSE now + CurrentBackoff(n(k))
                                   ELSE IF recovered(k) THEN None ELSE s.retry[k]]]

ApplySourceReport(s, k, st) == ApplyReports(s, [s.rep EXCEPT ![k] = st], {})

ApplyEncoderError(s) ==
  IF "Screen" \in Kinds THEN ApplySourceReport(s, "Screen", "Faulted") ELSE s

SourceState(s, k) ==
  IF \/ k = Activity /\ ~(s.policy /\ s.eligible)
     \/ k = "Screen" /\ ~s.policy /\ s.dev[k] # "Off"
  THEN "Faulted" ELSE Observed(s.dev[k])

(* sources.desktop_activity.state() == Active: the policy is not consulted. *)
ActivityActive(s) == s.eligible /\ s.dev[Activity] = "Active"

(* Where desktop activity's start leads: it needs an eligible session.      *)
ActivityStart(s, x) == IF s.eligible THEN x.start[Activity] ELSE "Faulted"

FoldSourceStates(s) ==
  ApplyReports(s, [k \in Kinds |-> IF k = "Screen" /\ s.encErr THEN "Faulted"
                                   ELSE SourceState(s, k)], {})

----------------------------------------------------------------------------
(* Segments: open, seal, rotate.                                            *)

AttachSegment(s, k, x) ==
  FlushActivityQueue([s EXCEPT !.seg = k, !.encOpen = FALSE], x)

OpenSegmentKey(s, k, x) ==
  IF s.seg # None THEN s
  ELSE IF "open" \in x.bad THEN NoteStorageFault(s)
  ELSE AttemptClearStorage(AttachSegment([s EXCEPT !.inc = @ \cup {k}], k, x))

(* Mutation: a segment is sealed although rows filed under it are waiting.  *)
SealDespiteRows(s, k, x) ==
  LET t == [s EXCEPT !.seg = None, !.encOpen = FALSE]
  IN  IF k \in x.stuck THEN NoteStorageFault([t EXCEPT !.pending = @ \cup {k}])
      ELSE AttemptClearStorage([t EXCEPT !.pending = @ \ {k}, !.inc = @ \ {k},
                                         !.sealed = @ \cup {k}])

(***************************************************************************)
(* seal_segment of the current segment, already taken out of                *)
(* current_segment.  A segment whose video cannot be finalized is left      *)
(* incomplete for the next launch; one with unwritten rows, or that the     *)
(* disk refuses to seal, waits in pending_seals.                            *)
(***************************************************************************)
SealSegment(s, k, x) ==
  LET t == [s EXCEPT !.seg = None, !.encOpen = FALSE]
  IN  IF "encoder" \in x.bad THEN ApplyEncoderError([t EXCEPT !.encErr = TRUE])
      ELSE IF k \in RangeOf(t.rows) \cup x.stuck
      THEN NoteStorageFault([t EXCEPT !.pending = @ \cup {k}])
      ELSE AttemptClearStorage([t EXCEPT !.pending = @ \ {k}, !.inc = @ \ {k},
                                         !.sealed = @ \cup {k}])

StopActivityDevice(s) == [s EXCEPT !.dev[Activity] = "Off"]

(* The end of a pass of rotate_segments: the segment after the sealed one.  *)
OpenNext(s, k, closing, x) ==
  IF closing \/ SegmentWanted(s) THEN OpenSegmentKey(s, k, x) ELSE s

(***************************************************************************)
(* One pass of the loop of rotate_segments, over an open segment k: the     *)
(* clock has stepped back before its window, or has run past its end.       *)
(***************************************************************************)
RotateOpen(s, k, closing, x) ==
  IF now < StartOf(k)
  THEN OpenNext(SealSegment(StopActivityDevice(CloseAll(s, x)), k, x),
                WindowOf(now), closing, x)
  ELSE OpenNext(SealSegment(OnBoundary(s, StartOf(k + 1), x), k, x), k + 1, closing, x)

RotateOnce(s, closing, x) ==
  IF s.seg = None \/ s.seg = WindowOf(now) THEN s ELSE RotateOpen(s, s.seg, closing, x)

(***************************************************************************)
(* The whole loop: the clock never runs more than two windows ahead of the  *)
(* open segment between handlers (Advance), so two passes reach its end.    *)
(***************************************************************************)
PassesPerRotation == 2
RotateSegments(s, closing, x) == RotateOnce(RotateOnce(s, closing, x), closing, x)

(* open_segment_key does nothing while a segment is open.                   *)
EnsureSegmentForNow(s, x) ==
  OpenSegmentKey(RotateSegments(s, FALSE, x), WindowOf(now), x)

(* Mutation: a seal that succeeds on retry stays in pending_seals.          *)
ServiceKeepsPending(s, x) ==
  LET done == s.pending \ ({s.seg} \cup RangeOf(s.rows) \cup x.stuck)
  IN  IF s.fault /\ (s.sretry = None \/ now >= s.sretry)
      THEN [s EXCEPT !.inc = @ \ done, !.sealed = @ \cup done] ELSE s

(* Mutation: with no retry time recorded the first retry never falls due.   *)
ServiceNeverDue(s, x) ==
  IF s.fault /\ StorageHealthy(s) THEN ClearStorageFault(s) ELSE s

(* The parts of service_storage after the flush: the owed seals that have   *)
(* no row waiting, then the segment that should be open.                    *)
RetrySeals(s, x) ==
  LET tried == s.pending \ ({s.seg} \cup RangeOf(s.rows))
      done == tried \ x.stuck
  IN  [s EXCEPT !.pending = @ \ done, !.inc = @ \ done, !.sealed = @ \cup done,
                !.fault = @ \/ tried \cap x.stuck # {}]

RetryOpen(s, x) ==
  IF ShouldBeCapturing(s) /\ AnySourceEnabled(s)
  THEN OpenSegmentKey(s, WindowOf(now), x) ELSE s

BackOffStorage(s) ==
  LET n == IF s.sfails < StorageCap THEN s.sfails + 1 ELSE StorageCap
  IN  [s EXCEPT !.sfails = n, !.sretry = now + CurrentBackoff(n)]

RetryStorage(s, x) == RetryOpen(RetrySeals(FlushActivityQueue(s, x), x), x)

(* How a retry ends: healthy, or put off once more.                         *)
ConcludeStorage(s) == IF StorageHealthy(s) THEN ClearStorageFault(s) ELSE BackOffStorage(s)

ServiceStorage(s, x) ==
  IF ~s.fault THEN s
  ELSE IF s.sretry = None \/ now >= s.sretry THEN ConcludeStorage(RetryStorage(s, x))
  ELSE IF StorageHealthy(s) THEN ClearStorageFault(s)
  ELSE s

----------------------------------------------------------------------------
(* Starting and stopping sources.                                           *)

(* Mutation: the generation of a stopped or restarted source stays.         *)
KeepGeneration(s, K) == s

(* increment_generation, and begin_stream: what is queued is out of date.   *)
BumpGeneration(s, K) ==
  [s EXCEPT !.q = [i \in DOMAIN @ |-> IF @[i].kind \in K THEN [@[i] EXCEPT !.fresh = FALSE]
                                      ELSE @[i]]]

(* History: from here on nothing queued from K may reach a segment.         *)
Revoke(s, K) ==
  [s EXCEPT !.q = [i \in DOMAIN @ |-> IF @[i].kind \in K THEN [@[i] EXCEPT !.revoked = TRUE]
                                      ELSE @[i]]]

(* start_source for every enabled kind of K.                                *)
StartSources(s, K, x) ==
  LET started == K \cap Enabled(s)
      failed == {k \in started : x.start[k] \in {"Err", "ErrInactive"}}
      begun == started \ failed
      device(k) == IF k = Activity THEN ActivityStart(s, x)
                   ELSE IF x.start[k] = "Err" THEN "Faulted"
                   ELSE IF x.start[k] = "ErrInactive" THEN "FailedStart" ELSE x.start[k]
      t == [BumpGeneration(s, started) EXCEPT
              !.dev = [k \in Kinds |-> IF k \in started THEN device(k) ELSE s.dev[k]],
              !.retry = [k \in Kinds |-> IF k \in begun THEN None ELSE s.retry[k]],
              !.fails = [k \in Kinds |-> IF k \in begun THEN OnSuccess ELSE s.fails[k]]]
  IN  ApplyReports(t, [k \in Kinds |-> IF k \in failed THEN "Faulted" ELSE s.rep[k]], failed)

(* sources.<k>.stop() for every kind of K; the workers are joined.          *)
StopDevices(s, K) ==
  [s EXCEPT !.dev = [k \in Kinds |-> IF k \in K THEN "Off" ELSE s.dev[k]]]

(* stop_source for every kind of K, desktop activity last.                  *)
StopSources(s, K, x) ==
  LET t == StopDevices(BumpGeneration(s, K), K \ {Activity})
  IN  IF Activity \in K THEN StopActivityDevice(CloseAll(EnsureSegmentForNow(t, x), x))
      ELSE t

(* retry_due_sources on the kinds K: the media sources, desktop activity.   *)
RestartMedia(s, K, x) ==
  StartSources(StopDevices(BumpGeneration(s, K \ {Activity}), K \ {Activity}),
               K \ {Activity}, x)

RestartActivity(s, K, x) ==
  IF Activity \in K THEN StartSources(StopSources(s, {Activity}, x), {Activity}, x) ELSE s

(* Mutation: retries go on while capture is paused.                         *)
RetryWhilePaused(s, x) ==
  LET due == {k \in Media \cap Enabled(s) : s.retry[k] # None /\ s.retry[k] <= now}
  IN  StartSources(StopSources(s, due, x), due, x)

RetryDueSources(s, x) ==
  LET due == {k \in Kinds : s.retry[k] # None /\ s.retry[k] <= now}
      tried == [s EXCEPT !.retry = [k \in Kinds |-> IF k \in due THEN None ELSE s.retry[k]]]
  IN  IF Phase(s) = "Paused" THEN s
      ELSE RestartActivity(RestartMedia(tried, due \cap Enabled(s), x), due \cap Enabled(s), x)

----------------------------------------------------------------------------
(* Capture events.                                                          *)

(* Mutation: an event is admitted whatever its source's state.              *)
AdmittedByGeneration(s, ev) == ev.fresh /\ s.on[ev.kind]

Admitted(s, ev) ==
  /\ ev.fresh
  /\ s.on[ev.kind]
  /\ SourceState(s, ev.kind) = "Active"

(* encode_screen_frame of one or more frames.                               *)
EncodeScreenFrames(s, frames, x) ==
  IF frames = {} \/ s.seg = None THEN s
  ELSE IF "encoder" \in x.bad
       THEN ApplyEncoderError([s EXCEPT !.encErr = TRUE])
  ELSE [s EXCEPT !.encErr = @ /\ s.encOpen, !.encOpen = TRUE, !.out = @ \cup frames]

(* Mutation: a failed write stalls audio without raising the storage fault. *)
StallQuietly(s, chunks, x) ==
  IF chunks = {} \/ s.seg = None THEN s
  ELSE [s EXCEPT !.stalled = "write" \in x.bad]

(* write_audio_chunk of one or more chunks.                                 *)
WriteAudioChunks(s, chunks, x) ==
  IF chunks = {} \/ s.seg = None THEN s
  ELSE IF "write" \in x.bad THEN NoteStorageFault([s EXCEPT !.stalled = TRUE])
  ELSE LET t == [s EXCEPT !.stalled = FALSE, !.out = @ \cup chunks]
       IN  IF s.stalled THEN AttemptClearStorage(t) ELSE t

HandleEvents(s, events, x) ==
  LET in == {ev \in events : Admitted(s, ev)}
      frames == {ev \in in : ev.kind = "Screen"}
  IN  EncodeScreenFrames(WriteAudioChunks(s, in \ frames, x), frames, x)

DrainEvents(s, x) == [HandleEvents(s, RangeOf(s.q), x) EXCEPT !.q = <<>>]

----------------------------------------------------------------------------
(* Pausing and resuming.                                                    *)

(* Mutation: a pause stops the activity source with its interval open.      *)
PauseActivityUnclosed(s, x) ==
  IF ActivityRunsThroughPause(s) THEN s ELSE StopActivityDevice(s)

PauseActivity(s, x) ==
  IF ActivityRunsThroughPause(s) THEN s ELSE StopActivityDevice(CloseAll(s, x))

PauseCapture(s, x) ==
  LET stopped == RotateSegments(StopDevices(Revoke(s, Media), Media), TRUE, x)
      drained == [DrainEvents(PauseActivity(stopped, x), x) EXCEPT !.stalled = FALSE]
  IN  FoldSourceStates(AttemptClearStorage(drained))

(* Desktop activity that ran through the pause goes on.                     *)
StartIdle(s, x) ==
  StartSources(s, IF ActivityActive(s) THEN Media ELSE Kinds, x)

ResumeCapture(s, x) ==
  FoldSourceStates(IF AnySourceEnabled(s) THEN StartIdle(EnsureSegmentForNow(s, x), x) ELSE s)

(* settle_pause without its last call, record_owner_pause.                  *)
SettleCapture(s, wasPaused, restart, x) ==
  LET paused == Phase(s) = "Paused"
  IN  IF paused /\ ~wasPaused THEN PauseCapture(s, x)
      ELSE IF ~paused /\ (wasPaused \/ restart) THEN ResumeCapture(s, x)
      ELSE s

RecordOwnerPause(s, before, x) ==
  IF s.owner = before \/ "pause" \in x.bad THEN s ELSE [s EXCEPT !.file = s.owner]

(* Mutation: a timed pause does not run out while a system pause holds.     *)
AutoResumeUnlessLocked(s, x) ==
  IF PauseDueToExpire(s, now) /\ ~s.system
  THEN RecordOwnerPause(SettleCapture(OwnerPauseExpired(s), TRUE, FALSE, x), s.owner, x)
  ELSE s

AutoResumeIfDue(s, x) ==
  IF PauseDueToExpire(s, now)
  THEN RecordOwnerPause(SettleCapture(OwnerPauseExpired(s), TRUE, FALSE, x), s.owner, x)
  ELSE s

----------------------------------------------------------------------------
(* The owner's switches.                                                    *)

DesktopActivityRuns(allowed, screen, through) == allowed /\ (screen \/ through)

ScreenOn(s) == "Screen" \in Enabled(s)

(* Mutation: a source switched on during a pause starts at once.            *)
MayStartWhilePaused(s, k) == s.run

SourceMayStart(s, k) ==
  s.run /\ (Phase(s) # "Paused" \/ (k = Activity /\ s.through))

ApplySourceEnabled(s, k, enabled, x) ==
  LET off == StopSources(Revoke(s, {k}), {k}, x)
      gone == SourceEnabled([off EXCEPT !.retry[k] = None], k, FALSE)
      on == SourceEnabled(s, k, TRUE)
  IN  IF ~enabled THEN ApplySourceReport(gone, k, "Inactive")
      ELSE IF SourceMayStart(on, k) THEN StartSources(EnsureSegmentForNow(on, x), {k}, x)
      ELSE on

FollowDesktopActivity(s, x) ==
  LET wanted == DesktopActivityRuns(s.allowed, ScreenOn(s), s.through)
      active == ActivityActive(s)
  IN  IF wanted # s.on[Activity] THEN ApplySourceEnabled(s, Activity, wanted, x)
      ELSE IF ~wanted \/ ~s.run \/ Phase(s) # "Paused" THEN s
      ELSE IF s.through /\ ~active
           THEN StartSources(EnsureSegmentForNow(s, x), {Activity}, x)
      ELSE IF ~s.through /\ active THEN StopSources(s, {Activity}, x)
      ELSE s

DesktopActivityMayRun(s) ==
  /\ s.on[Activity]
  /\ IF Phase(s) = "Paused" THEN s.run /\ s.through ELSE ShouldBeCapturing(s)

(* pump_desktop_activity: the poll opens, keeps or splits the interval.     *)
PumpDesktopActivity(s, x) ==
  LET s1 == IF ActivityActive(s) THEN s
            ELSE [s EXCEPT !.dev[Activity] = ActivityStart(s, x)]
  IN  IF ~DesktopActivityMayRun(s) THEN s
      ELSE IF s1.act = None THEN [s1 EXCEPT !.act = now]
      ELSE IF x.probe = "split" THEN CloseInterval(s1, now, x)
      ELSE s1

----------------------------------------------------------------------------
(* Launch: construction with recovery, the held pause, start.               *)

FreshEngine(on, allowed, through, inc, sealed, file) ==
  [ready |-> FALSE, run |-> FALSE, on |-> on, owner |-> NoPause, system |-> FALSE,
   fault |-> FALSE, rep |-> [k \in Kinds |-> "None"], dev |-> [k \in Kinds |-> "Off"],
   retry |-> [k \in Kinds |-> None], fails |-> [k \in Kinds |-> 0],
   allowed |-> allowed, through |-> through, policy |-> TRUE, eligible |-> TRUE,
   seg |-> None, encOpen |-> FALSE, encErr |-> FALSE, act |-> None, rows |-> <<>>,
   pending |-> {}, stalled |-> FALSE, sfails |-> 0, sretry |-> None,
   q |-> <<>>, out |-> {}, inc |-> inc, sealed |-> sealed, file |-> file]

(* What a new process finds: the saved choices, the disk and the session.   *)
Forget(s) ==
  [FreshEngine(s.on, s.allowed, s.through, s.inc, s.sealed, s.file)
     EXCEPT !.policy = s.policy, !.eligible = s.eligible]

(* recover_all leaves the live window alone.  A window without usable data  *)
(* (bare) is set aside, the others are sealed; what cannot be sealed is     *)
(* deferred to the storage retry loop.  If setting aside fails there is no  *)
(* engine.                                                                  *)
NewEngine(s, bare, x) ==
  LET stale == s.inc \ {WindowOf(now)}
      deferred == (stale \ bare) \cap x.stuck
  IN  [Forget(s) EXCEPT !.ready = TRUE, !.inc = @ \ (stale \ deferred),
                        !.sealed = @ \cup (stale \ (bare \cup deferred)),
                        !.pending = deferred, !.fault = deferred # {}]

(* Mutation: an open-ended pause is taken for one whose time has run out.   *)
HoldTimedPauseOnly(s, x) ==
  IF s.file \in Nat /\ s.file > now THEN OwnerPaused(s, s.file) ELSE [s EXCEPT !.file = NoPause]

HoldOwnerPauseIn(s, x) ==
  LET ended == s.file \in Nat /\ s.file <= now
  IN  IF s.file = NoPause THEN s
      ELSE IF ~ended THEN OwnerPaused(s, s.file)
      ELSE IF "pause" \in x.bad THEN s
      ELSE [s EXCEPT !.file = NoPause]

AdoptCurrentSegment(s, x) ==
  IF "open" \in x.bad THEN NoteStorageFault(s)
  ELSE IF WindowOf(now) \in s.inc THEN AttachSegment(s, WindowOf(now), x)
  ELSE s

StartFirst(s, x) ==
  LET first == IF Phase(s) # "Paused" THEN Kinds
               ELSE IF ActivityRunsThroughPause(s) THEN {Activity} ELSE {}
  IN  IF first \cap Enabled(s) = {} THEN s
      ELSE StartSources(EnsureSegmentForNow(s, x), first, x)

Start(s, x) == FoldSourceStates(StartFirst(AdoptCurrentSegment(RequestedStart(s), x), x))

SealCurrent(s, x) == IF s.seg = None THEN s ELSE SealSegment(s, s.seg, x)

StopEngine(s, x) ==
  LET stopped == CloseAll(StopDevices(RotateSegments(s, TRUE, x), Media), x)
      drained == DrainEvents(StopActivityDevice(stopped), x)
  IN  FoldSourceStates(SealCurrent(FlushActivityQueue(drained, x), x))

----------------------------------------------------------------------------
(* Handlers, as actions.                                                    *)

Entry == [e EXCEPT !.out = {}]

(* apply_command begins by catching up with the clock.                      *)
Prepared(x) == RotateSegments(Entry, FALSE, x)

Costs(n) == trouble + n <= MaxTrouble /\ trouble' = trouble + n

(***************************************************************************)
(* A completed handler: the engine becomes t.  Health has been refreshed,   *)
(* so the owner has been shown t.owner, recorded unless the write failed.   *)
(***************************************************************************)
Completes(t, x) ==
  /\ up
  /\ e' = t
  /\ ack' = IF t.owner = e.owner THEN ack
            ELSE IF "pause" \in x.bad THEN NoPause ELSE t.owner
  /\ Costs(IF Clean(x) THEN 0 ELSE 1)
  /\ UNCHANGED <<now, up>>

(* The pause commands: the reduced state, and whether it restarts capture.  *)
PauseCommands(s) ==
  {[to |-> OwnerPaused(s, p), restart |-> FALSE] :
      p \in ({now + d : d \in PauseLengths} \cap 0..MaxTime) \cup {Forever}}
    \cup {[to |-> SystemPaused(s), restart |-> FALSE]}

ResumeCommands(s) ==
  {[to |-> RequestedResume(s), restart |-> TRUE], [to |-> SystemResumed(s), restart |-> TRUE]}

ToggleCommand(s) ==
  [to |-> IF Phase(s) = "Paused" THEN RequestedResume(s) ELSE OwnerPaused(s, Forever),
   restart |-> FALSE]

Settle(s, c, x) == SettleCapture(c.to, Phase(s) = "Paused", c.restart, x)

Pause(x) ==
  \E c \in PauseCommands(Prepared(x)) :
    Completes(RecordOwnerPause(Settle(Prepared(x), c, x), e.owner, x), x)

Resume(x) ==
  \E c \in ResumeCommands(Prepared(x)) :
    Completes(RecordOwnerPause(Settle(Prepared(x), c, x), e.owner, x), x)

TogglePause(x) ==
  Completes(RecordOwnerPause(Settle(Prepared(x), ToggleCommand(Prepared(x)), x), e.owner, x), x)

(* ScreenSource::on_display_changed.                                        *)
Reacquire(s, x) ==
  LET device == IF x.start["Screen"] \in {"Err", "ErrInactive"} THEN "Faulted"
                ELSE x.start["Screen"]
  IN  IF s.on["Screen"] /\ s.dev["Screen"] # "Off"
      THEN [BumpGeneration(s, {"Screen"}) EXCEPT !.dev["Screen"] = device]
      ELSE s

DisplayChanged(x) ==
  "Screen" \in Kinds /\ Completes(Reacquire(Prepared(x), x), x)

SetSourceEnabled(k, enabled, x) ==
  LET s == IF k = Activity THEN [Prepared(x) EXCEPT !.allowed = enabled]
           ELSE ApplySourceEnabled(Prepared(x), k, enabled, x)
      t == IF k \in {Activity, "Screen"} THEN FollowDesktopActivity(s, x) ELSE s
  IN  Completes(FoldSourceStates(t), x)

SetDesktopActivityThroughPause(enabled, x) ==
  LET s == [Prepared(x) EXCEPT !.through = enabled]
  IN  Completes(FoldSourceStates(FollowDesktopActivity(s, x)), x)

(* The scheduler may split the open interval at the new preferences.        *)
SetDesktopActivityPreferences(x) ==
  /\ e.act # None
  /\ Completes(CloseInterval(Prepared(x), now, x), x)

HandleEvent(x) ==
  /\ e.q # <<>>
  /\ Completes(HandleEvents([Entry EXCEPT !.q = Tail(@)], {Head(e.q)}, x), x)

TickOf(s, x) ==
  LET s1 == ServiceStorage(RotateSegments(AutoResumeIfDue(s, x), FALSE, x), x)
  IN  FoldSourceStates(PumpDesktopActivity(RetryDueSources(s1, x), x))

Tick(x) == Completes(TickOf(Entry, x), x)

----------------------------------------------------------------------------
(* The process: launch, clean shutdown, crash.                              *)

Launch(x) ==
  \E bare \in SUBSET (e.inc \ {WindowOf(now)}) :
      /\ ~up
      /\ up' = TRUE
      /\ e' = Start(HoldOwnerPauseIn(NewEngine(e, bare, x), x), x)
      /\ ack' = IF ack \in Nat /\ ack <= now THEN NoPause ELSE ack
      /\ Costs(IF Clean(x) THEN 0 ELSE 1)
      /\ UNCHANGED now

Goes(s) ==
  /\ up /\ MayRestart
  /\ up' = FALSE
  /\ e' = Forget(s)
  /\ UNCHANGED <<now, ack>>

Stop(x) == Goes(StopEngine(Entry, x)) /\ Costs(1)

(* Power loss or a kill, between handlers.                                  *)
Crash == Goes(e) /\ Costs(1)

(* The same inside a pause command, before record_owner_pause.              *)
CrashBeforeRecord(x) ==
  /\ \E c \in PauseCommands(Prepared(x)) \cup ResumeCommands(Prepared(x)) :
        Goes(Settle(Prepared(x), c, x))
  /\ Costs(1)

----------------------------------------------------------------------------
(* The other threads, the policy file and the clock.                        *)

External == UNCHANGED <<now, up, ack>>

(* A worker's report; after Faulted the worker is gone.                     *)
WorkerReports(k) ==
  /\ up
  /\ e.dev[k] \in Running
  /\ \E st \in WorkerStates(k) \ {e.dev[k]} : e' = [Entry EXCEPT !.dev[k] = st]
  /\ External /\ Costs(0)

Emit(k) ==
  /\ up /\ e.dev[k] = "Active" /\ Len(e.q) < MaxQueue
  /\ e' = [Entry EXCEPT !.q = Append(@, [kind |-> k, fresh |-> TRUE, revoked |-> FALSE])]
  /\ External /\ Costs(0)

(* CaptureSink::begin_stream when an audio worker reopens its device.       *)
BeginStream(k) ==
  /\ up /\ k # "Screen" /\ e.dev[k] \in Running
  /\ \E i \in DOMAIN e.q : e.q[i].kind = k /\ e.q[i].fresh
  /\ e' = BumpGeneration(Entry, {k})
  /\ External /\ Costs(0)

(* The encoder's worker records an error for the open segment.              *)
EncoderFails ==
  /\ up /\ e.encOpen /\ ~e.encErr
  /\ \E f \in Failures : "encoder" \in f
  /\ e' = [Entry EXCEPT !.encErr = TRUE]
  /\ External /\ Costs(1)

(* Lock, unlock, a remote session, or the window message pump failing.      *)
EligibilityChanges ==
  /\ "Faulted" \in ThreadStates
  /\ e' = [Entry EXCEPT !.eligible = ~@]
  /\ External /\ Costs(0)

(* The exclusion policy file becomes unreadable, or is repaired.            *)
PolicyChanges ==
  /\ PolicyMayChange
  /\ e' = [Entry EXCEPT !.policy = ~@]
  /\ External /\ Costs(IF e.policy THEN 1 ELSE 0)

Advance ==
  \E d \in 1..MaxJump :
    /\ now + d <= MaxTime
    /\ up /\ e.seg # None => WindowOf(now + d) <= e.seg + PassesPerRotation
    /\ now' = now + d
    /\ e' = Entry
    /\ UNCHANGED <<up, ack, trouble>>

ClockStepsBack ==
  /\ ClockMayStepBack
  /\ \E t \in 0..now : t < now /\ now' = t
  /\ e' = Entry
  /\ Costs(1) /\ UNCHANGED <<up, ack>>

----------------------------------------------------------------------------
Init ==
  /\ \E on \in [Kinds -> BOOLEAN], allowed, through \in BOOLEAN :
       /\ on[Activity] = DesktopActivityRuns(allowed, "Screen" \in Kinds /\ on["Screen"], through)
       /\ e = FreshEngine(on, allowed, through, {}, {}, NoPause)
  /\ now = 0 /\ up = FALSE /\ ack = NoPause /\ trouble = 0

Command(x) ==
  \/ Pause(x) \/ Resume(x) \/ TogglePause(x) \/ DisplayChanged(x)
  \/ \E k \in Kinds, b \in BOOLEAN : SetSourceEnabled(k, b, x)
  \/ \E b \in BOOLEAN : SetDesktopActivityThroughPause(b, x)
  \/ SetDesktopActivityPreferences(x)

Environment ==
  \/ \E k \in Media : WorkerReports(k) \/ Emit(k) \/ BeginStream(k)
  \/ EncoderFails \/ EligibilityChanges \/ PolicyChanges \/ Advance \/ ClockStepsBack

Next ==
  \/ \E x \in CommandAnswers : Command(x) \/ Launch(x) \/ CrashBeforeRecord(x)
  \/ \E x \in EventAnswers : HandleEvent(x) \/ Stop(x)
  \/ \E x \in Answers : Tick(x)
  \/ Crash
  \/ Environment

Spec == Init /\ [][Next]_vars

(***************************************************************************)
(* The engine task is polled and its one-second interval keeps firing       *)
(* (tokio::time::interval in run), and the clock keeps moving.  Nothing is  *)
(* assumed of the owner, the workers or the disk.  The first conjunct is    *)
(* WF_vars(\E x \in Answers : Tick(x)) with its ENABLED written out:        *)
(* TickMatters says that some tick would change the state.                  *)
(***************************************************************************)
TickMatters ==
  up /\ \E x \in Answers : IF Clean(x) THEN TickOf(Entry, x) # e ELSE trouble < MaxTrouble

Fairness ==
  /\ []<>~TickMatters \/ []<><<\E x \in Answers : Tick(x)>>_vars
  /\ WF_vars(Advance)

FairSpec == Spec /\ Fairness

----------------------------------------------------------------------------
TypeOK ==
  /\ e \in EngineType
  /\ now \in Nat /\ up \in BOOLEAN /\ ack \in Pauses /\ trouble \in 0..MaxTrouble

(***************************************************************************)
(* "Operator pause: stop sources, hold": while the phase is Paused no media *)
(* source has a worker, whatever was starting, retrying, being switched on  *)
(* or re-acquired when the pause began (pause_capture, source_may_start,    *)
(* retry_due_sources, on_display_changed).                                  *)
(***************************************************************************)
PausedIsSilent ==
  up /\ Phase(e) = "Paused" => \A k \in Media : e.dev[k] = "Off"

(***************************************************************************)
(* "stop every source so nothing is gathered while paused" (settle_pause):  *)
(* unless the owner keeps desktop activity on through the pause, a paused   *)
(* engine has it stopped and holds no activity interval open.               *)
(***************************************************************************)
PausedActivityStops ==
  up /\ Phase(e) = "Paused" /\ ~ActivityRunsThroughPause(e) =>
    e.dev[Activity] = "Off" /\ e.act = None

(***************************************************************************)
(* Storage is shown healthy only when nothing is owed to the disk: no seal  *)
(* waits, no activity row waits, no write has just failed.                  *)
(***************************************************************************)
StorageHonest ==
  ~e.fault => e.pending = {} /\ e.rows = <<>> /\ ~e.stalled

(***************************************************************************)
(* Nothing captured before a pause, or before its source was turned off,    *)
(* reaches a segment afterwards, however long it waited in the channel.     *)
(***************************************************************************)
NoRevokedWrite == \A ev \in e.out : ~ev.revoked

(***************************************************************************)
(* "Quitting, a crash, an update, signing out or a restart does not end it" *)
(* (pause_store.rs): an owner pause shown as recorded keeps every media     *)
(* source silent until the owner ends it or its deadline passes.            *)
(***************************************************************************)
OwnerPauseHolds ==
  up /\ ack # NoPause /\ (ack = Forever \/ now < ack) =>
    /\ Phase(e) = "Paused"
    /\ \A k \in Media : e.dev[k] = "Off"

(***************************************************************************)
(* A row is never left waiting for a window already sealed, where           *)
(* append_activity would refuse it for ever and block the queue behind it.  *)
(***************************************************************************)
NoRowForSealedWindow ==
  \A i \in DOMAIN e.rows : e.rows[i] \in e.sealed => e.rows[i] \in e.inc

(***************************************************************************)
(* Every seal still owed has its incomplete directory on disk, so the retry *)
(* has something to seal; the open segment has one too.                     *)
(***************************************************************************)
OwedSegmentsExist ==
  e.pending \cup ({e.seg} \ {None}) \subseteq e.inc

(***************************************************************************)
(* "Enabled source faulted (not access denial): feed to backoff/breaker"    *)
(* (docs/lifecycle-matrix.md).  An enabled media source whose worker is     *)
(* gone, once its state has been folded, is waiting for a retry or has an   *)
(* open breaker.                                                            *)
(***************************************************************************)
DeadSourceIsRetried ==
  \A k \in Media :
    /\ up /\ e.on[k] /\ Phase(e) # "Paused"
    /\ e.dev[k] \in {"Faulted", "FailedStart"} /\ e.rep[k] = Observed(e.dev[k])
    => e.retry[k] # None \/ BreakerOpen(e.fails[k])

(***************************************************************************)
(* "The app never shows on unless it truly is": in phase Observing there is *)
(* an open segment for what the sources capture.                            *)
(***************************************************************************)
ObservingHasSegment == up /\ Phase(e) = "Observing" => e.seg # None

(***************************************************************************)
(* "the breaker opens and retries stop until an operator intervenes"        *)
(* (observer-lifecycle): no tick starts a source whose breaker is open.     *)
(***************************************************************************)
GiveUpHolds ==
  [][(\E x \in Answers : Tick(x)) =>
       \A k \in Media : BreakerOpen(e.fails[k]) /\ e.dev[k] = "Faulted"
                            => e'.dev[k] = "Faulted"]_vars

(***************************************************************************)
(* A timed pause ends: once its deadline has passed it does not stay in     *)
(* force, whatever else pauses the app (auto_resume_if_due on every tick).  *)
(***************************************************************************)
TimedPauseEnds == (e.owner \in 0..now) ~> (e.owner \notin 0..now)

(***************************************************************************)
(* The storage retry loop recovers: once the disk has stopped failing, and  *)
(* the bounded clock leaves room for a retry and a rotation, the fault      *)
(* clears.  After a failed audio write it may outlive every other debt: it  *)
(* then waits for a chunk that can be written, and for nothing else         *)
(* (write_audio_chunk).                                                     *)
(***************************************************************************)
Headroom == SegmentSecs + 2 * MaxDelay
OnlyAwaitsChunk ==
  e.stalled /\ e.pending = {} /\ e.rows = <<>> /\ (SegmentWanted(e) => e.seg # None)
StorageRecovers ==
  (e.fault /\ trouble = MaxTrouble /\ now + Headroom <= MaxTime)
    ~> (~e.fault \/ OnlyAwaitsChunk)
=============================================================================
