--------------------------- MODULE ObserverState ---------------------------
(***************************************************************************)
(* The honest-state reducer of crates/observer-state: the facts the app     *)
(* holds about itself, the events that change them, and the phase computed  *)
(* from them.  The phase is never stored, so the operators below take a     *)
(* record m with the fields of StateMachine:                                *)
(*                                                                          *)
(*   m.ready, m.run       engine_ready, run_requested                       *)
(*   m.on[k]              source k is enabled                               *)
(*   m.owner              owner_pause: NoPause, Forever or a deadline       *)
(*   m.system             a lock or suspend pause is in effect              *)
(*   m.fault              storage_faulted                                   *)
(*   m.rep[k]             the last SourceState folded in, or "None"         *)
(***************************************************************************)
EXTENDS Integers

Kind == {"Screen", "SystemAudio", "Mic", "DesktopActivity"}

(***************************************************************************)
(* SourceState.  "Denied" is Faulted with reason AccessDenied, "Faulted" is *)
(* Faulted with any other reason.                                           *)
(***************************************************************************)
SourceStates == {"Inactive", "Active", "NoInput", "Denied", "Faulted"}
Faulty == {"Faulted", "Denied"}

Phases == {"Paused", "Idle", "Starting", "Error", "Observing"}

(* Option<OwnerPause>: a deadline is a natural number.                      *)
NoPause == -1
Forever == -2
Pauses == Nat \cup {NoPause, Forever}

Enabled(m) == {k \in DOMAIN m.on : m.on[k]}

AnySourceEnabled(m) == Enabled(m) # {}

IsPaused(m) == m.owner # NoPause \/ m.system

Phase(m) ==
  IF IsPaused(m) THEN "Paused"
  ELSE IF ~m.run \/ ~AnySourceEnabled(m) THEN "Idle"
  ELSE IF ~m.ready THEN "Starting"
  ELSE IF m.fault \/ \E k \in Enabled(m) : m.rep[k] = "Faulted" THEN "Error"
  ELSE IF \E k \in Enabled(m) : m.rep[k] = "Active" THEN "Observing"
  ELSE IF \E k \in Enabled(m) : m.rep[k] \in {"None", "Inactive"} THEN "Starting"
  ELSE "Idle"

----------------------------------------------------------------------------
(* The arms of `reduce`.                                                    *)

SourceEnabled(m, k, enabled) == [m EXCEPT !.on[k] = enabled]

RequestedStart(m) == [m EXCEPT !.run = TRUE]

OwnerPaused(m, expires) == [m EXCEPT !.owner = expires]

SystemPaused(m) == [m EXCEPT !.system = TRUE]

RequestedResume(m) == [m EXCEPT !.owner = NoPause, !.system = FALSE]

SystemResumed(m) == [m EXCEPT !.system = FALSE]

OwnerPauseExpired(m) == [m EXCEPT !.owner = NoPause]

PauseDueToExpire(m, now) == m.owner \in Nat /\ now >= m.owner
=============================================================================
