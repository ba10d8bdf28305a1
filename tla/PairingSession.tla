--------------------------- MODULE PairingSession ---------------------------
(***************************************************************************)
(* Pairing, the owner's answer to a journal's mark, and the retirement of a *)
(* pairing the owner refused, with crashes and relaunches.                  *)
(*                                                                          *)
(* Every ceremony and every answer holds the uploader slot and the access   *)
(* from its start to its end (`op`), also while it waits for the journal.   *)
(* Beside it run the uploader tasks, which publish into the same snapshot,  *)
(* the token and endpoint updates of the live client, and the setup         *)
(* browser.  Each durable write is a step of its own; a write fails with    *)
(* nothing written, or, when its durability cannot be established, after it *)
(* took effect.                                                             *)
(***************************************************************************)
EXTENDS PairingStore, FiniteSets

CONSTANTS
  Kinds,       \* the ways of pairing that are tried
  MaxCerts,    \* credentials ever issued
  Handoffs,    \* setup handoffs
  OlderSound,  \* whether a pairing saved by an older version can stand
  MaxFaults,   \* crashes, failed writes, journals that do not answer
  MaxGen       \* token and endpoint updates of one credential

ASSUME SessionAssumption ==
  /\ MaxCerts \in Nat \ {0} /\ MaxFaults \in Nat /\ MaxGen \in Nat
  /\ Kinds \subseteq {"link", "here", "found", "native"}
  /\ OlderSound \subseteq BOOLEAN /\ IsFiniteSet(Handoffs) /\ Handoffs \subseteq Nat \ {0}

VARIABLES
  file, archive, ans,   \* pairing.json, refused-pairing.json, pairing-answer.json
  prog,     \* the accepted setup handoff, and whether it has expired
  up,       \* the program runs
  op,       \* what holds the slot: its next step, its kind and what it carries
  conf,     \* cfg.confirmation
  tomb,     \* cfg.tombstone
  snap,     \* the pairing of the snapshot
  acc,      \* the live CredentialAccess: certificate and access generation
  gates,    \* certificates with a client whose gate is open
  tasks,    \* uploader tasks: certificate, whether it has published, cancelled
  consent,  \* history: accepted by the owner or proven to be on this computer
  refused,  \* history: given up by the owner or by a connect that failed
  over,     \* history: setup handoffs whose activation has come to an end
  issued,   \* credentials issued
  faults

durable == <<file, archive, ans, prog>>
memory == <<conf, tomb, snap, acc, gates, tasks>>
history == <<consent, refused, issued>>
vars == <<durable, up, op, memory, history, over, faults>>

Idle == [at |-> "idle", kind |-> "none", cert |-> Nobody, gen |-> 0, act |-> 0]
NoAccess == [cert |-> Nobody, gen |-> 0]
Shown(phase, b) == [phase |-> phase, b |-> b]

At(step) == up /\ op.at = step
Goes(step) == op' = [op EXCEPT !.at = step]
Ends == op' = Idle
Free == UNCHANGED faults
Costs == faults < MaxFaults /\ faults' = faults + 1

----------------------------------------------------------------------------
(* publish_pairing.                                                         *)

Ceremony == Shown("pairing", Nobody)

(* Bound, Paired: not for the binding refused last, and not over another.   *)
Bound(sn, b, cf, tb) ==
  IF tb = b \/ sn.b \notin {Nobody, b} THEN sn
  ELSE Shown(IF cf = b THEN "paired" ELSE "awaiting", b)

(* Bound, Failed: only for the pairing that is current.                     *)
BoundFailed(sn, b, cf, tb) ==
  IF \/ tb = b \/ sn.b \notin {Nobody, b}
     \/ sn.b = Nobody /\ ~(sn.phase = "notpaired" /\ cf = b)
  THEN sn ELSE Shown("failed", b)

(* NotPaired with the owner's refusal leaves its binding as the tombstone.  *)
Tombstone(sn, tb) == IF sn.b = Nobody THEN tb ELSE sn.b

----------------------------------------------------------------------------
(* Durable writes.                                                          *)

(* WriteFailed: nothing is written.  DurabilityUncertain: it is, and the    *)
(* writer is told that it is not.                                           *)
Outcomes == {"ok", "uncertain", "failed"}
Outcome(o) == IF o = "ok" THEN Free ELSE Costs

(* Mutation: an intent to retire does not stop a confirmation.              *)
ConfirmableRetiring(b) == acc.cert = b /\ file.cert = b /\ acc.gen = file.gen

(* confirm_current: the saved pairing, the live client and the answer must  *)
(* agree on the binding and on the access generation.                       *)
Confirmable(b) ==
  /\ acc.cert = b /\ file.cert = b /\ ~Retiring(file) /\ acc.gen = file.gen

ConfirmedAnswer(b) == [Legible(ans) EXCEPT !.st = "ok", !.confirmed = b]

(* The answer, then the cache, the gate and the snapshot.                   *)
ConfirmNow(b) ==
  /\ Confirmable(b) /\ Free
  /\ ans' = ConfirmedAnswer(b) /\ conf' = b /\ gates' = gates \cup {b}
  /\ snap' = Bound(snap, b, b, tomb)

(* It is not confirmable, or its answer cannot be saved.                    *)
ConfirmFails(b) ==
  \/ ~Confirmable(b) /\ Free /\ UNCHANGED ans
  \/ Confirmable(b) /\ Costs /\ ans' \in {ans, ConfirmedAnswer(b)}

----------------------------------------------------------------------------
(* Ceremonies.                                                              *)

(* prepare_answer_state; an answer that is absent is settled as at launch.  *)
Prepared == IF ans.st = "absent" THEN Held(Settled(ans, file), file) ELSE ans
PreparedConf == IF ans.st = "bad" THEN conf ELSE Prepared.confirmed

(* session::pair from a link; "here" is a link to this computer only.       *)
BeginPair ==
  /\ At("idle") /\ issued < MaxCerts /\ Free
  /\ \E k \in Kinds \cap {"link", "here"} :
       /\ ans' = Prepared /\ conf' = PreparedConf
       /\ IF Retiring(file)
          THEN op' = [Idle EXCEPT !.at = "settle", !.kind = k] /\ UNCHANGED snap
          ELSE op' = [Idle EXCEPT !.at = "dial", !.kind = k] /\ snap' = Ceremony
  /\ UNCHANGED <<file, archive, prog, up, tomb, acc, gates, tasks, history>>

(* connect_found_journal: only while nothing is held that it could replace. *)
BeginFound ==
  /\ At("idle") /\ issued < MaxCerts /\ "found" \in Kinds /\ Free
  /\ file.cert = Nobody /\ ~Retiring(file)
  /\ prog.expired \/ prog.id \in {0} \cup History(file, archive)
  /\ op' = [Idle EXCEPT !.at = "dial", !.kind = "found"] /\ snap' = Ceremony
  /\ UNCHANGED <<durable, up, conf, tomb, acc, gates, tasks, history>>

(* connect_native_handoff: the accepted handoff, which has not ended.       *)
BeginNative ==
  /\ At("idle") /\ issued < MaxCerts /\ "native" \in Kinds /\ Free
  /\ prog.id \notin {0} \cup History(file, archive) /\ ~prog.expired /\ ~Retiring(file)
  /\ op' = [Idle EXCEPT !.at = "dial", !.kind = "native", !.act = prog.id] /\ snap' = Ceremony
  /\ UNCHANGED <<durable, up, conf, tomb, acc, gates, tasks, history>>

(* The handshake, and for a found or handed over journal its verification.  *)
Dialled ==
  /\ At("dial") /\ Free
  /\ issued' = issued + 1 /\ op' = [op EXCEPT !.at = "save", !.cert = issued + 1]
  /\ UNCHANGED <<durable, up, memory, consent, refused>>

NotVerified ==
  /\ snap' = Shown("notpaired", Nobody) /\ Ends

DialFails ==
  /\ At("dial") /\ Costs
  /\ \/ op.kind = "found" /\ NotVerified
     \/ op.kind = "native" /\ Goes("settle") /\ UNCHANGED snap
     \/ op.kind \in {"link", "here"} /\ Goes("settle") /\ snap' = Shown("failed", Nobody)
  /\ UNCHANGED <<durable, up, conf, tomb, acc, gates, tasks, history>>

NewFile == Saved(file, archive, FreshPair(op.cert, op.act))

(* PairedState::save.  A found journal's answer is prepared only now.       *)
SavePair ==
  /\ At("save")
  /\ \E o \in Outcomes :
       /\ Outcome(o) /\ file' = IF o = "failed" THEN file ELSE NewFile
       /\ IF op.kind = "found" THEN ans' = Prepared /\ conf' = PreparedConf
                               ELSE UNCHANGED <<ans, conf>>
       /\ IF o = "ok"
          THEN /\ Goes("bind")
               /\ snap' = CASE op.kind = "link" -> Bound(snap, op.cert, conf, tomb)
                            [] op.kind = "here" -> Ceremony
                            [] OTHER -> snap
          ELSE \/ op.kind = "found" /\ NotVerified
               \/ op.kind = "native" /\ Goes("settle") /\ UNCHANGED snap
               \/ op.kind \in {"link", "here"} /\ Goes("settle") /\ snap' = Shown("failed", Nobody)
  /\ UNCHANGED <<archive, prog, up, tomb, acc, gates, tasks, history>>

(* CredentialAccess::bind: the gate of the new client is open only if the   *)
(* cached confirmation names it.                                            *)
Binds(cert, gen, cf) ==
  /\ acc' = [cert |-> cert, gen |-> gen]
  /\ gates' = IF cf = cert THEN gates \cup {cert} ELSE gates

BindPair ==
  /\ At("bind") /\ Free
  /\ Binds(op.cert, 0, conf)
  /\ Goes(IF op.kind = "here" THEN "proof" ELSE IF op.kind = "found" THEN "confirm" ELSE "replace")
  /\ snap' = IF op.kind = "here" THEN Ceremony ELSE snap
  /\ UNCHANGED <<durable, up, conf, tomb, tasks, history>>

BindFails ==
  /\ At("bind") /\ Costs
  /\ Goes(IF op.kind = "found" THEN "load" ELSE "settle")
  /\ UNCHANGED <<durable, up, memory, history>>

(* prove_ordinary_same_pc; the ceremony is shown again while it waits.      *)
ProvenHere ==
  /\ At("proof") /\ Goes("replace")
  /\ ConfirmNow(op.cert)
  /\ consent' = consent \cup {op.cert}
  /\ UNCHANGED <<file, archive, prog, up, tomb, acc, tasks, refused, issued>>

NotProvenHere ==
  /\ At("proof") /\ Goes("replace")
  /\ \/ ConfirmFails(op.cert) /\ consent' = consent \cup {op.cert}
     \/ Costs /\ UNCHANGED <<ans, consent>>
  /\ snap' = Bound(snap, op.cert, conf, tomb)
  /\ UNCHANGED <<file, archive, prog, up, conf, tomb, acc, gates, tasks, refused, issued>>

(* A found journal is confirmed before its uploader starts, or given up.    *)
ConfirmFound ==
  /\ At("confirm")
  /\ \/ ConfirmNow(op.cert) /\ Goes("replace")
     \/ ConfirmFails(op.cert) /\ Goes("load") /\ UNCHANGED <<conf, gates, snap>>
  /\ consent' = consent \cup {op.cert}
  /\ UNCHANGED <<file, archive, prog, up, tomb, acc, tasks, refused, issued>>

(* UploaderSlot::replace; the incumbent may outlive its budget.             *)
Cancelled == {[t EXCEPT !.cancel = TRUE] : t \in tasks}
Spawned(cert) == Cancelled \cup {[cert |-> cert, said |-> FALSE, cancel |-> FALSE]}

ReplaceUploader ==
  /\ At("replace") /\ Free
  /\ tasks' = Spawned(op.cert)
  /\ IF op.kind \in {"native", "finish"} THEN Goes("show") ELSE Ends
  /\ UNCHANGED <<durable, up, conf, tomb, snap, acc, gates, history>>

(* The end of a setup ceremony: the pairing is shown and then confirmed.    *)
ShowNative ==
  /\ At("show") /\ Free /\ Goes("accept")
  /\ snap' = Bound(snap, op.cert, conf, tomb)
  /\ UNCHANGED <<durable, up, conf, tomb, acc, gates, tasks, history>>

AcceptNative ==
  /\ At("accept") /\ Ends
  /\ \/ /\ op.kind = "finish" \/ snap = Shown("awaiting", op.cert)
        /\ \/ ConfirmNow(op.cert)
           \/ ConfirmFails(op.cert) /\ UNCHANGED <<conf, gates, snap>>
        /\ consent' = consent \cup {op.cert}
     \/ /\ op.kind = "native" /\ snap # Shown("awaiting", op.cert)
        /\ Free /\ UNCHANGED <<ans, conf, gates, snap, consent>>
  /\ UNCHANGED <<file, archive, prog, up, tomb, acc, tasks, refused, issued>>

(* settle_failed_pair: the incumbent stays if it is still the saved one;    *)
(* otherwise its delivery stops, and a saved setup pairing can be finished. *)
Settle ==
  /\ At("settle") /\ Free /\ Ends
  /\ IF acc # NoAccess /\ file.cert = acc.cert /\ ~Retiring(file)
     THEN snap' = Bound(snap, file.cert, conf, tomb) /\ UNCHANGED <<acc, tasks>>
     ELSE /\ acc' = NoAccess /\ tasks' = Cancelled
          /\ snap' = IF file.act # 0 /\ ~Retiring(file)
                     THEN IF file.cert = Nobody THEN snap ELSE Bound(snap, file.cert, conf, tomb)
                     ELSE Shown("failed", Nobody)
  /\ UNCHANGED <<durable, up, conf, tomb, gates, history>>

(* finish_connecting: the saved setup pairing, after its link has expired.  *)
BeginFinish ==
  /\ At("idle") /\ Free
  /\ file.cert # Nobody /\ file.act # 0 /\ ~Retiring(file)
  /\ op' = [at |-> "identity", kind |-> "finish", cert |-> file.cert, gen |-> file.gen, act |-> file.act]
  /\ UNCHANGED <<durable, up, memory, history>>

(* restore_native_access, if nothing has changed since.                     *)
RestoreNative ==
  /\ At("identity") /\ Free
  /\ IF file.cert = op.cert /\ file.gen = op.gen /\ ~Retiring(file)
     THEN Binds(op.cert, op.gen, conf) /\ Goes("replace")
     ELSE Ends /\ UNCHANGED <<acc, gates>>
  /\ UNCHANGED <<durable, up, conf, tomb, snap, tasks, history>>

FinishFails ==
  /\ At("identity") /\ Costs /\ Ends
  /\ UNCHANGED <<durable, up, memory, history>>

----------------------------------------------------------------------------
(* The owner's answer.                                                      *)

Asked(b) == At("idle") /\ b # Nobody /\ snap = Shown("awaiting", b)

OwnerConfirms ==
  /\ \E b \in 1..MaxCerts :
       /\ Asked(b) /\ consent' = consent \cup {b}
       /\ \/ ConfirmNow(b)
          \/ ConfirmFails(b) /\ UNCHANGED <<conf, gates, snap>>
  /\ UNCHANGED <<file, archive, prog, up, op, tomb, acc, tasks, refused, issued>>

OwnerRefuses ==
  /\ Free
  /\ \E b \in 1..MaxCerts :
       Asked(b) /\ op' = [Idle EXCEPT !.at = "load", !.kind = "answer", !.cert = b]
  /\ UNCHANGED <<durable, up, memory, history>>

(* reject_pair_with loads the pairing, and installs its intent only if it   *)
(* is still the same.                                                       *)
RetirementPending == snap' = Shown("failed", Nobody) /\ Ends

(* Mutation: a pairing that was superseded is waited for.                   *)
LoadForRefusalWaits ==
  /\ At("load") /\ Free
  /\ ans' = Legible(ans)
  /\ \/ file.cert = op.cert /\ op' = [op EXCEPT !.at = "install", !.gen = file.gen] /\ UNCHANGED snap
     \/ file.cert = Nobody /\ RetirementPending
  /\ UNCHANGED <<file, archive, prog, up, conf, tomb, acc, gates, tasks, history>>

LoadForRefusal ==
  /\ At("load") /\ Free
  /\ ans' = Legible(ans)
  /\ \/ file.cert = op.cert /\ op' = [op EXCEPT !.at = "install", !.gen = file.gen] /\ UNCHANGED snap
     \/ file.cert = Nobody /\ RetirementPending
     \/ file.cert \notin {Nobody, op.cert} /\ Ends /\ UNCHANGED snap
  /\ UNCHANGED <<file, archive, prog, up, conf, tomb, acc, gates, tasks, history>>

InstallIntent ==
  /\ At("install")
  /\ \E o \in Outcomes :
       LET new == Saved(file, archive, WithIntent(file)) IN
       /\ IF CanInstall(file, op.cert, op.gen)
          THEN /\ Outcome(o) /\ file' = IF o = "failed" THEN file ELSE new
               /\ refused' = IF o = "failed" THEN refused ELSE refused \cup {op.cert}
          ELSE Free /\ o = "failed" /\ UNCHANGED <<file, refused>>
       /\ IF o = "ok" THEN Goes("stop") /\ UNCHANGED snap ELSE RetirementPending
  /\ UNCHANGED <<archive, ans, prog, up, conf, tomb, acc, gates, tasks, consent, issued>>

(* The answer is saved, the uploader stops and the access goes.             *)
StopForRefusal ==
  /\ At("stop")
  /\ \E o \in Outcomes :
       /\ Outcome(o)
       /\ ans' = IF o = "failed" THEN ans
                 ELSE [st |-> "ok", confirmed |-> ans.confirmed, rejected |-> op.cert]
       /\ IF o = "ok" THEN Goes("delete") /\ UNCHANGED snap ELSE RetirementPending
  /\ tasks' = Cancelled /\ acc' = NoAccess
  /\ UNCHANGED <<file, archive, prog, up, conf, tomb, gates, history>>

(* A retirement that cannot go on waits for the next launch.                *)
GivesUp == IF op.kind = "launch" THEN Ends /\ snap' = Shown("failed", Nobody) ELSE RetirementPending

(* reconcile_intent_with: the journal is told, for five seconds at most.    *)
(* Whatever it says is the intent's new phase.                              *)
DeleteAtJournal ==
  /\ At("delete") /\ Owned(file, file.intent)
  /\ \E p \in {"succeeded", "unknown"}, o \in Outcomes :
       /\ IF file.intent.phase = "succeeded" THEN p = "succeeded" /\ o = "ok" ELSE TRUE
       /\ Outcome(o)
       /\ file' = IF o = "failed" THEN file
                  ELSE Saved(file, archive, [file EXCEPT !.intent.phase = p])
       /\ IF o = "ok" THEN Goes("answer") /\ UNCHANGED snap ELSE GivesUp
  /\ UNCHANGED <<archive, ans, prog, up, conf, tomb, acc, gates, tasks, history>>

(* finish_pair_rejection: first the answer.                                 *)
ClearAnswer ==
  /\ At("answer") /\ Finishable(file, file.intent)
  /\ \/ ans.st = "bad" /\ Free /\ GivesUp /\ UNCHANGED ans
     \/ ans.st # "bad" /\ Free /\ ans' = EmptyAnswer /\ Goes("drop") /\ UNCHANGED snap
     \/ ans.st # "bad" /\ Costs /\ ans' \in {ans, EmptyAnswer} /\ GivesUp
  /\ UNCHANGED <<file, archive, prog, up, conf, tomb, acc, gates, tasks, history>>

(* Then the pairing.                                                        *)
DropPairing ==
  /\ At("drop")
  /\ \E o \in Outcomes :
       /\ Outcome(o)
       /\ file' = IF o = "failed" THEN file ELSE Saved(file, archive, Cleared(file))
       /\ IF o # "ok" THEN GivesUp /\ UNCHANGED <<conf, tomb>>
          ELSE IF op.kind = "launch" THEN Goes("resume") /\ UNCHANGED <<conf, tomb, snap>>
          ELSE /\ Ends /\ conf' = Nobody /\ snap' = Shown("notpaired", Nobody)
               /\ tomb' = IF op.kind = "answer" THEN Tombstone(snap, tomb) ELSE tomb
  /\ UNCHANGED <<archive, ans, prog, up, acc, gates, tasks, history>>

----------------------------------------------------------------------------
(* Beside the holder of the slot.                                           *)

(* setup_uploader publishes once, when its task first runs.                 *)
UploaderPublishes ==
  /\ up /\ Free
  /\ \E t \in tasks :
       /\ ~t.said /\ tasks' = (tasks \ {t}) \cup {[t EXCEPT !.said = TRUE]}
       /\ snap' = Bound(snap, t.cert, conf, tomb)
  /\ UNCHANGED <<durable, up, op, conf, tomb, acc, gates, history>>

(* note_tick_failure, once the journal has refused this device.             *)
UploaderFails ==
  /\ up /\ Costs
  /\ \E t \in tasks : t.said /\ t.cert \in gates /\ snap' = BoundFailed(snap, t.cert, conf, tomb)
  /\ UNCHANGED <<durable, up, op, conf, tomb, acc, gates, tasks, history>>

UploaderEnds ==
  /\ up /\ Free
  /\ \E t \in tasks : t.said /\ t.cancel /\ tasks' = tasks \ {t}
  /\ UNCHANGED <<durable, up, op, conf, tomb, snap, acc, gates, history>>

(* A token or endpoints of the live client are saved; if the outcome cannot *)
(* be read back, the client keeps the generation it knew.                   *)
AccessMutates ==
  /\ up /\ acc # NoAccess /\ CanMutate(file, acc.cert, acc.gen) /\ file.gen < MaxGen
  /\ file' = Saved(file, archive, Mutated(file))
  /\ \/ Free /\ acc' = [acc EXCEPT !.gen = file.gen + 1]
     \/ Costs /\ UNCHANGED acc
  /\ UNCHANGED <<archive, ans, prog, up, op, conf, tomb, snap, gates, tasks, history>>

(* open_setup_journal_with, to mark_setup_browser_opened.                   *)
BrowserOpened ==
  /\ At("idle") /\ Free
  /\ acc # NoAccess /\ snap = Shown("paired", acc.cert)
  /\ file.act # 0 /\ file.cert = acc.cert /\ ~Retiring(file) /\ ~file.opened
  /\ file' = Saved(file, archive, [file EXCEPT !.opened = TRUE])
  /\ UNCHANGED <<archive, ans, prog, up, op, memory, history>>

HandoffExpires ==
  /\ prog.id # 0 /\ ~prog.expired /\ Free
  /\ prog' = [prog EXCEPT !.expired = TRUE]
  /\ UNCHANGED <<file, archive, ans, up, op, memory, history>>

----------------------------------------------------------------------------
(* Crash and launch_resume.                                                 *)

Stopped ==
  /\ up' = FALSE /\ op' = Idle /\ conf' = Nobody /\ tomb' = Nobody
  /\ snap' = Shown("notpaired", Nobody) /\ acc' = NoAccess /\ gates' = {} /\ tasks' = {}
  /\ UNCHANGED <<durable, history>>

Crash == up /\ Costs /\ Stopped
Quit == At("idle") /\ Free /\ Stopped

(* The key is refused: the pairing goes to the archive and nothing resumes, *)
(* unless another pairing is in the archive already.                        *)
KeyRefused ==
  /\ ~up /\ Costs /\ up' = TRUE /\ file.cert # Nobody
  /\ IF archive \in {Unpaired, file}
     THEN archive' = file /\ file' = Unpaired /\ snap' = Shown("notpaired", Nobody)
     ELSE snap' = Shown("failed", Nobody) /\ UNCHANGED <<archive, file>>
  /\ UNCHANGED <<ans, prog, op, conf, tomb, acc, gates, tasks, history>>

(* The pairing, the answer or the intent cannot be read or written.         *)
LaunchFails ==
  /\ ~up /\ Costs /\ up' = TRUE /\ snap' = Shown("failed", Nobody)
  /\ ans' \in {ans, Legible(ans)}
  /\ UNCHANGED <<file, archive, prog, op, conf, tomb, acc, gates, tasks, history>>

(* Mutation: a saved refusal is staged against whatever pairing is saved.   *)
StagesAnything(a) == a.rejected # Nobody /\ ~Retiring(file) /\ file.cert # Nobody

(* stage_legacy_rejection: a saved refusal of the saved pairing.            *)
Stages(a) == a.rejected # Nobody /\ ~Retiring(file) /\ file.cert = a.rejected

(* Mutation: only an intent staged by this launch is reconciled.            *)
FirstStepSkips == IF Retiring(file') /\ ~Retiring(file) THEN "delete" ELSE "resume"

(* An intent that a launch finds or stages comes before everything else.    *)
FirstStep == IF Retiring(file') THEN "delete" ELSE "resume"

Launch ==
  /\ ~up /\ up' = TRUE /\ Free
  /\ LET a == Legible(ans) IN
       /\ file' = IF Stages(a) THEN Saved(file, archive, WithIntent(file)) ELSE file
       /\ ans' = IF Retiring(file') THEN a ELSE [a EXCEPT !.rejected = Nobody]
       /\ refused' = IF Stages(a) THEN refused \cup {a.rejected} ELSE refused
  /\ op' = [Idle EXCEPT !.at = FirstStep, !.kind = "launch"]
  /\ UNCHANGED <<archive, prog, memory, consent, issued>>

(* settle_grandfather.  The cache takes the answer before the hold is       *)
(* written, and keeps it if that fails.                                     *)
SettleLaunch ==
  /\ At("resume")
  /\ LET a == Settled(ans, file) IN
       \/ /\ Free /\ ans' = Held(a, file) /\ conf' = ans'.confirmed
          /\ Goes(IF Stands(file) THEN "start" ELSE "mend")
       \/ /\ Costs /\ Goes("start") /\ ans.st = "absent"
          /\ ans' \in {ans, a} /\ UNCHANGED conf
       \/ /\ Costs /\ Goes("start") /\ ~Stands(file)
          /\ ans' \in {a, Held(a, file)} /\ conf' = a.confirmed
  /\ UNCHANGED <<file, archive, prog, up, tomb, snap, acc, gates, tasks, history>>

(* After the answer, the id of the saved pairing.                           *)
Mend ==
  /\ At("mend") /\ Goes("start")
  /\ \E o \in Outcomes :
       Outcome(o) /\ file' = IF o = "failed" THEN file ELSE Saved(file, archive, [file EXCEPT !.sound = TRUE])
  /\ UNCHANGED <<archive, ans, prog, up, memory, history>>

(* bind and the uploader; a pairing that cannot be bound is left as it is.  *)
Resume ==
  /\ At("start") /\ Ends
  /\ \/ /\ Free /\ file.cert # Nobody
        /\ Binds(file.cert, file.gen, conf) /\ tasks' = Spawned(file.cert)
     \/ /\ file.cert = Nobody /\ Free /\ UNCHANGED <<acc, gates, tasks>>
     \/ /\ file.cert # Nobody /\ Costs /\ UNCHANGED <<acc, gates, tasks>>
  /\ UNCHANGED <<durable, up, conf, tomb, snap, history>>

(* The bytes of the answer file are lost while the program is down.         *)
AnswerCorrupted ==
  /\ ~up /\ Costs /\ ans.st = "ok" /\ ans' = [EmptyAnswer EXCEPT !.st = "bad"]
  /\ UNCHANGED <<file, archive, prog, up, op, memory, history>>

----------------------------------------------------------------------------
(* The first start finds no pairing, or that of an older version, with the  *)
(* answer file or without it; an older version may also have saved a        *)
(* refusal it had not acted upon.                                           *)
Older(sound) == [FreshPair(1, 0) EXCEPT !.sound = sound]

Init ==
  /\ \/ file = Unpaired /\ ans = NoAnswer /\ consent = {} /\ issued = 0
     \/ /\ \E s \in OlderSound : file = Older(s)
        /\ issued = 1
        /\ \/ ans \in {NoAnswer, [EmptyAnswer EXCEPT !.confirmed = 1]} /\ consent = {1}
           \/ ans \in {EmptyAnswer, [EmptyAnswer EXCEPT !.rejected = 1]} /\ consent = {}
  /\ archive = Unpaired /\ refused = {} /\ over = {} /\ faults = 0
  /\ \E h \in {0} \cup Handoffs : prog = [id |-> h, expired |-> FALSE]
  /\ up = FALSE /\ op = Idle /\ conf = Nobody /\ tomb = Nobody
  /\ snap = Shown("notpaired", Nobody) /\ acc = NoAccess /\ gates = {} /\ tasks = {}

(* The steps of whatever holds the slot.                                    *)
Holder ==
  \/ Dialled \/ DialFails \/ SavePair \/ BindPair \/ BindFails
  \/ ProvenHere \/ NotProvenHere \/ ConfirmFound \/ ReplaceUploader
  \/ ShowNative \/ AcceptNative \/ Settle \/ RestoreNative \/ FinishFails
  \/ LoadForRefusal \/ InstallIntent \/ StopForRefusal
  \/ DeleteAtJournal \/ ClearAnswer \/ DropPairing
  \/ SettleLaunch \/ Mend \/ Resume

Owner == BeginPair \/ BeginFound \/ BeginNative \/ BeginFinish
         \/ OwnerConfirms \/ OwnerRefuses \/ BrowserOpened

Beside == UploaderPublishes \/ UploaderFails \/ UploaderEnds \/ AccessMutates \/ HandoffExpires

Starts == Launch \/ LaunchFails \/ KeyRefused

Step == Holder \/ Owner \/ Beside \/ Starts \/ Crash \/ Quit \/ AnswerCorrupted

(* An activation ends when its pairing is replaced, given up, dropped or    *)
(* archived, and when the browser has been opened for it.                   *)
EndsNow ==
  IF file.act # 0 /\ (file'.act # file.act \/ file'.cert # file.cert \/ file'.opened \/ Retiring(file'))
  THEN {file.act} ELSE {}

Noted == over' = over \cup EndsNow

Next == Step /\ Noted

Spec == Init /\ [][Next]_vars

(* The tasks run, a call to the journal ends by its timeout, and a program  *)
(* that was closed is started again.                                        *)
FairSpec == Spec /\ WF_vars(Holder /\ Noted) /\ WF_vars(Starts /\ Noted)

----------------------------------------------------------------------------
Certs == 0..MaxCerts
Steps == {"idle", "dial", "save", "bind", "proof", "confirm", "replace", "show", "accept", "settle",
          "identity", "load", "install", "stop", "delete", "answer", "drop", "resume", "mend", "start"}

PairedFiles ==
  [cert : Certs, gen : 0..MaxGen + 1, sound : BOOLEAN,
   intent : [phase : {"none", "prepared", "succeeded", "unknown"}, cert : Certs, gen : 0..MaxGen],
   act : {0} \cup Handoffs, opened : BOOLEAN, retired : SUBSET Handoffs]

(* Type correctness of the session.                                         *)
TypeOK ==
  /\ file \in PairedFiles /\ archive \in PairedFiles
  /\ ans \in [st : {"absent", "ok", "bad"}, confirmed : Certs, rejected : Certs]
  /\ prog \in [id : {0} \cup Handoffs, expired : BOOLEAN] /\ up \in BOOLEAN
  /\ op \in [at : Steps, kind : {"none", "link", "here", "found", "native", "finish", "answer", "launch"},
              cert : Certs, gen : 0..MaxGen, act : {0} \cup Handoffs]
  /\ conf \in Certs /\ tomb \in Certs
  /\ snap \in [phase : {"notpaired", "pairing", "awaiting", "paired", "failed"}, b : Certs]
  /\ acc \in [cert : Certs, gen : 0..MaxGen] /\ gates \subseteq Certs
  /\ tasks \subseteq [cert : Certs, said : BOOLEAN, cancel : BOOLEAN]
  /\ consent \subseteq Certs /\ refused \subseteq Certs
  /\ over \subseteq Handoffs /\ issued \in Certs /\ faults \in 0..MaxFaults

(* Nothing is sent for a pairing that the owner has not accepted and that   *)
(* was not proven to be on this computer, whatever crash, lost answer file  *)
(* or replaced pairing came before (prepare_answer_state, launch_resume).   *)
GateNeedsConsent == gates \subseteq consent

(* Nothing is sent for a pairing from the moment its refusal is durable:    *)
(* not by its own uploader, not after a crash at any step of the            *)
(* retirement, not after a relaunch (reject_pair_with, reconcile).  Nor is  *)
(* the binding refused last shown again by an uploader that starts or fails *)
(* late (publish_pairing's tombstone).                                      *)
RefusedStaysShut ==
  /\ gates \cap refused = {}
  /\ tomb # Nobody => snap.b # tomb

(* A saved credential vanishes only when its owner refused it, replaced it  *)
(* or lost its key, and then it is in the archive: a refusal saved for one  *)
(* journal never retires the pairing with another (stage_legacy_rejection,  *)
(* finish_pair_rejection).                                                  *)
CredentialKept ==
  [][file.cert # Nobody /\ file'.cert # file.cert =>
       \/ file.cert \in refused
       \/ archive' = file
       \/ op.at = "save" /\ op.kind # "found"]_vars

(* A ceremony, an answer and a launch come to an end, and the slot is free. *)
SlotIsFreed == op.at # "idle" ~> op.at = "idle"

(* A retirement that was begun is finished, by this run or by a later       *)
(* launch, if the program is started again and again.                       *)
RefusalFinishes == []<>(~up) => (Retiring(file) ~> ~Retiring(file))
=============================================================================
