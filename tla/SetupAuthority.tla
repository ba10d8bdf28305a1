--------------------------- MODULE SetupAuthority ---------------------------
(***************************************************************************)
(* The owner's consent: setup.json, the SetupAuthority that keeps it, the   *)
(* commands of the settings window, the engine's copy of the choices, which *)
(* a queue of commands brings up to date, and the login item.               *)
(*                                                                          *)
(* The rule the code follows is asymmetric.  OFF takes effect at once,      *)
(* saved or not, and every later save carries it; ON takes effect only      *)
(* once it is saved.  A command of the window holds the authority's lock    *)
(* from the save to the send, so each is one step; the engine takes the     *)
(* commands later, in order.                                                *)
(*                                                                          *)
(* Sources are the four kinds, Prefs the three activity settings.  The      *)
(* optional ones are absent from the file until the owner sets them, and    *)
(* read as their default.                                                   *)
(***************************************************************************)
EXTENDS Naturals, Sequences, SequencesExt

CONSTANTS
  Sources,    \* of "Screen", "SystemAudio", "Mic", "DesktopActivity"
  Prefs,      \* of "through_pause", "window_titles", "page_addresses"
  Steps,      \* WizardStep: of "Mic", "Screen", "Done"
  Copies,     \* CopyClass: of "Installed", "Portable", "Dev"
  MaxQueue,   \* commands waiting before the owner is made to wait
  MaxFaults   \* saves, reads and registry calls that fail

ASSUME SetupAssumption ==
  /\ Sources \subseteq {"Screen", "SystemAudio", "Mic", "DesktopActivity"}
  /\ Prefs \subseteq {"through_pause", "window_titles", "page_addresses"}
  /\ {"Mic", "Done"} \subseteq Steps
  /\ Copies \subseteq {"Installed", "Portable", "Dev"}
  /\ {MaxQueue, MaxFaults} \subseteq Nat

VARIABLES
  file,     \* setup.json: absent, damaged, of the older version, or current
  auth,     \* SetupAuthority
  engine,   \* the choices the capture engine works with
  queue,    \* commands sent to it, each an assignment of some of the choices
  reg,      \* the login item: absent, or whose command it holds
  copy,     \* CopyClass of this executable
  up,
  said,     \* history: the owner's last word on each thing
  kept,     \* history: the words after which something was saved
  faults

memory == <<auth, engine, queue, up>>
history == <<said, kept>>
vars == <<file, memory, reg, copy, history, faults>>

Items == Sources \cup Prefs
Things == Items \cup {"login"}
Optional == Prefs \cup (Sources \cap {"DesktopActivity"})
Words == {"on", "off"}
Word(on) == IF on THEN "on" ELSE "off"

Config == [choice : [Things -> Words \cup {"unset"}], wizard : Steps, noticed : BOOLEAN]

(* The DESKTOP_ACTIVITY_*_DEFAULT constants. *)
DefaultOn(i) == i # "through_pause"

Reads(cfg, i) == cfg.choice[i] = "on" \/ (cfg.choice[i] = "unset" /\ DefaultOn(i))

fresh ==
  [choice |-> [t \in Things |-> IF t \in Optional THEN "unset" ELSE "off"],
   wizard |-> "Mic", noticed |-> TRUE]

fail_closed ==
  [fresh EXCEPT !.choice["login"] = "unset", !.wizard = "Done"]

(* A version 1 file held defaults, not choices, in the optional settings. *)
Upgraded(cfg) ==
  [cfg EXCEPT !.choice = [t \in Things |-> IF t \in Optional THEN "unset" ELSE @[t]]]

parse_setup(f) == CASE f.kind = "absent" -> fresh
                    [] f.kind = "damaged" -> fail_closed
                    [] f.kind = "old" -> Upgraded(f.cfg)
                    [] f.kind = "current" -> f.cfg

Current(cfg) == [kind |-> "current", cfg |-> cfg]

Authority ==
  [durable : Config, running : [Items -> BOOLEAN], pend : [Things -> Words \cup {"none"}],
   pendingWizard : Steps \cup {"none"}, noticeFailed : BOOLEAN, loginFailed : BOOLEAN,
   readFailed : BOOLEAN]

(* Each command assigns some of the choices. *)
Commands == UNION {[S -> BOOLEAN] : S \in SUBSET Items}

(* pend is failed_sources, the pending preferences and pending_login; the   *)
(* save_failed flags of the preferences are set exactly when one is pending. *)
Seeded(cfg, login, unread) ==
  [durable |-> cfg, running |-> [i \in Items |-> Reads(cfg, i)],
   pend |-> [t \in Things |-> "none"], pendingWizard |-> "none",
   noticeFailed |-> FALSE, loginFailed |-> login, readFailed |-> unread]

Away == Seeded(fresh, FALSE, FALSE)

(* Mutation: a save writes only the choice it is for. *)
CarriesNothing(a) == a.durable

(* What a save writes besides the choice it is for: OFF words that failed,  *)
(* and for a preference that could not be saved the value in use.           *)
candidate_with_pending_off(a) ==
  [a.durable EXCEPT !.choice =
     [t \in Things |->
        CASE t \in Prefs /\ a.pend[t] # "none" -> Word(a.running[t])
          [] t \notin Prefs /\ a.pend[t] = "off" -> "off"
          [] OTHER -> @[t]]]

Choosing(cfg, t, on) == [cfg EXCEPT !.choice[t] = Word(on)]

persist(a, cfg) ==
  [a EXCEPT !.durable = cfg, !.readFailed = FALSE,
            !.pend = [t \in Things |->
                        IF t \in Sources /\ @[t] = "off" THEN "none" ELSE @[t]]]

-----------------------------------------------------------------------------
(* The commands of the settings window.  saved says whether                 *)
(* atomic_write_setup succeeded; if not, the file is as it was.             *)

Fault(happens) == IF happens THEN faults < MaxFaults /\ faults' = faults + 1
                             ELSE UNCHANGED faults

Writes(cfg, saved) == file' = IF saved THEN Current(cfg) ELSE file

Says(t, on, saved) ==
  /\ said' = [said EXCEPT ![t] = Word(on)]
  /\ kept' = IF saved THEN {x \in Things : said'[x] # "none"} ELSE kept \ {t}

SaysNothing(saved) ==
  /\ UNCHANGED said
  /\ kept' = IF saved THEN {x \in Things : said[x] # "none"} ELSE kept

Ready == up /\ Len(queue) < MaxQueue

(* Mutation: an ON takes effect before it is saved. *)
RunsAtOnce(on, saved) == on

(* A source runs once its ON is saved; anything else stops it. *)
Runs(on, saved) == on /\ saved

SourceSet(a, k, on, saved) ==
  LET p == IF saved THEN persist(a, Choosing(candidate_with_pending_off(a), k, on)) ELSE a
  IN  [p EXCEPT !.running[k] = Runs(on, saved),
                !.pend[k] = IF saved THEN "none" ELSE Word(on)]

SourceCommand(k, on) == [i \in {k} |-> on]

set_source_enabled(k, on) ==
  /\ Ready
  /\ \E saved \in BOOLEAN :
       /\ Fault(~saved)
       /\ Writes(Choosing(candidate_with_pending_off(auth), k, on), saved)
       /\ auth' = SourceSet(auth, k, on, saved)
       /\ queue' = Append(queue, SourceCommand(k, Runs(on, saved)))
       /\ Says(k, on, saved)
  /\ UNCHANGED <<engine, up, reg, copy>>

(* Titles and addresses go to the engine together, through_pause alone.     *)
Paired == Prefs \ {"through_pause"}

PrefCommand(p, running) ==
  [q \in IF p \in Paired THEN Paired ELSE {p} |-> running[q]]

PrefSet(a, p, on, saved) ==
  LET s == IF saved THEN persist(a, Choosing(candidate_with_pending_off(a), p, on)) ELSE a
  IN  [s EXCEPT !.running[p] = IF saved THEN on ELSE @ /\ on,
                !.pend[p] = IF saved THEN "none" ELSE Word(on)]

set_desktop_activity_pref(p, on) ==
  /\ Ready
  /\ \E saved \in BOOLEAN :
       /\ Fault(~saved)
       /\ Writes(Choosing(candidate_with_pending_off(auth), p, on), saved)
       /\ auth' = PrefSet(auth, p, on, saved)
       /\ queue' = IF ~on \/ saved
                   THEN Append(queue, PrefCommand(p, auth'.running)) ELSE queue
       /\ Says(p, on, saved)
  /\ UNCHANGED <<engine, up, reg, copy>>

(* evaluate_login_decision, and what carrying it out makes of the entry. *)
Decided(c, on, r) ==
  CASE c = "Dev" -> r
    [] c # "Dev" /\ on -> IF c = "Portable" /\ r = "installed" THEN r ELSE "mine"
    [] c # "Dev" /\ ~on -> IF r = "mine" THEN "absent" ELSE r

(* A registry that cannot be read or written leaves the entry alone. *)
apply_login_decision(on, fails) == IF fails THEN reg ELSE Decided(copy, on, reg)

LoginFlagged(a, failed) ==
  [a EXCEPT !.loginFailed = failed, !.pend["login"] = IF failed THEN @ ELSE "none"]

(* The login item follows an ON only once it is saved, an OFF in any case.  *)
AppliesLogin(a, on, saved, fails) ==
  LET tried == saved \/ ~on
  IN  /\ tried \/ ~fails
      /\ reg' = IF tried THEN apply_login_decision(on, fails) ELSE reg
      /\ auth' = LoginFlagged(a, ~saved \/ fails)

set_start_at_login(on) ==
  LET asked == [auth EXCEPT !.pend["login"] = Word(on)]
      cfg == Choosing(candidate_with_pending_off(asked), "login", on)
  IN  /\ Ready
      /\ \E saved, fails \in BOOLEAN :
           /\ Fault(~saved \/ fails)
           /\ Writes(cfg, saved)
           /\ AppliesLogin(IF saved THEN persist(asked, cfg) ELSE asked, on, saved, fails)
           /\ Says("login", on, saved)
      /\ UNCHANGED <<engine, queue, up, copy>>

MayAdvance == ~auth.readFailed

set_wizard_step(step) ==
  LET cfg == [candidate_with_pending_off(auth) EXCEPT !.wizard = step]
  IN  /\ Ready /\ MayAdvance
      /\ \E saved \in BOOLEAN :
           /\ Fault(~saved)
           /\ Writes(cfg, saved)
           /\ auth' = [IF saved THEN persist(auth, cfg) ELSE auth
                       EXCEPT !.pendingWizard = IF saved THEN "none" ELSE step]
           /\ SaysNothing(saved)
      /\ UNCHANGED <<engine, queue, up, reg, copy>>

dismiss_notice ==
  LET cfg == [candidate_with_pending_off(auth) EXCEPT !.noticed = TRUE]
  IN  /\ Ready /\ ~auth.readFailed
      /\ \E saved \in BOOLEAN :
           /\ Fault(~saved)
           /\ Writes(cfg, saved)
           /\ auth' = [IF saved THEN persist(auth, cfg) ELSE auth
                       EXCEPT !.noticeFailed = ~saved]
           /\ SaysNothing(saved)
      /\ UNCHANGED <<engine, queue, up, reg, copy>>

(* Everything that could not be saved, ON words included. *)
RetryConfig(a) ==
  [choice |-> [t \in Things |->
                 IF a.pend[t] = "none" THEN a.durable.choice[t] ELSE a.pend[t]],
   wizard |-> IF a.pendingWizard = "none" THEN a.durable.wizard ELSE a.pendingWizard,
   noticed |-> a.durable.noticed \/ a.noticeFailed]

NothingToRetry(a) == a.readFailed /\ \A t \in Things : a.pend[t] = "none"

Retried(a) ==
  LET cfg == RetryConfig(a)
  IN  [a EXCEPT !.durable = cfg, !.readFailed = FALSE,
                !.running = [i \in Items |->
                   CASE i \in Prefs -> Reads(cfg, i)
                     [] i \in Sources /\ a.pend[i] # "none" -> a.pend[i] = "on"
                     [] OTHER -> @[i]],
                !.pend = [t \in Things |-> IF t = "login" THEN @[t] ELSE "none"],
                !.pendingWizard = "none", !.noticeFailed = FALSE]

(* pending_login *)
LoginToRetry(a) ==
  IF a.pend["login"] # "none" THEN a.pend["login"]
  ELSE IF a.loginFailed THEN a.durable.choice["login"] ELSE "unset"

(* The order of commands for different sources does not matter. *)
Started(a) == SetToSeq({k \in Sources : a.pend[k] = "on"})

SettingsSent(S, running) == IF S = {} THEN <<>> ELSE <<[q \in S |-> running[q]]>>

RetrySends(before, after) ==
  SettingsSent(Paired, after.running) \o SettingsSent(Prefs \ Paired, after.running)
    \o [n \in 1..Len(Started(before)) |-> SourceCommand(Started(before)[n], TRUE)]

retry_save ==
  /\ Ready
  /\ \E saved, fails \in BOOLEAN :
       LET idle == NothingToRetry(auth)
           a == IF saved /\ ~idle THEN Retried(auth) ELSE auth
           login == LoginToRetry(a)
       IN  /\ idle => saved
           /\ Fault(~saved \/ fails)
           /\ Writes(RetryConfig(auth), saved /\ ~idle)
           /\ IF login \in Words THEN AppliesLogin(a, login = "on", saved, fails)
              ELSE ~fails /\ auth' = a /\ UNCHANGED reg
           /\ queue' = IF saved THEN queue \o RetrySends(auth, a) ELSE queue
           /\ SaysNothing(saved /\ ~idle)
  /\ UNCHANGED <<engine, up, copy>>

-----------------------------------------------------------------------------
(* The engine, the process and the world. *)

(* Mutation: off by one, the last command is left in the queue. *)
TwoCommandsWait == Len(queue) > 1

CommandWaits == queue # <<>>

Obeyed(choices, c) == [i \in Items |-> IF i \in DOMAIN c THEN c[i] ELSE choices[i]]

(* apply_command; a source command also notes what runs in the authority.   *)
EngineTakes ==
  LET c == Head(queue)
  IN  /\ up /\ CommandWaits
      /\ queue' = Tail(queue)
      /\ engine' = Obeyed(engine, c)
      /\ auth' = [auth EXCEPT !.running =
                    [i \in Items |-> IF i \in Sources \cap DOMAIN c THEN c[i] ELSE @[i]]]
      /\ UNCHANGED <<file, up, reg, copy, history, faults>>

(* A word that never reached the file is forgotten with the process. *)
Remembered(words, f) ==
  [t \in Things |-> IF parse_setup(f).choice[t] = words[t] THEN words[t] ELSE "none"]

Gone(words, f) ==
  /\ file' = f
  /\ up' = FALSE
  /\ auth' = Away
  /\ engine' = Away.running
  /\ queue' = <<>>
  /\ said' = Remembered(words, f)
  /\ kept' = {t \in Things : said'[t] # "none"}

(* The program ends: quit, crash, or the restart of an update. *)
Stop == up /\ Gone(said, file) /\ UNCHANGED <<reg, copy, faults>>

(* It is killed between the save of a login choice and the login item. *)
KilledBeforeLogin(on) ==
  /\ Ready
  /\ Gone([said EXCEPT !["login"] = Word(on)], Current(Choosing(candidate_with_pending_off(
             [auth EXCEPT !.pend["login"] = Word(on)]), "login", on)))
  /\ UNCHANGED <<reg, copy, faults>>

(* Another copy of the program changes the login item, or removes it. *)
OtherCopy ==
  /\ ~up
  /\ reg' \in {"absent", "installed", "other"}
  /\ UNCHANGED <<file, memory, copy, history, faults>>

(* Mutation: a launch does not look at the login choice. *)
StartupUnknown(cfg) == "unset"

login_choice(cfg) == cfg.choice["login"]

Starts(cfg, login, unread) ==
  /\ up' = TRUE
  /\ auth' = Seeded(cfg, login, unread)
  /\ engine' = auth'.running
  /\ UNCHANGED queue

(* load_or_classify of a file that can be read.  Without one, a fresh one   *)
(* must be saved or the launch is given up; a save of an upgrade may fail.  *)
Launch ==
  /\ ~up
  /\ file.kind # "damaged"
  /\ \E saved, fails \in BOOLEAN :
       /\ file.kind = "current" => saved
       /\ file.kind = "absent" => saved
       /\ Fault(~saved \/ fails)
       /\ Writes(parse_setup(file), saved)
       /\ LET login == login_choice(parse_setup(file))
          IN  /\ login \in Words \/ ~fails
              /\ reg' = IF login \in Words THEN apply_login_decision(login = "on", fails)
                        ELSE reg
       /\ Starts(parse_setup(file), fails, FALSE)
  /\ UNCHANGED <<copy, history>>

(* A file that is damaged, or that cannot be read this time, is left as it  *)
(* is; the program starts closed and does not touch the login item.         *)
LaunchUnread ==
  /\ ~up
  /\ file.kind # "absent"
  /\ Fault(file.kind # "damaged")
  /\ Starts(fail_closed, FALSE, TRUE)
  /\ said' = [t \in Things |->
                IF t \in Sources \ Optional /\ said[t] = "off" THEN "off" ELSE "none"]
  /\ kept' = kept \cap {t \in Things : said'[t] # "none"}
  /\ UNCHANGED <<file, reg, copy>>

(* Files an earlier version or run of the program may have left. *)
OldFiles ==
  {[kind |-> k, cfg |-> fresh] : k \in {"absent", "damaged"}} \cup
  {[kind |-> "old", cfg |->
      [choice |-> [t \in Things |-> IF t \in Optional THEN Word(o) ELSE Word(s)],
       wizard |-> "Done", noticed |-> FALSE]] : o, s \in BOOLEAN}

Init ==
  /\ file \in OldFiles
  /\ up = FALSE
  /\ auth = Away
  /\ engine = Away.running
  /\ queue = <<>>
  /\ reg \in {"absent", "installed", "other"}
  /\ copy \in Copies
  /\ said = [t \in Things |-> "none"]
  /\ kept = {}
  /\ faults = 0

Next ==
  \/ \E k \in Sources, on \in BOOLEAN : set_source_enabled(k, on)
  \/ \E p \in Prefs, on \in BOOLEAN : set_desktop_activity_pref(p, on)
  \/ \E on \in BOOLEAN : set_start_at_login(on) \/ KilledBeforeLogin(on)
  \/ \E step \in Steps : set_wizard_step(step)
  \/ dismiss_notice
  \/ retry_save
  \/ EngineTakes
  \/ Stop
  \/ OtherCopy
  \/ Launch
  \/ LaunchUnread

Spec == Init /\ [][Next]_vars

(* The engine's task takes the commands that wait for it. *)
FairSpec == Spec /\ WF_vars(EngineTakes)

-----------------------------------------------------------------------------
(* The file, the authority, the engine and the queue of commands have the   *)
(* values their types allow.                                                *)
TypeOK ==
  /\ file \in [kind : {"absent", "damaged", "old", "current"}, cfg : Config]
  /\ auth \in Authority
  /\ engine \in [Items -> BOOLEAN]
  /\ queue \in Seq(Commands)
  /\ reg \in {"absent", "mine", "installed", "other"}
  /\ copy \in Copies
  /\ up \in BOOLEAN
  /\ said \in [Things -> Words \cup {"none"}] /\ kept \subseteq Things
  /\ faults \in Nat

OnDisk(t) == parse_setup(file).choice[t]

(* candidate_with_pending_off's promise: once anything at all has been      *)
(* saved after the owner said OFF, the file says OFF, and it still does     *)
(* after any later save, retry, crash and launch.                           *)
OffHolds ==
  \A t \in Things : said[t] = "off" /\ t \in kept => OnDisk(t) = "off"

Mentions(commands, i) == \E n \in 1..Len(commands) : i \in DOMAIN commands[n]

(* What the engine will have once it has taken every command that waits:    *)
(* the value in the last one that mentions i, or else the value it has.     *)
Settles(choices, commands, i) ==
  \/ choices[i] /\ ~Mentions(commands, i)
  \/ \E n \in 1..Len(commands) :
       /\ i \in DOMAIN commands[n] /\ commands[n][i]
       /\ \A m \in (n + 1)..Len(commands) : i \notin DOMAIN commands[m]

(* Nothing is observed on a choice that is not on disk: whatever the engine *)
(* is on its way to has been saved as on (an unset setting counts as its    *)
(* default).  After a file that could not be read this is claimed of the    *)
(* plain sources only: an unset setting then reads as its default.          *)
ConsentOnDisk ==
  up => \A i \in Items :
          Settles(engine, queue, i) /\ (auth.readFailed => i \notin Optional)
            => Reads(parse_setup(file), i)

(* Whenever the file differs from the owner's last word, the window is told *)
(* so (failed_sources, the save_failed flags, login_apply_failed) and       *)
(* offers the retry; no save of something else hides it.                    *)
NotSavedIsShown ==
  up => \A t \in Things :
          said[t] # "none" /\ OnDisk(t) # said[t]
            => IF t = "login" THEN auth.loginFailed ELSE auth.pend[t] # "none"

(* With no command waiting the engine works with exactly what the window    *)
(* shows as running.                                                        *)
EngineFollows == up /\ queue = <<>> => engine = auth.running

(* Unless login_apply_failed is shown, the login item does what the choice  *)
(* on screen says: this copy is registered, or leaves it to an installed    *)
(* one, for on, and is not registered for off.                              *)
LoginTruthful ==
  up /\ ~auth.loginFailed /\ copy # "Dev" =>
    /\ auth.durable.choice["login"] = "on" =>
         reg = "mine" \/ (copy = "Portable" /\ reg = "installed")
    /\ auth.durable.choice["login"] = "off" => reg # "mine"

(* The window tells the truth: what runs, what is saved and what the login  *)
(* item does are what it shows, or it shows that they are not.              *)
WindowTruthful == NotSavedIsShown /\ EngineFollows /\ LoginTruthful

(* What the owner has turned off is off in the engine before long, saved or *)
(* not, unless the owner changes that word or the program ends.             *)
OffTakesEffect ==
  \A i \in Items : (up /\ said[i] = "off") ~> (~engine[i] \/ said[i] # "off" \/ ~up)
=============================================================================
