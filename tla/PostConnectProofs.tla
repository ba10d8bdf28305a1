-------------------------- MODULE PostConnectProofs --------------------------
(***************************************************************************)
(* Proofs about PostConnect, for every bound and every set of failures.     *)
(*                                                                          *)
(* Three inductive invariants, each resting on the one before.  ReportInv:  *)
(* a PUT that the journal would still take reports no older facts than it   *)
(* has, and what was asked for and is not reported is owed by the pass that *)
(* runs or by the one that follows.  AccessInv: whatever is going to remove *)
(* the file's token, a waiting answer, the worker that applies one or a     *)
(* pending clear, is aimed at a token that was withdrawn.  SoundInv: what   *)
(* is still to be written is newer than every withdrawal, there is an       *)
(* address to rebuild the client with, and the client is the file's; it     *)
(* needs a pairing that was saved with addresses.                           *)
(***************************************************************************)
EXTENDS PostConnect, TLAPS

Slots == [tok : 0..MaxTokens, use : 0..MaxTokens, gen : BOOLEAN, ends : 0..MaxEnds, cur : BOOLEAN]
Disks == [tok : 0..MaxTokens, ends : 0..MaxEnds, mine : BOOLEAN]
Fences == [disabled : BOOLEAN, inel : BOOLEAN, retired : BOOLEAN]
Controls ==
  [live : BOOLEAN, owed : BOOLEAN, phase : {"Idle", "First", "FollowUp", "Quiesced"},
   again : BOOLEAN, last : BOOLEAN, clear : {"none", "due", "late"}]
Lanes == [st : {"none", "get", "apply", "addr", "commit"}, gen : BOOLEAN]
Metas == [st : {"none", "get", "put", "reget", "reput"}, rev : Nat, facts : 0..MaxFacts]
Journals == [relay : 0..MaxTokens, ends : 0..MaxEnds, rep : 0..MaxFacts, rev : Nat]
Posts == [rev : Nat, facts : 1..MaxFacts]

(* A worker that is aimed at the token or at the addresses carries one.     *)
Carries(w) ==
  /\ w.kind = "access" => w.out \in 0..MaxTokens
  /\ w.kind = "addr" => w.out \in 0..MaxEnds

(* The worker that has told the client that relay access is gone.           *)
Told0 == own.kind = "access" /\ own.out = 0

----------------------------------------------------------------------------
(* Values.                                                                  *)

LEMMA Bounds ==
  /\ MaxEnds \in Nat /\ MaxTokens \in Nat /\ MaxFacts \in Nat /\ MaxFaults \in Nat
  /\ FirstEnds \in 0..MaxEnds /\ MaxTokens > 0
  BY PostConnectAssumption DEF PostConnectAssumption

LEMMA Values ==
  /\ NoSlot \in Slots /\ NoLane \in Lanes /\ NoLane.st = "none"
  /\ NoMeta \in Metas /\ NoMeta.st = "none"
  /\ NoOwner \in Workers /\ NoOwner.kind = "none" /\ NoOwner.cur
  /\ NewSession \in Controls /\ NewSession.clear = "none" /\ NewSession.phase = "Idle" /\ ~NewSession.again
  BY Bounds DEF NoSlot, Slots, NoLane, Lanes, NoMeta, Metas, NoOwner, Workers, NewSession, Controls

LEMMA WorkerTyped ==
  ASSUME NEW kind \in {"access", "addr", "clear"}, NEW gen \in BOOLEAN,
         NEW out \in 0..(MaxTokens + MaxEnds), NEW upto \in 0..MaxTokens
  PROVE  LET w == Worker(kind, gen, out, upto)
         IN  /\ w \in Workers /\ w.kind = kind /\ w.gen = gen /\ w.out = out /\ w.upto = upto /\ w.cur
  BY DEF Worker, Workers

(* A worker of an ended epoch, and one whose generation was left.           *)
LEMMA FencedKeeps ==
  ASSUME NEW w \in Workers
  PROVE  /\ Fenced(w) \in Workers /\ Fenced(w).kind = w.kind /\ Fenced(w).gen = w.gen
         /\ Fenced(w).out = w.out /\ Fenced(w).upto = w.upto
  BY DEF Fenced, Workers

LEMMA LeftKeeps ==
  ASSUME NEW w \in Workers
  PROVE  /\ Left(w) \in Workers /\ Left(w).kind = w.kind /\ ~Left(w).gen
         /\ Left(w).out = w.out /\ Left(w).upto = w.upto /\ Left(w).cur = w.cur
  BY DEF Left, Workers

LEMMA LeftLane ==
  ASSUME NEW l \in Lanes
  PROVE  Left(l) \in Lanes /\ Left(l).st = l.st /\ ~Left(l).gen
  BY DEF Left, Lanes

LEMMA OwnerKeeps ==
  ASSUME NEW w \in Workers, slot \in Slots
  PROVE  /\ Owner(w) \in Workers /\ Owner(w).kind = w.kind /\ Owner(w).out = w.out
         /\ Owner(w).upto = w.upto /\ Owner(w).cur = w.cur
         /\ Owner(w).gen = IF w.kind = "clear" THEN ctl.clear = "due" ELSE slot.gen
<1>1. (IF w.kind = "clear" THEN ctl.clear = "due" ELSE slot.gen) \in BOOLEAN BY DEF Slots
<1> QED BY <1>1 DEF Owner, Workers

(* What becomes of a client that is replaced.                               *)
LEMMA ReplacedTyped ==
  ASSUME NEW f \in Fences, NEW s \in Slots, NEW tok \in 0..MaxTokens, NEW ends \in 0..MaxEnds,
         NEW gen \in BOOLEAN
  PROVE  LET t == Replaced(f, s, tok, ends, gen)
             g == FenceFromCredential(f, tok, ends)
         IN  /\ t \in Slots /\ g \in Fences /\ g.retired = f.retired
             /\ ~f.retired /\ ends # 0 =>
                  /\ t.tok = tok /\ t.use = tok /\ t.gen = gen /\ t.ends = ends /\ t.cur
                  /\ g.disabled = (tok = 0)
             /\ (~Builds(f, tok, ends) => g = f /\ t.use = s.use /\ t.ends = s.ends /\ t.tok = s.tok)
             /\ (Builds(f, tok, ends) => g.disabled = (tok = 0) /\ t.use = tok /\ t.ends = ends)
<1>1. CASE Builds(f, tok, ends)
  BY <1>1 DEF Builds, Replaced, FenceFromCredential, Slots, Fences
<1>2. CASE ~Builds(f, tok, ends)
  BY <1>2 DEF Builds, Replaced, FenceFromCredential, Slots, Fences
<1> QED BY <1>1, <1>2

LEMMA DisabledTyped ==
  ASSUME NEW f \in Fences
  PROVE  /\ Disabled(f) \in Fences /\ Disabled(f).disabled /\ Disabled(f).retired = f.retired
  BY DEF Disabled, Fences

LEMMA WrittenTyped ==
  ASSUME disk \in Disks, NEW w \in Workers, Carries(w), w.kind # "none"
  PROVE  /\ Written(w) \in Disks /\ Written(w).mine = disk.mine
         /\ Written(w).ends = (IF w.kind = "addr" THEN w.out ELSE disk.ends)
         /\ w.kind = "access" => Written(w).tok = w.out
         /\ w.kind = "clear" => Written(w).tok = 0
         /\ w.kind = "addr" => Written(w).tok = IF ctl.clear = "none" THEN disk.tok ELSE 0
<1> DEFINE e == IF w.kind = "addr" THEN w.out ELSE disk.ends
<1> DEFINE t == CASE w.kind = "access" -> w.out
                  [] w.kind = "clear" -> 0
                  [] w.kind = "addr" -> IF ctl.clear = "none" THEN disk.tok ELSE 0
<1>1. w.kind \in {"access", "addr", "clear"} BY DEF Workers
<1>2. e \in 0..MaxEnds BY DEF Carries, Disks
<1>3. /\ t \in 0..MaxTokens /\ (w.kind = "access" => t = w.out) /\ (w.kind = "clear" => t = 0)
      /\ (w.kind = "addr" => t = IF ctl.clear = "none" THEN disk.tok ELSE 0)
  BY <1>1, Bounds DEF Carries, Disks
<1>4. Written(w) = [disk EXCEPT !.ends = e, !.tok = t] BY DEF Written, Disks
<1> HIDE DEF e, t
<1>5. Written(w) \in Disks /\ Written(w).mine = disk.mine /\ Written(w).ends = e /\ Written(w).tok = t
  BY <1>2, <1>3, <1>4 DEF Disks
<1> QED BY <1>3, <1>5 DEF e

----------------------------------------------------------------------------
(* The facts that are reported.                                             *)

(* A PUT that the journal would accept reports no older facts than it has.  *)
SentOf(p, j, now) ==
  /\ p.rev <= j.rev /\ p.facts <= now
  /\ p.rev = j.rev => p.facts >= j.rep

Underway == meta.st \in {"put", "reput"}
Put == [rev |-> meta.rev, facts |-> meta.facts]

Reported ==
  /\ journal.rep <= facts /\ want <= facts
  /\ \A p \in posts : SentOf(p, journal, facts)
  /\ Underway => Put \in Posts /\ SentOf(Put, journal, facts)

Passing == ctl.phase \in {"First", "FollowUp"}

(* What was asked for and is not reported will be: by the pass that         *)
(* follows, or by this one.                                                 *)
Promised ==
  /\ lane.st # "none" \/ meta.st # "none" => Passing
  /\ ~broken /\ journal.rep < want =>
       \/ FollowUpDue
       \/ /\ Passing
          /\ \/ meta.st \in {"get", "reget"}
             \/ Underway /\ meta.facts >= want

ReportTyped ==
  /\ ctl \in Controls /\ lane \in Lanes /\ meta \in Metas /\ up \in BOOLEAN
  /\ journal \in Journals /\ facts \in 0..MaxFacts /\ posts \subseteq Posts
  /\ want \in 0..MaxFacts /\ broken \in BOOLEAN /\ faults \in 0..MaxFaults

Away == ~up => lane = NoLane /\ meta = NoMeta /\ ctl = [NewSession EXCEPT !.live = FALSE]

ReportInv == ReportTyped /\ Reported /\ Promised /\ Away

LEMMA CostsTyped ==
  ASSUME ReportInv, Costs \/ Free
  PROVE  faults' \in 0..MaxFaults
  BY Bounds DEF ReportInv, ReportTyped, Costs, Free

(* Nothing is said or asked that the report depends on.                     *)
LEMMA ReportRests ==
  ASSUME ReportInv, ctl' \in Controls, ctl'.phase = ctl.phase, ctl'.again = ctl.again,
         lane' \in Lanes, lane'.st = "none" \/ lane.st # "none", UNCHANGED <<meta, posts, want, broken>>,
         journal' \in Journals, journal'.rep = journal.rep, journal'.rev = journal.rev,
         facts' \in 0..MaxFacts, facts <= facts', up' = up, up \/ UNCHANGED <<ctl, lane>>, Costs \/ Free
  PROVE  ReportInv'
<1>1. faults' \in 0..MaxFaults BY CostsTyped
<1>2. ReportTyped' BY <1>1 DEF ReportInv, ReportTyped
<1>3. \A p : p \in Posts /\ SentOf(p, journal, facts) => SentOf(p, journal', facts')
  BY DEF SentOf, ReportInv, ReportTyped, Posts, Journals
<1>4. Put' = Put /\ (Underway' <=> Underway) BY DEF Put, Underway
<1>5. Reported'
  <2>1. journal'.rep <= facts' /\ want' <= facts'
    BY DEF ReportInv, ReportTyped, Reported, Journals
  <2> QED BY <1>3, <1>4, <2>1 DEF ReportInv, ReportTyped, Reported
<1>6. Promised' BY <1>4 DEF ReportInv, Promised, Passing, FollowUpDue
<1>7. Away' BY DEF ReportInv, Away
<1> QED BY <1>2, <1>5, <1>6, <1>7 DEF ReportInv

(* A PUT that its lane no longer waits for.                                 *)
LEMMA AbandonedSent ==
  ASSUME ReportInv
  PROVE  Abandoned \subseteq Posts /\ \A p \in Abandoned : SentOf(p, journal, facts)
  BY DEF ReportInv, ReportTyped, Reported, Abandoned, Underway, Put

(* A pass that is cut.                                                      *)
LEMMA CutReport ==
  ASSUME ReportInv, Cut, ctl' \in Controls, up' \in BOOLEAN, Away', UNCHANGED <<journal, facts, want>>,
         Costs \/ Free
  PROVE  ReportInv'
<1>1. faults' \in 0..MaxFaults BY CostsTyped
<1>2. lane' = NoLane /\ meta' = NoMeta /\ posts' = Abandoned /\ broken' = (broken \/ journal.rep < want)
  BY DEF Cut, Loses
<1>3. ReportTyped' BY <1>1, <1>2, Values, AbandonedSent DEF ReportInv, ReportTyped
<1>4. ~Underway' /\ lane'.st = "none" /\ meta'.st = "none" BY <1>2, Values DEF Underway
<1>5. Reported' BY <1>2, <1>4, AbandonedSent DEF ReportInv, Reported
<1>6. Promised' BY <1>2, <1>4 DEF Promised
<1> QED BY <1>3, <1>5, <1>6 DEF ReportInv

LEMMA FinishedKeeps ==
  ASSUME NEW c \in Controls
  PROVE  /\ Finished(c) \in Controls /\ Finished(c).clear = c.clear /\ Finished(c).live = c.live
         /\ Finished(c).phase = IF c.phase = "First" /\ c.again THEN "FollowUp" ELSE "Quiesced"
  BY DEF Finished, Controls

(* The last of the two lanes has ended.                                     *)
LEMMA PassesReport ==
  ASSUME ReportInv, Passes(Finished(ctl)), UNCHANGED <<facts, want, up>>, up,
         journal' \in Journals, journal.rep <= journal'.rep, journal'.rep <= facts,
         posts' \subseteq Posts, \A p \in posts' : SentOf(p, journal', facts),
         broken' \in BOOLEAN, ~broken' => FollowUpDue \/ journal'.rep >= want, Costs \/ Free
  PROVE  ReportInv'
<1>1. faults' \in 0..MaxFaults BY CostsTyped
<1>2. ctl \in Controls BY DEF ReportInv, ReportTyped
<1>3. ctl' = Finished(ctl) BY DEF Passes
<1>4. ctl' \in Controls /\ ctl'.phase = IF FollowUpDue THEN "FollowUp" ELSE "Quiesced"
  BY <1>2, <1>3, FinishedKeeps DEF FollowUpDue
<1>5. CASE FollowUpDue
  <2>1. ctl'.phase = "FollowUp" BY <1>4, <1>5
  <2>2. lane' = [st |-> "get", gen |-> TRUE] /\ meta' = [NoMeta EXCEPT !.st = "get"]
    BY <1>3, <2>1 DEF Passes, LanesStart
  <2>3. lane' \in Lanes /\ meta' \in Metas /\ meta'.st = "get" BY <2>2, Bounds DEF Lanes, Metas, NoMeta
  <2>4. ReportTyped' BY <1>1, <1>4, <2>3 DEF ReportInv, ReportTyped
  <2>5. Reported' BY <2>3 DEF ReportInv, Reported, Underway
  <2>6. Promised' BY <2>1, <2>3 DEF Promised, Passing
  <2> QED BY <2>4, <2>5, <2>6 DEF ReportInv, Away
<1>6. CASE ~FollowUpDue
  <2>1. ctl'.phase = "Quiesced" BY <1>4, <1>6
  <2>2. lane' = NoLane /\ meta' = NoMeta BY <1>3, <2>1 DEF Passes, LanesEnd
  <2>3. lane' \in Lanes /\ meta' \in Metas /\ meta'.st = "none" /\ lane'.st = "none" BY <2>2, Values
  <2>4. ReportTyped' BY <1>1, <1>4, <2>3 DEF ReportInv, ReportTyped
  <2>5. Reported' BY <2>3 DEF ReportInv, Reported, Underway
  <2>6. Promised'
    <3>1. ~broken' => journal'.rep >= want BY <1>6
    <3>2. ~(journal'.rep >= want /\ journal'.rep < want)
      BY Bounds DEF ReportInv, ReportTyped, Journals
    <3> QED BY <2>3, <3>1, <3>2 DEF Promised
  <2> QED BY <2>4, <2>5, <2>6 DEF ReportInv, Away
<1> QED BY <1>5, <1>6

(* The metadata lane ends.                                                  *)
LEMMA MetaEndsReport ==
  ASSUME ReportInv, MetaEnds, UNCHANGED <<facts, want, up>>, up,
         journal' \in Journals, journal.rep <= journal'.rep, journal'.rep <= facts,
         posts' \subseteq Posts, \A p \in posts' : SentOf(p, journal', facts),
         broken' \in BOOLEAN, ~broken' => FollowUpDue \/ journal'.rep >= want, Costs \/ Free
  PROVE  ReportInv'
<1>1. CASE Passes(Finished(ctl)) BY <1>1, PassesReport
<1>2. CASE meta' = NoMeta /\ UNCHANGED <<ctl, lane>>
  <2>1. faults' \in 0..MaxFaults BY CostsTyped
  <2>2. ReportTyped' BY <1>2, <2>1, Values DEF ReportInv, ReportTyped
  <2>3. meta'.st = "none" BY <1>2, Values
  <2>4. Reported' BY <2>3 DEF ReportInv, Reported, Underway
  <2>5. ~(journal'.rep >= want /\ journal'.rep < want)
    BY Bounds DEF ReportInv, ReportTyped, Journals
  <2>6. Promised' BY <1>2, <2>3, <2>5 DEF ReportInv, Promised, Passing, FollowUpDue
  <2> QED BY <2>2, <2>4, <2>6 DEF ReportInv, Away
<1> QED BY <1>1, <1>2 DEF MetaEnds

(* The access lane ends.                                                    *)
LEMMA AccessEndsReport ==
  ASSUME ReportInv, AccessEnds, UNCHANGED <<world, want, broken, up>>, up, Costs \/ Free
  PROVE  ReportInv'
<1>1. journal' = journal /\ facts' = facts /\ posts' = posts BY DEF world
<1>2. CASE meta = NoMeta
  <2>1. Passes(Finished(ctl)) BY <1>2 DEF AccessEnds
  <2>2. ~broken => FollowUpDue \/ journal.rep >= want
    <3>1. journal.rep >= want \/ journal.rep < want BY Bounds DEF ReportInv, ReportTyped, Journals
    <3>2. meta.st = "none" BY <1>2, Values
    <3> QED BY <3>1, <3>2 DEF ReportInv, Promised, Underway
  <2>3. journal.rep <= journal.rep BY DEF ReportInv, ReportTyped, Journals
  <2> QED BY <1>1, <2>1, <2>2, <2>3, PassesReport DEF ReportInv, ReportTyped, Reported
<1>3. CASE meta # NoMeta
  <2>1. lane' = NoLane /\ UNCHANGED <<ctl, meta>> BY <1>3 DEF AccessEnds
  <2>2. facts <= facts BY DEF ReportInv, ReportTyped
  <2> QED BY <1>1, <2>1, <2>2, Values, ReportRests DEF ReportInv, ReportTyped
<1> QED BY <1>2, <1>3

(* A pass is asked for.                                                     *)
LEMMA TriggerReport ==
  ASSUME ReportInv, NEW c \in Controls, c.phase = ctl.phase, up, Trigger(c)
  PROVE  ReportInv'
<1>1. UNCHANGED <<up, journal, facts>> BY DEF Trigger
<1>2. faults' \in 0..MaxFaults BY CostsTyped DEF Trigger
<1>3. want' \in 0..MaxFacts /\ want' <= facts /\ broken' \in BOOLEAN
  <2>1. (want' = want /\ broken' = broken) \/ (want' = facts /\ broken' = FALSE) BY DEF Trigger
  <2>2. facts <= facts /\ facts \in 0..MaxFacts BY DEF ReportInv, ReportTyped
  <2> QED BY <2>1, <2>2 DEF ReportInv, ReportTyped, Reported
<1>4. CASE c.phase \in {"Idle", "Quiesced"}
  <2>1. /\ ctl' = [c EXCEPT !.phase = "First", !.again = FALSE, !.last = TRUE]
        /\ lane' = [st |-> "get", gen |-> TRUE] /\ meta' = [NoMeta EXCEPT !.st = "get"]
        /\ posts' = Abandoned
    BY <1>4 DEF Trigger, LanesStart
  <2>2. ctl' \in Controls /\ ctl'.phase = "First" BY <2>1 DEF Controls
  <2>3. lane' \in Lanes /\ meta' \in Metas /\ meta'.st = "get" BY <2>1, Bounds DEF Lanes, Metas, NoMeta
  <2>4. ReportTyped' BY <1>1, <1>2, <1>3, <2>1, <2>2, <2>3, AbandonedSent DEF ReportInv, ReportTyped
  <2>5. Reported' BY <1>1, <1>3, <2>1, <2>3, AbandonedSent DEF ReportInv, Reported, Underway
  <2>6. Promised' BY <2>2, <2>3 DEF Promised, Passing
  <2> QED BY <1>1, <2>4, <2>5, <2>6 DEF ReportInv, Away
<1>5. CASE c.phase \notin {"Idle", "Quiesced"}
  <2>1. ctl' = [c EXCEPT !.again = TRUE] /\ UNCHANGED <<lane, meta, posts>> BY <1>5 DEF Trigger
  <2>2. ctl' \in Controls /\ ctl'.phase = ctl.phase /\ ctl'.again BY <2>1 DEF Controls
  <2>3. ctl.phase \in {"First", "FollowUp"} BY <1>5 DEF Controls
  <2>4. ReportTyped' BY <1>1, <1>2, <1>3, <2>1, <2>2 DEF ReportInv, ReportTyped
  <2>5. (Underway' <=> Underway) /\ Put' = Put BY <2>1 DEF Underway, Put
  <2>6. Reported' BY <1>1, <1>3, <2>1, <2>5 DEF ReportInv, Reported
  <2>7. Promised'
    <3>1. CASE ctl.phase = "First" BY <2>2, <3>1 DEF Promised, Passing, FollowUpDue
    <3>2. CASE ctl.phase = "FollowUp"
      <4>1. UNCHANGED <<want, broken>> BY <3>2 DEF Trigger
      <4>2. ~FollowUpDue BY <3>2 DEF FollowUpDue
      <4> QED BY <1>1, <2>1, <2>2, <2>5, <3>2, <4>1, <4>2 DEF ReportInv, Promised, Passing
    <3> QED BY <2>3, <3>1, <3>2
  <2> QED BY <1>1, <2>4, <2>6, <2>7 DEF ReportInv, Away
<1> QED BY <1>4, <1>5

LEMMA MetaReadReport ==
  ASSUME ReportInv, MetaRead
  PROVE  ReportInv'
<1>1. up /\ meta.st \in {"get", "reget"} /\ UNCHANGED <<up, world, history>> /\ Free BY DEF MetaRead
<1>2. UNCHANGED <<up, journal, facts, posts, want, broken>> BY <1>1 DEF world, history
<1>3. CASE journal.rep = facts /\ MetaEnds
  <2>1. journal.rep >= want /\ journal.rep <= journal.rep
    BY <1>3 DEF ReportInv, ReportTyped, Reported, Journals
  <2> QED BY <1>1, <1>2, <1>3, <2>1, MetaEndsReport DEF ReportInv, ReportTyped, Reported
<1>4. CASE journal.rep # facts /\ UNCHANGED <<ctl, lane>> /\
           meta' = [st |-> IF meta.st = "get" THEN "put" ELSE "reput", rev |-> journal.rev, facts |-> facts]
  <2>1. /\ meta' \in Metas /\ meta'.st \in {"put", "reput"} /\ meta'.rev = journal.rev /\ meta'.facts = facts
    BY <1>4 DEF ReportInv, ReportTyped, Metas, Journals
  <2>2. facts > journal.rep /\ facts >= want /\ facts \in 1..MaxFacts
    BY <1>4, Bounds DEF ReportInv, ReportTyped, Reported, Journals
  <2>3. faults' \in 0..MaxFaults BY <1>1, CostsTyped
  <2>4. ReportTyped' BY <1>2, <1>4, <2>1, <2>3 DEF ReportInv, ReportTyped
  <2>5. Put' = [rev |-> journal.rev, facts |-> facts] BY <2>1 DEF Put
  <2>6. Put' \in Posts /\ SentOf(Put', journal, facts)
    BY <2>2, <2>5 DEF ReportInv, ReportTyped, Posts, SentOf, Journals
  <2>7. Reported' BY <1>2, <2>6 DEF ReportInv, Reported
  <2>8. ctl.phase \in {"First", "FollowUp"} BY <1>1 DEF ReportInv, Promised, Passing
  <2>9. Promised' BY <1>2, <1>4, <2>1, <2>2, <2>8 DEF Promised, Passing, Underway
  <2> QED BY <1>1, <2>4, <2>7, <2>9 DEF ReportInv, Away
<1> QED BY <1>3, <1>4 DEF MetaRead

(* A PUT reaches the journal, which takes it under its revision only.       *)
LEMMA StoredReports ==
  ASSUME ReportInv, NEW p \in Posts, SentOf(p, journal, facts)
  PROVE  LET j == Stored(journal, p)
         IN  /\ j \in Journals /\ journal.rep <= j.rep /\ j.rep <= facts
             /\ j.relay = journal.relay /\ j.ends = journal.ends
             /\ (j # journal => p.rev = journal.rev /\ j.rep = p.facts /\ j.rev = journal.rev + 1)
             /\ \A q \in Posts : SentOf(q, journal, facts) => SentOf(q, j, facts)
<1>1. CASE p.rev = journal.rev
  <2> DEFINE j == Stored(journal, p)
  <2>1. j = [journal EXCEPT !.rep = p.facts, !.rev = @ + 1] BY <1>1 DEF Stored
  <2>2. /\ j \in Journals /\ j.rep = p.facts /\ j.rev = journal.rev + 1 /\ j.relay = journal.relay
        /\ j.ends = journal.ends
    <3> HIDE DEF j
    <3>1. journal \in Journals /\ p.facts \in 0..MaxFacts BY Bounds DEF ReportInv, ReportTyped, Posts
    <3>2. journal.rev + 1 \in Nat BY <3>1 DEF Journals
    <3>3. j = [journal EXCEPT !.rep = p.facts, !.rev = journal.rev + 1] BY <2>1, <3>1 DEF Journals
    <3>4. j \in Journals BY <3>1, <3>2, <3>3 DEF Journals
    <3> QED BY <3>1, <3>3, <3>4 DEF Journals
  <2> HIDE DEF j
  <2>3. journal.rep <= j.rep /\ j.rep <= facts BY <1>1, <2>2 DEF SentOf, ReportInv, ReportTyped, Journals, Posts
  <2>4. \A q \in Posts : SentOf(q, journal, facts) => SentOf(q, j, facts)
    BY <2>2 DEF SentOf, ReportInv, ReportTyped, Journals, Posts
  <2> QED BY <1>1, <2>2, <2>3, <2>4 DEF j
<1>2. CASE p.rev # journal.rev
  <2>1. Stored(journal, p) = journal BY <1>2 DEF Stored
  <2>2. journal \in Journals /\ journal.rep <= journal.rep /\ journal.rep <= facts
    BY DEF ReportInv, ReportTyped, Reported, Journals
  <2> QED BY <2>1, <2>2
<1> QED BY <1>1, <1>2

LEMMA MetaPutReport ==
  ASSUME ReportInv, MetaPut
  PROVE  ReportInv'
<1>1. /\ up /\ Underway /\ Free /\ journal' = Stored(journal, Put)
      /\ UNCHANGED <<up, facts, posts, want>>
  BY DEF MetaPut, Underway, Put
<1>2. Put \in Posts /\ SentOf(Put, journal, facts) BY <1>1 DEF ReportInv, Reported
<1>3. /\ journal' \in Journals /\ journal.rep <= journal'.rep /\ journal'.rep <= facts
      /\ \A q \in Posts : SentOf(q, journal, facts) => SentOf(q, journal', facts)
  BY <1>1, <1>2, StoredReports
<1>4. posts \subseteq Posts /\ \A p \in posts : SentOf(p, journal', facts)
  BY <1>3 DEF ReportInv, ReportTyped, Reported
<1>5. CASE journal' = journal /\ meta.st = "put"
  <2>1. meta' = [NoMeta EXCEPT !.st = "reget"] /\ UNCHANGED <<ctl, lane, broken>> BY <1>5 DEF MetaPut
  <2>2. meta' \in Metas /\ meta'.st = "reget" BY <2>1, Bounds DEF NoMeta, Metas
  <2>3. faults' \in 0..MaxFaults BY <1>1, CostsTyped
  <2>4. ReportTyped' BY <1>1, <1>5, <2>1, <2>2, <2>3 DEF ReportInv, ReportTyped
  <2>5. Reported' BY <1>1, <1>5, <2>2 DEF ReportInv, Reported, Underway
  <2>6. Promised' BY <1>1, <1>5, <2>1, <2>2 DEF ReportInv, Promised, Passing, Underway, FollowUpDue
  <2> QED BY <1>1, <2>4, <2>5, <2>6 DEF ReportInv, Away
<1>6. CASE ~(journal' = journal /\ meta.st = "put")
  <2>1. MetaEnds /\ broken' = (broken \/ (~FollowUpDue /\ journal'.rep < want)) BY <1>6 DEF MetaPut
  <2>2. ~broken' => FollowUpDue \/ journal'.rep >= want
    <3>1. journal'.rep >= want \/ journal'.rep < want BY <1>3 DEF ReportInv, ReportTyped, Journals
    <3> QED BY <2>1, <3>1
  <2>3. broken' \in BOOLEAN BY <2>1
  <2> QED BY <1>1, <1>3, <1>4, <2>1, <2>2, <2>3, MetaEndsReport
<1> QED BY <1>5, <1>6

LEMMA MetaFailsReport ==
  ASSUME ReportInv, MetaFails
  PROVE  ReportInv'
<1>1. /\ up /\ Costs /\ MetaEnds /\ posts' = Abandoned /\ UNCHANGED <<up, journal, facts, want>>
      /\ broken' = (broken \/ (~FollowUpDue /\ journal.rep < want))
  BY DEF MetaFails
<1>2. /\ journal.rep <= journal'.rep /\ journal'.rep <= facts /\ journal' \in Journals
      /\ journal'.rep >= want \/ journal.rep < want
  <2>1. journal.rep <= journal.rep /\ journal.rep <= facts /\ journal \in Journals
    BY DEF ReportInv, ReportTyped, Reported, Journals
  <2>2. journal.rep >= want \/ journal.rep < want BY DEF ReportInv, ReportTyped, Journals
  <2> QED BY <1>1, <2>1, <2>2
<1>3. posts' \subseteq Posts /\ \A p \in posts' : SentOf(p, journal', facts) BY <1>1, AbandonedSent
<1>4. broken' \in BOOLEAN /\ (~broken' => FollowUpDue \/ journal'.rep >= want) BY <1>1, <1>2
<1> QED BY <1>1, <1>2, <1>3, <1>4, MetaEndsReport

LEMMA PutArrivesReport ==
  ASSUME ReportInv, PutArrives
  PROVE  ReportInv'
<1>1. /\ Free /\ UNCHANGED <<ctl, lane, meta, up, facts, want, broken>>
  BY DEF PutArrives, lanes, history
<1>2. PICK p \in posts : journal' = Stored(journal, p) /\ posts' = posts \ {p} BY DEF PutArrives
<1>3. p \in Posts /\ SentOf(p, journal, facts) BY <1>2 DEF ReportInv, ReportTyped, Reported
<1>4. /\ journal' \in Journals /\ journal.rep <= journal'.rep /\ journal'.rep <= facts
      /\ \A q \in Posts : SentOf(q, journal, facts) => SentOf(q, journal', facts)
  BY <1>2, <1>3, StoredReports
<1>5. faults' \in 0..MaxFaults BY <1>1, CostsTyped
<1>6. ReportTyped' BY <1>1, <1>2, <1>4, <1>5 DEF ReportInv, ReportTyped
<1>7. (Underway' <=> Underway) /\ Put' = Put BY <1>1 DEF Underway, Put
<1>8. Reported' BY <1>1, <1>2, <1>4, <1>7 DEF ReportInv, ReportTyped, Reported
<1>9. journal'.rep < want => journal.rep < want BY <1>4 DEF ReportInv, ReportTyped, Journals
<1>10. Promised' BY <1>1, <1>7, <1>9 DEF ReportInv, Promised, Passing, FollowUpDue
<1> QED BY <1>1, <1>6, <1>8, <1>10 DEF ReportInv, Away

(* What a step leaves alone, when it is none of the ones above.             *)
LEMMA QuietReport ==
  ASSUME ReportInv, issued \in 1..MaxTokens,
         \/ LaneStep /\ ~AddrGoesOn
         \/ AccessNoAnswer \/ WorkerBegins \/ WorkerWrites \/ Refresh \/ Taken
         \/ JournalRevokes \/ JournalIssues \/ JournalMoves \/ FactsChange
  PROVE  ReportInv'
<1>0. /\ ctl \in Controls /\ lane \in Lanes /\ journal \in Journals /\ facts \in 0..MaxFacts
      /\ facts <= facts /\ (lane.st = "none" \/ lane.st # "none")
  BY DEF ReportInv, ReportTyped
<1>1. ASSUME UNCHANGED <<ctl, lane, meta, world, want, broken, up>>, Costs \/ Free PROVE ReportInv'
  BY <1>0, <1>1, ReportRests DEF world
<1>2. ASSUME up, lane.st # "none", NEW st \in {"apply", "addr", "commit"}, LaneGoesTo(st),
             UNCHANGED <<up, world, history>>, Costs \/ Free
      PROVE  ReportInv'
  <2>1. lane' \in Lanes /\ UNCHANGED <<ctl, meta>> BY <1>2 DEF LaneGoesTo, NoLane, Lanes
  <2> QED BY <1>0, <1>2, <2>1, ReportRests DEF world, history
<1>3. CASE AccessAnswered BY <1>2, <1>3 DEF AccessAnswered
<1>4. CASE AccessGoesOn BY <1>2, <1>4 DEF AccessGoesOn
<1>5. CASE AddrAnswered BY <1>2, <1>5 DEF AddrAnswered
<1>6. CASE AccessNoAnswer BY <1>2, <1>6 DEF AccessNoAnswer
<1>7. CASE WorkerBegins BY <1>1, <1>7 DEF WorkerBegins, Begins
<1>8. CASE Taken BY <1>1, <1>8 DEF Taken, lanes, history
<1>9. ASSUME up, UNCHANGED <<meta, up, world, want, broken>>, Costs \/ Free,
             lane' = lane \/ lane' = Left(lane),
             ctl' = ctl \/ \E c \in {"none", "due", "late"} : ctl' = [ctl EXCEPT !.clear = c]
      PROVE  ReportInv'
  <2>1. ctl' \in Controls /\ ctl'.phase = ctl.phase /\ ctl'.again = ctl.again BY <1>0, <1>9 DEF Controls
  <2>2. lane' \in Lanes /\ lane'.st = lane.st BY <1>0, <1>9, LeftLane
  <2> QED BY <1>0, <1>9, <2>1, <2>2, ReportRests DEF world
<1>10. CASE WorkerWrites
  <2>1. ctl.clear \in {"none", "due", "late"} BY <1>0 DEF Controls
  <2>2. ASSUME WrittenWell(own)
        PROVE  lane' = Left(lane) /\ \E c \in {"none", "due", "late"} : ctl' = [ctl EXCEPT !.clear = c]
    BY <2>1, <2>2 DEF WrittenWell, SlotMoves
  <2>3. ASSUME Failed(own)
        PROVE  lane' = lane /\ \E c \in {"none", "due", "late"} : ctl' = [ctl EXCEPT !.clear = c]
    BY <2>1, <2>3 DEF Failed
  <2>4. ASSUME Uncertain(own)
        PROVE  lane' = Left(lane) /\ \E c \in {"none", "due", "late"} : ctl' = [ctl EXCEPT !.clear = c]
    BY <2>1, <2>4 DEF Uncertain, SlotMoves
  <2>5. up /\ UNCHANGED <<meta, up, world, want, broken>> BY <1>10 DEF WorkerWrites, history
  <2> QED BY <1>9, <1>10, <2>2, <2>3, <2>4, <2>5 DEF WorkerWrites
<1>11. CASE Refresh
  <2>1. ctl.clear \in {"none", "due", "late"} BY <1>0 DEF Controls
  <2>2. up /\ UNCHANGED <<meta, up, world, want, broken>> BY <1>11 DEF Refresh, Usable
  <2>3. Costs \/ Free BY <1>11 DEF Refresh
  <2>4. (lane' = lane /\ ctl' = ctl) \/
        (lane' = Left(lane) /\ \E c \in {"none", "due", "late"} : ctl' = [ctl EXCEPT !.clear = c])
    BY <1>11, <2>1 DEF Refresh, SlotMoves
  <2> QED BY <1>9, <2>2, <2>3, <2>4
<1>12. ASSUME NEW j \in Journals, j.rep = journal.rep, j.rev = journal.rev, JournalChanges(j)
       PROVE  ReportInv'
  BY <1>0, <1>12, ReportRests DEF JournalChanges, lanes
<1>13. CASE JournalRevokes
  <2>1. [journal EXCEPT !.relay = 0] \in Journals BY <1>0, Bounds DEF Journals
  <2> QED BY <1>0, <1>12, <1>13, <2>1 DEF JournalRevokes, Journals
<1>14. CASE JournalIssues
  <2>1. issued + 1 \in 0..MaxTokens BY <1>14, Bounds DEF JournalIssues
  <2>2. [journal EXCEPT !.relay = issued + 1] \in Journals BY <1>0, <2>1 DEF Journals
  <2> QED BY <1>0, <1>12, <1>14, <2>2 DEF JournalIssues, Journals
<1>15. CASE JournalMoves
  <2>1. journal.ends + 1 \in 0..MaxEnds BY <1>0, <1>15, Bounds DEF JournalMoves, Journals
  <2>2. [journal EXCEPT !.ends = @ + 1] = [journal EXCEPT !.ends = journal.ends + 1] BY <1>0 DEF Journals
  <2>3. [journal EXCEPT !.ends = journal.ends + 1] \in Journals BY <1>0, <2>1 DEF Journals
  <2> QED BY <1>0, <1>12, <1>15, <2>2, <2>3 DEF JournalMoves, Journals
<1>16. CASE FactsChange
  <2>1. facts' \in 0..MaxFacts /\ facts <= facts' BY <1>0, <1>16, Bounds DEF FactsChange
  <2> QED BY <1>0, <1>16, <2>1, ReportRests DEF FactsChange, lanes, history
<1> QED BY <1>3, <1>4, <1>5, <1>6, <1>7, <1>8, <1>10, <1>11, <1>13, <1>14, <1>15, <1>16 DEF LaneStep

(* A binding that loses its pass, or its life, and the next launch.         *)
LEMMA LifeReport ==
  ASSUME ReportInv, Disconnect \/ Quiesce \/ Shutdown \/ Rebind \/ Crash \/ Launch
  PROVE  ReportInv'
<1>0. ctl \in Controls /\ NewSession \in Controls /\ up \in BOOLEAN BY Values DEF ReportInv, ReportTyped
<1>1. ASSUME up, up' = up, Cut, ctl' \in Controls, UNCHANGED <<journal, facts, want>>, Costs \/ Free
      PROVE  ReportInv'
  BY <1>0, <1>1, CutReport DEF Away
<1>2. CASE Disconnect
  <2>1. ctl' \in Controls BY <1>0, <1>2 DEF Disconnect, Controls
  <2> QED BY <1>1, <1>2, <2>1 DEF Disconnect
<1>3. CASE Quiesce
  <2>1. ctl' \in Controls BY <1>0, <1>3 DEF Quiesce, Controls
  <2> QED BY <1>1, <1>3, <2>1 DEF Quiesce
<1>4. CASE Shutdown
  <2>1. ctl' \in Controls BY <1>0, <1>4 DEF Shutdown, Controls
  <2> QED BY <1>1, <1>4, <2>1 DEF Shutdown
<1>5. CASE Rebind BY <1>0, <1>1, <1>5 DEF Rebind, Binds
<1>6. CASE Crash
  <2>1. ctl' \in Controls BY <1>0, <1>6 DEF Crash, Controls
  <2>2. Away' BY <1>6 DEF Crash, Cut, Away, NewSession
  <2> QED BY <1>6, <2>1, <2>2, CutReport DEF Crash
<1>7. CASE Launch
  <2>1. ~up /\ up' /\ ctl' = NewSession /\ Free /\ UNCHANGED <<lane, meta, journal, facts, posts, want, broken>>
    BY <1>7 DEF Launch, Binds, lanes, world
  <2>2. lane.st = "none" /\ meta.st = "none" BY <2>1, Values DEF ReportInv, Away
  <2>3. faults' \in 0..MaxFaults BY <2>1, CostsTyped
  <2>4. ReportTyped' BY <1>0, <2>1, <2>3 DEF ReportInv, ReportTyped
  <2>5. Reported' BY <2>1, <2>2 DEF ReportInv, Reported, Underway
  <2>6. ~FollowUpDue /\ ~Passing
    BY <2>1 DEF ReportInv, Away, NewSession, FollowUpDue, Passing
  <2>7. Promised' BY <2>1, <2>2, <2>6 DEF ReportInv, Promised
  <2> QED BY <2>1, <2>4, <2>5, <2>7 DEF ReportInv, Away
<1> QED BY <1>2, <1>3, <1>4, <1>5, <1>6, <1>7

LEMMA ReportInit == Init => ReportInv
<1> SUFFICES ASSUME Init PROVE ReportInv OBVIOUS
<1>1. ReportTyped
  <2>1. [relay |-> 1, ends |-> FirstEnds, rep |-> 0, rev |-> 0] \in Journals BY Bounds DEF Journals
  <2>2. 0 \in 0..MaxFacts /\ 0 \in 0..MaxFaults BY Bounds
  <2> QED BY <2>1, <2>2, Values DEF Init, ReportTyped
<1>2. Reported BY Values DEF Init, Reported, Underway
<1>3. Promised BY Values DEF Init, Promised
<1> QED BY <1>1, <1>2, <1>3 DEF ReportInv, Away, Init

LEMMA ReportNext ==
  ASSUME ReportInv, issued \in 1..MaxTokens, [Next]_vars
  PROVE  ReportInv'
<1>1. CASE UploaderStarts
  <2>1. [ctl EXCEPT !.owed = FALSE] \in Controls /\ [ctl EXCEPT !.owed = FALSE].phase = ctl.phase
    BY DEF ReportInv, ReportTyped, Controls
  <2> QED BY <1>1, <2>1, TriggerReport DEF UploaderStarts
<1>2. CASE NoteConnected
  <2>1. [ctl EXCEPT !.last = TRUE] \in Controls /\ [ctl EXCEPT !.last = TRUE].phase = ctl.phase
    BY DEF ReportInv, ReportTyped, Controls
  <2> QED BY <1>2, <2>1, TriggerReport DEF NoteConnected
<1>3. CASE MetaStep \/ MetaFails BY <1>3, MetaReadReport, MetaPutReport, MetaFailsReport DEF MetaStep
<1>4. CASE AddrNoAnswer BY <1>4, AccessEndsReport DEF AddrNoAnswer, history
<1>5. CASE AddrGoesOn BY <1>5, AccessEndsReport DEF AddrGoesOn, history
<1>6. CASE PutArrives BY <1>6, PutArrivesReport
<1>7. CASE Disconnect \/ Quiesce \/ Shutdown \/ Rebind \/ Crash \/ Launch BY <1>7, LifeReport
<1>8. CASE UNCHANGED vars
  <2>1. UNCHANGED <<ctl, lane, meta, up, journal, facts, posts, want, broken, faults>>
    BY <1>8 DEF vars, lanes, world, history
  <2> QED BY <2>1 DEF ReportInv, ReportTyped, Reported, Promised, Away, Passing, FollowUpDue, Underway, Put
<1> QED BY <1>1, <1>2, <1>3, <1>4, <1>5, <1>6, <1>7, <1>8, QuietReport DEF Next, LaneStep, Surroundings

----------------------------------------------------------------------------
(* The token, in the file, in the client and with the workers.              *)

AccessTyped ==
  /\ disk \in Disks /\ slot \in Slots /\ fence \in Fences
  /\ waits \subseteq Workers /\ own \in Workers /\ issued \in 1..MaxTokens

Known(w) == w.upto <= issued /\ (w.kind = "access" => w.out <= issued)

(* Nothing refers to a token that was not issued, and a binding is retired  *)
(* only after the file is another pairing's.                                *)
Numbered ==
  /\ \A w \in waits : w.kind # "none" /\ w.cur /\ Carries(w) /\ Known(w)
  /\ Carries(own) /\ Known(own) /\ (own.kind = "none" => own = NoOwner)
  /\ disk.tok <= issued /\ journal.relay <= issued /\ dead \subseteq 1..issued
  /\ fence.retired => ~disk.mine
  /\ ~up => own = NoOwner /\ waits = {}

Spent == disk.tok \in {0} \cup dead

(* Whatever is going to remove the file's token is aimed at a token of      *)
(* which the journal has said that it is no longer configured.              *)
Aimed ==
  /\ \A w \in waits : w.kind = "access" /\ w.out = 0 /\ w.gen => disk.tok <= w.upto
  /\ Told0 => Spent /\ fence.disabled
  /\ ctl.clear # "late"
  /\ ctl.clear = "due" => Spent /\ (fence.disabled \/ slot.use = 0)
  /\ own.kind = "clear" /\ own.gen => ctl.clear = "due"

AccessInv == AccessTyped /\ Numbered /\ Aimed

(* At most one answer waits to be applied, and none while one is asked for. *)
Once ==
  /\ \A v, w \in waits : v.kind = "access" /\ w.kind = "access" => v = w
  /\ lane.st = "get" => \A w \in waits : w.kind # "access"

(* What is still to be written, and what the journal would answer, is newer *)
(* than every answer that nothing is configured.                            *)
Fresh ==
  /\ journal.relay \notin dead
  /\ \A w \in waits : w.kind = "access" =>
       w.out \notin dead /\ (w.out = 0 => journal.relay = 0 \/ journal.relay > w.upto)
  /\ own.kind = "access" => own.out \notin dead
  /\ disk.mine /\ disk.tok \in dead => ctl.clear = "due" \/ Told0
  /\ RevokedNotUsed

(* There is always an address to build a client with.                       *)
Addressed ==
  /\ disk.ends # 0 /\ journal.ends # 0 /\ (up => slot.ends # 0)
  /\ own.kind = "addr" => own.out # 0

(* The client is the file's, also while a worker is at work.                *)
Matched ==
  up /\ disk.mine =>
    /\ slot.gen
    /\ own.kind \in {"access", "addr"} => own.gen
    /\ IF Told0 THEN slot.use = 0 /\ slot.tok = 0
       ELSE slot.use = disk.tok \/ (slot.use = 0 /\ ctl.clear = "due")

SoundInv == Once /\ Fresh /\ Addressed /\ Matched

----------------------------------------------------------------------------
(* Steps that leave the token alone.                                        *)

(* What a step may do to the workers when it writes nothing: the epoch      *)
(* moves on, or a retry of the pending clear joins them.                    *)
WorkersRest ==
  /\ own' \in {own, Fenced(own)}
  /\ waits' \subseteq waits \cup {Worker("clear", FALSE, 0, 0)} /\ (~up => waits' = waits)

SameClient == UNCHANGED <<disk, slot, fence, dead, up>> /\ ctl'.clear = ctl.clear

LEMMA OwnerRests ==
  ASSUME own \in Workers, Carries(own), own.kind = "none" => own = NoOwner, own' \in {own, Fenced(own)}
  PROVE  /\ own' \in Workers /\ Carries(own') /\ own'.kind = own.kind /\ own'.gen = own.gen
         /\ own'.out = own.out /\ own'.upto = own.upto /\ (Told0' <=> Told0)
         /\ (own'.kind = "none" => own' = NoOwner) /\ (own = NoOwner => own' = NoOwner)
<1>1. /\ Fenced(own) \in Workers /\ Fenced(own).kind = own.kind /\ Fenced(own).gen = own.gen
      /\ Fenced(own).out = own.out /\ Fenced(own).upto = own.upto
  BY FencedKeeps
<1>2. own = NoOwner => Fenced(own) = NoOwner
  <2>1. Fenced(NoOwner) = [NoOwner EXCEPT !.cur = TRUE] BY Values DEF Fenced
  <2> QED BY <2>1 DEF NoOwner
<1>3. /\ own' \in Workers /\ own'.kind = own.kind /\ own'.gen = own.gen /\ own'.out = own.out
      /\ own'.upto = own.upto
  BY <1>1
<1>4. own = NoOwner => own' = NoOwner BY <1>2
<1> QED BY <1>3, <1>4 DEF Carries, Told0

LEMMA ClearWorker ==
  LET w == Worker("clear", FALSE, 0, 0)
  IN  w \in Workers /\ w.kind = "clear" /\ w.cur /\ ~w.gen /\ w.out = 0 /\ w.upto = 0
<1>1. 0 \in 0..MaxTokens /\ 0 \in 0..(MaxTokens + MaxEnds) BY Bounds
<1> QED BY <1>1 DEF Worker, Workers

LEMMA AccessRests ==
  ASSUME AccessInv, SameClient, WorkersRest, issued <= issued', issued' \in 1..MaxTokens,
         journal'.relay <= issued'
  PROVE  AccessInv'
<1>1. /\ own' \in Workers /\ Carries(own') /\ own'.kind = own.kind /\ own'.gen = own.gen
      /\ own'.out = own.out /\ own'.upto = own.upto /\ (Told0' <=> Told0) /\ (own'.kind = "none" => own' = NoOwner) /\ (own = NoOwner => own' = NoOwner)
  BY OwnerRests DEF AccessInv, AccessTyped, Numbered, WorkersRest
<1>2. \A w \in waits' : w \in waits \/ w = Worker("clear", FALSE, 0, 0) BY DEF WorkersRest
<1>3. AccessTyped' BY <1>1, <1>2, ClearWorker DEF AccessInv, AccessTyped, SameClient
<1>4. Numbered'
  <2>1. ASSUME NEW w \in waits'
        PROVE  w.kind # "none" /\ w.cur /\ Carries(w) /\ w.upto <= issued' /\ (w.kind = "access" => w.out <= issued')
    <3>1. CASE w \in waits BY <3>1, Bounds DEF AccessInv, AccessTyped, Numbered, Workers, Known
    <3>2. CASE w = Worker("clear", FALSE, 0, 0) 
      <4>1. w.kind = "clear" /\ w.cur /\ w.upto = 0 BY <3>2, ClearWorker
      <4>2. 0 <= issued' BY Bounds
      <4> QED BY <4>1, <4>2 DEF Carries
    <3> QED BY <1>2, <3>1, <3>2
  <2>a. own'.upto <= issued' /\ (own'.kind = "access" => own'.out <= issued')
    BY <1>1, Bounds DEF AccessInv, AccessTyped, Numbered, Workers, Known
  <2>2. disk'.tok <= issued' BY DEF AccessInv, AccessTyped, Numbered, SameClient, Disks
  <2>3. dead' \subseteq 1..issued'
    BY DEF AccessInv, AccessTyped, Numbered, SameClient
  <2>4. fence'.retired => ~disk'.mine BY DEF AccessInv, Numbered, SameClient
  <2>5. ~up' => own' = NoOwner /\ waits' = {} BY <1>1 DEF AccessInv, Numbered, SameClient, WorkersRest
  <2> QED BY <1>1, <2>1, <2>2, <2>3, <2>4, <2>5, <2>a DEF Numbered, Known
<1>5. Aimed'
  <2>1. Spent' <=> Spent BY DEF Spent, SameClient
  <2>2. ASSUME NEW w \in waits', w.kind = "access", w.out = 0, w.gen PROVE disk'.tok <= w.upto
    BY <1>2, <2>2, ClearWorker DEF AccessInv, Aimed, SameClient
  <2> QED BY <1>1, <2>1, <2>2 DEF AccessInv, Aimed, SameClient
<1> QED BY <1>3, <1>4, <1>5 DEF AccessInv

LEMMA SoundRests ==
  ASSUME AccessInv, SoundInv, SameClient, WorkersRest,
         journal'.relay = journal.relay, journal'.ends # 0,
         lane'.st = "get" => lane.st = "get" \/ \A w \in waits' : w.kind # "access"
  PROVE  SoundInv'
<1>1. /\ own'.kind = own.kind /\ own'.gen = own.gen /\ own'.out = own.out
      /\ (Told0' <=> Told0)
  BY OwnerRests DEF AccessInv, AccessTyped, Numbered, WorkersRest
<1>2. \A w \in waits' : w.kind = "access" => w \in waits BY ClearWorker DEF WorkersRest
<1>3. Once' BY <1>2 DEF SoundInv, Once
<1>4. RevokedNotUsed' <=> RevokedNotUsed BY DEF RevokedNotUsed, Usable, SameClient
<1>5. Fresh' BY <1>1, <1>2, <1>4 DEF SoundInv, Fresh, SameClient
<1>6. Addressed' BY <1>1 DEF SoundInv, Addressed, SameClient
<1>7. Matched' BY <1>1 DEF SoundInv, Matched, SameClient
<1> QED BY <1>3, <1>5, <1>6, <1>7 DEF SoundInv

(* The steps of which this is so.                                           *)
Calm ==
  \/ UploaderStarts \/ NoteConnected \/ MetaStep \/ MetaFails
  \/ AccessGoesOn \/ AddrGoesOn \/ AccessNoAnswer \/ AddrNoAnswer
  \/ PutArrives \/ FactsChange \/ Disconnect \/ Quiesce
  \/ UNCHANGED vars

LEMMA CalmSteps ==
  ASSUME ReportInv, AccessInv, Calm
  PROVE  /\ SameClient /\ WorkersRest /\ issued' = issued
         /\ journal'.relay = journal.relay /\ journal'.ends = journal.ends
         /\ lane'.st = "get" => lane.st = "get" \/ \A w \in waits' : w.kind # "access"
<1> DEFINE clear == Worker("clear", FALSE, 0, 0)
<1> DEFINE Goal ==
      /\ SameClient /\ WorkersRest /\ issued' = issued
      /\ journal'.relay = journal.relay /\ journal'.ends = journal.ends
      /\ lane'.st = "get" => lane.st = "get" \/ \A w \in waits' : w.kind # "access"
<1>0. clear.kind = "clear" /\ ctl \in Controls BY ClearWorker DEF ReportInv, ReportTyped
<1> HIDE DEF clear
<1>a. Stale(waits) \subseteq waits /\ \A w \in Stale(waits) : w.kind = "clear" BY DEF Stale
<1>b. Retries \subseteq {clear} BY DEF Retries, clear
<1>c. NoLane.st # "get" BY Values
<1>1. ASSUME NEW c \in Controls, c.clear = ctl.clear, up, Trigger(c) PROVE Goal
  <2>1. UNCHANGED <<disk, slot, fence, dead, up, issued, journal>> BY <1>1 DEF Trigger, access
  <2>2. CASE c.phase \in {"Idle", "Quiesced"}
    <3>1. /\ ctl' = [c EXCEPT !.phase = "First", !.again = FALSE, !.last = TRUE]
          /\ waits' = Stale(waits) \cup Retries /\ own' = Fenced(own)
      BY <1>1, <2>2 DEF Trigger
    <3>2. ctl'.clear = ctl.clear BY <1>1, <3>1 DEF Controls
    <3> QED BY <1>0, <1>1, <1>a, <1>b, <2>1, <3>1, <3>2 DEF SameClient, WorkersRest, clear
  <2>3. CASE c.phase \notin {"Idle", "Quiesced"}
    <3>1. ctl' = [c EXCEPT !.again = TRUE] /\ waits' = waits \cup Retries /\ UNCHANGED <<own, lane>>
      BY <1>1, <2>3 DEF Trigger
    <3>2. ctl'.clear = ctl.clear BY <1>1, <3>1 DEF Controls
    <3> QED BY <1>1, <1>b, <2>1, <3>1, <3>2 DEF SameClient, WorkersRest, clear
  <2> QED BY <2>2, <2>3
<1>2. ASSUME UNCHANGED <<disk, slot, fence, dead, up, issued, waits, own>>, ctl'.clear = ctl.clear,
             journal'.relay = journal.relay, journal'.ends = journal.ends, lane'.st = "get" => lane.st = "get"
      PROVE  Goal
  BY <1>2 DEF SameClient, WorkersRest
<1>3. ASSUME up, UNCHANGED <<disk, slot, fence, dead, up, issued>>, ctl'.clear = ctl.clear, EpochEnds,
             journal'.relay = journal.relay, journal'.ends = journal.ends
      PROVE  Goal
  BY <1>3, <1>a DEF SameClient, WorkersRest, EpochEnds
<1>4. ASSUME up, UNCHANGED <<disk, slot, fence, dead, up, issued>>, MetaEnds \/ AccessEnds,
             journal'.relay = journal.relay, journal'.ends = journal.ends
      PROVE  Goal
  <2>1. CASE Passes(Finished(ctl))
    <3>1. EpochEnds BY <2>1 DEF Passes, LanesEnd
    <3>2. ctl'.clear = ctl.clear BY <1>0, <2>1, FinishedKeeps DEF Passes
    <3> QED BY <1>3, <1>4, <3>1, <3>2
  <2>2. CASE UNCHANGED <<ctl, waits, own>> /\ (lane' = lane \/ lane' = NoLane) BY <1>2, <1>4, <1>c, <2>2
  <2> QED BY <1>4, <2>1, <2>2 DEF MetaEnds, AccessEnds
<1> HIDE DEF Goal
<1>5. CASE UploaderStarts
  <2>1. [ctl EXCEPT !.owed = FALSE] \in Controls /\ [ctl EXCEPT !.owed = FALSE].clear = ctl.clear
    BY <1>0 DEF Controls
  <2> QED BY <1>1, <1>5, <2>1 DEF UploaderStarts, Goal
<1>6. CASE NoteConnected
  <2>1. [ctl EXCEPT !.last = TRUE] \in Controls /\ [ctl EXCEPT !.last = TRUE].clear = ctl.clear
    BY <1>0 DEF Controls
  <2> QED BY <1>1, <1>6, <2>1 DEF NoteConnected, Goal
<1>7. CASE MetaRead BY <1>2, <1>4, <1>7 DEF MetaRead, access, world, history, Goal
<1>8. CASE MetaPut
  <2>1. \A p : Stored(journal, p).relay = journal.relay /\ Stored(journal, p).ends = journal.ends
    BY DEF Stored, ReportInv, ReportTyped, Journals
  <2>2. journal'.relay = journal.relay /\ journal'.ends = journal.ends BY <1>8, <2>1 DEF MetaPut
  <2> QED BY <1>2, <1>4, <1>8, <2>2 DEF MetaPut, access, Goal
<1>9. CASE MetaFails BY <1>4, <1>9 DEF MetaFails, access, Goal
<1>10. CASE AccessGoesOn \/ AccessNoAnswer
  <2>1. lane' = [NoLane EXCEPT !.st = "addr"] /\ UNCHANGED <<ctl, own>> BY <1>10 DEF AccessGoesOn, AccessNoAnswer, LaneGoesTo
  <2>2. lane'.st # "get" BY <2>1 DEF NoLane
  <2> QED BY <1>2, <1>10, <2>1, <2>2 DEF AccessGoesOn, AccessNoAnswer, access, world, history, Goal
<1>11. CASE AddrGoesOn \/ AddrNoAnswer
  BY <1>4, <1>11 DEF AddrGoesOn, AddrNoAnswer, access, world, history, Goal
<1>12. CASE PutArrives
  <2>1. \A p : Stored(journal, p).relay = journal.relay /\ Stored(journal, p).ends = journal.ends
    BY DEF Stored, ReportInv, ReportTyped, Journals
  <2>2. journal'.relay = journal.relay /\ journal'.ends = journal.ends BY <1>12, <2>1 DEF PutArrives
  <2> QED BY <1>2, <1>12, <2>2 DEF PutArrives, access, lanes, history, Goal
<1>13. CASE FactsChange BY <1>2, <1>13 DEF FactsChange, access, lanes, history, Goal
<1>14. CASE Disconnect
  <2>1. ctl'.clear = ctl.clear BY <1>0, <1>14 DEF Disconnect, Controls
  <2> QED BY <1>3, <1>14, <2>1 DEF Disconnect, access, Goal
<1>15. CASE Quiesce
  <2>1. ctl'.clear = ctl.clear BY <1>0, <1>15 DEF Quiesce, Controls
  <2> QED BY <1>2, <1>15, <1>c, <2>1 DEF Quiesce, Cut, access, Goal
<1>16. CASE UNCHANGED vars BY <1>2, <1>16 DEF vars, access, lanes, world, history, Goal
<1> QED BY <1>5, <1>6, <1>7, <1>8, <1>9, <1>10, <1>11, <1>12, <1>13, <1>14, <1>15, <1>16 DEF Calm, MetaStep, Goal

----------------------------------------------------------------------------
(* Steps that change the token, or the workers: the first invariant.        *)

(* A worker joins those that wait.                                          *)
LEMMA JoinsAccess ==
  ASSUME AccessInv, SameClient, UNCHANGED <<own, issued, journal>>, up,
         NEW w \in Workers, waits' = waits \cup {w}, w.kind # "none", w.cur, Carries(w), Known(w),
         w.kind = "access" /\ w.out = 0 => disk.tok <= w.upto
  PROVE  AccessInv'
<1>1. AccessTyped' BY DEF AccessInv, AccessTyped, SameClient
<1>2. Numbered'
  <2>1. \A v \in waits' : v.kind # "none" /\ v.cur /\ Carries(v) /\ Known(v)' BY DEF AccessInv, Numbered, Known
  <2>2. Carries(own') /\ Known(own)' BY DEF AccessInv, Numbered, Known
  <2> QED BY <2>1, <2>2 DEF AccessInv, Numbered, SameClient
<1>3. Aimed'
  <2>1. (Spent' <=> Spent) /\ (Told0' <=> Told0) BY DEF Spent, Told0, SameClient
  <2>2. \A v \in waits' : v.kind = "access" /\ v.out = 0 /\ v.gen => disk.tok <= v.upto
    BY DEF AccessInv, Aimed
  <2> QED BY <2>1, <2>2 DEF AccessInv, Aimed, SameClient
<1> QED BY <1>1, <1>2, <1>3 DEF AccessInv

(* The worker that carries the journal's answer about relay access.         *)
LEMMA AnswerTyped ==
  ASSUME ReportInv, AccessInv, NEW w,
         w = Worker("access", lane.gen, journal.relay, IF journal.relay = 0 THEN issued ELSE 0)
  PROVE  /\ w \in Workers /\ w.kind = "access" /\ w.cur /\ w.out = journal.relay /\ Carries(w) /\ Known(w)
         /\ w.out = 0 => w.upto = issued
<1> DEFINE upto == IF journal.relay = 0 THEN issued ELSE 0
<1>1. /\ upto \in 0..MaxTokens /\ upto <= issued /\ (journal.relay = 0 => upto = issued)
      /\ journal.relay \in 0..(MaxTokens + MaxEnds) /\ journal.relay \in 0..MaxTokens /\ journal.relay <= issued
  BY Bounds DEF ReportInv, ReportTyped, Journals, AccessInv, AccessTyped, Numbered
<1>2. lane.gen \in BOOLEAN BY DEF ReportInv, ReportTyped, Lanes
<1>3. w = Worker("access", lane.gen, journal.relay, upto) OBVIOUS
<1> HIDE DEF upto
<1>4. w \in Workers /\ w.kind = "access" /\ w.cur /\ w.out = journal.relay /\ w.upto = upto
  BY <1>1, <1>2, <1>3 DEF Worker, Workers
<1> QED BY <1>1, <1>4 DEF Carries, Known

LEMMA AddrTyped ==
  ASSUME ReportInv, AccessInv, NEW w, w = Worker("addr", FALSE, journal.ends, 0)
  PROVE  w \in Workers /\ w.kind = "addr" /\ w.cur /\ w.out = journal.ends /\ Carries(w) /\ Known(w)
<1>1. journal.ends \in 0..MaxEnds /\ journal.ends \in 0..(MaxTokens + MaxEnds) /\ 0 \in 0..MaxTokens /\ 0 <= issued
  BY Bounds DEF ReportInv, ReportTyped, Journals, AccessInv, AccessTyped
<1>2. w \in Workers /\ w.kind = "addr" /\ w.cur /\ w.out = journal.ends /\ w.upto = 0
  BY <1>1 DEF Worker, Workers
<1> QED BY <1>1, <1>2 DEF Carries, Known

LEMMA AnsweredAccess ==
  ASSUME ReportInv, AccessInv, AccessAnswered \/ AddrAnswered
  PROVE  AccessInv'
<1>1. up /\ SameClient /\ UNCHANGED <<own, issued, journal>>
  BY DEF AccessAnswered, AddrAnswered, LaneGoesTo, SameClient, access, world, history
<1>2. CASE AccessAnswered
  <2> DEFINE w == Worker("access", lane.gen, journal.relay, IF journal.relay = 0 THEN issued ELSE 0)
  <2>1. waits' = waits \cup {w} BY <1>2 DEF AccessAnswered
  <2> HIDE DEF w
  <2>2. /\ w \in Workers /\ w.kind = "access" /\ w.cur /\ Carries(w) /\ Known(w)
        /\ w.out = 0 => w.upto = issued
    BY AnswerTyped DEF w
  <2>3. disk.tok <= issued BY DEF AccessInv, Numbered
  <2> QED BY <1>1, <2>1, <2>2, <2>3, JoinsAccess
<1>3. CASE AddrAnswered
  <2> DEFINE w == Worker("addr", FALSE, journal.ends, 0)
  <2>1. waits' = waits \cup {w} BY <1>3 DEF AddrAnswered
  <2> HIDE DEF w
  <2>2. w \in Workers /\ w.kind = "addr" /\ w.cur /\ Carries(w) /\ Known(w) BY AddrTyped DEF w
  <2> QED BY <1>1, <2>1, <2>2, JoinsAccess
<1> QED BY <1>2, <1>3

LEMMA JournalAccess ==
  ASSUME ReportInv, AccessInv, JournalRevokes \/ JournalIssues \/ JournalMoves
  PROVE  /\ AccessInv' /\ SameClient /\ WorkersRest /\ lane' = lane /\ waits' = waits /\ own' = own
         /\ JournalRevokes => journal'.relay = 0 /\ journal'.ends = journal.ends
         /\ JournalIssues => journal'.relay = issued + 1 /\ journal'.ends = journal.ends
         /\ JournalMoves => journal'.relay = journal.relay /\ journal'.ends # 0
<1>0. journal \in Journals /\ issued \in 1..MaxTokens /\ journal.relay <= issued
  BY DEF ReportInv, ReportTyped, AccessInv, AccessTyped, Numbered
<1>1. SameClient /\ WorkersRest /\ lane' = lane /\ waits' = waits /\ own' = own
  BY DEF JournalRevokes, JournalIssues, JournalMoves, JournalChanges, access, lanes, SameClient, WorkersRest
<1>2. /\ JournalRevokes => journal'.relay = 0 /\ journal'.ends = journal.ends
      /\ JournalIssues => journal'.relay = issued + 1 /\ journal'.ends = journal.ends
      /\ JournalMoves => journal'.relay = journal.relay /\ journal'.ends = journal.ends + 1
  BY <1>0 DEF JournalRevokes, JournalIssues, JournalMoves, JournalChanges, Journals
<1>3. journal.ends + 1 # 0 BY <1>0 DEF Journals
<1>4. issued <= issued' /\ issued' \in 1..MaxTokens /\ journal'.relay <= issued'
  <2>1. CASE JournalRevokes BY <1>0, <1>2, <2>1, Bounds DEF JournalRevokes
  <2>2. CASE JournalIssues BY <1>0, <1>2, <2>2, Bounds DEF JournalIssues
  <2>3. CASE JournalMoves BY <1>0, <1>2, <2>3, Bounds DEF JournalMoves, Journals
  <2> QED BY <2>1, <2>2, <2>3
<1> QED BY <1>1, <1>2, <1>3, <1>4, AccessRests

(* The first thing that the answer "not configured" does.                   *)
LEMMA ToldTyped ==
  ASSUME AccessInv, NEW w \in Workers, Told(w)
  PROVE  /\ slot' \in Slots /\ fence' \in Fences /\ fence'.disabled /\ fence'.retired = fence.retired
         /\ slot'.gen = slot.gen
         /\ ~fence.retired /\ slot.ends # 0 => slot'.tok = 0 /\ slot'.use = 0 /\ slot'.ends = slot.ends
<1>0. slot \in Slots /\ fence \in Fences /\ 0 \in 0..MaxTokens /\ slot.ends \in 0..MaxEnds /\ slot.gen \in BOOLEAN
  BY Bounds DEF AccessInv, AccessTyped, Slots
<1> DEFINE r == Replaced(fence, slot, 0, slot.ends, slot.gen)
<1>1. /\ r \in Slots
      /\ ~fence.retired /\ slot.ends # 0 => r.tok = 0 /\ r.use = 0 /\ r.ends = slot.ends
  BY <1>0, ReplacedTyped
<1>2. slot' = [r EXCEPT !.cur = FALSE, !.gen = slot.gen] /\ fence' = Disabled(fence) BY DEF Told
<1> HIDE DEF r
<1>3. slot' \in Slots /\ slot'.tok = r.tok /\ slot'.use = r.use /\ slot'.gen = slot.gen /\ slot'.ends = r.ends
  BY <1>0, <1>1, <1>2 DEF Slots
<1> QED BY <1>0, <1>1, <1>2, <1>3, DisabledTyped

LEMMA BeginsAccess ==
  ASSUME AccessInv, NEW w \in waits, Begins(w)
  PROVE  AccessInv'
<1>0. /\ w \in Workers /\ w.kind # "none" /\ w.cur /\ Carries(w) /\ Known(w) /\ slot \in Slots
      /\ own = NoOwner /\ waits' \subseteq waits /\ up
      /\ UNCHANGED <<disk, ctl, up, journal, issued>>
  BY DEF AccessInv, AccessTyped, Numbered, Begins, world
<1>1. CASE Drops(w)
  <2>1. SameClient /\ WorkersRest BY <1>0, <1>1 DEF Begins, SameClient, WorkersRest
  <2>2. issued \in 1..MaxTokens /\ issued <= issued /\ journal.relay <= issued
    BY Bounds DEF AccessInv, AccessTyped, Numbered
  <2> QED BY <1>0, <2>1, <2>2, AccessRests
<1>2. CASE ~Drops(w)
  <2>1. own' = Owner(w) BY <1>2 DEF Begins
  <2>2. /\ own' \in Workers /\ own'.kind = w.kind /\ own'.out = w.out /\ own'.upto = w.upto
        /\ own'.gen = IF w.kind = "clear" THEN ctl.clear = "due" ELSE slot.gen
    BY <1>0, <2>1, OwnerKeeps
  <2>3. Carries(own') /\ Known(own)' BY <1>0, <2>2 DEF Carries, Known
  <2>4. \A v \in waits' : v.kind # "none" /\ v.cur /\ Carries(v) /\ Known(v)'
    BY <1>0 DEF AccessInv, Numbered, Known
  <2>5. \A v \in waits' : v.kind = "access" /\ v.out = 0 /\ v.gen => disk'.tok <= v.upto
    BY <1>0 DEF AccessInv, Aimed
  <2>6. CASE w.kind = "access" /\ w.out = 0
    <3>1. Told(w) BY <1>2, <2>6 DEF Begins
    <3>2. slot' \in Slots /\ fence' \in Fences /\ fence'.disabled /\ fence'.retired = fence.retired
      BY <1>0, <3>1, ToldTyped
    <3>3. dead' = dead \cup 1..w.upto BY <3>1 DEF Told
    <3>4. dead' \subseteq 1..issued
      <4>1. w.upto <= issued /\ w.upto \in 0..MaxTokens /\ issued \in 1..MaxTokens
        BY <1>0 DEF AccessInv, AccessTyped, Known, Workers
      <4>2. 1..w.upto \subseteq 1..issued BY <4>1, Bounds
      <4> QED BY <3>3, <4>2 DEF AccessInv, Numbered
    <3>5. Spent'
      <4>1. w.gen BY <1>2, <2>6 DEF Drops
      <4>2. disk.tok <= w.upto BY <2>6, <4>1 DEF AccessInv, Aimed
      <4>3. disk.tok \in Nat /\ w.upto \in Nat BY <1>0, Bounds DEF AccessInv, AccessTyped, Disks, Workers
      <4>4. disk.tok = 0 \/ disk.tok \in 1..w.upto BY <4>2, <4>3
      <4> QED BY <1>0, <3>3, <4>4 DEF Spent
    <3>6. AccessTyped' BY <1>0, <2>2, <3>2 DEF AccessInv, AccessTyped
    <3>7. Numbered' BY <1>0, <2>2, <2>3, <2>4, <3>2, <3>4 DEF AccessInv, Numbered
    <3>8. Aimed' BY <1>0, <2>2, <2>5, <2>6, <3>2, <3>5 DEF AccessInv, Aimed
    <3> QED BY <3>6, <3>7, <3>8 DEF AccessInv
  <2>7. CASE ~(w.kind = "access" /\ w.out = 0)
    <3>1. UNCHANGED <<slot, fence, dead>> BY <1>2, <2>7 DEF Begins
    <3>2. AccessTyped' BY <1>0, <2>2, <3>1 DEF AccessInv, AccessTyped
    <3>3. Numbered' BY <1>0, <2>2, <2>3, <2>4, <3>1 DEF AccessInv, Numbered
    <3>4. ~Told0' /\ (Spent' <=> Spent) BY <1>0, <2>2, <2>7, <3>1 DEF Told0, Spent
    <3>5. Aimed' BY <1>0, <2>2, <2>5, <3>1, <3>4 DEF AccessInv, Aimed
    <3> QED BY <3>2, <3>3, <3>5 DEF AccessInv
  <2> QED BY <2>6, <2>7
<1> QED BY <1>1, <1>2

(* The client moves to another generation: no worker that waits has it.     *)
LEMMA MovedWaits ==
  ASSUME AccessInv, SlotMoves, issued' \in 1..MaxTokens, issued <= issued'
  PROVE  /\ waits' \subseteq Workers
         /\ \A v \in waits' :
              /\ ~v.gen /\ v.kind # "none" /\ v.cur /\ Carries(v) /\ Known(v)'
              /\ \E w \in waits : v = Left(w) /\ v.kind = w.kind /\ v.out = w.out /\ v.upto = w.upto
<1>1. waits' = {Left(w) : w \in waits} BY DEF SlotMoves
<1>2. ASSUME NEW w \in waits
      PROVE  /\ Left(w) \in Workers /\ ~Left(w).gen /\ Left(w).kind = w.kind /\ Left(w).cur
             /\ Left(w).out = w.out /\ Left(w).upto = w.upto /\ w.kind # "none"
             /\ Carries(w) /\ Known(w)
  BY LeftKeeps DEF AccessInv, AccessTyped, Numbered
<1>3. ASSUME NEW w \in waits PROVE Carries(Left(w)) BY <1>2 DEF Carries
<1>4. ASSUME NEW w \in waits PROVE Known(Left(w))'
  <2>1. w.upto \in 0..MaxTokens /\ w.out \in 0..(MaxTokens + MaxEnds) /\ issued \in 1..MaxTokens
    BY DEF AccessInv, AccessTyped, Workers
  <2>2. w.upto <= issued' /\ (w.kind = "access" => w.out <= issued') BY <1>2, <2>1, Bounds DEF Known
  <2> QED BY <1>2, <2>2 DEF Known
<1> QED BY <1>1, <1>2, <1>3, <1>4

(* A worker that may write has a file and a client that are still bound.    *)
LEMMA Bound ==
  ASSUME AccessInv, CanWrite(own)
  PROVE  disk.mine /\ ~fence.retired /\ own.gen /\ fence \in Fences
  BY DEF AccessInv, AccessTyped, Numbered, CanWrite

(* What a write that reaches the file does to the file and to the client.   *)
LEMMA WritesClient ==
  ASSUME AccessInv, ctl \in Controls, own # NoOwner, CanWrite(own), WrittenWell(own) \/ Uncertain(own)
  PROVE  /\ own.kind \in {"access", "addr", "clear"}
         /\ disk' = Written(own) /\ disk' \in Disks /\ disk'.mine
         /\ disk'.ends = (IF own.kind = "addr" THEN own.out ELSE disk.ends)
         /\ own.kind = "access" => disk'.tok = own.out
         /\ own.kind = "clear" => disk'.tok = 0
         /\ own.kind = "addr" => disk'.tok = IF ctl.clear = "none" THEN disk.tok ELSE 0
         /\ slot' \in Slots /\ fence' \in Fences /\ fence'.retired = fence.retired
         /\ ctl'.clear \in {"none", "due"}
         /\ ctl'.clear = "due" => disk'.tok = 0 /\ (fence'.disabled \/ slot'.use = 0)
         /\ SlotMoves
<1>0. disk \in Disks /\ slot \in Slots /\ own \in Workers /\ Carries(own)
  BY DEF AccessInv, AccessTyped, Numbered
<1>1. own.kind # "none" BY DEF AccessInv, Numbered
<1>2. own.kind \in {"access", "addr", "clear"} BY <1>0, <1>1 DEF Workers
<1>3. disk.mine /\ ~fence.retired /\ fence \in Fences BY Bound
<1>4. /\ Written(own) \in Disks /\ Written(own).mine = disk.mine
      /\ Written(own).ends = (IF own.kind = "addr" THEN own.out ELSE disk.ends)
      /\ own.kind = "access" => Written(own).tok = own.out
      /\ own.kind = "clear" => Written(own).tok = 0
      /\ own.kind = "addr" => Written(own).tok = IF ctl.clear = "none" THEN disk.tok ELSE 0
  BY <1>0, <1>1, WrittenTyped
<1>5. disk' = Written(own) /\ SlotMoves BY DEF WrittenWell, Uncertain
<1>6. CASE WrittenWell(own)
  <2>1. NewTok(own) \in 0..MaxTokens BY <1>0, <1>4 DEF NewTok, Slots, Disks
  <2>2. NewEnds(own) \in 0..MaxEnds BY <1>0 DEF NewEnds, Slots, Carries
  <2>3. /\ Replaced(fence, slot, NewTok(own), NewEnds(own), TRUE) \in Slots
        /\ FenceFromCredential(fence, NewTok(own), NewEnds(own)) \in Fences
        /\ FenceFromCredential(fence, NewTok(own), NewEnds(own)).retired = fence.retired
    BY <1>0, <1>3, <2>1, <2>2 DEF Replaced, FenceFromCredential, Slots, Fences
  <2>4. slot' \in Slots /\ fence' \in Fences /\ fence'.retired = fence.retired
    BY <1>3, <1>6, <2>3 DEF WrittenWell
  <2>5. ctl'.clear = "none" BY <1>6 DEF WrittenWell, Controls, AccessInv, Aimed
  <2> QED BY <1>2, <1>3, <1>4, <1>5, <2>4, <2>5
<1>7. CASE Uncertain(own)
  <2> DEFINE s == Replaced(fence, slot, disk'.tok, disk'.ends, TRUE)
  <2> DEFINE f == FenceFromCredential(fence, disk'.tok, disk'.ends)
  <2>1. disk'.tok \in 0..MaxTokens /\ disk'.ends \in 0..MaxEnds BY <1>4, <1>5 DEF Disks
  <2>2. /\ s \in Slots /\ f \in Fences /\ f.retired = fence.retired
        /\ (~Builds(fence, disk'.tok, disk'.ends) => f = fence /\ s.use = slot.use)
        /\ (Builds(fence, disk'.tok, disk'.ends) => f.disabled = (disk'.tok = 0))
    BY <1>0, <1>3, <2>1 DEF Replaced, FenceFromCredential, Slots, Fences
  <2>3. slot' = s /\ fence' = f BY <1>7 DEF Uncertain
  <2>4. ctl' = [ctl EXCEPT !.clear =
               IF disk'.tok = 0 /\ (ctl.clear # "none" \/ own.kind = "access") THEN "due" ELSE "none"]
    BY <1>7 DEF Uncertain, Controls
  <2>5. ctl'.clear = IF disk'.tok = 0 /\ (ctl.clear # "none" \/ own.kind = "access") THEN "due" ELSE "none"
    BY <2>4 DEF Controls
  <2> HIDE DEF s, f
  <2>6. ASSUME ctl'.clear = "due" PROVE disk'.tok = 0 /\ (fence'.disabled \/ slot'.use = 0)
    <3>1. disk'.tok = 0 /\ (ctl.clear # "none" \/ own.kind = "access") BY <2>5, <2>6
    <3>2. fence.disabled \/ slot.use = 0
      <4>1. CASE ctl.clear # "none" BY <4>1 DEF AccessInv, Aimed, Controls
      <4>2. CASE own.kind = "access"
        <5>1. Told0 BY <1>4, <1>5, <3>1, <4>2 DEF Told0
        <5> QED BY <5>1 DEF AccessInv, Aimed
      <4> QED BY <3>1, <4>1, <4>2
    <3> QED BY <2>2, <2>3, <3>1, <3>2
  <2> QED BY <1>2, <1>3, <1>4, <1>5, <2>2, <2>3, <2>5, <2>6
<1> QED BY <1>6, <1>7

LEMMA WritesAccess ==
  ASSUME ReportInv, AccessInv, WorkerWrites
  PROVE  AccessInv'
<1>0. /\ up /\ own # NoOwner /\ own' = NoOwner /\ ctl \in Controls
      /\ UNCHANGED <<up, journal, dead, issued>> /\ issued \in 1..MaxTokens /\ issued <= issued
  BY Bounds DEF ReportInv, ReportTyped, AccessInv, AccessTyped, WorkerWrites, world, history
<1>a. own' \in Workers /\ own'.kind = "none" /\ Carries(own') /\ Known(own)' /\ ~Told0'
  <2>1. own' \in Workers /\ own'.kind = "none" /\ own'.upto = 0 BY <1>0, Values DEF NoOwner
  <2>2. 0 <= issued' BY <1>0, Bounds
  <2> QED BY <2>1, <2>2 DEF Carries, Known, Told0
<1>b. ASSUME UNCHANGED waits
      PROVE  \A w \in waits' : w.kind # "none" /\ w.cur /\ Carries(w) /\ Known(w)'
  BY <1>0, <1>b DEF AccessInv, Numbered, Known
<1>1. CASE UNCHANGED <<disk, slot, fence, ctl, waits>>
  <2>1. AccessTyped' BY <1>0, <1>1, <1>a DEF AccessInv, AccessTyped
  <2>2. Numbered' BY <1>0, <1>1, <1>a, <1>b DEF AccessInv, Numbered
  <2>3. Spent' <=> Spent BY <1>0, <1>1 DEF Spent
  <2>4. Aimed' BY <1>1, <1>a, <2>3 DEF AccessInv, Aimed
  <2> QED BY <2>1, <2>2, <2>4 DEF AccessInv
<1>2. CASE CanWrite(own) /\ Failed(own)
  <2>1. UNCHANGED <<disk, slot, fence, waits>> BY <1>2 DEF Failed
  <2>2. AccessTyped' BY <1>0, <1>a, <2>1 DEF AccessInv, AccessTyped
  <2>3. Numbered' BY <1>0, <1>a, <1>b, <2>1 DEF AccessInv, Numbered
  <2>4. Spent' <=> Spent BY <1>0, <2>1 DEF Spent
  <2>5. CASE Told0
    <3>1. ctl'.clear = "due" BY <1>0, <1>2, <2>5 DEF Failed, Told0, Controls
    <3>2. Aimed' BY <1>a, <2>1, <2>4, <2>5, <3>1 DEF AccessInv, Aimed
    <3> QED BY <2>2, <2>3, <3>2 DEF AccessInv
  <2>6. CASE ~Told0
    <3>1. ctl'.clear = ctl.clear BY <1>0, <1>2, <2>6 DEF Failed, Told0, Controls
    <3>2. Aimed' BY <1>a, <2>1, <2>4, <3>1 DEF AccessInv, Aimed
    <3> QED BY <2>2, <2>3, <3>2 DEF AccessInv
  <2> QED BY <2>5, <2>6
<1>3. CASE CanWrite(own) /\ (WrittenWell(own) \/ Uncertain(own))
  <2>1. /\ own.kind \in {"access", "addr", "clear"}
        /\ disk' \in Disks /\ slot' \in Slots /\ fence' \in Fences /\ fence'.retired = fence.retired
        /\ own.kind = "access" => disk'.tok = own.out
        /\ own.kind = "clear" => disk'.tok = 0
        /\ own.kind = "addr" => disk'.tok = IF ctl.clear = "none" THEN disk.tok ELSE 0
        /\ ctl'.clear \in {"none", "due"}
        /\ ctl'.clear = "due" => disk'.tok = 0 /\ (fence'.disabled \/ slot'.use = 0)
        /\ SlotMoves
    BY <1>0, <1>3, WritesClient
  <2>2. /\ waits' \subseteq Workers
        /\ \A v \in waits' : ~v.gen /\ v.kind # "none" /\ v.cur /\ Carries(v) /\ Known(v)'
    BY <1>0, <2>1, MovedWaits
  <2>3. disk'.tok <= issued
    BY <1>0, <2>1, Bounds DEF AccessInv, AccessTyped, Numbered, Known, Disks
  <2>4. ~fence'.retired BY <1>3, <2>1, Bound
  <2>5. AccessTyped' BY <1>0, <1>a, <2>1, <2>2 DEF AccessTyped
  <2>6. Numbered' BY <1>0, <1>a, <2>2, <2>3, <2>4 DEF AccessInv, Numbered
  <2>7. ctl'.clear = "due" => Spent' BY <2>1 DEF Spent
  <2>8. Aimed' BY <1>a, <2>1, <2>2, <2>7 DEF Aimed
  <2> QED BY <2>5, <2>6, <2>8 DEF AccessInv
<1> QED BY <1>1, <1>2, <1>3 DEF WorkerWrites, access

(* A client that may use the relay has no clear pending.                    *)
LEMMA NoneDue ==
  ASSUME AccessInv, ctl \in Controls, Usable
  PROVE  ctl.clear = "none"
  BY DEF AccessInv, Aimed, Usable, Controls

LEMMA RefreshAccess ==
  ASSUME ReportInv, AccessInv, Refresh
  PROVE  AccessInv'
<1>0. /\ Usable /\ own = NoOwner /\ ctl \in Controls /\ issued \in 1..MaxTokens /\ issued < MaxTokens
      /\ UNCHANGED <<own, up, journal, dead>> /\ disk \in Disks /\ slot \in Slots /\ fence \in Fences
  BY DEF Refresh, ReportInv, ReportTyped, AccessInv, AccessTyped, world
<1>1. CASE UNCHANGED <<disk, slot, ctl, waits, issued>> /\ fence' = [fence EXCEPT !.inel = TRUE]
  <2>1. fence' \in Fences /\ fence'.disabled = fence.disabled /\ fence'.retired = fence.retired
    BY <1>0, <1>1 DEF Fences
  <2>2. AccessTyped' BY <1>0, <1>1, <2>1 DEF AccessInv, AccessTyped
  <2>3. Known(own)' /\ \A w \in waits' : w.kind # "none" /\ w.cur /\ Carries(w) /\ Known(w)'
    BY <1>0, <1>1 DEF AccessInv, Numbered, Known
  <2>4. Numbered' BY <1>0, <1>1, <2>1, <2>3 DEF AccessInv, Numbered
  <2>5. (Spent' <=> Spent) /\ (Told0' <=> Told0) BY <1>0, <1>1 DEF Spent, Told0
  <2>6. Aimed' BY <1>0, <1>1, <2>1, <2>5 DEF AccessInv, Aimed
  <2> QED BY <2>2, <2>4, <2>6 DEF AccessInv
<1>2. CASE /\ disk' = [disk EXCEPT !.tok = issued + 1] /\ slot' = [slot EXCEPT !.use = issued + 1, !.gen = TRUE]
           /\ ctl' = [ctl EXCEPT !.clear = IF @ = "none" THEN @ ELSE "late"]
           /\ SlotMoves /\ issued' = issued + 1 /\ UNCHANGED fence
  <2>1. issued + 1 \in 1..MaxTokens /\ issued + 1 \in 0..MaxTokens /\ issued <= issued + 1 /\ issued + 1 <= issued + 1
    BY <1>0, Bounds
  <2>2. disk' \in Disks /\ disk'.tok = issued + 1 /\ disk'.mine = disk.mine BY <1>0, <1>2, <2>1 DEF Disks
  <2>3. slot' \in Slots BY <1>0, <1>2, <2>1 DEF Slots
  <2>4. ctl'.clear = "none" BY <1>0, <1>2, NoneDue DEF Controls
  <2>5. /\ waits' \subseteq Workers
        /\ \A v \in waits' : ~v.gen /\ v.kind # "none" /\ v.cur /\ Carries(v) /\ Known(v)'
    BY <1>2, <2>1, MovedWaits
  <2>6. own'.kind = "none" /\ own'.upto = 0 /\ 0 <= issued' BY <1>0, <1>2, <2>1, Values DEF NoOwner
  <2>7. Carries(own') /\ Known(own)' /\ ~Told0' BY <2>6 DEF Carries, Known, Told0
  <2>8. AccessTyped' BY <1>0, <1>2, <2>1, <2>2, <2>3, <2>5 DEF AccessInv, AccessTyped
  <2>9. dead' \subseteq 1..issued' BY <1>0, <1>2, <2>1 DEF AccessInv, Numbered
  <2>10. journal'.relay <= issued'
    BY <1>0, <1>2 DEF AccessInv, Numbered, ReportInv, ReportTyped, Journals
  <2>11. Numbered'
    BY <1>0, <1>2, <2>1, <2>2, <2>5, <2>7, <2>9, <2>10 DEF AccessInv, Numbered, Usable
  <2>12. Aimed' BY <2>4, <2>5, <2>6, <2>7 DEF Aimed
  <2> QED BY <2>8, <2>11, <2>12 DEF AccessInv
<1> QED BY <1>1, <1>2 DEF Refresh

(* Another pairing has the file; this one's client is shut.                 *)
LEMMA TakenAccess ==
  ASSUME ReportInv, AccessInv, Taken \/ Shutdown
  PROVE  AccessInv'
<1>0. disk \in Disks /\ slot \in Slots /\ fence \in Fences /\ ctl \in Controls
  BY DEF ReportInv, ReportTyped, AccessInv, AccessTyped
<1>1. CASE Taken
  <2>1. /\ disk' = [disk EXCEPT !.mine = FALSE] /\ UNCHANGED <<slot, fence, ctl, waits, own, up, journal, dead, issued>>
    BY <1>1 DEF Taken, lanes, world, history
  <2>2. disk' \in Disks /\ disk'.tok = disk.tok /\ ~disk'.mine BY <1>0, <2>1 DEF Disks
  <2>3. AccessTyped' BY <2>1, <2>2 DEF AccessInv, AccessTyped
  <2>4. Known(own)' /\ \A w \in waits' : w.kind # "none" /\ w.cur /\ Carries(w) /\ Known(w)'
    BY <2>1 DEF AccessInv, Numbered, Known
  <2>5. Numbered' BY <2>1, <2>2, <2>4 DEF AccessInv, Numbered
  <2>6. (Spent' <=> Spent) /\ (Told0' <=> Told0) BY <2>1, <2>2 DEF Spent, Told0
  <2>7. Aimed' BY <2>1, <2>2, <2>6 DEF AccessInv, Aimed
  <2> QED BY <2>3, <2>5, <2>7 DEF AccessInv
<1>2. CASE Shutdown
  <2>1. /\ ~disk.mine /\ up /\ waits' = Stale(waits) /\ own' = Fenced(own)
        /\ fence' = [Disabled(fence) EXCEPT !.retired = TRUE] /\ slot' = [slot EXCEPT !.cur = FALSE]
        /\ ctl' = [ctl EXCEPT !.last = FALSE, !.phase = "Quiesced", !.live = FALSE]
        /\ UNCHANGED <<disk, up, journal, dead, issued>>
    BY <1>2 DEF Shutdown, EpochEnds
  <2>2. fence' \in Fences /\ fence'.disabled BY <1>0, <2>1, DisabledTyped DEF Fences
  <2>3. slot' \in Slots /\ slot'.use = slot.use BY <1>0, <2>1 DEF Slots
  <2>4. ctl'.clear = ctl.clear BY <1>0, <2>1 DEF Controls
  <2>5. waits' \subseteq waits BY <2>1 DEF Stale
  <2>6. /\ own' \in Workers /\ Carries(own') /\ own'.kind = own.kind /\ own'.gen = own.gen
        /\ own'.out = own.out /\ own'.upto = own.upto /\ (Told0' <=> Told0)
        /\ (own'.kind = "none" => own' = NoOwner)
    BY <2>1, OwnerRests DEF AccessInv, AccessTyped, Numbered
  <2>7. AccessTyped' BY <2>1, <2>2, <2>3, <2>5, <2>6 DEF AccessInv, AccessTyped
  <2>8. Known(own)' /\ \A w \in waits' : w.kind # "none" /\ w.cur /\ Carries(w) /\ Known(w)'
    BY <2>1, <2>5, <2>6 DEF AccessInv, Numbered, Known
  <2>9. Numbered' BY <2>1, <2>6, <2>8 DEF AccessInv, Numbered
  <2>10. Spent' <=> Spent BY <2>1 DEF Spent
  <2>11. Aimed' BY <2>1, <2>2, <2>3, <2>4, <2>5, <2>6, <2>10 DEF AccessInv, Aimed
  <2> QED BY <2>7, <2>9, <2>11 DEF AccessInv
<1> QED BY <1>1, <1>2

(* A binding that begins, or a process that ended: nobody is at work.       *)
LEMMA BoundAnew ==
  ASSUME AccessInv, slot' \in Slots, fence' \in Fences, ~fence'.retired, waits' = {}, own' = NoOwner,
         dead' = {}, ctl'.clear = "none", UNCHANGED <<disk, issued, journal>>
  PROVE  AccessInv'
<1>1. own' \in Workers /\ own'.kind = "none" /\ own'.upto = 0 /\ 0 <= issued'
  BY Values, Bounds DEF NoOwner, AccessInv, AccessTyped
<1>2. Carries(own') /\ Known(own)' /\ ~Told0' BY <1>1 DEF Carries, Known, Told0
<1>3. AccessTyped' BY <1>1 DEF AccessInv, AccessTyped
<1>4. Numbered' BY <1>2 DEF AccessInv, Numbered
<1>5. Aimed' BY <1>1, <1>2 DEF Aimed
<1> QED BY <1>3, <1>4, <1>5 DEF AccessInv

LEMMA LifeAccess ==
  ASSUME ReportInv, AccessInv, Rebind \/ Crash \/ Launch
  PROVE  AccessInv'
<1>0. disk \in Disks /\ (~up => own = NoOwner /\ waits = {}) BY DEF AccessInv, AccessTyped, Numbered
<1>1. ASSUME Binds PROVE slot' \in Slots /\ fence' \in Fences /\ ~fence'.retired /\ dead' = {} /\ ctl'.clear = "none"
  BY <1>0, <1>1, Values DEF Binds, Slots, Fences, Disks
<1>2. CASE Rebind BY <1>1, <1>2, BoundAnew DEF Rebind
<1>3. CASE Launch BY <1>0, <1>1, <1>3, BoundAnew DEF Launch, lanes, world
<1>4. CASE Crash
  <2>1. /\ slot' = NoSlot /\ fence' = [disabled |-> TRUE, inel |-> FALSE, retired |-> FALSE] /\ waits' = {}
        /\ own' = NoOwner /\ dead' = {} /\ ctl' = [NewSession EXCEPT !.live = FALSE] /\ UNCHANGED <<disk, issued, journal>>
    BY <1>4 DEF Crash
  <2>2. fence' \in Fences /\ ~fence'.retired BY <2>1 DEF Fences
  <2>3. ctl'.clear = "none" BY <2>1 DEF NewSession
  <2> QED BY <2>1, <2>2, <2>3, Values, BoundAnew
<1> QED BY <1>2, <1>3, <1>4

LEMMA AccessNext ==
  ASSUME ReportInv, AccessInv, [Next]_vars
  PROVE  AccessInv'
<1>1. CASE Calm
  <2>1. issued <= issued /\ issued \in 1..MaxTokens /\ journal.relay <= issued
    BY DEF AccessInv, AccessTyped, Numbered
  <2> QED BY <1>1, <2>1, CalmSteps, AccessRests
<1>2. CASE WorkerBegins BY <1>2, BeginsAccess DEF WorkerBegins
<1> QED BY <1>1, <1>2, AnsweredAccess, JournalAccess, WritesAccess, RefreshAccess, TakenAccess, LifeAccess
        DEF Next, Calm, LaneStep, Surroundings

LEMMA AccessInit == Init => AccessInv
<1> SUFFICES ASSUME Init PROVE AccessInv OBVIOUS
<1>0. own = NoOwner /\ own.kind = "none" /\ own \in Workers BY Values DEF Init
<1>1. AccessTyped
  <2>1. [tok |-> 1, ends |-> FirstEnds, mine |-> TRUE] \in Disks BY Bounds DEF Disks
  <2>2. [tok |-> 1, use |-> 1, gen |-> TRUE, ends |-> FirstEnds, cur |-> TRUE] \in Slots BY Bounds DEF Slots
  <2>3. [disabled |-> FALSE, inel |-> FALSE, retired |-> FALSE] \in Fences BY DEF Fences
  <2>4. 1 \in 1..MaxTokens BY Bounds
  <2> QED BY <1>0, <2>1, <2>2, <2>3, <2>4 DEF Init, AccessTyped
<1>2. Carries(own) /\ Known(own) BY <1>0 DEF Carries, Known, NoOwner, Init
<1>3. Numbered BY <1>0, <1>2 DEF Init, Numbered
<1>4. Aimed BY <1>0, Values DEF Init, Aimed, Told0
<1> QED BY <1>1, <1>3, <1>4 DEF AccessInv

----------------------------------------------------------------------------
(* What follows for every run of the program.                               *)

(* The report and the token: the inductive invariant holds throughout,      *)
(* whatever the bounds and the failures.                                    *)
THEOREM PostConnectInvariant == Spec => [](ReportInv /\ AccessInv)
<1>1. Init => ReportInv /\ AccessInv BY ReportInit, AccessInit
<1>2. ReportInv /\ AccessInv /\ [Next]_vars => (ReportInv /\ AccessInv)'
  <2>1. AccessInv => issued \in 1..MaxTokens BY DEF AccessInv, AccessTyped
  <2> QED BY <2>1, ReportNext, AccessNext
<1> QED BY <1>1, <1>2, PTL DEF Spec

(* Every variable has its type.                                             *)
THEOREM PostConnectTypeCorrect == Spec => []TypeOK
<1>1. ReportInv /\ AccessInv => TypeOK
  <2> SUFFICES ASSUME ReportInv, AccessInv PROVE TypeOK OBVIOUS
  <2>1. dead \subseteq 1..MaxTokens BY Bounds DEF AccessInv, AccessTyped, Numbered
  <2> QED BY <2>1 DEF TypeOK, ReportInv, ReportTyped, AccessInv, AccessTyped, Slots, Disks, Fences,
             Controls, Lanes, Metas, Journals, Posts
<1> QED BY <1>1, PostConnectInvariant, PTL

(* What was true when a pass was last asked for is reported when the burst  *)
(* has come to rest (trigger, finish_pass_lane): the pass that a later      *)
(* trigger owes is not forgotten, in whichever order the lanes end, and no  *)
(* late PUT takes the journal back to older facts.                          *)
THEOREM AskedIsReported == Spec => []Served
<1>1. ReportInv => Served
  <2> SUFFICES ASSUME ReportInv, ctl.phase = "Quiesced", ~broken PROVE journal.rep >= want BY DEF Served
  <2>1. ~FollowUpDue /\ ~Passing BY DEF FollowUpDue, Passing
  <2>2. journal.rep >= want \/ journal.rep < want BY DEF ReportInv, ReportTyped, Journals
  <2> QED BY <2>1, <2>2 DEF ReportInv, Promised
<1> QED BY <1>1, PostConnectInvariant, PTL

(* A token leaves the file for a newer one, or after the journal has said   *)
(* of it that it is not configured (CredentialAccess, retry of the pending  *)
(* clear), and another pairing's file is never written.                     *)
THEOREM NewerIsKept == Spec => NewerAccessKept
<1> DEFINE Keeps ==
      /\ disk.tok # 0 /\ disk'.tok = 0 => disk.tok \in dead'
      /\ ~disk.mine => disk' = disk
<1>1. ASSUME ReportInv, AccessInv, [Next]_vars PROVE Keeps \/ UNCHANGED vars
  <2>0. disk \in Disks /\ ctl \in Controls /\ issued \in 1..MaxTokens
    BY <1>1 DEF ReportInv, ReportTyped, AccessInv, AccessTyped
  <2>1. ASSUME UNCHANGED disk PROVE Keeps BY <2>1
  <2> HIDE DEF Keeps
  <2>2. CASE WorkerWrites
    <3>1. own # NoOwner /\ dead' = dead BY <2>2 DEF WorkerWrites, history
    <3>2. CASE CanWrite(own) /\ (WrittenWell(own) \/ Uncertain(own))
      <4>1. /\ own.kind \in {"access", "addr", "clear"}
            /\ own.kind = "access" => disk'.tok = own.out
            /\ own.kind = "addr" => disk'.tok = IF ctl.clear = "none" THEN disk.tok ELSE 0
        BY <1>1, <2>0, <3>1, <3>2, WritesClient
      <4>2. disk.mine /\ own.gen BY <1>1, <3>2, Bound
      <4>3. disk'.tok = 0 /\ disk.tok # 0 => Spent
        <5>1. CASE own.kind = "access" BY <1>1, <4>1, <5>1 DEF AccessInv, Aimed, Told0
        <5>2. CASE own.kind = "clear" BY <1>1, <4>2, <5>2 DEF AccessInv, Aimed
        <5>3. CASE own.kind = "addr" BY <1>1, <2>0, <4>1, <5>3 DEF AccessInv, Aimed, Controls
        <5> QED BY <4>1, <5>1, <5>2, <5>3
      <4> QED BY <3>1, <4>2, <4>3 DEF Keeps, Spent
    <3> QED BY <2>1, <2>2, <3>2 DEF WorkerWrites, Failed, access
  <2>3. CASE Refresh
    <3>1. issued + 1 # 0 BY <2>0
    <3>2. disk' = disk \/ (disk.mine /\ disk' = [disk EXCEPT !.tok = issued + 1]) BY <2>3 DEF Refresh
    <3> QED BY <2>0, <2>1, <3>1, <3>2 DEF Keeps, Disks
  <2>4. CASE Taken
    <3>1. disk.mine /\ disk'.tok = disk.tok BY <2>0, <2>4 DEF Taken, Disks
    <3> QED BY <3>1 DEF Keeps
  <2>5. CASE Calm BY <1>1, <2>1, <2>5, CalmSteps DEF SameClient
  <2>6. CASE AccessAnswered \/ AddrAnswered \/ WorkerBegins \/ JournalRevokes \/ JournalIssues \/ JournalMoves
    BY <2>1, <2>6 DEF AccessAnswered, AddrAnswered, WorkerBegins, Begins, JournalRevokes, JournalIssues,
       JournalMoves, JournalChanges, access
  <2>7. CASE Shutdown \/ Rebind \/ Crash \/ Launch BY <2>1, <2>7 DEF Shutdown, Rebind, Crash, Launch
  <2> QED BY <1>1, <2>2, <2>3, <2>4, <2>5, <2>6, <2>7 DEF Next, Calm, LaneStep, Surroundings
<1>2. ReportInv /\ AccessInv /\ [Next]_vars => [Keeps]_vars BY <1>1
<1> QED BY <1>2, PostConnectInvariant, PTL DEF Spec, NewerAccessKept

----------------------------------------------------------------------------
(* The live client: the second invariant, for a pairing that was saved      *)
(* with addresses.                                                          *)

LEMMA NeverZero ==
  ASSUME AccessInv
  PROVE  0 \notin dead /\ issued + 1 \notin dead
  BY DEF AccessInv, AccessTyped, Numbered

LEMMA AnsweredSound ==
  ASSUME ReportInv, AccessInv, SoundInv, AccessAnswered \/ AddrAnswered
  PROVE  SoundInv'
<1>1. up /\ SameClient /\ UNCHANGED <<own, issued, journal>>
  BY DEF AccessAnswered, AddrAnswered, LaneGoesTo, SameClient, access, world, history
<1>2. ASSUME NEW w, waits' = waits \cup {w}, lane'.st # "get",
             w.kind = "access" =>
               /\ w.out = journal.relay
               /\ \A v \in waits : v.kind # "access"
      PROVE  SoundInv'
  <2>1. Once' BY <1>2 DEF SoundInv, Once
  <2>2. (RevokedNotUsed' <=> RevokedNotUsed) /\ (Told0' <=> Told0)
    BY <1>1 DEF RevokedNotUsed, Usable, SameClient, Told0
  <2>3. Fresh' BY <1>1, <1>2, <2>2 DEF SoundInv, Fresh, SameClient
  <2>4. Addressed' BY <1>1 DEF SoundInv, Addressed, SameClient
  <2>5. Matched' BY <1>1, <2>2 DEF SoundInv, Matched, SameClient
  <2> QED BY <2>1, <2>3, <2>4, <2>5 DEF SoundInv
<1>3. CASE AccessAnswered
  <2> DEFINE w == Worker("access", lane.gen, journal.relay, IF journal.relay = 0 THEN issued ELSE 0)
  <2>1. waits' = waits \cup {w} /\ lane.st = "get" /\ lane' = [NoLane EXCEPT !.st = "apply"]
    BY <1>3 DEF AccessAnswered, LaneGoesTo
  <2> HIDE DEF w
  <2>2. w.out = journal.relay BY AnswerTyped DEF w
  <2>3. lane'.st # "get" BY <2>1 DEF NoLane
  <2> QED BY <1>2, <2>1, <2>2, <2>3 DEF SoundInv, Once
<1>4. CASE AddrAnswered
  <2> DEFINE w == Worker("addr", FALSE, journal.ends, 0)
  <2>1. waits' = waits \cup {w} /\ lane' = [NoLane EXCEPT !.st = "commit"]
    BY <1>4 DEF AddrAnswered, LaneGoesTo
  <2> HIDE DEF w
  <2>2. w.kind = "addr" BY AddrTyped DEF w
  <2>3. lane'.st # "get" BY <2>1 DEF NoLane
  <2> QED BY <1>2, <2>1, <2>2, <2>3
<1> QED BY <1>3, <1>4

LEMMA JournalSound ==
  ASSUME ReportInv, AccessInv, SoundInv, JournalRevokes \/ JournalIssues \/ JournalMoves
  PROVE  SoundInv'
<1>1. /\ SameClient /\ WorkersRest /\ lane' = lane /\ waits' = waits /\ own' = own
      /\ JournalRevokes => journal'.relay = 0 /\ journal'.ends = journal.ends
      /\ JournalIssues => journal'.relay = issued + 1 /\ journal'.ends = journal.ends
      /\ JournalMoves => journal'.relay = journal.relay /\ journal'.ends # 0
  BY JournalAccess
<1>2. CASE JournalMoves BY <1>1, <1>2, SoundRests
<1>3. CASE JournalRevokes \/ JournalIssues
  <2>1. /\ journal'.ends = journal.ends /\ journal'.relay \notin dead
        /\ \A w \in waits : journal'.relay = 0 \/ journal'.relay > w.upto
    <3>1. \A w \in waits : issued + 1 > w.upto
      BY Bounds DEF AccessInv, AccessTyped, Numbered, Known, Workers
    <3> QED BY <1>1, <1>3, <3>1, NeverZero
  <2>2. Once' BY <1>1 DEF SoundInv, Once
  <2>3. (RevokedNotUsed' <=> RevokedNotUsed) /\ (Told0' <=> Told0)
    BY <1>1 DEF RevokedNotUsed, Usable, SameClient, Told0
  <2>4. Fresh' BY <1>1, <2>1, <2>3 DEF SoundInv, Fresh, SameClient
  <2>5. Addressed' BY <1>1, <2>1 DEF SoundInv, Addressed, SameClient
  <2>6. Matched' BY <1>1, <2>3 DEF SoundInv, Matched, SameClient
  <2> QED BY <2>2, <2>4, <2>5, <2>6 DEF SoundInv
<1> QED BY <1>2, <1>3

LEMMA BeginsSound ==
  ASSUME ReportInv, AccessInv, SoundInv, NEW w \in waits, Begins(w)
  PROVE  SoundInv'
<1>0. /\ w \in Workers /\ slot \in Slots /\ own = NoOwner /\ own.kind = "none" /\ waits' = waits \ {w} /\ up
      /\ ~Told0 /\ UNCHANGED <<disk, ctl, lane, up, journal, issued>>
  BY Values DEF AccessInv, AccessTyped, Begins, world, Told0
<1>1. CASE Drops(w)
  <2>1. SameClient /\ WorkersRest BY <1>0, <1>1 DEF Begins, SameClient, WorkersRest
  <2> QED BY <1>0, <2>1, SoundRests DEF SoundInv, Addressed
<1>2. CASE ~Drops(w)
  <2>1. own' = Owner(w) /\ ~fence.retired BY <1>2 DEF Begins, Drops
  <2>2. /\ own'.kind = w.kind /\ own'.out = w.out
        /\ own'.kind \in {"access", "addr"} => own'.gen = slot.gen
    BY <1>0, <2>1, OwnerKeeps
  <2>3. Once' BY <1>0 DEF SoundInv, Once
  <2>4. own'.kind = "addr" => own'.out # 0 BY <1>2, <2>2 DEF Drops
  <2>5. CASE w.kind = "access" /\ w.out = 0
    <3>1. Told(w) BY <1>2, <2>5 DEF Begins
    <3>2. /\ fence'.disabled /\ slot'.gen = slot.gen /\ slot'.tok = 0 /\ slot'.use = 0 /\ slot'.ends = slot.ends
      BY <1>0, <2>1, <3>1, ToldTyped DEF SoundInv, Addressed
    <3>3. dead' = dead \cup 1..w.upto BY <3>1 DEF Told
    <3>4. Told0' BY <2>2, <2>5 DEF Told0
    <3>5. Fresh'
      <4>1. journal.relay \notin dead'
        <5>1. journal.relay = 0 \/ journal.relay > w.upto BY <2>5 DEF SoundInv, Fresh
        <5>2. journal.relay \notin 1..w.upto
          BY <1>0, <5>1, Bounds DEF ReportInv, ReportTyped, Journals, Workers
        <5> QED BY <3>3, <5>2 DEF SoundInv, Fresh
      <4>2. \A v \in waits' : v.kind # "access" BY <1>0, <2>5 DEF SoundInv, Once
      <4>3. 0 \notin dead' BY <3>3, NeverZero
      <4>4. RevokedNotUsed' BY <3>2 DEF RevokedNotUsed, Usable
      <4> QED BY <1>0, <2>2, <2>5, <3>4, <4>1, <4>2, <4>3, <4>4 DEF Fresh
    <3>6. Addressed' BY <1>0, <2>4, <3>2 DEF SoundInv, Addressed
    <3>7. Matched' BY <1>0, <2>2, <3>2, <3>4 DEF SoundInv, Matched
    <3> QED BY <2>3, <3>5, <3>6, <3>7 DEF SoundInv
  <2>6. CASE ~(w.kind = "access" /\ w.out = 0)
    <3>1. UNCHANGED <<slot, fence, dead>> BY <1>2, <2>6 DEF Begins
    <3>2. ~Told0' BY <2>2, <2>6 DEF Told0
    <3>3. RevokedNotUsed' <=> RevokedNotUsed BY <1>0, <3>1 DEF RevokedNotUsed, Usable
    <3>4. Fresh' BY <1>0, <2>2, <3>1, <3>2, <3>3 DEF SoundInv, Fresh
    <3>5. Addressed' BY <1>0, <2>4, <3>1 DEF SoundInv, Addressed
    <3>6. Matched' BY <1>0, <2>2, <3>1, <3>2 DEF SoundInv, Matched
    <3> QED BY <2>3, <3>4, <3>5, <3>6 DEF SoundInv
  <2> QED BY <2>5, <2>6
<1> QED BY <1>1, <1>2

(* The client that a write leaves is the one of the file it wrote.          *)
LEMMA WritesMatch ==
  ASSUME AccessInv, SoundInv, ctl \in Controls, up, own # NoOwner, CanWrite(own),
         WrittenWell(own) \/ Uncertain(own)
  PROVE  slot'.use = disk'.tok /\ slot'.gen /\ slot'.ends # 0 /\ disk'.ends # 0 /\ disk'.tok \notin dead
<1>0. /\ disk.mine /\ ~fence.retired /\ fence \in Fences /\ slot \in Slots
  BY Bound DEF AccessInv, AccessTyped
<1>1. /\ own.kind \in {"access", "addr", "clear"} /\ disk' = Written(own) /\ disk' \in Disks
      /\ disk'.ends = (IF own.kind = "addr" THEN own.out ELSE disk.ends)
      /\ own.kind = "access" => disk'.tok = own.out
      /\ own.kind = "clear" => disk'.tok = 0
      /\ own.kind = "addr" => disk'.tok = IF ctl.clear = "none" THEN disk.tok ELSE 0
  BY WritesClient
<1>2. disk'.ends # 0 BY <1>1 DEF SoundInv, Addressed
<1>3. disk'.tok \notin dead
  <2>1. CASE own.kind = "access" BY <1>1, <2>1 DEF SoundInv, Fresh
  <2>2. CASE own.kind = "clear" BY <1>1, <2>2, NeverZero
  <2>3. CASE own.kind = "addr"
    <3>1. ~Told0 BY <2>3 DEF Told0
    <3> QED BY <1>0, <1>1, <2>3, <3>1, NeverZero DEF SoundInv, Fresh
  <2> QED BY <1>1, <2>1, <2>2, <2>3
<1>4. CASE WrittenWell(own)
  <2>1. NewTok(own) = disk'.tok
    <3>1. CASE own.kind = "access" /\ own.out = 0
      <4>1. slot.tok = 0 BY <1>0, <3>1 DEF SoundInv, Matched, Told0
      <4> QED BY <1>1, <3>1, <4>1 DEF NewTok
    <3>2. CASE ~(own.kind = "access" /\ own.out = 0) BY <1>1, <3>2 DEF NewTok
    <3> QED BY <3>1, <3>2
  <2>2. NewEnds(own) # 0 BY <1>1 DEF NewEnds, SoundInv, Addressed
  <2>3. slot' = Replaced(fence, slot, disk'.tok, NewEnds(own), TRUE) BY <1>4, <2>1 DEF WrittenWell
  <2>4. slot'.use = disk'.tok /\ slot'.gen /\ slot'.ends = NewEnds(own)
    BY <1>0, <2>2, <2>3 DEF Replaced, Builds
  <2> QED BY <1>2, <1>3, <2>2, <2>4
<1>5. CASE Uncertain(own)
  <2>1. slot' = Replaced(fence, slot, disk'.tok, disk'.ends, TRUE) BY <1>5 DEF Uncertain
  <2>2. slot'.use = disk'.tok /\ slot'.gen /\ slot'.ends = disk'.ends
    BY <1>0, <1>2, <2>1 DEF Replaced, Builds
  <2> QED BY <1>2, <1>3, <2>2
<1> QED BY <1>4, <1>5

(* The workers that wait, when the client moves to another generation.      *)
LEMMA MovedSound ==
  ASSUME AccessInv, SoundInv, SlotMoves, lane \in Lanes, issued' \in 1..MaxTokens, issued <= issued',
         UNCHANGED <<dead, journal>>
  PROVE  /\ Once'
         /\ \A v \in waits' : v.kind = "access" =>
              v.out \notin dead' /\ (v.out = 0 => journal'.relay = 0 \/ journal'.relay > v.upto)
<1>1. \A v \in waits' : \E w \in waits : v = Left(w) /\ v.kind = w.kind /\ v.out = w.out /\ v.upto = w.upto
  BY MovedWaits
<1>2. lane'.st = lane.st BY LeftLane DEF SlotMoves
<1>3. Once' BY <1>1, <1>2 DEF SoundInv, Once
<1>4. \A v \in waits' : v.kind = "access" =>
        v.out \notin dead' /\ (v.out = 0 => journal'.relay = 0 \/ journal'.relay > v.upto)
  BY <1>1 DEF SoundInv, Fresh
<1> QED BY <1>3, <1>4

LEMMA WritesSound ==
  ASSUME ReportInv, AccessInv, SoundInv, WorkerWrites
  PROVE  SoundInv'
<1>0. /\ up /\ own # NoOwner /\ own' = NoOwner /\ own'.kind = "none" /\ ~Told0' /\ ctl \in Controls /\ lane \in Lanes
      /\ UNCHANGED <<up, journal, dead, issued>> /\ issued \in 1..MaxTokens /\ issued <= issued
  BY Values, Bounds DEF ReportInv, ReportTyped, AccessInv, AccessTyped, WorkerWrites, world, history, Told0
<1>1. CASE ~CanWrite(own) /\ UNCHANGED <<disk, slot, fence, ctl, lane, waits>>
  <2>1. disk.mine => ~Told0
    <3>1. ASSUME disk.mine, Told0 PROVE FALSE
      <4>1. own.gen BY <1>0, <3>1 DEF SoundInv, Matched, Told0
      <4> QED BY <1>1, <3>1, <4>1 DEF CanWrite, Told0
    <3> QED BY <3>1
  <2>2. RevokedNotUsed' <=> RevokedNotUsed BY <1>0, <1>1 DEF RevokedNotUsed, Usable
  <2>3. Once' BY <1>1 DEF SoundInv, Once
  <2>4. Fresh' BY <1>0, <1>1, <2>1, <2>2 DEF SoundInv, Fresh
  <2>5. Addressed' BY <1>0, <1>1 DEF SoundInv, Addressed
  <2>6. Matched' BY <1>0, <1>1, <2>1 DEF SoundInv, Matched
  <2> QED BY <2>3, <2>4, <2>5, <2>6 DEF SoundInv
<1>2. CASE CanWrite(own) /\ Failed(own)
  <2>1. UNCHANGED <<disk, slot, fence, lane, waits>> BY <1>2 DEF Failed
  <2>2. ctl'.clear = IF Told0 THEN "due" ELSE ctl.clear BY <1>0, <1>2 DEF Failed, Told0, Controls
  <2>3. RevokedNotUsed' <=> RevokedNotUsed BY <1>0, <2>1 DEF RevokedNotUsed, Usable
  <2>4. Once' BY <2>1 DEF SoundInv, Once
  <2>5. Fresh' BY <1>0, <2>1, <2>2, <2>3 DEF SoundInv, Fresh
  <2>6. Addressed' BY <1>0, <2>1 DEF SoundInv, Addressed
  <2>7. Matched' BY <1>0, <2>1, <2>2 DEF SoundInv, Matched
  <2> QED BY <2>4, <2>5, <2>6, <2>7 DEF SoundInv
<1>3. CASE CanWrite(own) /\ (WrittenWell(own) \/ Uncertain(own))
  <2>1. slot'.use = disk'.tok /\ slot'.gen /\ slot'.ends # 0 /\ disk'.ends # 0 /\ disk'.tok \notin dead
    BY <1>0, <1>3, WritesMatch
  <2>2. SlotMoves BY <1>3 DEF WrittenWell, Uncertain
  <2>3. /\ Once'
        /\ \A v \in waits' : v.kind = "access" =>
              v.out \notin dead' /\ (v.out = 0 => journal'.relay = 0 \/ journal'.relay > v.upto)
    BY <1>0, <2>2, MovedSound
  <2>4. RevokedNotUsed' BY <1>0, <2>1 DEF RevokedNotUsed
  <2>5. Fresh' BY <1>0, <2>1, <2>3, <2>4 DEF SoundInv, Fresh
  <2>6. Addressed' BY <1>0, <2>1 DEF SoundInv, Addressed
  <2>7. Matched' BY <1>0, <2>1 DEF Matched
  <2> QED BY <2>3, <2>5, <2>6, <2>7 DEF SoundInv
<1> QED BY <1>1, <1>2, <1>3 DEF WorkerWrites, access

LEMMA RefreshSound ==
  ASSUME ReportInv, AccessInv, SoundInv, Refresh
  PROVE  SoundInv'
<1>0. /\ Usable /\ up /\ own = NoOwner /\ own.kind = "none" /\ ~Told0 /\ ~Told0' /\ ctl \in Controls /\ lane \in Lanes
      /\ issued \in 1..MaxTokens /\ issued < MaxTokens /\ UNCHANGED <<own, up, journal, dead>>
      /\ disk \in Disks /\ slot \in Slots /\ fence \in Fences
  BY Values DEF Refresh, Usable, ReportInv, ReportTyped, AccessInv, AccessTyped, world, Told0
<1>1. CASE UNCHANGED <<disk, slot, ctl, lane, waits, issued>> /\ fence' = [fence EXCEPT !.inel = TRUE]
  <2>1. fence'.inel BY <1>0, <1>1 DEF Fences
  <2>2. RevokedNotUsed' BY <2>1 DEF RevokedNotUsed, Usable
  <2>3. Once' BY <1>1 DEF SoundInv, Once
  <2>4. Fresh' BY <1>0, <1>1, <2>2 DEF SoundInv, Fresh
  <2>5. Addressed' BY <1>0, <1>1 DEF SoundInv, Addressed
  <2>6. Matched' BY <1>0, <1>1 DEF SoundInv, Matched
  <2> QED BY <2>3, <2>4, <2>5, <2>6 DEF SoundInv
<1>2. CASE /\ disk' = [disk EXCEPT !.tok = issued + 1] /\ slot' = [slot EXCEPT !.use = issued + 1, !.gen = TRUE]
           /\ SlotMoves /\ issued' = issued + 1
  <2>1. issued + 1 \in 1..MaxTokens /\ issued <= issued + 1 BY <1>0, Bounds
  <2>2. disk'.tok = issued + 1 /\ disk'.ends = disk.ends BY <1>0, <1>2 DEF Disks
  <2>3. slot'.use = issued + 1 /\ slot'.gen /\ slot'.ends = slot.ends BY <1>0, <1>2 DEF Slots
  <2>4. issued + 1 \notin dead' BY <1>0, NeverZero
  <2>5. /\ Once'
        /\ \A v \in waits' : v.kind = "access" =>
              v.out \notin dead' /\ (v.out = 0 => journal'.relay = 0 \/ journal'.relay > v.upto)
    BY <1>0, <1>2, <2>1, MovedSound
  <2>6. RevokedNotUsed' BY <2>3, <2>4 DEF RevokedNotUsed
  <2>7. Fresh' BY <1>0, <2>2, <2>4, <2>5, <2>6 DEF SoundInv, Fresh
  <2>8. Addressed' BY <1>0, <2>2, <2>3 DEF SoundInv, Addressed
  <2>9. Matched' BY <1>0, <2>2, <2>3 DEF Matched
  <2> QED BY <2>5, <2>7, <2>8, <2>9 DEF SoundInv
<1> QED BY <1>1, <1>2 DEF Refresh

LEMMA TakenSound ==
  ASSUME ReportInv, AccessInv, SoundInv, Taken \/ Shutdown
  PROVE  SoundInv'
<1>0. disk \in Disks /\ slot \in Slots /\ fence \in Fences BY DEF AccessInv, AccessTyped
<1>1. CASE Taken
  <2>1. /\ disk' = [disk EXCEPT !.mine = FALSE]
        /\ UNCHANGED <<slot, fence, ctl, lane, waits, own, up, journal, dead, issued>>
    BY <1>1 DEF Taken, lanes, world, history
  <2>2. ~disk'.mine /\ disk'.ends = disk.ends BY <1>0, <2>1 DEF Disks
  <2>3. (RevokedNotUsed' <=> RevokedNotUsed) BY <2>1 DEF RevokedNotUsed, Usable
  <2>4. Once' BY <2>1 DEF SoundInv, Once
  <2>5. Fresh' BY <2>1, <2>2, <2>3 DEF SoundInv, Fresh
  <2>6. Addressed' BY <2>1, <2>2 DEF SoundInv, Addressed
  <2>7. Matched' BY <2>2 DEF Matched
  <2> QED BY <2>4, <2>5, <2>6, <2>7 DEF SoundInv
<1>2. CASE Shutdown
  <2>1. /\ ~disk.mine /\ up /\ waits' = Stale(waits) /\ own' = Fenced(own) /\ lane' = NoLane
        /\ fence' = [Disabled(fence) EXCEPT !.retired = TRUE] /\ slot' = [slot EXCEPT !.cur = FALSE]
        /\ UNCHANGED <<disk, up, journal, dead, issued>>
    BY <1>2 DEF Shutdown, EpochEnds, Cut
  <2>2. fence'.retired BY <1>0, <2>1, DisabledTyped DEF Fences
  <2>3. slot'.ends = slot.ends BY <1>0, <2>1 DEF Slots
  <2>4. own'.kind = own.kind /\ own'.out = own.out
    BY <2>1, OwnerRests DEF AccessInv, AccessTyped, Numbered
  <2>5. \A w \in waits' : w \in waits /\ w.kind = "clear" BY <2>1 DEF Stale
  <2>6. RevokedNotUsed' BY <2>2 DEF RevokedNotUsed, Usable
  <2>7. Once' BY <2>5 DEF Once
  <2>8. Fresh' BY <2>1, <2>4, <2>5, <2>6 DEF SoundInv, Fresh
  <2>9. Addressed' BY <2>1, <2>3, <2>4 DEF SoundInv, Addressed
  <2>10. Matched' BY <2>1 DEF Matched
  <2> QED BY <2>7, <2>8, <2>9, <2>10 DEF SoundInv
<1> QED BY <1>1, <1>2

LEMMA LifeSound ==
  ASSUME ReportInv, AccessInv, SoundInv, Rebind \/ Crash \/ Launch
  PROVE  SoundInv'
<1>0. /\ waits' = {} /\ own' = NoOwner /\ own'.kind = "none" /\ ~Told0' /\ dead' = {} /\ UNCHANGED <<disk, journal>>
  BY Values DEF Rebind, Crash, Launch, Binds, lanes, world, AccessInv, Numbered, Told0
<1>1. Once' BY <1>0 DEF Once
<1>2. RevokedNotUsed' BY <1>0 DEF RevokedNotUsed
<1>3. Fresh' BY <1>0, <1>2 DEF Fresh
<1>4. CASE Crash
  <2>1. ~up' BY <1>4 DEF Crash
  <2>2. Addressed' /\ Matched' BY <1>0, <2>1 DEF SoundInv, Addressed, Matched
  <2> QED BY <1>1, <1>3, <2>2 DEF SoundInv
<1>5. CASE Rebind \/ Launch
  <2>1. slot' = [tok |-> disk.tok, use |-> disk.tok, gen |-> TRUE, ends |-> disk.ends, cur |-> TRUE]
    BY <1>5 DEF Rebind, Launch, Binds
  <2>2. slot'.use = disk.tok /\ slot'.gen /\ slot'.ends = disk.ends BY <2>1
  <2>3. Addressed' /\ Matched' BY <1>0, <2>2 DEF SoundInv, Addressed, Matched
  <2> QED BY <1>1, <1>3, <2>3 DEF SoundInv
<1> QED BY <1>4, <1>5

LEMMA SoundNext ==
  ASSUME ReportInv, AccessInv, SoundInv, [Next]_vars
  PROVE  SoundInv'
<1>1. CASE Calm BY <1>1, CalmSteps, SoundRests DEF SoundInv, Addressed
<1>2. CASE WorkerBegins BY <1>2, BeginsSound DEF WorkerBegins
<1> QED BY <1>1, <1>2, AnsweredSound, JournalSound, WritesSound, RefreshSound, TakenSound, LifeSound
        DEF Next, Calm, LaneStep, Surroundings

LEMMA SoundInit ==
  ASSUME FirstEnds # 0, Init
  PROVE  SoundInv
<1>0. own.kind = "none" /\ ~Told0 BY Values DEF Init, Told0
<1>1. Once BY DEF Init, Once
<1>2. RevokedNotUsed BY DEF Init, RevokedNotUsed
<1>3. Fresh BY <1>0, <1>2 DEF Init, Fresh
<1>4. Addressed BY <1>0 DEF Init, Addressed
<1>5. Matched BY <1>0 DEF Init, Matched
<1> QED BY <1>1, <1>3, <1>4, <1>5 DEF SoundInv

(* For a pairing that was saved with addresses, the live client is what the *)
(* file and the journal's last answer make it, through every failed and     *)
(* uncertain write, late worker and refresh: it never dials the relay with  *)
(* a token that the journal has withdrawn, and it is at rest only on the    *)
(* file's generation (apply_relay_access_outcome_owned,                     *)
(* reconcile_from_disk).  Without an address the rebuild that drops the     *)
(* token fails, and the statement with it.                                  *)
THEOREM ClientIsSound ==
  ASSUME FirstEnds # 0
  PROVE  Spec => []LiveClientSound
<1>1. Init => SoundInv BY SoundInit
<1>2. ReportInv /\ AccessInv /\ SoundInv /\ [Next]_vars => SoundInv' BY SoundNext
<1>3. SoundInv => LiveClientSound
  <2> SUFFICES ASSUME SoundInv PROVE LiveClientSound OBVIOUS
  <2>1. RevokedNotUsed BY DEF SoundInv, Fresh
  <2>2. LiveMatchesDisk
    <3>1. own = NoOwner => ~Told0 BY Values DEF Told0
    <3> QED BY <3>1 DEF SoundInv, Matched, LiveMatchesDisk
  <2> QED BY <2>1, <2>2 DEF LiveClientSound
<1> QED BY <1>1, <1>2, <1>3, PostConnectInvariant, PTL DEF Spec
=============================================================================
