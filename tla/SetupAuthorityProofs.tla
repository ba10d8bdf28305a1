------------------------ MODULE SetupAuthorityProofs ------------------------
(***************************************************************************)
(* Proofs about SetupAuthority, for any sources, settings, wizard steps,    *)
(* length of the queue and number of faults: what was turned off stays off  *)
(* on disk, nothing is observed without consent on disk, and the window     *)
(* tells the truth.                                                         *)
(*                                                                          *)
(* One invariant carries all three.  OnFile ties the authority's copy to    *)
(* the file, WordsKept ties it to the owner's words, Heeded ties the engine *)
(* and the commands on their way to it to the authority, LoginShown ties    *)
(* the login word that waits to the flag that shows it, and Asleep says     *)
(* what is left while the program does not run.                             *)
(***************************************************************************)
EXTENDS SetupAuthority, FiniteSetTheorems, SequenceTheorems, TLAPS

(* The authority's copy is what the file says, or closed if it could not be *)
(* read.                                                                    *)
OnFile ==
  up => IF auth.readFailed THEN auth.durable = fail_closed
                           ELSE auth.durable = parse_setup(file)

(* A word that waits is the owner's last, and one that does not wait is     *)
(* saved.                                                                   *)
WordsKept ==
  up => \A t \in Things :
          /\ auth.pend[t] # "none" => said[t] = auth.pend[t]
          /\ said[t] # "none" /\ auth.pend[t] = "none"
               => auth.durable.choice[t] = said[t] /\ OnDisk(t) = said[t]
          /\ t \in Prefs /\ auth.pend[t] = "off" => ~auth.running[t]

(* What the engine is on its way to.                                        *)
Heeded ==
  up => \A i \in Items :
          /\ Settles(engine, queue, i) => Reads(auth.durable, i)
          /\ i \in Prefs => (Settles(engine, queue, i) <=> auth.running[i])
          /\ i \in Sources /\ auth.pend[i] # "none" => ~Settles(engine, queue, i)
          /\ ~Mentions(queue, i) => engine[i] = auth.running[i]

LoginShown == up /\ auth.pend["login"] # "none" => auth.loginFailed

Asleep ==
  ~up => /\ auth = Away /\ engine = Away.running /\ queue = <<>>
         /\ \A t \in Things : said[t] # "none" => OnDisk(t) = said[t]

ConsentInv ==
  /\ TypeOK /\ OnFile /\ WordsKept /\ Heeded /\ LoginShown /\ Asleep
  /\ OffHolds /\ LoginTruthful

----------------------------------------------------------------------------
(* Values.                                                                  *)

Files == [kind : {"absent", "damaged", "old", "current"}, cfg : Config]

(* Sources, settings and the login item are different things.               *)
LEMMA Apart ==
  /\ \A k \in Sources : k \notin Prefs
  /\ "login" \notin Items /\ "login" \in Things /\ Items \subseteq Things
  BY SetupAssumption DEF SetupAssumption, Items, Things

(* The files that hold nothing the owner chose.                             *)
LEMMA BlankTyped ==
  /\ fresh \in Config /\ fail_closed \in Config
  /\ fail_closed.choice["login"] = "unset"
  /\ \A t \in Items : fail_closed.choice[t] = IF t \in Optional THEN "unset" ELSE "off"
  BY SetupAssumption, Apart
  DEF SetupAssumption, fresh, fail_closed, Config, Words, Things, Optional

(* Reading a file gives a configuration.                                    *)
LEMMA ParseTyped == ASSUME NEW f \in Files PROVE parse_setup(f) \in Config
<1>1. Upgraded(f.cfg) \in Config BY DEF Upgraded, Files, Config
<1> QED BY <1>1, BlankTyped DEF parse_setup, Files

(* A file that was saved reads as what was saved.                           *)
LEMMA SavedReads ==
  ASSUME NEW cfg \in Config
  PROVE  Current(cfg) \in Files /\ parse_setup(Current(cfg)) = cfg
  BY DEF Current, Files, parse_setup

(* A choice made.                                                           *)
LEMMA ChoosingTyped ==
  ASSUME NEW cfg \in Config, NEW t \in Things, NEW on \in BOOLEAN
  PROVE  /\ Choosing(cfg, t, on) \in Config
         /\ \A x \in Things : Choosing(cfg, t, on).choice[x]
                                = IF x = t THEN Word(on) ELSE cfg.choice[x]
  BY DEF Choosing, Config, Word, Words

(* The configuration a save starts from.                                    *)
LEMMA CandidateTyped ==
  ASSUME NEW a \in Authority
  PROVE  LET c == candidate_with_pending_off(a)
         IN  /\ c \in Config
             /\ \A t \in Things :
                  /\ t \in Prefs /\ a.pend[t] # "none" => c.choice[t] = Word(a.running[t])
                  /\ t \notin Prefs /\ a.pend[t] = "off" => c.choice[t] = "off"
                  /\ ~(t \in Prefs /\ a.pend[t] # "none") /\ ~(t \notin Prefs /\ a.pend[t] = "off")
                       => c.choice[t] = a.durable.choice[t]
<1> DEFINE ch == [t \in Things |->
        CASE t \in Prefs /\ a.pend[t] # "none" -> Word(a.running[t])
          [] t \notin Prefs /\ a.pend[t] = "off" -> "off"
          [] OTHER -> a.durable.choice[t]]
<1>1. a.durable \in Config BY DEF Authority
<1>2. candidate_with_pending_off(a) = [a.durable EXCEPT !.choice = ch]
  BY <1>1 DEF candidate_with_pending_off, Config
<1>3. ASSUME NEW t \in Things
      PROVE  /\ ch[t] \in Words \cup {"unset"}
             /\ t \in Prefs /\ a.pend[t] # "none" => ch[t] = Word(a.running[t])
             /\ t \notin Prefs /\ a.pend[t] = "off" => ch[t] = "off"
             /\ ~(t \in Prefs /\ a.pend[t] # "none") /\ ~(t \notin Prefs /\ a.pend[t] = "off")
                  => ch[t] = a.durable.choice[t]
  BY <1>1 DEF Word, Words, Config
<1> HIDE DEF ch
<1>4. ch \in [Things -> Words \cup {"unset"}] BY <1>3 DEF ch
<1> QED BY <1>1, <1>2, <1>3, <1>4 DEF Config

(* What a save makes of the authority.                                      *)
LEMMA PersistTyped ==
  ASSUME NEW a \in Authority, NEW cfg \in Config
  PROVE  LET b == persist(a, cfg)
         IN  /\ b \in Authority
             /\ b.durable = cfg /\ b.readFailed = FALSE /\ b.running = a.running
             /\ b.loginFailed = a.loginFailed
             /\ \A t \in Things : b.pend[t] = IF t \in Sources /\ a.pend[t] = "off"
                                              THEN "none" ELSE a.pend[t]
  BY DEF persist, Authority

----------------------------------------------------------------------------
(* The commands on their way to the engine.                                 *)

(* A command assigns some of the choices.                                   *)
LEMMA CommandTyped ==
  /\ \A c \in Commands : DOMAIN c \subseteq Items /\ \A i \in DOMAIN c : c[i] \in BOOLEAN
  /\ \A S \in SUBSET Items : \A c \in [S -> BOOLEAN] : c \in Commands
  BY DEF Commands

(* A command sent decides what it mentions.                                 *)
LEMMA SettlesAppend ==
  ASSUME NEW q \in Seq(Commands), NEW c \in Commands, NEW e, NEW i
  PROVE  /\ Append(q, c) \in Seq(Commands)
         /\ Mentions(Append(q, c), i) <=> i \in DOMAIN c \/ Mentions(q, i)
         /\ Settles(e, Append(q, c), i) <=> IF i \in DOMAIN c THEN c[i] ELSE Settles(e, q, i)
<1> DEFINE r == Append(q, c)
<1>1. /\ r \in Seq(Commands) /\ Len(q) \in Nat /\ Len(r) = Len(q) + 1
      /\ \A n \in 1..Len(q) : r[n] = q[n]
      /\ r[Len(q) + 1] = c
  OBVIOUS
<1> HIDE DEF r
<1>2. Mentions(r, i) <=> i \in DOMAIN c \/ Mentions(q, i)
  BY <1>1 DEF Mentions
<1>3. CASE i \in DOMAIN c
  <2>1. \A n \in 1..Len(q) : \E m \in (n + 1)..Len(r) : i \in DOMAIN r[m] BY <1>1, <1>3
  <2>2. Settles(e, r, i) <=> c[i] BY <1>1, <1>2, <1>3, <2>1 DEF Settles
  <2> QED BY <1>1, <1>2, <1>3, <2>2 DEF r
<1>4. CASE i \notin DOMAIN c
  <2>1. Settles(e, r, i) <=> Settles(e, q, i) BY <1>1, <1>2, <1>4 DEF Settles
  <2> QED BY <1>1, <1>2, <1>4, <2>1 DEF r
<1> QED BY <1>3, <1>4

(* So do commands sent together.                                            *)
LEMMA SettlesConcat ==
  ASSUME NEW q \in Seq(Commands), NEW s \in Seq(Commands), NEW e, NEW i
  PROVE  /\ q \o s \in Seq(Commands)
         /\ Mentions(q \o s, i) <=> Mentions(q, i) \/ Mentions(s, i)
         /\ Settles(e, q \o s, i) <=> IF Mentions(s, i) THEN Settles(e, s, i) ELSE Settles(e, q, i)
<1> DEFINE r == q \o s
<1>1. /\ r \in Seq(Commands) /\ Len(q) \in Nat /\ Len(s) \in Nat /\ Len(r) = Len(q) + Len(s)
      /\ \A n \in 1..Len(q) : r[n] = q[n]
      /\ \A n \in 1..Len(s) : r[Len(q) + n] = s[n]
      /\ \A n \in (Len(q) + 1)..Len(r) : n - Len(q) \in 1..Len(s) /\ r[n] = s[n - Len(q)]
  BY ConcatProperties
<1> HIDE DEF r
<1>2. Mentions(r, i) <=> Mentions(q, i) \/ Mentions(s, i)
  <2>1. ASSUME NEW n \in 1..Len(r), i \in DOMAIN r[n] PROVE Mentions(q, i) \/ Mentions(s, i)
    <3>1. n \in 1..Len(q) \/ n \in (Len(q) + 1)..Len(r) BY <1>1
    <3>2. CASE n \in 1..Len(q) BY <1>1, <2>1, <3>2 DEF Mentions
    <3>3. CASE n \in (Len(q) + 1)..Len(r)
      <4>1. n - Len(q) \in 1..Len(s) /\ i \in DOMAIN s[n - Len(q)] BY <1>1, <2>1, <3>3
      <4> QED BY <4>1 DEF Mentions
    <3> QED BY <3>1, <3>2, <3>3
  <2>2. ASSUME NEW n \in 1..Len(q), i \in DOMAIN q[n] PROVE Mentions(r, i)
    BY <1>1, <2>2 DEF Mentions
  <2>3. ASSUME NEW n \in 1..Len(s), i \in DOMAIN s[n] PROVE Mentions(r, i)
    BY <1>1, <2>3 DEF Mentions
  <2> QED BY <2>1, <2>2, <2>3 DEF Mentions
<1>3. CASE Mentions(s, i)
  <2>1. PICK m \in 1..Len(s) : i \in DOMAIN s[m] BY <1>3 DEF Mentions
  <2>2. \A n \in 1..Len(q) : Len(q) + m \in (n + 1)..Len(r) /\ i \in DOMAIN r[Len(q) + m]
    BY <1>1, <2>1
  <2>3. ASSUME NEW n \in 1..Len(r), i \in DOMAIN r[n], r[n][i],
               \A k \in (n + 1)..Len(r) : i \notin DOMAIN r[k]
        PROVE  Settles(e, s, i)
    <3>1. n \notin 1..Len(q) BY <2>2, <2>3
    <3>2. n - Len(q) \in 1..Len(s) /\ r[n] = s[n - Len(q)] BY <1>1, <3>1
    <3>3. ASSUME NEW k \in (n - Len(q) + 1)..Len(s) PROVE i \notin DOMAIN s[k]
      <4>1. Len(q) + k \in (n + 1)..Len(r) /\ r[Len(q) + k] = s[k] BY <1>1, <3>2, <3>3
      <4> QED BY <2>3, <4>1
    <3> QED BY <2>3, <3>2, <3>3 DEF Settles
  <2>4. ASSUME NEW n \in 1..Len(s), i \in DOMAIN s[n], s[n][i],
               \A k \in (n + 1)..Len(s) : i \notin DOMAIN s[k]
        PROVE  Settles(e, r, i)
    <3>1. Len(q) + n \in 1..Len(r) /\ r[Len(q) + n] = s[n] BY <1>1
    <3>2. ASSUME NEW k \in (Len(q) + n + 1)..Len(r) PROVE i \notin DOMAIN r[k]
      <4>1. k - Len(q) \in (n + 1)..Len(s) /\ r[k] = s[k - Len(q)] BY <1>1, <3>2
      <4> QED BY <2>4, <4>1
    <3> QED BY <2>4, <3>1, <3>2 DEF Settles
  <2>5. Settles(e, r, i) <=> Settles(e, s, i)
    BY <1>2, <1>3, <2>3, <2>4 DEF Settles
  <2> QED BY <1>1, <1>2, <1>3, <2>5 DEF r
<1>4. CASE ~Mentions(s, i)
  <2>1. \A n \in (Len(q) + 1)..Len(r) : i \notin DOMAIN r[n] BY <1>1, <1>4 DEF Mentions
  <2>2. ASSUME NEW n \in 1..Len(r), i \in DOMAIN r[n], r[n][i],
               \A k \in (n + 1)..Len(r) : i \notin DOMAIN r[k]
        PROVE  Settles(e, q, i)
    <3>1. n \in 1..Len(q) BY <1>1, <2>1, <2>2
    <3>2. \A k \in (n + 1)..Len(q) : k \in (n + 1)..Len(r) /\ r[k] = q[k] BY <1>1, <3>1
    <3> QED BY <1>1, <2>2, <3>1, <3>2 DEF Settles
  <2>3. ASSUME NEW n \in 1..Len(q), i \in DOMAIN q[n], q[n][i],
               \A k \in (n + 1)..Len(q) : i \notin DOMAIN q[k]
        PROVE  Settles(e, r, i)
    <3>1. n \in 1..Len(r) /\ r[n] = q[n] BY <1>1
    <3>2. ASSUME NEW k \in (n + 1)..Len(r) PROVE i \notin DOMAIN r[k]
      <4>1. k \in (n + 1)..Len(q) \/ k \in (Len(q) + 1)..Len(r) BY <1>1, <3>2
      <4>2. CASE k \in (n + 1)..Len(q) BY <1>1, <2>3, <4>2
      <4> QED BY <2>1, <4>1, <4>2
    <3> QED BY <2>3, <3>1, <3>2 DEF Settles
  <2>4. Settles(e, r, i) <=> Settles(e, q, i) BY <1>2, <1>4, <2>2, <2>3 DEF Settles
  <2> QED BY <1>1, <1>2, <1>4, <2>4 DEF r
<1> QED BY <1>3, <1>4

(* The engine takes a command: it is on its way to the same choices.        *)
LEMMA SettlesTake ==
  ASSUME NEW q \in Seq(Commands), q # <<>>, NEW e \in [Items -> BOOLEAN], NEW i \in Items
  PROVE  /\ Tail(q) \in Seq(Commands)
         /\ Obeyed(e, Head(q)) \in [Items -> BOOLEAN]
         /\ Obeyed(e, Head(q))[i] = IF i \in DOMAIN Head(q) THEN Head(q)[i] ELSE e[i]
         /\ Mentions(q, i) <=> i \in DOMAIN Head(q) \/ Mentions(Tail(q), i)
         /\ Settles(Obeyed(e, Head(q)), Tail(q), i) <=> Settles(e, q, i)
<1> DEFINE c == Head(q)
<1> DEFINE s == Tail(q)
<1> DEFINE d == Obeyed(e, c)
<1>1. /\ s \in Seq(Commands) /\ Len(q) \in Nat \ {0} /\ Len(s) = Len(q) - 1
      /\ q[1] = c /\ c \in Commands
      /\ \A n \in 1..Len(s) : s[n] = q[n + 1]
      /\ \A n \in 2..Len(q) : n - 1 \in 1..Len(s) /\ q[n] = s[n - 1]
  <2>1. s \in Seq(Commands) /\ Len(q) \in Nat \ {0} /\ Len(s) = Len(q) - 1
    BY HeadTailProperties, EmptySeq
  <2>2. \A n \in 1..Len(s) : s[n] = q[n + 1] BY HeadTailProperties
  <2>3. q[1] = c /\ c \in Commands BY <2>1, ElementOfSeq
  <2> HIDE DEF s, c
  <2>4. ASSUME NEW n \in 2..Len(q) PROVE n - 1 \in 1..Len(s) /\ q[n] = s[n - 1]
    <3>1. n - 1 \in 1..Len(s) /\ n - 1 + 1 = n BY <2>1
    <3> QED BY <2>2, <3>1
  <2> QED BY <2>1, <2>2, <2>3, <2>4
<1>2. DOMAIN c \subseteq Items /\ \A x \in DOMAIN c : c[x] \in BOOLEAN BY <1>1, CommandTyped
<1>3. /\ d \in [Items -> BOOLEAN]
      /\ d[i] = IF i \in DOMAIN c THEN c[i] ELSE e[i]
  BY <1>2 DEF Obeyed
<1> HIDE DEF c, s, d
<1>4. Mentions(q, i) <=> i \in DOMAIN c \/ Mentions(s, i)
  <2>1. ASSUME NEW n \in 1..Len(q), i \in DOMAIN q[n] PROVE i \in DOMAIN c \/ Mentions(s, i)
    <3>1. n = 1 \/ n \in 2..Len(q) BY <1>1
    <3>2. CASE n = 1 BY <1>1, <2>1, <3>2
    <3>3. CASE n \in 2..Len(q) BY <1>1, <2>1, <3>3 DEF Mentions
    <3> QED BY <3>1, <3>2, <3>3
  <2>2. ASSUME NEW n \in 1..Len(s), i \in DOMAIN s[n] PROVE Mentions(q, i)
    <3>1. n + 1 \in 1..Len(q) BY <1>1
    <3> QED BY <1>1, <2>2, <3>1 DEF Mentions
  <2> QED BY <1>1, <2>1, <2>2 DEF Mentions
<1>5. ASSUME Settles(d, s, i) PROVE Settles(e, q, i)
  <2>1. CASE d[i] /\ ~Mentions(s, i)
    <3>1. CASE i \in DOMAIN c
      <4>1. \A m \in 2..Len(q) : i \notin DOMAIN q[m] BY <1>1, <2>1 DEF Mentions
      <4>2. 1 \in 1..Len(q) /\ i \in DOMAIN q[1] /\ q[1][i] BY <1>1, <1>3, <2>1, <3>1
      <4> QED BY <4>1, <4>2 DEF Settles
    <3>2. CASE i \notin DOMAIN c BY <1>3, <1>4, <2>1, <3>2 DEF Settles
    <3> QED BY <3>1, <3>2
  <2>2. ASSUME NEW n \in 1..Len(s), i \in DOMAIN s[n], s[n][i],
               \A k \in (n + 1)..Len(s) : i \notin DOMAIN s[k]
        PROVE  Settles(e, q, i)
    <3>1. n + 1 \in 1..Len(q) /\ q[n + 1] = s[n] BY <1>1
    <3>2. ASSUME NEW k \in (n + 1 + 1)..Len(q) PROVE i \notin DOMAIN q[k]
      <4>1. k - 1 \in (n + 1)..Len(s) /\ q[k] = s[k - 1] BY <1>1, <3>2
      <4> QED BY <2>2, <4>1
    <3> QED BY <2>2, <3>1, <3>2 DEF Settles
  <2> QED BY <1>5, <2>1, <2>2 DEF Settles
<1>6. ASSUME Settles(e, q, i) PROVE Settles(d, s, i)
  <2>1. CASE e[i] /\ ~Mentions(q, i) BY <1>3, <1>4, <2>1 DEF Settles
  <2>2. ASSUME NEW n \in 1..Len(q), i \in DOMAIN q[n], q[n][i],
               \A k \in (n + 1)..Len(q) : i \notin DOMAIN q[k]
        PROVE  Settles(d, s, i)
    <3>1. CASE n = 1
      <4>1. ~Mentions(s, i)
        <5>1. \A k \in 1..Len(s) : k + 1 \in (n + 1)..Len(q) /\ s[k] = q[k + 1] BY <1>1, <3>1
        <5> QED BY <2>2, <5>1 DEF Mentions
      <4> QED BY <1>1, <1>3, <2>2, <3>1, <4>1 DEF Settles
    <3>2. CASE n # 1
      <4>1. n - 1 \in 1..Len(s) /\ s[n - 1] = q[n] BY <1>1, <3>2
      <4>2. ASSUME NEW k \in (n - 1 + 1)..Len(s) PROVE i \notin DOMAIN s[k]
        <5>1. k + 1 \in (n + 1)..Len(q) /\ s[k] = q[k + 1] BY <1>1, <4>1, <4>2
        <5> QED BY <2>2, <5>1
      <4> QED BY <2>2, <4>1, <4>2 DEF Settles
    <3> QED BY <3>1, <3>2
  <2> QED BY <1>6, <2>1, <2>2 DEF Settles
<1> QED BY <1>1, <1>3, <1>4, <1>5, <1>6 DEF c, s, d

(* A function on an initial segment is a sequence.                          *)
LEMMA FunctionSeq ==
  ASSUME NEW S, NEW n \in Nat, NEW f \in [1..n -> S]
  PROVE  f \in Seq(S) /\ Len(f) = n
<1>1. f \in Seq(S) BY SeqDef
<1>2. Len(f) \in Nat /\ 1..Len(f) = 1..n BY <1>1, LenProperties
<1> QED BY <1>1, <1>2

(* The commands a retry sends for a group of settings.                      *)
LEMMA GroupSends ==
  ASSUME NEW S \in SUBSET Items, NEW running \in [Items -> BOOLEAN], NEW e, NEW i
  PROVE  LET q == SettingsSent(S, running)
         IN  /\ q \in Seq(Commands)
             /\ Mentions(q, i) <=> i \in S
             /\ i \in S => (Settles(e, q, i) <=> running[i])
<1> DEFINE c == [x \in S |-> running[x]]
<1>1. CASE S = {}
  BY <1>1 DEF Mentions, SettingsSent
<1>2. CASE S # {}
  <2>1. c \in Commands /\ DOMAIN c = S /\ (i \in S => c[i] = running[i]) BY CommandTyped
  <2> HIDE DEF c
  <2>2. <<c>> \in Seq(Commands) /\ Len(<<c>>) = 1 /\ <<c>>[1] = c BY <2>1
  <2>3. Mentions(<<c>>, i) <=> i \in S BY <2>1, <2>2 DEF Mentions
  <2>4. ASSUME i \in S PROVE Settles(e, <<c>>, i) <=> running[i]
    BY <2>1, <2>2, <2>3, <2>4 DEF Settles
  <2>5. SettingsSent(S, running) = <<c>> BY <1>2 DEF SettingsSent, c
  <2> QED BY <2>2, <2>3, <2>4, <2>5
<1> QED BY <1>1, <1>2

(* There are finitely many sources, and a retry starts each that waits.     *)
LEMMA StartedAll ==
  ASSUME NEW a \in Authority
  PROVE  LET s == Started(a)
         IN  /\ Len(s) \in Nat /\ s \in Seq(Sources)
             /\ \A n \in 1..Len(s) : a.pend[s[n]] = "on"
             /\ \A m, n \in 1..Len(s) : s[m] = s[n] => m = n
             /\ \A k \in Sources : a.pend[k] = "on" => \E n \in 1..Len(s) : s[n] = k
<1> DEFINE T == {k \in Sources : a.pend[k] = "on"}
<1> DEFINE f == SetToSeq(T)
<1>1. IsFiniteSet({"Screen", "SystemAudio", "Mic", "DesktopActivity"})
  <2>1. IsFiniteSet({"Screen"}) BY FS_Singleton
  <2>2. IsFiniteSet({"Screen"} \cup {"SystemAudio"}) BY <2>1, FS_AddElement
  <2>3. IsFiniteSet(({"Screen"} \cup {"SystemAudio"}) \cup {"Mic"}) BY <2>2, FS_AddElement
  <2>4. IsFiniteSet((({"Screen"} \cup {"SystemAudio"}) \cup {"Mic"}) \cup {"DesktopActivity"})
    BY <2>3, FS_AddElement
  <2>5. {"Screen", "SystemAudio", "Mic", "DesktopActivity"}
          = (({"Screen"} \cup {"SystemAudio"}) \cup {"Mic"}) \cup {"DesktopActivity"} OBVIOUS
  <2> QED BY <2>4, <2>5
<1>2. T \subseteq {"Screen", "SystemAudio", "Mic", "DesktopActivity"}
  BY SetupAssumption DEF SetupAssumption
<1>3. IsFiniteSet(T) BY <1>1, <1>2, FS_Subset
<1>4. Cardinality(T) \in Nat /\ ExistsBijection(1..Cardinality(T), T) BY <1>3, FS_CardinalityType
<1>5. \E g \in [1..Cardinality(T) -> T] : IsInjective(g)
  BY <1>4 DEF ExistsBijection, Bijection, Injection, IsInjective
<1>6. f \in [1..Cardinality(T) -> T] /\ IsInjective(f) BY <1>5 DEF SetToSeq
<1> HIDE DEF f
<1>7. f \in Injection(1..Cardinality(T), T) BY <1>6 DEF Injection
<1>8. IsFiniteSet(1..Cardinality(T)) /\ Cardinality(1..Cardinality(T)) = Cardinality(T)
  <2>1. Cardinality(T) \in Int /\ 1 \in Int BY <1>4
  <2> QED BY <1>4, <2>1, FS_Interval
<1>9. f \in Surjection(1..Cardinality(T), T) BY <1>3, <1>7, <1>8, FS_Injection
<1>10. f \in [1..Cardinality(T) -> Sources] BY <1>6
<1>11. f \in Seq(Sources) /\ Len(f) = Cardinality(T) BY <1>4, <1>10, FunctionSeq
<1>12. \A k \in T : \E n \in 1..Len(f) : f[n] = k BY <1>9, <1>11 DEF Surjection
<1>13. \A n \in 1..Len(f) : f[n] \in T BY <1>6, <1>11
<1>14. \A m, n \in 1..Len(f) : f[m] = f[n] => m = n BY <1>6, <1>11 DEF IsInjective
<1> QED BY <1>4, <1>11, <1>12, <1>13, <1>14 DEF Started, f

(* A retry tells the engine every setting in use and starts every source    *)
(* whose ON it saved.                                                       *)
LEMMA RetrySendsAll ==
  ASSUME NEW a \in Authority, NEW b \in Authority, NEW e, NEW i
  PROVE  LET q == RetrySends(a, b)
         IN  /\ q \in Seq(Commands)
             /\ Mentions(q, i) <=> i \in Prefs \/ (i \in Sources /\ a.pend[i] = "on")
             /\ i \in Prefs => (Settles(e, q, i) <=> b.running[i])
             /\ i \in Sources /\ a.pend[i] = "on" => Settles(e, q, i)
<1> DEFINE through == Prefs \ Paired
<1> DEFINE running == b.running
<1> DEFINE q1 == SettingsSent(Paired, running)
<1> DEFINE q2 == SettingsSent(through, running)
<1> DEFINE s == Started(a)
<1> DEFINE q3 == [n \in 1..Len(s) |-> SourceCommand(s[n], TRUE)]
<1>1. running \in [Items -> BOOLEAN] BY DEF Authority
<1>2. Paired \in SUBSET Items /\ through \in SUBSET Items BY DEF Paired, Items
<1>3. /\ q1 \in Seq(Commands) /\ (Mentions(q1, i) <=> i \in Paired)
      /\ i \in Paired => (Settles(e, q1, i) <=> running[i])
  BY <1>1, <1>2, GroupSends
<1>4. /\ q2 \in Seq(Commands) /\ (Mentions(q2, i) <=> i \in through)
      /\ i \in through => (Settles(e, q2, i) <=> running[i])
  BY <1>1, <1>2, GroupSends
<1>5. /\ Len(s) \in Nat /\ s \in Seq(Sources)
      /\ \A n \in 1..Len(s) : s[n] \in Sources /\ a.pend[s[n]] = "on"
      /\ \A m, n \in 1..Len(s) : s[m] = s[n] => m = n
      /\ \A k \in Sources : a.pend[k] = "on" => \E n \in 1..Len(s) : s[n] = k
  BY StartedAll
<1> HIDE DEF s
<1>6. /\ q3 \in Seq(Commands) /\ Len(q3) = Len(s)
      /\ \A n \in 1..Len(q3) : DOMAIN q3[n] = {s[n]} /\ q3[n][s[n]] = TRUE
  <2>1. \A n \in 1..Len(s) : SourceCommand(s[n], TRUE) \in Commands
    <3>1. \A n \in 1..Len(s) : {s[n]} \in SUBSET Items
                               /\ SourceCommand(s[n], TRUE) \in [{s[n]} -> BOOLEAN]
      BY <1>5 DEF Items, SourceCommand
    <3> QED BY <3>1, CommandTyped
  <2>2. q3 \in Seq(Commands) /\ Len(q3) = Len(s)
    <3>1. q3 \in [1..Len(s) -> Commands] BY <2>1
    <3> QED BY <1>5, <3>1, FunctionSeq
  <2> QED BY <2>2 DEF SourceCommand
<1> HIDE DEF q3
<1>7. Mentions(q3, i) <=> i \in Sources /\ a.pend[i] = "on" BY <1>5, <1>6 DEF Mentions
<1>8. ASSUME i \in Sources, a.pend[i] = "on" PROVE Settles(e, q3, i)
  <2>1. PICK n \in 1..Len(s) : s[n] = i BY <1>5, <1>8
  <2>2. \A m \in (n + 1)..Len(q3) : m \in 1..Len(s) /\ m # n BY <1>5, <1>6
  <2>3. \A m \in (n + 1)..Len(q3) : i \notin DOMAIN q3[m] BY <1>5, <1>6, <2>1, <2>2
  <2>4. n \in 1..Len(q3) /\ i \in DOMAIN q3[n] /\ q3[n][i] BY <1>6, <2>1
  <2> QED BY <2>3, <2>4 DEF Settles
<1>9. RetrySends(a, b) = (q1 \o q2) \o q3 BY DEF RetrySends, q3, s
<1> HIDE DEF q1, q2
<1>10. /\ q1 \o q2 \in Seq(Commands)
       /\ Mentions(q1 \o q2, i) <=> i \in Prefs
       /\ i \in Prefs => (Settles(e, q1 \o q2, i) <=> running[i])
  BY <1>2, <1>3, <1>4, SettlesConcat DEF Paired
<1>11. /\ (q1 \o q2) \o q3 \in Seq(Commands)
       /\ Mentions((q1 \o q2) \o q3, i) <=> Mentions(q1 \o q2, i) \/ Mentions(q3, i)
       /\ Settles(e, (q1 \o q2) \o q3, i)
            <=> IF Mentions(q3, i) THEN Settles(e, q3, i) ELSE Settles(e, q1 \o q2, i)
  BY <1>6, <1>10, SettlesConcat
<1> QED BY <1>7, <1>8, <1>9, <1>10, <1>11, Apart

----------------------------------------------------------------------------
(* Saves.                                                                   *)

(* The configuration a save starts from says every OFF the owner said and   *)
(* every word that will not wait any more, and allows what the engine is on *)
(* its way to.                                                              *)
LEMMA CandidateTrue ==
  ASSUME ConsentInv, up
  PROVE  LET c == candidate_with_pending_off(auth)
         IN  /\ c \in Config
             /\ \A t \in Things :
                  /\ said[t] = "off" => c.choice[t] = "off"
                  /\ said[t] # "none"
                     /\ (auth.pend[t] = "none" \/ (t \in Sources /\ auth.pend[t] = "off"))
                       => c.choice[t] = said[t]
             /\ \A i \in Items : Settles(engine, queue, i) => Reads(c, i)
             /\ c.choice["login"] = auth.durable.choice["login"] \/ auth.loginFailed
<1> DEFINE c == candidate_with_pending_off(auth)
<1>1. auth \in Authority BY DEF ConsentInv, TypeOK
<1>2. /\ c \in Config
      /\ \A t \in Things :
           /\ t \in Prefs /\ auth.pend[t] # "none" => c.choice[t] = Word(auth.running[t])
           /\ t \notin Prefs /\ auth.pend[t] = "off" => c.choice[t] = "off"
           /\ ~(t \in Prefs /\ auth.pend[t] # "none") /\ ~(t \notin Prefs /\ auth.pend[t] = "off")
                => c.choice[t] = auth.durable.choice[t]
  BY <1>1, CandidateTyped
<1> HIDE DEF c
<1>3. ASSUME NEW t \in Things
      PROVE  /\ said[t] = "off" => c.choice[t] = "off"
             /\ said[t] # "none"
                /\ (auth.pend[t] = "none" \/ (t \in Sources /\ auth.pend[t] = "off"))
                  => c.choice[t] = said[t]
  BY <1>2, Apart DEF ConsentInv, WordsKept, Word
<1>4. ASSUME NEW i \in Items, Settles(engine, queue, i) PROVE Reads(c, i)
  <2>1. Reads(auth.durable, i) /\ (i \in Prefs => auth.running[i]) BY <1>4 DEF ConsentInv, Heeded
  <2>2. i \in Sources => auth.pend[i] = "none" BY <1>4 DEF ConsentInv, Heeded
  <2>3. i \in Things BY Apart
  <2> QED BY <1>2, <2>1, <2>2, <2>3 DEF Items, Reads, Word
<1>5. c.choice["login"] = auth.durable.choice["login"] \/ auth.loginFailed
  BY <1>2, Apart DEF ConsentInv, LoginShown, Items
<1> QED BY <1>2, <1>3, <1>4, <1>5 DEF c

(* A save, for x if x is one of the things, ties authority, file and words. *)
LEMMA SavedStep ==
  ASSUME ConsentInv, up, NEW x, NEW cfg \in Config,
         file' = Current(cfg), auth'.durable = cfg, ~auth'.readFailed,
         \A t \in Things : t # x =>
            /\ cfg.choice[t] = candidate_with_pending_off(auth).choice[t]
            /\ said'[t] = said[t]
            /\ auth'.pend[t] = IF t \in Sources /\ auth.pend[t] = "off" THEN "none" ELSE auth.pend[t]
            /\ t \in Prefs => auth'.running[t] = auth.running[t],
         x \in Things => /\ said'[x] = cfg.choice[x]
                         /\ auth'.pend[x] = IF x = "login" THEN auth'.pend[x] ELSE "none"
                         /\ auth'.pend[x] \in {"none", said'[x]}
  PROVE  OnFile' /\ WordsKept' /\ OffHolds'
<1>1. parse_setup(file') = cfg BY SavedReads
<1>2. OnFile' BY <1>1 DEF OnFile
<1>3. ASSUME NEW t \in Things
      PROVE  /\ auth'.pend[t] # "none" => said'[t] = auth'.pend[t]
             /\ said'[t] # "none" /\ auth'.pend[t] = "none" => cfg.choice[t] = said'[t]
             /\ t \in Prefs /\ auth'.pend[t] = "off" => ~auth'.running[t]
             /\ said'[t] = "off" => cfg.choice[t] = "off"
  <2>1. CASE t = x BY <2>1, Apart DEF Items
  <2>2. CASE t # x
    <3>1. /\ said[t] = "off" => cfg.choice[t] = "off"
          /\ said[t] # "none"
             /\ (auth.pend[t] = "none" \/ (t \in Sources /\ auth.pend[t] = "off"))
               => cfg.choice[t] = said[t]
      BY <2>2, CandidateTrue
    <3>2. /\ auth.pend[t] # "none" => said[t] = auth.pend[t]
          /\ t \in Prefs /\ auth.pend[t] = "off" => ~auth.running[t]
      BY DEF ConsentInv, WordsKept
    <3> QED BY <2>2, <3>1, <3>2
  <2> QED BY <2>1, <2>2
<1>4. WordsKept' BY <1>1, <1>3 DEF WordsKept, OnDisk
<1>5. OffHolds' BY <1>1, <1>3 DEF OffHolds, OnDisk
<1> QED BY <1>2, <1>4, <1>5

(* A save that fails leaves the word for x waiting.                         *)
LEMMA UnsavedStep ==
  ASSUME ConsentInv, up, NEW x,
         file' = file, auth'.durable = auth.durable, auth'.readFailed = auth.readFailed,
         up', kept' \subseteq kept,
         \A t \in Things : t # x =>
            /\ said'[t] = said[t] /\ auth'.pend[t] = auth.pend[t]
            /\ t \in Prefs => auth'.running[t] = auth.running[t],
         x \in Things => /\ said'[x] = auth'.pend[x] /\ auth'.pend[x] \in Words
                         /\ x \notin kept'
                         /\ x \in Prefs /\ auth'.pend[x] = "off" => ~auth'.running[x]
  PROVE  OnFile' /\ WordsKept' /\ OffHolds'
<1>1. OnFile' BY DEF ConsentInv, OnFile
<1>2. ASSUME NEW t \in Things
      PROVE  /\ auth'.pend[t] # "none" => said'[t] = auth'.pend[t]
             /\ said'[t] # "none" /\ auth'.pend[t] = "none"
                  => auth.durable.choice[t] = said'[t] /\ OnDisk(t) = said'[t]
             /\ t \in Prefs /\ auth'.pend[t] = "off" => ~auth'.running[t]
             /\ said'[t] = "off" /\ t \in kept' => OnDisk(t) = "off"
  BY DEF ConsentInv, WordsKept, OffHolds, Words
<1>3. WordsKept' BY <1>2 DEF WordsKept, OnDisk
<1>4. OffHolds' BY <1>2 DEF OffHolds, OnDisk
<1> QED BY <1>1, <1>3, <1>4

----------------------------------------------------------------------------
(* The commands of the window.                                              *)

(* A write leaves a file, and a fault is counted.                           *)
LEMMA WriteTyped ==
  ASSUME ConsentInv, NEW cfg \in Config, NEW saved \in BOOLEAN, NEW happens \in BOOLEAN,
         Writes(cfg, saved), Fault(happens)
  PROVE  file' \in Files /\ faults' \in Nat
  BY SavedReads DEF ConsentInv, TypeOK, Files, Writes, Fault

(* The pieces of the invariant that a step must keep while the program runs.*)
LEMMA UpStep ==
  ASSUME up', TypeOK', OnFile', WordsKept', OffHolds', Heeded', LoginShown', LoginTruthful'
  PROVE  ConsentInv'
  BY DEF ConsentInv, Asleep

(* A source is switched.                                                    *)
LEMMA SourceStep ==
  ASSUME ConsentInv, NEW k \in Sources, NEW on \in BOOLEAN, set_source_enabled(k, on)
  PROVE  ConsentInv'
<1> DEFINE c == candidate_with_pending_off(auth)
<1> DEFINE cfg == Choosing(c, k, on)
<1>1. PICK saved \in BOOLEAN :
        /\ Fault(~saved)
        /\ Writes(cfg, saved)
        /\ auth' = SourceSet(auth, k, on, saved)
        /\ queue' = Append(queue, SourceCommand(k, Runs(on, saved)))
        /\ Says(k, on, saved)
  BY DEF set_source_enabled
<1>2. up /\ up' = up /\ engine' = engine /\ reg' = reg /\ copy' = copy
  BY DEF set_source_enabled, Ready
<1>3. /\ auth \in Authority /\ k \in Things /\ k \in Items /\ k # "login" /\ k \notin Prefs
      /\ Runs(on, saved) \in BOOLEAN /\ Word(on) \in Words
  BY Apart DEF ConsentInv, TypeOK, Items, Things, Runs, Word, Words
<1>4. /\ c \in Config /\ cfg \in Config
      /\ \A t \in Things : cfg.choice[t] = IF t = k THEN Word(on) ELSE c.choice[t]
  BY <1>3, CandidateTrue, ChoosingTyped, <1>2
<1> HIDE DEF cfg
<1>5. /\ auth' \in Authority
      /\ auth'.durable = (IF saved THEN cfg ELSE auth.durable)
      /\ auth'.readFailed = (IF saved THEN FALSE ELSE auth.readFailed)
      /\ auth'.loginFailed = auth.loginFailed
      /\ \A i \in Items : auth'.running[i] = IF i = k THEN Runs(on, saved) ELSE auth.running[i]
      /\ auth'.pend[k] = IF saved THEN "none" ELSE Word(on)
      /\ \A t \in Things : t # k =>
           auth'.pend[t] = IF saved /\ t \in Sources /\ auth.pend[t] = "off"
                           THEN "none" ELSE auth.pend[t]
  <2> DEFINE p == IF saved THEN persist(auth, cfg) ELSE auth
  <2>1. /\ p \in Authority /\ p.running = auth.running /\ p.loginFailed = auth.loginFailed
        /\ p.durable = (IF saved THEN cfg ELSE auth.durable)
        /\ p.readFailed = (IF saved THEN FALSE ELSE auth.readFailed)
        /\ \A t \in Things : p.pend[t] = IF saved /\ t \in Sources /\ auth.pend[t] = "off"
                                         THEN "none" ELSE auth.pend[t]
    BY <1>3, <1>4, PersistTyped
  <2>2. auth' = [p EXCEPT !.running[k] = Runs(on, saved),
                          !.pend[k] = IF saved THEN "none" ELSE Word(on)]
    BY <1>1 DEF SourceSet, cfg
  <2> HIDE DEF p
  <2>3. (IF saved THEN "none" ELSE Word(on)) \in Words \cup {"none"} BY <1>3
  <2> QED BY <1>3, <2>1, <2>2, <2>3 DEF Authority
<1>6. SourceCommand(k, Runs(on, saved)) \in Commands
  BY <1>3, CommandTyped DEF SourceCommand
<1>7. /\ queue' \in Seq(Commands)
      /\ \A i \in Items :
           /\ Mentions(queue', i) <=> i = k \/ Mentions(queue, i)
           /\ Settles(engine, queue', i) <=> IF i = k THEN Runs(on, saved) ELSE Settles(engine, queue, i)
  BY <1>1, <1>6, SettlesAppend DEF SourceCommand, ConsentInv, TypeOK
<1>8. /\ said' = [said EXCEPT ![k] = Word(on)] /\ said' \in [Things -> Words \cup {"none"}]
      /\ kept' \subseteq Things
      /\ ~saved => kept' = kept \ {k}
  BY <1>1, <1>3 DEF Says, ConsentInv, TypeOK
<1>9. TypeOK'
  <2>1. file' \in Files /\ faults' \in Nat BY <1>1, <1>4, WriteTyped
  <2> QED BY <1>2, <1>5, <1>7, <1>8, <2>1 DEF ConsentInv, TypeOK, Files
<1>10. OnFile' /\ WordsKept' /\ OffHolds'
  <2>1. CASE saved
    <3>1. file' = Current(cfg) /\ auth'.durable = cfg /\ ~auth'.readFailed
      BY <1>1, <1>5, <2>1 DEF Writes
    <3>2. \A t \in Things : said'[t] = IF t = k THEN Word(on) ELSE said[t]
      BY <1>8 DEF ConsentInv, TypeOK
    <3>3. \A t \in Things : t # k =>
            /\ cfg.choice[t] = c.choice[t] /\ said'[t] = said[t]
            /\ auth'.pend[t] = IF t \in Sources /\ auth.pend[t] = "off" THEN "none" ELSE auth.pend[t]
            /\ t \in Prefs => auth'.running[t] = auth.running[t]
      BY <1>4, <1>5, <2>1, <3>2 DEF Items
    <3>4. said'[k] = cfg.choice[k] /\ auth'.pend[k] = "none" BY <1>3, <1>4, <1>5, <2>1, <3>2
    <3> QED BY <1>2, <1>3, <1>4, <3>1, <3>3, <3>4, SavedStep
  <2>2. CASE ~saved
    <3>1. /\ file' = file /\ auth'.durable = auth.durable /\ auth'.readFailed = auth.readFailed
          /\ kept' \subseteq kept /\ k \notin kept'
      BY <1>1, <1>5, <1>8, <2>2 DEF Writes
    <3>2. \A t \in Things : said'[t] = IF t = k THEN Word(on) ELSE said[t]
      BY <1>8 DEF ConsentInv, TypeOK
    <3>3. \A t \in Things : t # k =>
            /\ said'[t] = said[t] /\ auth'.pend[t] = auth.pend[t]
            /\ t \in Prefs => auth'.running[t] = auth.running[t]
      BY <1>5, <2>2, <3>2 DEF Items
    <3>4. said'[k] = auth'.pend[k] /\ auth'.pend[k] \in Words BY <1>3, <1>5, <2>2, <3>2
    <3> QED BY <1>2, <1>3, <3>1, <3>3, <3>4, UnsavedStep
  <2> QED BY <2>1, <2>2
<1>11. Heeded'
  <2> SUFFICES ASSUME NEW i \in Items
               PROVE  /\ Settles(engine, queue', i) => Reads(auth'.durable, i)
                      /\ i \in Prefs => (Settles(engine, queue', i) <=> auth'.running[i])
                      /\ i \in Sources /\ auth'.pend[i] # "none" => ~Settles(engine, queue', i)
                      /\ ~Mentions(queue', i) => engine[i] = auth'.running[i]
    BY <1>2 DEF Heeded
  <2>1. i \in Things BY Apart
  <2>2. CASE i = k BY <1>3, <1>4, <1>5, <1>7, <2>2 DEF Runs, Reads, Word
  <2>3. CASE i # k
    <3>1. Settles(engine, queue, i) => Reads(auth'.durable, i)
      BY <1>2, <1>4, <1>5, <2>1, <2>3, CandidateTrue DEF ConsentInv, Heeded, Reads
    <3> QED BY <1>2, <1>5, <1>7, <2>1, <2>3, <3>1 DEF ConsentInv, Heeded
  <2> QED BY <2>2, <2>3
<1>12. LoginShown' /\ LoginTruthful'
  BY <1>2, <1>3, <1>4, <1>5, Apart, CandidateTrue DEF ConsentInv, LoginShown, LoginTruthful, Items
<1> QED BY <1>2, <1>9, <1>10, <1>11, <1>12, UpStep

(* A setting of the desktop activity is switched.                           *)
LEMMA PrefStep ==
  ASSUME ConsentInv, NEW p \in Prefs, NEW on \in BOOLEAN, set_desktop_activity_pref(p, on)
  PROVE  ConsentInv'
<1> DEFINE c == candidate_with_pending_off(auth)
<1> DEFINE cfg == Choosing(c, p, on)
<1> DEFINE G == IF p \in Paired THEN Paired ELSE {p}
<1>1. PICK saved \in BOOLEAN :
        /\ Fault(~saved)
        /\ Writes(cfg, saved)
        /\ auth' = PrefSet(auth, p, on, saved)
        /\ queue' = IF ~on \/ saved THEN Append(queue, PrefCommand(p, auth'.running)) ELSE queue
        /\ Says(p, on, saved)
  BY DEF set_desktop_activity_pref
<1>2. up /\ up' = up /\ engine' = engine /\ reg' = reg /\ copy' = copy
  BY DEF set_desktop_activity_pref, Ready
<1>3. /\ auth \in Authority /\ p \in Things /\ p \in Items /\ p # "login" /\ p \notin Sources
      /\ auth.running \in [Items -> BOOLEAN] /\ Word(on) \in Words
  BY Apart DEF ConsentInv, TypeOK, Authority, Items, Things, Word, Words
<1>4. /\ c \in Config /\ cfg \in Config
      /\ \A t \in Things : cfg.choice[t] = IF t = p THEN Word(on) ELSE c.choice[t]
  BY <1>3, CandidateTrue, ChoosingTyped, <1>2
<1> HIDE DEF cfg
<1>5. /\ auth' \in Authority
      /\ auth'.durable = (IF saved THEN cfg ELSE auth.durable)
      /\ auth'.readFailed = (IF saved THEN FALSE ELSE auth.readFailed)
      /\ auth'.loginFailed = auth.loginFailed
      /\ auth'.running[p] = (IF saved THEN on ELSE auth.running[p] /\ on)
      /\ \A i \in Items : i # p => auth'.running[i] = auth.running[i]
      /\ auth'.pend[p] = IF saved THEN "none" ELSE Word(on)
      /\ \A t \in Things : t # p =>
           auth'.pend[t] = IF saved /\ t \in Sources /\ auth.pend[t] = "off"
                           THEN "none" ELSE auth.pend[t]
  <2> DEFINE b == IF saved THEN persist(auth, cfg) ELSE auth
  <2> DEFINE r == IF saved THEN on ELSE auth.running[p] /\ on
  <2>1. /\ b \in Authority /\ b.running = auth.running /\ b.loginFailed = auth.loginFailed
        /\ b.durable = (IF saved THEN cfg ELSE auth.durable)
        /\ b.readFailed = (IF saved THEN FALSE ELSE auth.readFailed)
        /\ \A t \in Things : b.pend[t] = IF saved /\ t \in Sources /\ auth.pend[t] = "off"
                                         THEN "none" ELSE auth.pend[t]
    BY <1>3, <1>4, PersistTyped
  <2>2. auth' = [b EXCEPT !.running[p] = IF saved THEN on ELSE b.running[p] /\ on,
                          !.pend[p] = IF saved THEN "none" ELSE Word(on)]
    BY <1>1, <2>1 DEF PrefSet, cfg, Authority
  <2> HIDE DEF b
  <2>3. r \in BOOLEAN /\ (IF saved THEN "none" ELSE Word(on)) \in Words \cup {"none"} BY <1>3
  <2>4. auth' = [b EXCEPT !.running[p] = r, !.pend[p] = IF saved THEN "none" ELSE Word(on)]
    BY <2>1, <2>2
  <2> HIDE DEF r
  <2>5. /\ auth' \in Authority /\ auth'.durable = b.durable /\ auth'.readFailed = b.readFailed
        /\ auth'.loginFailed = b.loginFailed /\ auth'.running[p] = r
        /\ \A i \in Items : i # p => auth'.running[i] = b.running[i]
        /\ auth'.pend[p] = IF saved THEN "none" ELSE Word(on)
        /\ \A t \in Things : t # p => auth'.pend[t] = b.pend[t]
    BY <1>3, <2>1, <2>3, <2>4 DEF Authority
  <2> QED BY <2>1, <2>5 DEF r
<1>6. auth'.running \in [Items -> BOOLEAN] /\ G \in SUBSET Items /\ p \in G /\ G \subseteq Prefs
  BY <1>3, <1>5 DEF Authority, Paired, Items
<1>7. /\ PrefCommand(p, auth'.running) \in Commands /\ DOMAIN PrefCommand(p, auth'.running) = G
      /\ \A i \in G : PrefCommand(p, auth'.running)[i] = auth'.running[i]
  BY <1>6, CommandTyped DEF PrefCommand
<1> HIDE DEF G
<1>8. /\ queue' \in Seq(Commands)
      /\ \A i \in Items :
           /\ i \in Sources => /\ Mentions(queue', i) <=> Mentions(queue, i)
                               /\ Settles(engine, queue', i) <=> Settles(engine, queue, i)
           /\ i \in Prefs => (Settles(engine, queue', i) <=> auth'.running[i])
  <2>1. CASE ~on \/ saved
    <3>1. /\ queue' \in Seq(Commands)
          /\ \A i \in Items :
               /\ Mentions(queue', i) <=> i \in G \/ Mentions(queue, i)
               /\ Settles(engine, queue', i) <=> IF i \in G THEN auth'.running[i]
                                                            ELSE Settles(engine, queue, i)
      BY <1>1, <1>7, <2>1, SettlesAppend DEF ConsentInv, TypeOK
    <3>2. \A i \in Prefs : i \notin G => i # p /\ (Settles(engine, queue, i) <=> auth'.running[i])
      BY <1>2, <1>5, <1>6 DEF ConsentInv, Heeded, Items
    <3> QED BY <1>6, <3>1, <3>2, Apart
  <2>2. CASE on /\ ~saved
    <3>1. queue' = queue /\ \A i \in Items : auth'.running[i] = auth.running[i]
      BY <1>1, <1>3, <1>5, <2>2
    <3> QED BY <1>2, <3>1 DEF ConsentInv, Heeded, TypeOK
  <2> QED BY <2>1, <2>2
<1>9. /\ said' = [said EXCEPT ![p] = Word(on)] /\ said' \in [Things -> Words \cup {"none"}]
      /\ kept' \subseteq Things
      /\ ~saved => kept' = kept \ {p}
      /\ \A t \in Things : said'[t] = IF t = p THEN Word(on) ELSE said[t]
  BY <1>1, <1>3 DEF Says, ConsentInv, TypeOK
<1>10. TypeOK'
  <2>1. file' \in Files /\ faults' \in Nat BY <1>1, <1>4, WriteTyped
  <2> QED BY <1>2, <1>5, <1>8, <1>9, <2>1 DEF ConsentInv, TypeOK, Files
<1>11. OnFile' /\ WordsKept' /\ OffHolds'
  <2>1. CASE saved
    <3>1. file' = Current(cfg) /\ auth'.durable = cfg /\ ~auth'.readFailed
      BY <1>1, <1>5, <2>1 DEF Writes
    <3>2. \A t \in Things : t # p =>
            /\ cfg.choice[t] = c.choice[t] /\ said'[t] = said[t]
            /\ auth'.pend[t] = IF t \in Sources /\ auth.pend[t] = "off" THEN "none" ELSE auth.pend[t]
            /\ t \in Prefs => auth'.running[t] = auth.running[t]
      BY <1>4, <1>5, <1>9, <2>1 DEF Items
    <3>3. said'[p] = cfg.choice[p] /\ auth'.pend[p] = "none" BY <1>3, <1>4, <1>5, <1>9, <2>1
    <3> QED BY <1>2, <1>3, <1>4, <3>1, <3>2, <3>3, SavedStep
  <2>2. CASE ~saved
    <3>1. /\ file' = file /\ auth'.durable = auth.durable /\ auth'.readFailed = auth.readFailed
          /\ kept' \subseteq kept /\ p \notin kept'
      BY <1>1, <1>5, <1>9, <2>2 DEF Writes
    <3>2. \A t \in Things : t # p =>
            /\ said'[t] = said[t] /\ auth'.pend[t] = auth.pend[t]
            /\ t \in Prefs => auth'.running[t] = auth.running[t]
      BY <1>5, <1>9, <2>2 DEF Items
    <3>3. said'[p] = auth'.pend[p] /\ auth'.pend[p] \in Words BY <1>3, <1>5, <1>9, <2>2
    <3>4. auth'.pend[p] = "off" => ~auth'.running[p] BY <1>5, <2>2 DEF Word
    <3> QED BY <1>2, <1>3, <3>1, <3>2, <3>3, <3>4, UnsavedStep
  <2> QED BY <2>1, <2>2
<1>12. Heeded'
  <2> SUFFICES ASSUME NEW i \in Items
               PROVE  /\ Settles(engine, queue', i) => Reads(auth'.durable, i)
                      /\ i \in Prefs => (Settles(engine, queue', i) <=> auth'.running[i])
                      /\ i \in Sources /\ auth'.pend[i] # "none" => ~Settles(engine, queue', i)
                      /\ ~Mentions(queue', i) => engine[i] = auth'.running[i]
    BY <1>2 DEF Heeded
  <2>1. i \in Things BY Apart
  <2>2. Settles(engine, queue', i) => Reads(auth'.durable, i)
    <3>1. CASE i = p
      <4>1. CASE saved BY <1>4, <1>5, <1>8, <2>1, <3>1, <4>1 DEF Reads, Word
      <4>2. CASE ~saved
        <5>1. Settles(engine, queue', i) => auth.running[i] BY <1>5, <1>8, <3>1, <4>2
        <5>2. auth.running[i] => Reads(auth.durable, i) BY <1>2, <3>1 DEF ConsentInv, Heeded
        <5> QED BY <1>5, <4>2, <5>1, <5>2
      <4> QED BY <4>1, <4>2
    <3>2. CASE i # p
      <4>1. Settles(engine, queue', i) => Settles(engine, queue, i)
        BY <1>2, <1>5, <1>8, <3>2 DEF ConsentInv, Heeded, Items
      <4>2. Settles(engine, queue, i) => Reads(auth'.durable, i)
        BY <1>2, <1>4, <1>5, <2>1, <3>2, CandidateTrue DEF ConsentInv, Heeded, Reads
      <4> QED BY <4>1, <4>2
    <3> QED BY <3>1, <3>2
  <2>3. i \in Sources /\ auth'.pend[i] # "none" => ~Settles(engine, queue', i)
    BY <1>2, <1>3, <1>5, <1>8, <2>1 DEF ConsentInv, Heeded
  <2>4. ~Mentions(queue', i) => engine[i] = auth'.running[i]
    <3>1. CASE i \in Sources BY <1>2, <1>3, <1>5, <1>8, <3>1 DEF ConsentInv, Heeded
    <3>2. CASE i \in Prefs
      <4>1. ASSUME ~Mentions(queue', i) PROVE Settles(engine, queue', i) <=> engine[i]
        BY <4>1 DEF Settles, Mentions
      <4> QED BY <1>6, <1>8, <3>2, <4>1 DEF ConsentInv, TypeOK
    <3> QED BY <3>1, <3>2 DEF Items
  <2> QED BY <1>8, <2>2, <2>3, <2>4
<1>13. LoginShown' /\ LoginTruthful'
  BY <1>2, <1>3, <1>4, <1>5, Apart, CandidateTrue DEF ConsentInv, LoginShown, LoginTruthful, Items
<1> QED BY <1>2, <1>10, <1>11, <1>12, <1>13, UpStep

(* The wizard and the notice: something is saved, or nothing happens to the *)
(* choices.                                                                 *)
LEMMA AsideStep ==
  ASSUME ConsentInv, up, NEW cfg \in Config, NEW saved \in BOOLEAN, NEW b,
         cfg.choice = candidate_with_pending_off(auth).choice,
         b = (IF saved THEN persist(auth, cfg) ELSE auth),
         Fault(~saved), Writes(cfg, saved), SaysNothing(saved),
         auth' \in Authority, auth'.durable = b.durable, auth'.running = b.running,
         auth'.pend = b.pend, auth'.loginFailed = b.loginFailed,
         auth'.readFailed = b.readFailed, UNCHANGED <<engine, queue, up, reg, copy>>
  PROVE  ConsentInv'
<1>1. auth \in Authority BY DEF ConsentInv, TypeOK
<1>2. /\ auth'.durable = (IF saved THEN cfg ELSE auth.durable)
      /\ auth'.readFailed = (IF saved THEN FALSE ELSE auth.readFailed)
      /\ auth'.loginFailed = auth.loginFailed /\ auth'.running = auth.running
      /\ \A t \in Things : auth'.pend[t] = IF saved /\ t \in Sources /\ auth.pend[t] = "off"
                                           THEN "none" ELSE auth.pend[t]
  <2>1. CASE saved
    <3>1. b = persist(auth, cfg) BY <2>1
    <3> DEFINE d == persist(auth, cfg)
    <3>2. /\ d.durable = cfg /\ d.readFailed = FALSE /\ d.running = auth.running
          /\ d.loginFailed = auth.loginFailed
          /\ \A t \in Things : d.pend[t] = IF t \in Sources /\ auth.pend[t] = "off"
                                           THEN "none" ELSE auth.pend[t]
      BY <1>1, PersistTyped
    <3> QED BY <2>1, <3>1, <3>2
  <2>2. CASE ~saved BY <2>2
  <2> QED BY <2>1, <2>2
<1>3. said' = said /\ kept' \subseteq Things /\ (~saved => kept' = kept)
  BY DEF SaysNothing, ConsentInv, TypeOK
<1>4. TypeOK'
  <2>1. file' \in Files /\ faults' \in Nat BY WriteTyped
  <2> QED BY <1>3, <2>1 DEF ConsentInv, TypeOK, Files
<1>5. PICK x : x \notin Things BY SetupAssumption DEF SetupAssumption, Things, Items
<1>6. OnFile' /\ WordsKept' /\ OffHolds'
  <2>1. CASE saved
    <3>1. file' = Current(cfg) /\ auth'.durable = cfg /\ ~auth'.readFailed BY <1>2, <2>1 DEF Writes
    <3>2. \A t \in Things :
            /\ cfg.choice[t] = candidate_with_pending_off(auth).choice[t] /\ said'[t] = said[t]
            /\ auth'.pend[t] = IF t \in Sources /\ auth.pend[t] = "off" THEN "none" ELSE auth.pend[t]
            /\ t \in Prefs => auth'.running[t] = auth.running[t]
      BY <1>2, <1>3, <2>1
    <3> QED BY <1>5, <3>1, <3>2, SavedStep
  <2>2. CASE ~saved
    <3>1. /\ file' = file /\ auth'.durable = auth.durable /\ auth'.readFailed = auth.readFailed
          /\ kept' \subseteq kept /\ up'
      BY <1>2, <1>3, <2>2 DEF Writes
    <3>2. \A t \in Things :
            /\ said'[t] = said[t] /\ auth'.pend[t] = auth.pend[t]
            /\ t \in Prefs => auth'.running[t] = auth.running[t]
      BY <1>2, <1>3, <2>2
    <3> QED BY <1>5, <3>1, <3>2, UnsavedStep
  <2> QED BY <2>1, <2>2
<1>7. Heeded'
  <2>1. ASSUME NEW i \in Items, Settles(engine, queue, i) PROVE Reads(auth'.durable, i)
    <3>1. CASE saved BY <1>2, <2>1, <3>1, CandidateTrue DEF Reads
    <3>2. CASE ~saved BY <1>2, <2>1, <3>2 DEF ConsentInv, Heeded
    <3> QED BY <3>1, <3>2
  <2>2. \A i \in Items : auth'.pend[i] # "none" => auth.pend[i] # "none" BY <1>2, Apart
  <2> QED BY <1>2, <2>1, <2>2 DEF ConsentInv, Heeded
<1>8. LoginShown' /\ LoginTruthful'
  BY <1>2, Apart, CandidateTrue DEF ConsentInv, LoginShown, LoginTruthful, Items
<1> QED BY <1>4, <1>6, <1>7, <1>8, UpStep

(* The wizard moves on.                                                     *)
LEMMA WizardStep ==
  ASSUME ConsentInv, NEW step \in Steps, set_wizard_step(step)
  PROVE  ConsentInv'
<1> DEFINE c == candidate_with_pending_off(auth)
<1> DEFINE cfg == [c EXCEPT !.wizard = step]
<1>1. PICK saved \in BOOLEAN :
        /\ Fault(~saved)
        /\ Writes(cfg, saved)
        /\ auth' = [IF saved THEN persist(auth, cfg) ELSE auth
                    EXCEPT !.pendingWizard = IF saved THEN "none" ELSE step]
        /\ SaysNothing(saved)
  BY DEF set_wizard_step
<1>2. up /\ UNCHANGED <<engine, queue, up, reg, copy>> /\ auth \in Authority
  BY DEF set_wizard_step, Ready, ConsentInv, TypeOK
<1>3. c \in Config BY <1>2, CandidateTrue
<1>4. cfg \in Config /\ cfg.choice = c.choice BY <1>3 DEF Config
<1> HIDE DEF cfg
<1> DEFINE b == IF saved THEN persist(auth, cfg) ELSE auth
<1>5. b \in Authority BY <1>2, <1>4, PersistTyped
<1> HIDE DEF b
<1>6. auth' = [b EXCEPT !.pendingWizard = IF saved THEN "none" ELSE step] BY <1>1 DEF b
<1>7. /\ auth' \in Authority /\ auth'.durable = b.durable /\ auth'.running = b.running
      /\ auth'.pend = b.pend /\ auth'.loginFailed = b.loginFailed /\ auth'.readFailed = b.readFailed
  BY <1>5, <1>6 DEF Authority
<1> QED BY <1>1, <1>2, <1>4, <1>7, AsideStep DEF b

(* The notice is dismissed.                                                 *)
LEMMA NoticeStep ==
  ASSUME ConsentInv, dismiss_notice
  PROVE  ConsentInv'
<1> DEFINE c == candidate_with_pending_off(auth)
<1> DEFINE cfg == [c EXCEPT !.noticed = TRUE]
<1>1. PICK saved \in BOOLEAN :
        /\ Fault(~saved)
        /\ Writes(cfg, saved)
        /\ auth' = [IF saved THEN persist(auth, cfg) ELSE auth EXCEPT !.noticeFailed = ~saved]
        /\ SaysNothing(saved)
  BY DEF dismiss_notice
<1>2. up /\ UNCHANGED <<engine, queue, up, reg, copy>> /\ auth \in Authority
  BY DEF dismiss_notice, Ready, ConsentInv, TypeOK
<1>3. c \in Config BY <1>2, CandidateTrue
<1>4. cfg \in Config /\ cfg.choice = c.choice BY <1>3 DEF Config
<1> HIDE DEF cfg
<1> DEFINE b == IF saved THEN persist(auth, cfg) ELSE auth
<1>5. b \in Authority BY <1>2, <1>4, PersistTyped
<1> HIDE DEF b
<1>6. auth' = [b EXCEPT !.noticeFailed = ~saved] BY <1>1 DEF b
<1>7. /\ auth' \in Authority /\ auth'.durable = b.durable /\ auth'.running = b.running
      /\ auth'.pend = b.pend /\ auth'.loginFailed = b.loginFailed /\ auth'.readFailed = b.readFailed
  BY <1>5, <1>6 DEF Authority
<1> QED BY <1>1, <1>2, <1>4, <1>7, AsideStep DEF b

(* Putting the login item right, or leaving it, and the flag that says so.  *)
LEMMA LoginApplied ==
  ASSUME ConsentInv, up, NEW a \in Authority, NEW on \in BOOLEAN,
         NEW saved \in BOOLEAN, NEW fails \in BOOLEAN,
         AppliesLogin(a, on, saved, fails), copy' = copy,
         saved => a.durable.choice["login"] = Word(on)
  PROVE  /\ auth' \in Authority /\ auth'.durable = a.durable /\ auth'.running = a.running
         /\ auth'.readFailed = a.readFailed
         /\ \A t \in Things : t # "login" => auth'.pend[t] = a.pend[t]
         /\ auth'.pend["login"] \in {"none", a.pend["login"]}
         /\ ~saved => auth'.pend["login"] = a.pend["login"]
         /\ reg' \in {"absent", "mine", "installed", "other"}
         /\ LoginShown' /\ LoginTruthful'
<1>1. auth' = LoginFlagged(a, ~saved \/ fails) /\ reg' = IF saved \/ ~on THEN apply_login_decision(on, fails) ELSE reg
  BY DEF AppliesLogin
<1>2. /\ auth' \in Authority /\ auth'.durable = a.durable /\ auth'.running = a.running
      /\ auth'.readFailed = a.readFailed /\ auth'.loginFailed = (~saved \/ fails)
      /\ \A t \in Things : t # "login" => auth'.pend[t] = a.pend[t]
      /\ auth'.pend["login"] = IF ~saved \/ fails THEN a.pend["login"] ELSE "none"
  <2>1. (~saved \/ fails) \in BOOLEAN OBVIOUS
  <2>2. a.pend["login"] \in Words \cup {"none"} BY Apart DEF Authority
  <2> QED BY <1>1, <2>1, <2>2, Apart DEF LoginFlagged, Authority
<1>3. reg' \in {"absent", "mine", "installed", "other"}
  BY <1>1, SetupAssumption
  DEF apply_login_decision, Decided, ConsentInv, TypeOK, SetupAssumption
<1>4. LoginShown' BY <1>2 DEF LoginShown
<1>5. LoginTruthful'
  <2>1. CASE ~saved \/ fails BY <1>2, <2>1 DEF LoginTruthful
  <2>2. CASE saved /\ ~fails
    <3>1. reg' = Decided(copy, on, reg) /\ auth'.durable.choice["login"] = Word(on)
      BY <1>1, <1>2, <2>2 DEF apply_login_decision
    <3> QED BY <3>1 DEF LoginTruthful, Decided, Word
  <2> QED BY <2>1, <2>2
<1> QED BY <1>2, <1>3, <1>4, <1>5

(* Start at login is switched.                                              *)
LEMMA LoginStep ==
  ASSUME ConsentInv, NEW on \in BOOLEAN, set_start_at_login(on)
  PROVE  ConsentInv'
<1> DEFINE asked == [auth EXCEPT !.pend["login"] = Word(on)]
<1> DEFINE c == candidate_with_pending_off(asked)
<1> DEFINE cfg == Choosing(c, "login", on)
<1>1. PICK saved, fails \in BOOLEAN :
        /\ Fault(~saved \/ fails)
        /\ Writes(cfg, saved)
        /\ AppliesLogin(IF saved THEN persist(asked, cfg) ELSE asked, on, saved, fails)
        /\ Says("login", on, saved)
  BY DEF set_start_at_login
<1>2. up /\ up' = up /\ engine' = engine /\ queue' = queue /\ copy' = copy
  BY DEF set_start_at_login, Ready
<1>3. auth \in Authority /\ Word(on) \in Words /\ "login" \in Things
  BY Apart DEF ConsentInv, TypeOK, Word, Words
<1>4. /\ asked \in Authority /\ asked.durable = auth.durable /\ asked.running = auth.running
      /\ asked.readFailed = auth.readFailed /\ asked.pend["login"] = Word(on)
      /\ \A t \in Things : t # "login" => asked.pend[t] = auth.pend[t]
  BY <1>3 DEF Authority
<1> HIDE DEF asked
<1>5. c \in Config /\ \A t \in Things : t # "login" =>
                        c.choice[t] = candidate_with_pending_off(auth).choice[t]
  BY <1>3, <1>4, CandidateTyped
<1> HIDE DEF c
<1>6. /\ cfg \in Config
      /\ \A t \in Things : cfg.choice[t] = IF t = "login" THEN Word(on) ELSE c.choice[t]
  BY <1>3, <1>5, ChoosingTyped
<1> HIDE DEF cfg
<1> DEFINE a == IF saved THEN persist(asked, cfg) ELSE asked
<1>7. /\ a \in Authority /\ a.running = auth.running
      /\ a.durable = (IF saved THEN cfg ELSE auth.durable)
      /\ a.readFailed = (IF saved THEN FALSE ELSE auth.readFailed)
      /\ a.pend["login"] = Word(on)
      /\ \A t \in Things : t # "login" =>
           a.pend[t] = IF saved /\ t \in Sources /\ auth.pend[t] = "off" THEN "none" ELSE auth.pend[t]
  <2>1. "login" \notin Sources BY Apart DEF Items
  <2>2. CASE saved
    <3>1. a = persist(asked, cfg) BY <2>2
    <3> DEFINE d == persist(asked, cfg)
    <3>2. /\ d \in Authority /\ d.durable = cfg /\ d.readFailed = FALSE /\ d.running = asked.running
          /\ \A t \in Things : d.pend[t] = IF t \in Sources /\ asked.pend[t] = "off"
                                           THEN "none" ELSE asked.pend[t]
      BY <1>4, <1>6, PersistTyped
    <3> HIDE DEF a, d
    <3>3. a = d BY <3>1 DEF d
    <3> QED BY <1>3, <1>4, <2>1, <2>2, <3>2, <3>3
  <2>3. CASE ~saved BY <1>4, <2>3
  <2> QED BY <2>2, <2>3
<1>8. AppliesLogin(a, on, saved, fails) BY <1>1
<1> HIDE DEF a
<1>9. /\ auth' \in Authority /\ auth'.durable = a.durable /\ auth'.running = a.running
      /\ auth'.readFailed = a.readFailed
      /\ \A t \in Things : t # "login" => auth'.pend[t] = a.pend[t]
      /\ auth'.pend["login"] \in {"none", a.pend["login"]}
      /\ ~saved => auth'.pend["login"] = a.pend["login"]
      /\ reg' \in {"absent", "mine", "installed", "other"}
      /\ LoginShown' /\ LoginTruthful'
  <2>1. saved => a.durable.choice["login"] = Word(on) BY <1>3, <1>6, <1>7
  <2> QED BY <1>2, <1>7, <1>8, <2>1, LoginApplied
<1>10. /\ said' \in [Things -> Words \cup {"none"}] /\ kept' \subseteq Things
       /\ ~saved => kept' = kept \ {"login"}
       /\ \A t \in Things : said'[t] = IF t = "login" THEN Word(on) ELSE said[t]
  BY <1>1, <1>3 DEF Says, ConsentInv, TypeOK
<1>11. TypeOK'
  <2>1. file' \in Files /\ faults' \in Nat BY <1>1, <1>6, WriteTyped
  <2> QED BY <1>2, <1>9, <1>10, <2>1 DEF ConsentInv, TypeOK, Files
<1>12. OnFile' /\ WordsKept' /\ OffHolds'
  <2>1. CASE saved
    <3>1. file' = Current(cfg) /\ auth'.durable = cfg /\ ~auth'.readFailed
      BY <1>1, <1>7, <1>9, <2>1 DEF Writes
    <3>2. \A t \in Things : t # "login" =>
            /\ cfg.choice[t] = candidate_with_pending_off(auth).choice[t] /\ said'[t] = said[t]
            /\ auth'.pend[t] = IF t \in Sources /\ auth.pend[t] = "off" THEN "none" ELSE auth.pend[t]
            /\ t \in Prefs => auth'.running[t] = auth.running[t]
      BY <1>5, <1>6, <1>7, <1>9, <1>10, <2>1 DEF Items
    <3>3. said'["login"] = cfg.choice["login"] /\ auth'.pend["login"] \in {"none", said'["login"]}
      BY <1>3, <1>6, <1>7, <1>9, <1>10
    <3> QED BY <1>2, <1>6, <3>1, <3>2, <3>3, SavedStep
  <2>2. CASE ~saved
    <3>1. /\ file' = file /\ auth'.durable = auth.durable /\ auth'.readFailed = auth.readFailed
          /\ kept' \subseteq kept /\ "login" \notin kept'
      BY <1>1, <1>7, <1>9, <1>10, <2>2 DEF Writes
    <3>2. \A t \in Things : t # "login" =>
            /\ said'[t] = said[t] /\ auth'.pend[t] = auth.pend[t]
            /\ t \in Prefs => auth'.running[t] = auth.running[t]
      BY <1>7, <1>9, <1>10, <2>2 DEF Items
    <3>3. said'["login"] = auth'.pend["login"] /\ auth'.pend["login"] \in Words
      BY <1>3, <1>7, <1>9, <1>10, <2>2
    <3>4. "login" \notin Prefs BY Apart DEF Items
    <3> QED BY <1>2, <3>1, <3>2, <3>3, <3>4, UnsavedStep
  <2> QED BY <2>1, <2>2
<1>13. Heeded'
  <2>1. ASSUME NEW i \in Items, Settles(engine, queue, i) PROVE Reads(auth'.durable, i)
    <3>1. i \in Things /\ i # "login" BY Apart
    <3>2. CASE saved BY <1>2, <1>5, <1>6, <1>7, <1>9, <2>1, <3>1, <3>2, CandidateTrue DEF Reads
    <3>3. CASE ~saved BY <1>2, <1>7, <1>9, <2>1, <3>3 DEF ConsentInv, Heeded
    <3> QED BY <3>2, <3>3
  <2>2. \A i \in Items : auth'.pend[i] # "none" => auth.pend[i] # "none" BY <1>7, <1>9, Apart
  <2> QED BY <1>2, <1>7, <1>9, <2>1, <2>2 DEF ConsentInv, Heeded
<1> QED BY <1>2, <1>9, <1>11, <1>12, <1>13, UpStep

(* A retry saves the owner's last word on everything.                       *)
LEMMA RetriedTyped ==
  ASSUME ConsentInv, up
  PROVE  LET cfg == RetryConfig(auth)
             a == Retried(auth)
         IN  /\ cfg \in Config
             /\ \A t \in Things :
                  /\ cfg.choice[t] = IF auth.pend[t] = "none" THEN auth.durable.choice[t]
                                                              ELSE auth.pend[t]
                  /\ said[t] # "none" => cfg.choice[t] = said[t]
             /\ a \in Authority /\ a.durable = cfg /\ ~a.readFailed
             /\ a.loginFailed = auth.loginFailed
             /\ \A p \in Prefs : a.running[p] <=> Reads(cfg, p)
             /\ \A k \in Sources : a.running[k] = IF auth.pend[k] # "none" THEN auth.pend[k] = "on"
                                                  ELSE auth.running[k]
             /\ \A t \in Things : a.pend[t] = IF t = "login" THEN auth.pend[t] ELSE "none"
<1> DEFINE cfg == RetryConfig(auth)
<1> DEFINE a == Retried(auth)
<1>1. auth \in Authority BY DEF ConsentInv, TypeOK
<1>2. /\ cfg \in Config
      /\ \A t \in Things : cfg.choice[t] = IF auth.pend[t] = "none" THEN auth.durable.choice[t]
                                                                    ELSE auth.pend[t]
  <2> DEFINE ch == [t \in Things |-> IF auth.pend[t] = "none" THEN auth.durable.choice[t]
                                                              ELSE auth.pend[t]]
  <2> DEFINE w == IF auth.pendingWizard = "none" THEN auth.durable.wizard ELSE auth.pendingWizard
  <2> DEFINE n == auth.durable.noticed \/ auth.noticeFailed
  <2>1. ch \in [Things -> Words \cup {"unset"}] BY <1>1 DEF Authority, Config
  <2>2. w \in Steps BY <1>1 DEF Authority, Config
  <2>3. n \in BOOLEAN OBVIOUS
  <2>4. cfg = [choice |-> ch, wizard |-> w, noticed |-> n] BY DEF RetryConfig
  <2>5. \A t \in Things : ch[t] = IF auth.pend[t] = "none" THEN auth.durable.choice[t]
                                                           ELSE auth.pend[t]
    OBVIOUS
  <2> HIDE DEF ch, w, n, cfg
  <2> QED BY <2>1, <2>2, <2>3, <2>4, <2>5 DEF Config
<1> HIDE DEF cfg
<1>3. \A t \in Things : said[t] # "none" => cfg.choice[t] = said[t]
  BY <1>2 DEF ConsentInv, WordsKept
<1> DEFINE running == [i \in Items |->
                   CASE i \in Prefs -> Reads(cfg, i)
                     [] i \in Sources /\ auth.pend[i] # "none" -> auth.pend[i] = "on"
                     [] OTHER -> auth.running[i]]
<1> DEFINE pend == [t \in Things |-> IF t = "login" THEN auth.pend[t] ELSE "none"]
<1>4. a = [auth EXCEPT !.durable = cfg, !.readFailed = FALSE, !.running = running, !.pend = pend,
                       !.pendingWizard = "none", !.noticeFailed = FALSE]
  BY <1>1 DEF Retried, cfg, Authority
<1>5. /\ \A p \in Prefs : running[p] = Reads(cfg, p)
      /\ \A k \in Sources : running[k] = IF auth.pend[k] # "none" THEN auth.pend[k] = "on"
                                         ELSE auth.running[k]
  BY Apart DEF Items
<1>6. running \in [Items -> BOOLEAN]
  <2>1. \A p : Reads(cfg, p) \in BOOLEAN BY DEF Reads
  <2>2. auth.running \in [Items -> BOOLEAN] BY <1>1 DEF Authority
  <2>3. \A i \in Items : running[i] \in BOOLEAN BY <1>5, <2>1, <2>2 DEF Items
  <2> HIDE DEF running
  <2>4. running = [i \in Items |-> running[i]] BY DEF running
  <2> QED BY <2>3, <2>4
<1>7. /\ pend \in [Things -> Words \cup {"none"}]
      /\ \A t \in Things : pend[t] = IF t = "login" THEN auth.pend[t] ELSE "none"
  BY <1>1 DEF Authority
<1> HIDE DEF running, pend, a
<1>8. /\ a \in Authority /\ a.durable = cfg /\ ~a.readFailed
      /\ a.loginFailed = auth.loginFailed /\ a.running = running /\ a.pend = pend
  BY <1>1, <1>2, <1>4, <1>6, <1>7 DEF Authority
<1> QED BY <1>2, <1>3, <1>5, <1>7, <1>8 DEF cfg, a

(* The login item is tried again with the word that waits, or with the      *)
(* choice on disk when the item itself is what failed.                      *)
LEMMA RetryLogin ==
  ASSUME ConsentInv, up, NEW a \in Authority, NEW saved \in BOOLEAN, NEW fails \in BOOLEAN,
         LET login == LoginToRetry(a)
         IN  IF login \in Words THEN AppliesLogin(a, login = "on", saved, fails)
             ELSE ~fails /\ auth' = a /\ UNCHANGED reg,
         copy' = copy, up' = up,
         a.loginFailed = auth.loginFailed, a.pend["login"] = auth.pend["login"],
         a.pend["login"] # "none" /\ saved => a.durable.choice["login"] = a.pend["login"],
         a.pend["login"] = "none" => a.durable.choice["login"] = auth.durable.choice["login"]
  PROVE  /\ auth' \in Authority /\ auth'.durable = a.durable /\ auth'.running = a.running
         /\ auth'.readFailed = a.readFailed
         /\ \A t \in Things : t # "login" => auth'.pend[t] = a.pend[t]
         /\ auth'.pend["login"] \in {"none", a.pend["login"]}
         /\ ~saved => auth'.pend["login"] = a.pend["login"]
         /\ reg' \in {"absent", "mine", "installed", "other"}
         /\ LoginShown' /\ LoginTruthful'
<1> DEFINE login == LoginToRetry(a)
<1>1. a.pend["login"] \in Words \cup {"none"} BY Apart DEF Authority
<1>2. CASE login \in Words
  <2>1. AppliesLogin(a, login = "on", saved, fails) BY <1>2
  <2>2. login = Word(login = "on") BY <1>2 DEF Words, Word
  <2>3. saved => a.durable.choice["login"] = login BY <1>2 DEF LoginToRetry, Words
  <2> HIDE DEF login
  <2> DEFINE on == login = "on"
  <2>4. on \in BOOLEAN /\ AppliesLogin(a, on, saved, fails) BY <2>1
  <2>5. saved => a.durable.choice["login"] = Word(on) BY <2>2, <2>3
  <2> HIDE DEF on
  <2> QED BY <2>4, <2>5, LoginApplied
<1>3. CASE login \notin Words
  <2>1. auth' = a /\ reg' = reg BY <1>3
  <2>2. a.pend["login"] = "none" BY <1>1, <1>3 DEF LoginToRetry
  <2> QED BY <2>1, <2>2 DEF ConsentInv, TypeOK, LoginShown, LoginTruthful
<1> QED BY <1>2, <1>3

(* Retry, in the three ways it can go.                                      *)
LEMMA RetryStep ==
  ASSUME ConsentInv, retry_save
  PROVE  ConsentInv'
<1> DEFINE idle == NothingToRetry(auth)
<1> DEFINE cfg == RetryConfig(auth)
<1>1. PICK saved, fails \in BOOLEAN :
        LET a == IF saved /\ ~idle THEN Retried(auth) ELSE auth
            login == LoginToRetry(a)
        IN  /\ idle => saved
            /\ Fault(~saved \/ fails)
            /\ Writes(cfg, saved /\ ~idle)
            /\ IF login \in Words THEN AppliesLogin(a, login = "on", saved, fails)
               ELSE ~fails /\ auth' = a /\ UNCHANGED reg
            /\ queue' = IF saved THEN queue \o RetrySends(auth, a) ELSE queue
            /\ SaysNothing(saved /\ ~idle)
  BY DEF retry_save
<1> DEFINE wrote == saved /\ ~idle
<1> DEFINE a == IF wrote THEN Retried(auth) ELSE auth
<1>2. up /\ up' = up /\ engine' = engine /\ copy' = copy BY DEF retry_save, Ready
<1>3. auth \in Authority /\ a \in Authority /\ wrote \in BOOLEAN
  BY <1>2, RetriedTyped DEF ConsentInv, TypeOK
<1>4. said' = said /\ kept' \subseteq Things /\ (~wrote => kept' = kept)
  BY <1>1 DEF SaysNothing, ConsentInv, TypeOK
<1>5. file' \in Files /\ faults' \in Nat /\ file' = (IF wrote THEN Current(cfg) ELSE file)
  <2>1. cfg \in Config BY <1>2, RetriedTyped
  <2> QED BY <1>1, <2>1, WriteTyped DEF Writes
<1>6. a.loginFailed = auth.loginFailed /\ a.pend["login"] = auth.pend["login"]
  BY <1>2, RetriedTyped, Apart
<1>7. /\ auth' \in Authority /\ auth'.durable = a.durable /\ auth'.running = a.running
      /\ auth'.readFailed = a.readFailed
      /\ \A t \in Things : t # "login" => auth'.pend[t] = a.pend[t]
      /\ auth'.pend["login"] \in {"none", a.pend["login"]}
      /\ ~saved => auth'.pend["login"] = a.pend["login"]
      /\ reg' \in {"absent", "mine", "installed", "other"}
      /\ LoginShown' /\ LoginTruthful'
  <2>1. a.pend["login"] # "none" /\ saved => a.durable.choice["login"] = a.pend["login"]
    <3>1. CASE wrote BY <1>2, <3>1, RetriedTyped, Apart
    <3>2. CASE idle BY <3>2, Apart DEF NothingToRetry
    <3> QED BY <3>1, <3>2
  <2>2. a.pend["login"] = "none" => a.durable.choice["login"] = auth.durable.choice["login"]
    BY <1>2, <1>6, RetriedTyped, Apart
  <2>3. LET login == LoginToRetry(a)
        IN  IF login \in Words THEN AppliesLogin(a, login = "on", saved, fails)
            ELSE ~fails /\ auth' = a /\ UNCHANGED reg
    BY <1>1
  <2> HIDE DEF a
  <2> QED BY <1>2, <1>3, <1>6, <2>1, <2>2, <2>3, RetryLogin
<1>8. queue' \in Seq(Commands)
      /\ \A i \in Items :
           IF saved
           THEN /\ Mentions(queue', i) <=> \/ Mentions(queue, i) \/ i \in Prefs
                                           \/ i \in Sources /\ auth.pend[i] = "on"
                /\ i \in Prefs => (Settles(engine, queue', i) <=> a.running[i])
                /\ i \in Sources => (Settles(engine, queue', i)
                                       <=> auth.pend[i] = "on" \/ Settles(engine, queue, i))
           ELSE queue' = queue
  <2>1. queue \in Seq(Commands) BY DEF ConsentInv, TypeOK
  <2>2. CASE saved
    <3> DEFINE q == RetrySends(auth, a)
    <3>1. queue' = queue \o q BY <1>1, <2>2
    <3> HIDE DEF a
    <3>2. q \in Seq(Commands) BY <1>3, RetrySendsAll
    <3>3. ASSUME NEW i \in Items
          PROVE  /\ Mentions(q, i) <=> i \in Prefs \/ (i \in Sources /\ auth.pend[i] = "on")
                 /\ i \in Prefs => (Settles(engine, q, i) <=> a.running[i])
                 /\ i \in Sources /\ auth.pend[i] = "on" => Settles(engine, q, i)
      BY <1>3, RetrySendsAll
    <3> HIDE DEF q
    <3>4. ASSUME NEW i \in Items
          PROVE  /\ Mentions(queue', i) <=> Mentions(queue, i) \/ Mentions(q, i)
                 /\ Settles(engine, queue', i) <=> IF Mentions(q, i) THEN Settles(engine, q, i)
                                                   ELSE Settles(engine, queue, i)
      BY <2>1, <3>1, <3>2, SettlesConcat
    <3>5. queue' \in Seq(Commands) BY <2>1, <3>1, <3>2, ConcatProperties
    <3> QED BY <2>2, <3>3, <3>4, <3>5, Apart
  <2>3. CASE ~saved BY <1>1, <2>1, <2>3
  <2> QED BY <2>2, <2>3
<1>9. TypeOK' BY <1>2, <1>4, <1>5, <1>7, <1>8 DEF ConsentInv, TypeOK, Files
<1>10. CASE wrote
  <2>1. a = Retried(auth) BY <1>10
  <2>2. /\ cfg \in Config
        /\ \A t \in Things : /\ cfg.choice[t] = IF auth.pend[t] = "none" THEN auth.durable.choice[t]
                                                                         ELSE auth.pend[t]
                             /\ said[t] # "none" => cfg.choice[t] = said[t]
        /\ a.durable = cfg /\ ~a.readFailed
        /\ \A p \in Prefs : a.running[p] <=> Reads(cfg, p)
        /\ \A k \in Sources : a.running[k] = IF auth.pend[k] # "none" THEN auth.pend[k] = "on"
                                             ELSE auth.running[k]
        /\ \A t \in Things : a.pend[t] = IF t = "login" THEN auth.pend[t] ELSE "none"
    BY <1>2, <2>1, RetriedTyped
  <2> HIDE DEF a, cfg
  <2>3. parse_setup(file') = cfg BY <1>5, <1>10, <2>2, SavedReads
  <2>4. OnFile' BY <1>7, <2>2, <2>3 DEF OnFile
  <2>5. WordsKept'
    <3>1. ASSUME NEW t \in Things
          PROVE  /\ auth'.pend[t] # "none" => said[t] = auth'.pend[t]
                 /\ said[t] # "none" => cfg.choice[t] = said[t]
                 /\ t \in Prefs => auth'.pend[t] = "none"
      BY <1>2, <1>7, <2>2, Apart DEF ConsentInv, WordsKept, Items
    <3> QED BY <1>4, <1>7, <2>2, <2>3, <3>1 DEF WordsKept, OnDisk
  <2>6. OffHolds' BY <1>4, <2>2, <2>3 DEF OffHolds, OnDisk
  <2>7. Heeded'
    <3> SUFFICES ASSUME NEW i \in Items
                 PROVE  /\ Settles(engine, queue', i) => Reads(auth'.durable, i)
                        /\ i \in Prefs => (Settles(engine, queue', i) <=> auth'.running[i])
                        /\ i \in Sources /\ auth'.pend[i] # "none" => ~Settles(engine, queue', i)
                        /\ ~Mentions(queue', i) => engine[i] = auth'.running[i]
      BY <1>2 DEF Heeded
    <3>1. i \in Things /\ i # "login" /\ auth'.pend[i] = "none" BY <1>7, <2>2, Apart
    <3>2. CASE i \in Prefs BY <1>7, <1>8, <1>10, <2>2, <3>2, Apart
    <3>3. CASE i \in Sources
      <4>1. i \notin Prefs BY <3>3, Apart
      <4>2. /\ Settles(engine, queue', i) <=> auth.pend[i] = "on" \/ Settles(engine, queue, i)
            /\ Mentions(queue', i) <=> Mentions(queue, i) \/ auth.pend[i] = "on"
        BY <1>8, <1>10, <3>3, <4>1
      <4>3. /\ Settles(engine, queue, i) => Reads(auth.durable, i) /\ auth.pend[i] = "none"
            /\ ~Mentions(queue, i) => engine[i] = auth.running[i]
        BY <1>2, <3>3 DEF ConsentInv, Heeded
      <4>4. Settles(engine, queue', i) => Reads(cfg, i) BY <2>2, <3>1, <4>2, <4>3 DEF Reads
      <4>5. ASSUME ~Mentions(queue', i) PROVE engine[i] = a.running[i]
        <5>1. auth.pend[i] # "on" /\ ~Mentions(queue, i) BY <4>2, <4>5
        <5>2. CASE auth.pend[i] = "none" BY <2>2, <3>3, <4>3, <5>1, <5>2
        <5>3. CASE auth.pend[i] # "none"
          <6>1. ~engine[i] BY <4>3, <5>1, <5>3 DEF Settles
          <6>2. engine[i] \in BOOLEAN BY DEF ConsentInv, TypeOK
          <6>3. a.running[i] = FALSE BY <2>2, <3>3, <5>1, <5>3
          <6> QED BY <6>1, <6>2, <6>3
        <5> QED BY <5>2, <5>3
      <4> QED BY <1>7, <2>2, <3>1, <4>1, <4>4, <4>5
    <3> QED BY <3>2, <3>3 DEF Items
  <2> QED BY <1>2, <1>7, <1>9, <2>4, <2>5, <2>6, <2>7, UpStep
<1>11. CASE ~wrote
  <2>1. a = auth /\ file' = file /\ kept' = kept BY <1>4, <1>5, <1>11
  <2>2. auth'.pend["login"] = auth.pend["login"]
    <3>1. CASE ~saved BY <1>7, <2>1, <3>1
    <3>2. CASE idle BY <1>7, <2>1, <3>2, Apart DEF NothingToRetry
    <3> QED BY <1>11, <3>1, <3>2
  <2>3. \A t \in Things : auth'.pend[t] = auth.pend[t] BY <1>7, <2>1, <2>2
  <2>4. PICK x : x \notin Things BY SetupAssumption DEF SetupAssumption, Things, Items
  <2>5. OnFile' /\ WordsKept' /\ OffHolds'
    BY <1>2, <1>4, <1>7, <2>1, <2>3, <2>4, UnsavedStep
  <2>6. Heeded'
    <3> SUFFICES ASSUME NEW i \in Items
                 PROVE  /\ Settles(engine, queue', i) => Reads(auth.durable, i)
                        /\ i \in Prefs => (Settles(engine, queue', i) <=> auth.running[i])
                        /\ i \in Sources /\ auth.pend[i] # "none" => ~Settles(engine, queue', i)
                        /\ ~Mentions(queue', i) => engine[i] = auth.running[i]
      BY <1>2, <1>7, <2>1, <2>3, Apart DEF Heeded
    <3>1. /\ Settles(engine, queue, i) => Reads(auth.durable, i)
          /\ i \in Prefs => (Settles(engine, queue, i) <=> auth.running[i])
          /\ i \in Sources /\ auth.pend[i] # "none" => ~Settles(engine, queue, i)
          /\ ~Mentions(queue, i) => engine[i] = auth.running[i]
      BY <1>2 DEF ConsentInv, Heeded
    <3>2. CASE ~saved BY <1>8, <3>1, <3>2
    <3>3. CASE saved
      <4>1. auth.pend[i] = "none" BY <1>11, <3>3, Apart DEF NothingToRetry
      <4> QED BY <1>8, <2>1, <3>1, <3>3, <4>1 DEF Items
    <3> QED BY <3>2, <3>3
  <2> QED BY <1>2, <1>7, <1>9, <2>5, <2>6, UpStep
<1> QED BY <1>10, <1>11

----------------------------------------------------------------------------
(* The engine, the process and the world.                                   *)

(* The engine takes a command.                                              *)
LEMMA TakeStep ==
  ASSUME ConsentInv, EngineTakes
  PROVE  ConsentInv'
<1> DEFINE c == Head(queue)
<1> DEFINE running == [i \in Items |-> IF i \in Sources \cap DOMAIN c THEN c[i] ELSE auth.running[i]]
<1>1. /\ up /\ queue # <<>> /\ queue' = Tail(queue) /\ engine' = Obeyed(engine, c)
      /\ UNCHANGED <<file, up, reg, copy, said, kept, faults>>
  BY DEF EngineTakes, CommandWaits, history
<1>2. /\ auth \in Authority /\ engine \in [Items -> BOOLEAN] /\ queue \in Seq(Commands)
  BY DEF ConsentInv, TypeOK
<1>3. c \in Commands BY <1>1, <1>2, HeadTailProperties
<1>4. DOMAIN c \subseteq Items /\ \A i \in DOMAIN c : c[i] \in BOOLEAN BY <1>3, CommandTyped
<1>5. auth' = [auth EXCEPT !.running = running] BY <1>2 DEF EngineTakes, Authority
<1>6. running \in [Items -> BOOLEAN] BY <1>2, <1>4 DEF Authority
<1>7. \A i \in Items : running[i] = IF i \in Sources /\ i \in DOMAIN c THEN c[i] ELSE auth.running[i]
  OBVIOUS
<1> HIDE DEF running, c
<1>8. /\ auth' \in Authority /\ auth'.running = running /\ auth'.durable = auth.durable
      /\ auth'.pend = auth.pend /\ auth'.readFailed = auth.readFailed
      /\ auth'.loginFailed = auth.loginFailed
  BY <1>2, <1>5, <1>6 DEF Authority
<1>9. engine' \in [Items -> BOOLEAN] /\ queue' \in Seq(Commands)
  BY <1>1, <1>2, <1>4, HeadTailProperties DEF Obeyed
<1>10. TypeOK' BY <1>1, <1>8, <1>9 DEF ConsentInv, TypeOK
<1>11. OnFile' /\ OffHolds'
  BY <1>1, <1>8 DEF ConsentInv, OnFile, OffHolds, OnDisk
<1>12. WordsKept'
  <2>1. \A p \in Prefs : auth'.running[p] = auth.running[p] BY <1>7, <1>8, Apart DEF Items
  <2> QED BY <1>1, <1>8, <2>1 DEF ConsentInv, WordsKept, OnDisk
<1>13. Heeded'
  <2> SUFFICES ASSUME NEW i \in Items
               PROVE  /\ Settles(engine', queue', i) => Reads(auth.durable, i)
                      /\ i \in Prefs => (Settles(engine', queue', i) <=> running[i])
                      /\ i \in Sources /\ auth.pend[i] # "none" => ~Settles(engine', queue', i)
                      /\ ~Mentions(queue', i) => engine'[i] = running[i]
    BY <1>1, <1>8 DEF Heeded
  <2>1. /\ engine'[i] = IF i \in DOMAIN c THEN c[i] ELSE engine[i]
        /\ Mentions(queue, i) <=> i \in DOMAIN c \/ Mentions(queue', i)
        /\ Settles(engine', queue', i) <=> Settles(engine, queue, i)
    BY <1>1, <1>2, SettlesTake DEF c
  <2>2. /\ Settles(engine, queue, i) => Reads(auth.durable, i)
        /\ i \in Prefs => (Settles(engine, queue, i) <=> auth.running[i])
        /\ i \in Sources /\ auth.pend[i] # "none" => ~Settles(engine, queue, i)
        /\ ~Mentions(queue, i) => engine[i] = auth.running[i]
    BY <1>1 DEF ConsentInv, Heeded
  <2>3. i \in Prefs => running[i] = auth.running[i] BY <1>7, Apart
  <2>4. ASSUME ~Mentions(queue', i) PROVE engine'[i] = running[i]
    <3>1. CASE i \in Sources BY <1>7, <2>1, <2>2, <2>4, <3>1
    <3>2. CASE i \in Prefs
      <4>1. Settles(engine', queue', i) <=> engine'[i] BY <2>4 DEF Settles, Mentions
      <4>2. engine'[i] \in BOOLEAN /\ running[i] \in BOOLEAN BY <1>6, <1>9
      <4> QED BY <2>1, <2>2, <2>3, <3>2, <4>1, <4>2
    <3> QED BY <3>1, <3>2 DEF Items
  <2> QED BY <2>1, <2>2, <2>3, <2>4
<1>14. LoginShown' /\ LoginTruthful'
  BY <1>1, <1>8 DEF ConsentInv, LoginShown, LoginTruthful
<1> QED BY <1>1, <1>10, <1>11, <1>12, <1>13, <1>14, UpStep

(* The authority of a program that has just started, or does not run.       *)
LEMMA SeededTyped ==
  ASSUME NEW cfg \in Config, NEW login \in BOOLEAN, NEW unread \in BOOLEAN
  PROVE  LET a == Seeded(cfg, login, unread)
         IN  /\ a \in Authority /\ a.durable = cfg /\ a.loginFailed = login
             /\ a.readFailed = unread
             /\ \A i \in Items : a.running[i] = Reads(cfg, i)
             /\ \A t \in Things : a.pend[t] = "none"
<1>1. \A i : Reads(cfg, i) \in BOOLEAN BY DEF Reads
<1> QED BY <1>1 DEF Seeded, Authority

(* While the program does not run the rest of the invariant is at rest.     *)
LEMMA DownStep ==
  ASSUME ~up', TypeOK', Asleep'
  PROVE  ConsentInv'
<1>1. OffHolds' BY DEF Asleep, OffHolds
<1> QED BY <1>1 DEF ConsentInv, OnFile, WordsKept, Heeded, LoginShown, LoginTruthful

(* The program ends.                                                        *)
LEMMA GoneStep ==
  ASSUME ConsentInv, NEW words, NEW f \in Files, Gone(words, f), UNCHANGED <<reg, copy, faults>>,
         words \in [Things -> Words \cup {"none"}]
  PROVE  ConsentInv'
<1>1. /\ file' = f /\ up' = FALSE /\ auth' = Away /\ engine' = Away.running /\ queue' = <<>>
      /\ said' = Remembered(words, f) /\ kept' = {t \in Things : said'[t] # "none"}
  BY DEF Gone
<1>2. Away \in Authority /\ Away.running \in [Items -> BOOLEAN]
  <2>1. Away \in Authority BY BlankTyped, SeededTyped DEF Away
  <2> QED BY <2>1 DEF Authority
<1>3. /\ said' \in [Things -> Words \cup {"none"}]
      /\ \A t \in Things : said'[t] # "none" => parse_setup(f).choice[t] = said'[t]
  BY <1>1 DEF Remembered
<1>4. queue' \in Seq(Commands) /\ up' \in BOOLEAN /\ kept' \subseteq Things BY <1>1, EmptySeq
<1>5. TypeOK' BY <1>1, <1>2, <1>3, <1>4 DEF ConsentInv, TypeOK, Files
<1>6. Asleep' BY <1>1, <1>3 DEF Asleep, OnDisk
<1> QED BY <1>1, <1>5, <1>6, DownStep

(* It stops, or is killed between a save and the login item.                *)
LEMMA StopStep ==
  ASSUME ConsentInv, Stop \/ \E on \in BOOLEAN : KilledBeforeLogin(on)
  PROVE  ConsentInv'
<1>1. CASE Stop
  <2>1. file \in Files /\ said \in [Things -> Words \cup {"none"}] BY DEF ConsentInv, TypeOK, Files
  <2> QED BY <1>1, <2>1, GoneStep DEF Stop
<1>2. ASSUME NEW on \in BOOLEAN, KilledBeforeLogin(on) PROVE ConsentInv'
  <2> DEFINE asked == [auth EXCEPT !.pend["login"] = Word(on)]
  <2> DEFINE cfg == Choosing(candidate_with_pending_off(asked), "login", on)
  <2> DEFINE words == [said EXCEPT !["login"] = Word(on)]
  <2>1. Word(on) \in Words /\ "login" \in Things BY Apart DEF Word, Words
  <2>2. asked \in Authority BY <2>1 DEF ConsentInv, TypeOK, Authority
  <2>3. words \in [Things -> Words \cup {"none"}] BY <2>1 DEF ConsentInv, TypeOK
  <2>4. Gone(words, Current(cfg)) /\ UNCHANGED <<reg, copy, faults>> BY <1>2 DEF KilledBeforeLogin
  <2> HIDE DEF asked, words
  <2>5. candidate_with_pending_off(asked) \in Config BY <2>2, CandidateTyped
  <2>6. cfg \in Config BY <2>1, <2>5, ChoosingTyped
  <2> HIDE DEF cfg
  <2>7. Current(cfg) \in Files BY <2>6, SavedReads
  <2> QED BY <2>3, <2>4, <2>7, GoneStep
<1> QED BY <1>1, <1>2

(* Another copy changes the login item while this one does not run.         *)
LEMMA OtherStep ==
  ASSUME ConsentInv, OtherCopy
  PROVE  ConsentInv'
<1>1. ~up /\ UNCHANGED <<file, auth, engine, queue, up, copy, said, kept, faults>>
  BY DEF OtherCopy, memory, history
<1>2. TypeOK' BY <1>1 DEF OtherCopy, ConsentInv, TypeOK
<1>3. Asleep' BY <1>1 DEF ConsentInv, Asleep, OnDisk
<1> QED BY <1>1, <1>2, <1>3, DownStep

(* A start: the engine and the authority agree, and nothing waits.          *)
LEMMA StartedAgree ==
  ASSUME ConsentInv, ~up, NEW cfg \in Config, NEW login \in BOOLEAN, NEW unread \in BOOLEAN,
         Starts(cfg, login, unread)
  PROVE  /\ up' /\ auth' \in Authority /\ auth'.durable = cfg /\ auth'.readFailed = unread
         /\ auth'.loginFailed = login /\ \A t \in Things : auth'.pend[t] = "none"
         /\ engine' \in [Items -> BOOLEAN] /\ queue' = <<>> /\ queue' \in Seq(Commands)
         /\ Heeded' /\ LoginShown'
<1>1. up' = TRUE /\ auth' = Seeded(cfg, login, unread) /\ engine' = auth'.running /\ queue' = queue
  BY DEF Starts
<1>2. /\ auth' \in Authority /\ auth'.durable = cfg /\ auth'.loginFailed = login
      /\ auth'.readFailed = unread
      /\ \A i \in Items : auth'.running[i] = Reads(cfg, i)
      /\ \A t \in Things : auth'.pend[t] = "none"
  BY <1>1, SeededTyped
<1>3. engine' \in [Items -> BOOLEAN] /\ queue' = <<>> /\ queue' \in Seq(Commands)
  BY <1>1, <1>2 DEF Authority, ConsentInv, Asleep, TypeOK
<1>4. \A i \in Items : ~Mentions(queue', i) /\ (Settles(engine', queue', i) <=> engine'[i])
  BY <1>3 DEF Mentions, Settles
<1>5. Heeded' BY <1>1, <1>2, <1>4, Apart DEF Heeded
<1>6. LoginShown' BY <1>2, Apart DEF LoginShown
<1> QED BY <1>1, <1>2, <1>3, <1>5, <1>6

(* The program starts with a file it can read.                              *)
LEMMA LaunchStep ==
  ASSUME ConsentInv, Launch
  PROVE  ConsentInv'
<1> DEFINE cfg == parse_setup(file)
<1> DEFINE login == login_choice(cfg)
<1>1. PICK saved, fails \in BOOLEAN :
        /\ Fault(~saved \/ fails)
        /\ Writes(cfg, saved)
        /\ login \in Words \/ ~fails
        /\ reg' = IF login \in Words THEN apply_login_decision(login = "on", fails) ELSE reg
        /\ Starts(cfg, fails, FALSE)
  BY DEF Launch
<1>2. ~up /\ copy' = copy /\ said' = said /\ kept' = kept BY DEF Launch, history
<1>3. cfg \in Config BY ParseTyped DEF ConsentInv, TypeOK, Files
<1> HIDE DEF cfg
<1>4. /\ up' /\ auth' \in Authority /\ auth'.durable = cfg /\ auth'.readFailed = FALSE
      /\ auth'.loginFailed = fails /\ \A t \in Things : auth'.pend[t] = "none"
      /\ engine' \in [Items -> BOOLEAN] /\ queue' \in Seq(Commands)
      /\ Heeded' /\ LoginShown'
  BY <1>1, <1>2, <1>3, StartedAgree
<1>5. parse_setup(file') = cfg /\ file' \in Files /\ faults' \in Nat
  <2>1. file' \in Files /\ faults' \in Nat BY <1>1, <1>3, WriteTyped
  <2> QED BY <1>1, <1>3, <2>1, SavedReads DEF Writes, cfg
<1>6. reg' \in {"absent", "mine", "installed", "other"}
  BY <1>1, SetupAssumption DEF apply_login_decision, Decided, ConsentInv, TypeOK, SetupAssumption
<1>7. TypeOK' BY <1>2, <1>4, <1>5, <1>6 DEF ConsentInv, TypeOK, Files
<1>8. OnFile' BY <1>4, <1>5 DEF OnFile
<1>9. \A t \in Things : said[t] # "none" => cfg.choice[t] = said[t]
  BY <1>2 DEF ConsentInv, Asleep, OnDisk, cfg
<1>10. WordsKept' BY <1>2, <1>4, <1>5, <1>9 DEF WordsKept, OnDisk
<1>11. OffHolds' BY <1>2, <1>5, <1>9 DEF OffHolds, OnDisk
<1>12. LoginTruthful'
  <2>1. CASE fails BY <1>4, <2>1 DEF LoginTruthful
  <2>2. CASE ~fails /\ login \in Words
    <3>1. reg' = Decided(copy, login = "on", reg) /\ auth'.durable.choice["login"] = login
      BY <1>1, <1>4, <2>2 DEF apply_login_decision, login_choice
    <3> QED BY <1>2, <2>2, <3>1 DEF LoginTruthful, Decided, Words
  <2>3. CASE login \notin Words
    BY <1>4, <2>3 DEF LoginTruthful, login_choice, Words
  <2> QED BY <2>1, <2>2, <2>3
<1> QED BY <1>4, <1>7, <1>8, <1>10, <1>11, <1>12, UpStep

(* The program starts with a file it cannot read.                           *)
LEMMA UnreadStep ==
  ASSUME ConsentInv, LaunchUnread
  PROVE  ConsentInv'
<1>1. /\ ~up /\ file' = file /\ reg' = reg /\ copy' = copy
      /\ Fault(file.kind # "damaged") /\ Starts(fail_closed, FALSE, TRUE)
      /\ said' = [t \in Things |-> IF t \in Sources \ Optional /\ said[t] = "off" THEN "off" ELSE "none"]
      /\ kept' = kept \cap {t \in Things : said'[t] # "none"}
  BY DEF LaunchUnread
<1>2. /\ up' /\ auth' \in Authority /\ auth'.durable = fail_closed /\ auth'.readFailed = TRUE
      /\ auth'.loginFailed = FALSE /\ \A t \in Things : auth'.pend[t] = "none"
      /\ engine' \in [Items -> BOOLEAN] /\ queue' \in Seq(Commands)
      /\ Heeded' /\ LoginShown'
  BY <1>1, BlankTyped, StartedAgree
<1>3. /\ said' \in [Things -> Words \cup {"none"}] /\ kept' \subseteq Things
      /\ \A t \in Things : said'[t] # "none" => /\ said'[t] = "off" /\ said[t] = "off"
                                                /\ t \in Sources /\ t \notin Optional
  BY <1>1 DEF Words
<1>4. faults' \in Nat BY <1>1 DEF Fault, ConsentInv, TypeOK
<1>5. TypeOK' BY <1>1, <1>2, <1>3, <1>4 DEF ConsentInv, TypeOK
<1>6. OnFile' BY <1>2 DEF OnFile
<1>7. \A t \in Things : said'[t] # "none" => fail_closed.choice[t] = said'[t] /\ OnDisk(t) = said'[t]
  BY <1>1, <1>3, BlankTyped DEF ConsentInv, Asleep, Items
<1>8. WordsKept' BY <1>1, <1>2, <1>7 DEF WordsKept, OnDisk
<1>9. OffHolds' BY <1>1, <1>7 DEF OffHolds, OnDisk
<1>10. LoginTruthful' BY <1>2, BlankTyped DEF LoginTruthful
<1> QED BY <1>2, <1>5, <1>6, <1>8, <1>9, <1>10, UpStep

----------------------------------------------------------------------------
(* The invariant and what follows from it.                                  *)

(* It holds before the first launch.                                        *)
LEMMA InitConsent == Init => ConsentInv
<1> SUFFICES ASSUME Init PROVE ConsentInv OBVIOUS
<1>1. Away \in Authority /\ Away.running \in [Items -> BOOLEAN]
  <2>1. Away \in Authority BY BlankTyped, SeededTyped DEF Away
  <2> QED BY <2>1 DEF Authority
<1>2. file \in Files
  <2>1. ASSUME NEW o \in BOOLEAN, NEW s \in BOOLEAN
        PROVE  [choice |-> [t \in Things |-> IF t \in Optional THEN Word(o) ELSE Word(s)],
                wizard |-> "Done", noticed |-> FALSE] \in Config
    BY SetupAssumption DEF Config, Word, Words, SetupAssumption
  <2> QED BY <2>1, BlankTyped DEF Init, OldFiles, Files
<1>3. TypeOK
  <2>1. queue \in Seq(Commands) BY EmptySeq DEF Init
  <2>2. said \in [Things -> Words \cup {"none"}] /\ kept \subseteq Things BY DEF Init
  <2> QED BY <1>1, <1>2, <2>1, <2>2 DEF Init, TypeOK, Files
<1>4. Asleep BY DEF Init, Asleep
<1>5. ~up BY DEF Init
<1> QED BY <1>3, <1>4, <1>5
    DEF ConsentInv, OnFile, WordsKept, Heeded, LoginShown, LoginTruthful, Asleep, OffHolds

(* Every step keeps it.                                                     *)
LEMMA NextConsent == ConsentInv /\ [Next]_vars => ConsentInv'
<1> SUFFICES ASSUME ConsentInv, [Next]_vars PROVE ConsentInv' OBVIOUS
<1>1. ASSUME NEW k \in Sources, NEW on \in BOOLEAN, set_source_enabled(k, on) PROVE ConsentInv'
  BY <1>1, SourceStep
<1>2. ASSUME NEW p \in Prefs, NEW on \in BOOLEAN, set_desktop_activity_pref(p, on) PROVE ConsentInv'
  BY <1>2, PrefStep
<1>3. ASSUME NEW on \in BOOLEAN, set_start_at_login(on) PROVE ConsentInv' BY <1>3, LoginStep
<1>4. ASSUME NEW on \in BOOLEAN, KilledBeforeLogin(on) PROVE ConsentInv' BY <1>4, StopStep
<1>5. ASSUME NEW step \in Steps, set_wizard_step(step) PROVE ConsentInv' BY <1>5, WizardStep
<1>6. CASE dismiss_notice BY <1>6, NoticeStep
<1>7. CASE retry_save BY <1>7, RetryStep
<1>8. CASE EngineTakes BY <1>8, TakeStep
<1>9. CASE Stop BY <1>9, StopStep
<1>10. CASE OtherCopy BY <1>10, OtherStep
<1>11. CASE Launch BY <1>11, LaunchStep
<1>12. CASE LaunchUnread BY <1>12, UnreadStep
<1>13. CASE UNCHANGED vars
  <2>1. UNCHANGED <<file, auth, engine, queue, up, reg, copy, said, kept, faults>>
    BY <1>13 DEF vars, memory, history
  <2> QED BY <2>1 DEF ConsentInv, TypeOK, OnFile, WordsKept, Heeded, LoginShown, Asleep, OffHolds,
             LoginTruthful, OnDisk
<1> QED BY <1>1, <1>2, <1>3, <1>4, <1>5, <1>6, <1>7, <1>8, <1>9, <1>10, <1>11, <1>12, <1>13 DEF Next

(* What the authority, the file, the engine and the commands on their way   *)
(* agree on holds in every reachable state, whatever saves, reads and       *)
(* registry calls fail and wherever the program is stopped.                 *)
THEOREM ConsentInvariant == Spec => []ConsentInv
  BY InitConsent, NextConsent, PTL DEF Spec

(* Every value has its type.                                                *)
THEOREM ConsentTypeCorrect == Spec => []TypeOK
<1>1. ConsentInv => TypeOK BY DEF ConsentInv
<1> QED BY <1>1, ConsentInvariant, PTL

(* candidate_with_pending_off keeps its promise: once anything was saved    *)
(* after an OFF, the file says OFF.                                         *)
THEOREM OffStaysOff == Spec => []OffHolds
<1>1. ConsentInv => OffHolds BY DEF ConsentInv
<1> QED BY <1>1, ConsentInvariant, PTL

(* The engine is never on its way to observing what is not consented to on  *)
(* disk.                                                                    *)
THEOREM ConsentIsOnDisk == Spec => []ConsentOnDisk
<1>1. ASSUME ConsentInv PROVE ConsentOnDisk
  <2> SUFFICES ASSUME up, NEW i \in Items, Settles(engine, queue, i),
                      auth.readFailed => i \notin Optional
               PROVE  Reads(parse_setup(file), i)
    BY DEF ConsentOnDisk
  <2>1. Reads(auth.durable, i) BY <1>1 DEF ConsentInv, Heeded
  <2>2. CASE auth.readFailed
    <3>1. auth.durable = fail_closed BY <1>1, <2>2 DEF ConsentInv, OnFile
    <3> QED BY <2>1, <2>2, <3>1, BlankTyped DEF Reads
  <2>3. CASE ~auth.readFailed BY <1>1, <2>1, <2>3 DEF ConsentInv, OnFile
  <2> QED BY <2>2, <2>3
<1> QED BY <1>1, ConsentInvariant, PTL

(* The settings window never hides that a word is not saved, that the       *)
(* engine does something else, or that the login item does.                 *)
THEOREM WindowIsTruthful == Spec => []WindowTruthful
<1>1. ASSUME ConsentInv PROVE WindowTruthful
  <2>1. NotSavedIsShown
    <3>1. \A t \in Things : up /\ said[t] # "none" /\ OnDisk(t) # said[t] => auth.pend[t] # "none"
      BY <1>1 DEF ConsentInv, WordsKept
    <3> QED BY <1>1, <3>1 DEF ConsentInv, LoginShown, NotSavedIsShown
  <2>2. EngineFollows
    <3> SUFFICES ASSUME up, queue = <<>> PROVE engine = auth.running BY DEF EngineFollows
    <3>1. \A i \in Items : ~Mentions(queue, i) BY DEF Mentions
    <3>2. \A i \in Items : engine[i] = auth.running[i] BY <1>1, <3>1 DEF ConsentInv, Heeded
    <3>3. engine \in [Items -> BOOLEAN] /\ auth.running \in [Items -> BOOLEAN]
      BY <1>1 DEF ConsentInv, TypeOK, Authority
    <3> QED BY <3>2, <3>3
  <2> QED BY <1>1, <2>1, <2>2 DEF ConsentInv, WindowTruthful
<1> QED BY <1>1, ConsentInvariant, PTL

=============================================================================
