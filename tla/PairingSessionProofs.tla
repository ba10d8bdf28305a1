------------------------ MODULE PairingSessionProofs ------------------------
(***************************************************************************)
(* Proofs about PairingSession, for any number of credentials, setup        *)
(* handoffs, access updates and faults: nothing is sent without consent,    *)
(* and a saved credential goes only when it was refused, replaced or        *)
(* archived.                                                                *)
(*                                                                          *)
(* Consent is inductive only together with what the answer file and the     *)
(* cache name (Named), and with what a missing answer file will be taken    *)
(* to mean (Grandfathered).  A credential that is dropped was refused       *)
(* because an intent is only ever one of the saved credential (Intended)    *)
(* and the retirement that drops it began with one (Underway).              *)
(*                                                                          *)
(* That a refusal is final needs a second invariant (ShutInv): a refused    *)
(* credential is saved only while it is being retired, the cache and the    *)
(* answer file agree on the saved one, whoever is asked about a pairing has *)
(* its gate shut, and a launch begins with nothing in memory.               *)
(***************************************************************************)
EXTENDS PairingSession, TLAPS

Snaps == [phase : {"notpaired", "pairing", "awaiting", "paired", "failed"}, b : Certs]
Answers == [st : {"absent", "ok", "bad"}, confirmed : Certs, rejected : Certs]
OpKinds == {"none", "link", "here", "found", "native", "finish", "answer", "launch"}
Ops == [at : Steps, kind : OpKinds, cert : Certs, gen : 0..MaxGen, act : {0} \cup Handoffs]
Tasks == [cert : Certs, said : BOOLEAN, cancel : BOOLEAN]

(* A saved credential's generation is one the live client can have.         *)
Disk(f) == f \in PairedFiles /\ (f.cert # Nobody => f.gen \in 0..MaxGen)

(* An intent is one of the saved credential, which was refused.             *)
Intended(f, R) ==
  Retiring(f) => /\ f.intent.cert = f.cert /\ f.intent.gen = f.gen
                 /\ f.cert # Nobody /\ f.cert \in R

(* What the step of the slot's holder may rely on.                          *)
Carries == {"save", "bind", "proof", "confirm", "replace", "show", "accept", "identity",
            "load", "install", "stop"}
Underway ==
  /\ op.at = "dial" => issued < MaxCerts
  /\ op.at \in Carries => op.cert # Nobody
  /\ op.at \in {"stop", "delete", "answer", "drop"} => Retiring(file)
  /\ op.at \in {"dial", "save"} =>
       /\ op.kind \in {"link", "here", "found", "native"}
       /\ op.kind \in {"link", "here"} => ans.st # "absent"
       /\ op.kind = "found" => file.cert = Nobody
       /\ op.kind = "native" => op.act # 0

(* Whatever may open a gate was accepted.                                   *)
Named == {conf, ans.confirmed} \subseteq {Nobody} \cup consent

(* While there is no answer file, an older pairing counts as confirmed.     *)
Grandfathered == ans.st = "absent" /\ file.act = 0 => file.cert \in {Nobody} \cup consent

(* The types of what a step changes; `over` is noted beside it.             *)
Typed ==
  /\ Disk(file) /\ archive \in PairedFiles /\ ans \in Answers
  /\ prog \in [id : {0} \cup Handoffs, expired : BOOLEAN] /\ up \in BOOLEAN /\ op \in Ops
  /\ conf \in Certs /\ tomb \in Certs /\ snap \in Snaps
  /\ acc \in [cert : Certs, gen : 0..MaxGen] /\ gates \subseteq Certs /\ tasks \subseteq Tasks
  /\ consent \subseteq Certs /\ refused \subseteq Certs /\ issued \in Certs /\ faults \in 0..MaxFaults

SessionInv ==
  /\ Typed /\ Underway /\ Intended(file, refused)
  /\ GateNeedsConsent /\ Named /\ Grandfathered

----------------------------------------------------------------------------
(* Values.                                                                  *)

LEMMA Numbers ==
  /\ Nobody \in Certs /\ 0 \in 0..MaxGen /\ Certs \subseteq Nat
  /\ 0..MaxGen \subseteq 0..(MaxGen + 1) /\ 0 \notin Handoffs
  /\ \A c : c \in Certs /\ c < MaxCerts => c + 1 \in Certs /\ c + 1 # Nobody
  /\ \A g : g \in 0..MaxGen => g + 1 \in 0..(MaxGen + 1)
  /\ \A g : g \in 0..MaxGen /\ g < MaxGen => g + 1 \in 0..MaxGen
  BY SessionAssumption DEF SessionAssumption, Certs, Nobody

LEMMA Constants ==
  /\ Idle \in Ops /\ Idle.at = "idle" /\ Idle.kind = "none" /\ Idle.cert = Nobody
  /\ Idle.gen = 0 /\ Idle.act = 0
  /\ NoAccess \in [cert : Certs, gen : 0..MaxGen]
  /\ Disk(Unpaired) /\ Unpaired.cert = Nobody /\ Unpaired.act = 0 /\ ~Retiring(Unpaired)
  /\ EmptyAnswer \in Answers /\ EmptyAnswer.st = "ok" /\ EmptyAnswer.confirmed = Nobody
  /\ Ceremony \in Snaps /\ \A p \in {"notpaired", "failed"} : Shown(p, Nobody) \in Snaps
<1>1. NoIntent \in [phase : {"none", "prepared", "succeeded", "unknown"}, cert : Certs, gen : 0..MaxGen]
  BY Numbers DEF NoIntent
<1>2. Disk(Unpaired) /\ Unpaired.cert = Nobody /\ Unpaired.act = 0 /\ ~Retiring(Unpaired)
  BY <1>1, Numbers DEF Unpaired, Disk, PairedFiles, Retiring
<1>3. Idle \in Ops BY Numbers DEF Idle, Ops, Steps, OpKinds
<1>4. NoAccess \in [cert : Certs, gen : 0..MaxGen] BY Numbers DEF NoAccess
<1>5. EmptyAnswer \in Answers /\ EmptyAnswer.st = "ok" /\ EmptyAnswer.confirmed = Nobody
  BY Numbers DEF EmptyAnswer, Answers
<1>6. Ceremony \in Snaps /\ \A p \in {"notpaired", "failed"} : Shown(p, Nobody) \in Snaps
  BY Numbers DEF Ceremony, Shown, Snaps
<1> QED BY <1>2, <1>3, <1>4, <1>5, <1>6 DEF Idle

(* A failure is counted.                                                    *)
LEMMA CostsTyped ==
  ASSUME Typed, Costs \/ Free
  PROVE  faults' \in 0..MaxFaults
  BY SessionAssumption DEF Typed, Costs, Free, SessionAssumption

(* The handoffs of a file are handoffs.                                     *)
LEMMA HistoryTyped ==
  ASSUME NEW f \in PairedFiles, NEW a \in PairedFiles
  PROVE  History(f, a) \subseteq Handoffs /\ Ended(f) \subseteq Handoffs
<1>1. Ended(f) \subseteq Handoffs BY DEF Ended, PairedFiles
<1> QED BY <1>1 DEF History, PairedFiles

(* save_inner keeps the credential, the intent and the activation it is     *)
(* given.                                                                   *)
LEMMA SavedKeeps ==
  ASSUME NEW p \in PairedFiles, NEW a \in PairedFiles, NEW f \in PairedFiles
  PROVE  LET s == Saved(p, a, f)
         IN  /\ s \in PairedFiles /\ s.cert = f.cert /\ s.gen = f.gen /\ s.intent = f.intent
             /\ s.act = f.act /\ s.sound = f.sound
             /\ (Retiring(s) <=> Retiring(f)) /\ (Disk(f) => Disk(s))
             /\ f.retired \subseteq s.retired /\ History(p, a) \subseteq s.retired
             /\ ((p.act # f.act \/ p.cert # f.cert) /\ p.act # 0 => p.act \in s.retired)
             /\ Ended(s) \subseteq s.retired
             /\ (f.opened => s.opened)
<1> DEFINE same == p.act = f.act /\ p.cert = f.cert
<1> DEFINE g == [f EXCEPT !.opened = f.opened \/ (same /\ p.opened)]
<1> DEFINE R == g.retired \cup History(p, a) \cup Ended(g) \cup (IF same THEN {} ELSE {p.act} \ {0})
<1> DEFINE s == [g EXCEPT !.retired = R]
<1>1. Saved(p, a, f) = s BY DEF Saved
<1>2. (f.opened \/ (same /\ p.opened)) \in BOOLEAN BY DEF PairedFiles
<1>3. /\ g \in PairedFiles /\ g.cert = f.cert /\ g.gen = f.gen /\ g.intent = f.intent /\ g.act = f.act
      /\ g.sound = f.sound /\ g.retired = f.retired /\ g.opened = (f.opened \/ (same /\ p.opened))
  BY <1>2 DEF PairedFiles
<1> HIDE DEF g
<1>4. History(p, a) \subseteq Handoffs /\ Ended(g) \subseteq Handoffs BY <1>3, HistoryTyped
<1>5. R \subseteq Handoffs BY <1>3, <1>4 DEF PairedFiles
<1>6. f.retired \subseteq R /\ History(p, a) \subseteq R /\ Ended(g) \subseteq R BY <1>3
<1>7. (p.act # f.act \/ p.cert # f.cert) /\ p.act # 0 => p.act \in R OBVIOUS
<1> HIDE DEF R
<1>8. /\ s \in PairedFiles /\ s.cert = g.cert /\ s.gen = g.gen /\ s.intent = g.intent /\ s.act = g.act
      /\ s.sound = g.sound /\ s.retired = R /\ s.opened = g.opened
  BY <1>3, <1>5 DEF PairedFiles
<1> HIDE DEF s
<1>9. Retiring(s) <=> Retiring(f) BY <1>3, <1>8 DEF Retiring
<1>10. Disk(f) => Disk(s) BY <1>3, <1>8 DEF Disk
<1>11. Ended(s) = Ended(g) BY <1>8 DEF Ended, Retiring
<1>12. f.opened => s.opened BY <1>3, <1>8
<1> QED BY <1>1, <1>3, <1>6, <1>7, <1>8, <1>9, <1>10, <1>11, <1>12

(* The files the operations on pairing.json write.                          *)
LEMMA FreshKeeps ==
  ASSUME NEW cert \in Certs, NEW act \in {0} \cup Handoffs
  PROVE  LET f == FreshPair(cert, act)
         IN  Disk(f) /\ f.cert = cert /\ f.act = act /\ f.gen = 0 /\ ~Retiring(f) /\ ~f.opened
<1>1. Unpaired \in PairedFiles /\ Unpaired.gen = 0 /\ ~Unpaired.opened /\ ~Retiring(Unpaired)
  BY Constants DEF Unpaired, Disk
<1> DEFINE f == [Unpaired EXCEPT !.cert = cert, !.act = act]
<1> HIDE DEF Unpaired
<1>2. /\ f \in PairedFiles /\ f.cert = cert /\ f.act = act /\ f.gen = 0 /\ ~f.opened
      /\ f.intent = Unpaired.intent
  BY <1>1 DEF PairedFiles
<1>3. FreshPair(cert, act) = f BY DEF FreshPair
<1> HIDE DEF f
<1>4. ~Retiring(f) BY <1>1, <1>2 DEF Retiring
<1> QED BY <1>2, <1>3, <1>4, Numbers DEF Disk

LEMMA IntentKeeps ==
  ASSUME NEW f, Disk(f), f.cert # Nobody
  PROVE  LET g == WithIntent(f)
         IN  /\ Disk(g) /\ g.cert = f.cert /\ g.act = f.act /\ Retiring(g)
             /\ g.intent.cert = g.cert /\ g.intent.gen = g.gen /\ g.opened = f.opened
             /\ g.retired = f.retired
<1> DEFINE i == [phase |-> "prepared", cert |-> f.cert, gen |-> f.gen]
<1> DEFINE g == [f EXCEPT !.intent = i]
<1>1. f \in PairedFiles /\ f.gen \in 0..MaxGen BY DEF Disk
<1>2. i \in [phase : {"none", "prepared", "succeeded", "unknown"}, cert : Certs, gen : 0..MaxGen]
  BY <1>1 DEF PairedFiles
<1>3. i # NoIntent BY DEF NoIntent
<1>4. i.cert = f.cert /\ i.gen = f.gen OBVIOUS
<1> HIDE DEF i
<1>5. /\ g \in PairedFiles /\ g.cert = f.cert /\ g.gen = f.gen /\ g.act = f.act /\ g.intent = i
      /\ g.opened = f.opened /\ g.retired = f.retired
  BY <1>1, <1>2 DEF PairedFiles
<1>6. WithIntent(f) = g BY DEF WithIntent, i
<1> HIDE DEF g
<1> QED BY <1>1, <1>3, <1>4, <1>5, <1>6 DEF Disk, Retiring

LEMMA PhaseKeeps ==
  ASSUME NEW f, Disk(f), NEW p \in {"succeeded", "unknown"}
  PROVE  LET g == [f EXCEPT !.intent.phase = p]
         IN  /\ Disk(g) /\ g.cert = f.cert /\ g.act = f.act /\ g.gen = f.gen /\ Retiring(g)
             /\ g.intent.cert = f.intent.cert /\ g.intent.gen = f.intent.gen /\ g.opened = f.opened
             /\ g.retired = f.retired
<1> DEFINE i == [f.intent EXCEPT !.phase = p]
<1> DEFINE g == [f EXCEPT !.intent = i]
<1>1. f \in PairedFiles BY DEF Disk
<1>2. /\ i \in [phase : {"none", "prepared", "succeeded", "unknown"}, cert : Certs, gen : 0..MaxGen]
      /\ i.phase = p /\ i.cert = f.intent.cert /\ i.gen = f.intent.gen
  BY <1>1 DEF PairedFiles
<1>3. i # NoIntent BY <1>2 DEF NoIntent
<1>4. [f EXCEPT !.intent.phase = p] = g BY <1>1 DEF PairedFiles
<1> HIDE DEF i
<1>5. /\ g \in PairedFiles /\ g.cert = f.cert /\ g.gen = f.gen /\ g.act = f.act /\ g.intent = i
      /\ g.opened = f.opened /\ g.retired = f.retired
  BY <1>1, <1>2 DEF PairedFiles
<1> HIDE DEF g
<1> QED BY <1>2, <1>3, <1>4, <1>5 DEF Disk, Retiring

LEMMA ClearedKeeps ==
  ASSUME NEW f, Disk(f), f.cert # Nobody
  PROVE  LET g == Cleared(f)
         IN  Disk(g) /\ g.cert = Nobody /\ g.act = f.act /\ ~Retiring(g) /\ g.opened = f.opened
             /\ g.retired = f.retired
<1> DEFINE n == f.gen + 1
<1> DEFINE g == [f EXCEPT !.cert = Nobody, !.intent = NoIntent, !.gen = n]
<1>1. f \in PairedFiles /\ n \in 0..(MaxGen + 1) BY Numbers DEF Disk
<1>2. NoIntent \in [phase : {"none", "prepared", "succeeded", "unknown"}, cert : Certs, gen : 0..MaxGen]
  BY Numbers DEF NoIntent
<1>3. Cleared(f) = g BY <1>1 DEF Cleared, PairedFiles
<1> HIDE DEF n, NoIntent
<1>4. /\ g \in PairedFiles /\ g.cert = Nobody /\ g.act = f.act /\ g.intent = NoIntent
      /\ g.opened = f.opened /\ g.retired = f.retired
  BY <1>1, <1>2, Numbers DEF PairedFiles
<1> HIDE DEF g
<1> QED BY <1>3, <1>4 DEF Disk, Retiring

LEMMA MutatedKeeps ==
  ASSUME NEW f, Disk(f), f.cert # Nobody, f.gen < MaxGen
  PROVE  LET g == Mutated(f)
         IN  /\ Disk(g) /\ g.cert = f.cert /\ g.act = f.act /\ g.intent = f.intent
             /\ g.opened = f.opened /\ g.retired = f.retired
<1> DEFINE n == f.gen + 1
<1> DEFINE g == [f EXCEPT !.gen = n]
<1>1. f \in PairedFiles /\ n \in 0..MaxGen /\ n \in 0..(MaxGen + 1) BY Numbers DEF Disk
<1>2. Mutated(f) = g BY <1>1 DEF Mutated, PairedFiles
<1> HIDE DEF n
<1>3. /\ g \in PairedFiles /\ g.cert = f.cert /\ g.act = f.act /\ g.intent = f.intent /\ g.gen = n
      /\ g.opened = f.opened /\ g.retired = f.retired
  BY <1>1 DEF PairedFiles
<1> HIDE DEF g
<1> QED BY <1>1, <1>2, <1>3 DEF Disk

(* The slot's next step.                                                    *)
LEMMA OpTyped ==
  ASSUME op \in Ops, NEW st \in Steps
  PROVE  LET o == [op EXCEPT !.at = st]
         IN  /\ o \in Ops /\ o.at = st /\ o.kind = op.kind /\ o.cert = op.cert
             /\ o.gen = op.gen /\ o.act = op.act
  BY DEF Ops

LEMMA BoundTyped ==
  ASSUME NEW sn \in Snaps, NEW b \in Certs, NEW cf, NEW tb
  PROVE  Bound(sn, b, cf, tb) \in Snaps /\ BoundFailed(sn, b, cf, tb) \in Snaps
  BY DEF Bound, BoundFailed, Shown, Snaps

LEMMA AnswerKinds ==
  ASSUME Typed, NEW b \in Certs
  PROVE  /\ Legible(ans) \in Answers /\ Legible(ans).confirmed \in {Nobody, ans.confirmed}
         /\ (Legible(ans).st = "absent" <=> ans.st = "absent")
         /\ ConfirmedAnswer(b) \in Answers /\ ConfirmedAnswer(b).confirmed = b
         /\ ConfirmedAnswer(b).st = "ok"
<1>1. ans \in Answers BY DEF Typed
<1>2. /\ Legible(ans) \in Answers /\ Legible(ans).confirmed \in {Nobody, ans.confirmed}
      /\ (Legible(ans).st = "absent" <=> ans.st = "absent")
  BY <1>1, Constants DEF Legible, Answers
<1> QED BY <1>2 DEF ConfirmedAnswer, Answers

(* The answer an answer file that is missing settles to.                    *)
LEMMA SettledKinds ==
  ASSUME SessionInv
  PROVE  \A a \in {Settled(ans, file), Held(ans, file), Held(Settled(ans, file), file), Prepared} :
           /\ a \in Answers /\ a.confirmed \in {Nobody} \cup consent
           /\ a.st = "absent" => ans.st = "absent"
<1>1. /\ ans \in Answers /\ file.cert \in Certs /\ ans.confirmed \in {Nobody} \cup consent
      /\ (ans.st = "absent" /\ file.act = 0 => file.cert \in {Nobody} \cup consent)
  BY DEF SessionInv, Typed, Disk, PairedFiles, Named, Grandfathered
<1> DEFINE a1 == Settled(ans, file)
<1>2. a1 \in Answers /\ a1.confirmed \in {Nobody} \cup consent /\ a1.st # "absent"
  BY <1>1, Constants DEF Settled, Answers, EmptyAnswer
<1> HIDE DEF a1
<1>3. \A a \in Answers : /\ Held(a, file) \in Answers /\ Held(a, file).st = a.st
                         /\ Held(a, file).confirmed \in {Nobody, a.confirmed}
  BY Numbers DEF Held, Answers
<1> QED BY <1>1, <1>2, <1>3 DEF a1, Prepared

(* What is shown of a pairing.                                              *)
LEMMA MemoryTyped ==
  ASSUME SessionInv
  PROVE  /\ op \in Ops /\ conf \in Certs /\ tomb \in Certs /\ snap \in Snaps /\ up \in BOOLEAN
         /\ acc \in [cert : Certs, gen : 0..MaxGen] /\ tasks \subseteq Tasks /\ issued \in Certs
         /\ gates \subseteq consent /\ conf \in {Nobody} \cup consent
         /\ Cancelled \subseteq Tasks /\ \A c \in Certs : Spawned(c) \subseteq Tasks
         /\ op.cert \in Certs /\ op.gen \in 0..MaxGen /\ op.act \in {0} \cup Handoffs
         /\ file \in PairedFiles /\ file.cert \in Certs
<1>1. Cancelled \subseteq Tasks BY DEF SessionInv, Typed, Tasks, Cancelled
<1>2. \A c \in Certs : [cert |-> c, said |-> FALSE, cancel |-> FALSE] \in Tasks BY DEF Tasks
<1> QED BY <1>1, <1>2 DEF SessionInv, Typed, Spawned, GateNeedsConsent, Named, Ops, Disk, PairedFiles

----------------------------------------------------------------------------
(* Steps that leave pairing.json alone.                                     *)

LEMMA MemoryStep ==
  ASSUME SessionInv, UNCHANGED <<file, archive, refused>>,
         prog' \in [id : {0} \cup Handoffs, expired : BOOLEAN],
         ans' \in Answers, ans'.st = "absent" => ans.st = "absent",
         consent \subseteq consent', consent' \subseteq Certs,
         {conf', ans'.confirmed} \subseteq {Nobody} \cup consent', gates' \subseteq consent',
         op' \in Ops, Underway', up' \in BOOLEAN, tomb' \in Certs, snap' \in Snaps,
         acc' \in [cert : Certs, gen : 0..MaxGen], tasks' \subseteq Tasks, issued' \in Certs,
         Costs \/ Free
  PROVE  SessionInv'
<1>1. conf' \in Certs /\ gates' \subseteq Certs BY Numbers
<1>2. faults' \in 0..MaxFaults BY CostsTyped DEF SessionInv
<1>3. Typed' BY <1>1, <1>2 DEF SessionInv, Typed, Disk
<1>4. Intended(file', refused') BY DEF SessionInv
<1>5. Named' /\ Grandfathered' BY DEF SessionInv, Named, Grandfathered
<1> QED BY <1>3, <1>4, <1>5 DEF SessionInv, GateNeedsConsent, Intended

(* Nothing durable changes, and nothing of the histories but the count of   *)
(* the credentials issued.                                                  *)
LEMMA SlotStep ==
  ASSUME SessionInv, UNCHANGED durable, UNCHANGED <<consent, refused>>,
         conf' \in {Nobody} \cup consent, gates' \subseteq consent,
         op' \in Ops, Underway', up' \in BOOLEAN, tomb' \in Certs, snap' \in Snaps,
         acc' \in [cert : Certs, gen : 0..MaxGen], tasks' \subseteq Tasks, issued' \in Certs,
         Costs \/ Free
  PROVE  SessionInv'
<1>1. /\ UNCHANGED <<file, archive, refused>> /\ ans' = ans /\ prog' = prog /\ consent' = consent
  BY DEF durable
<1>2. /\ prog \in [id : {0} \cup Handoffs, expired : BOOLEAN] /\ ans \in Answers
      /\ consent \subseteq Certs /\ ans.confirmed \in {Nobody} \cup consent
  BY DEF SessionInv, Typed, Named
<1> QED BY <1>1, <1>2, MemoryStep

(* A ceremony begins.                                                       *)
LEMMA BeginPairStep ==
  ASSUME SessionInv, BeginPair
  PROVE  SessionInv'
<1>1. PICK k \in {"link", "here"} :
        /\ ans' = Prepared /\ conf' = PreparedConf
        /\ \/ op' = [Idle EXCEPT !.at = "settle", !.kind = k] /\ snap' = snap
           \/ op' = [Idle EXCEPT !.at = "dial", !.kind = k] /\ snap' = Ceremony
  BY DEF BeginPair
<1>2. /\ issued < MaxCerts /\ UNCHANGED <<file, archive, prog, up, tomb, acc, gates, tasks>>
      /\ UNCHANGED <<consent, refused, issued, faults>>
  BY DEF BeginPair, Free, history
<1>3. Prepared \in Answers /\ Prepared.confirmed \in {Nobody} \cup consent /\ Prepared.st # "absent"
  BY SettledKinds, Constants DEF Prepared, Settled, Held, EmptyAnswer
<1>4. op' \in Ops /\ op'.at \in {"settle", "dial"} /\ op'.kind = k
  BY <1>1, Constants DEF Ops, Steps, OpKinds
<1>5. conf' \in Certs /\ conf' \in {Nobody} \cup consent
  BY <1>1, <1>3, Numbers DEF PreparedConf, SessionInv, Typed, Named, Answers
<1>6. Typed' BY <1>1, <1>2, <1>3, <1>4, <1>5, Constants DEF SessionInv, Typed
<1>7. Underway' BY <1>1, <1>2, <1>3, <1>4 DEF Underway, Carries
<1>8. Named' /\ Grandfathered' BY <1>1, <1>2, <1>3, <1>5 DEF Named, Grandfathered
<1> QED BY <1>2, <1>6, <1>7, <1>8 DEF SessionInv, GateNeedsConsent

LEMMA BeginFoundStep ==
  ASSUME SessionInv, BeginFound
  PROVE  SessionInv'
<1>1. /\ op' = [Idle EXCEPT !.at = "dial", !.kind = "found"] /\ snap' = Ceremony
      /\ issued < MaxCerts /\ file.cert = Nobody /\ Free
      /\ UNCHANGED <<durable, up, conf, tomb, acc, gates, tasks, consent, refused, issued>>
  BY DEF BeginFound, history
<1>2. op' \in Ops /\ op'.at = "dial" /\ op'.kind = "found"
  BY <1>1, Constants DEF Ops, Steps, OpKinds
<1>3. Underway' BY <1>1, <1>2 DEF Underway, Carries, durable
<1> QED BY <1>1, <1>2, <1>3, Constants, MemoryTyped, SlotStep

LEMMA BeginNativeStep ==
  ASSUME SessionInv, BeginNative
  PROVE  SessionInv'
<1>1. /\ op' = [Idle EXCEPT !.at = "dial", !.kind = "native", !.act = prog.id] /\ snap' = Ceremony
      /\ issued < MaxCerts /\ prog.id # 0 /\ Free
      /\ UNCHANGED <<durable, up, conf, tomb, acc, gates, tasks, consent, refused, issued>>
  BY DEF BeginNative, history
<1>2. prog.id \in {0} \cup Handoffs BY DEF SessionInv, Typed
<1>3. op' \in Ops /\ op'.at = "dial" /\ op'.kind = "native" /\ op'.act # 0
  BY <1>1, <1>2, Constants DEF Ops, Steps, OpKinds
<1>4. Underway' BY <1>1, <1>3 DEF Underway, Carries
<1> QED BY <1>1, <1>3, <1>4, Constants, MemoryTyped, SlotStep

(* A credential is issued, or the handshake fails.                          *)
LEMMA DialledStep ==
  ASSUME SessionInv, Dialled
  PROVE  SessionInv'
<1>1. /\ op.at = "dial" /\ issued' = issued + 1 /\ op' = [op EXCEPT !.at = "save", !.cert = issued + 1]
      /\ UNCHANGED <<durable, up, conf, tomb, snap, acc, gates, tasks, consent, refused>> /\ Free
  BY DEF Dialled, At, memory
<1>2. issued \in Certs /\ issued < MaxCerts /\ op \in Ops
  BY <1>1 DEF SessionInv, Typed, Underway
<1>3. issued + 1 \in Certs /\ issued + 1 # Nobody BY <1>2, Numbers
<1>4. op' \in Ops /\ op'.at = "save" /\ op'.kind = op.kind /\ op'.act = op.act /\ op'.cert # Nobody
  BY <1>1, <1>2, <1>3 DEF Ops, Steps
<1>5. Underway' BY <1>1, <1>4 DEF SessionInv, Underway, Carries, durable
<1> QED BY <1>1, <1>3, <1>4, <1>5, MemoryTyped, SlotStep

(* The slot is free again, or its holder settles what is left.              *)
LEMMA EndsUnder ==
  ASSUME SessionInv, Ends
  PROVE  op' \in Ops /\ Underway'
<1>1. op' \in Ops /\ op'.at = "idle" BY Constants DEF Ends
<1> QED BY <1>1 DEF Underway, Carries

LEMMA GoesUnder ==
  ASSUME SessionInv, NEW st \in Steps, Goes(st),
         st \notin {"dial", "save", "stop", "delete", "answer", "drop"},
         st \in Carries => op.cert # Nobody
  PROVE  op' \in Ops /\ Underway' /\ op'.at = st
<1>1. op' \in Ops /\ op'.at = st /\ op'.cert = op.cert
  <2>1. op \in Ops BY MemoryTyped
  <2>2. op' = [op EXCEPT !.at = st] BY DEF Goes
  <2> QED BY <2>1, <2>2 DEF Ops
<1> QED BY <1>1 DEF Underway

LEMMA DialFailsStep ==
  ASSUME SessionInv, DialFails
  PROVE  SessionInv'
<1>1. /\ Ends \/ Goes("settle")
      /\ snap' \in {snap, Shown("failed", Nobody), Shown("notpaired", Nobody)}
      /\ UNCHANGED <<durable, up, conf, tomb, acc, gates, tasks, consent, refused, issued>>
  BY DEF DialFails, NotVerified, history
<1>2. Costs BY DEF DialFails
<1>3. op' \in Ops /\ Underway' BY <1>1, EndsUnder, GoesUnder DEF Steps, Carries
<1>4. snap' \in Snaps BY <1>1, Constants, MemoryTyped
<1> QED BY <1>1, <1>2, <1>3, <1>4, MemoryTyped, SlotStep

(* CredentialAccess::bind opens a gate only for what was accepted.          *)
LEMMA BindsSound ==
  ASSUME SessionInv, NEW c \in Certs, c # Nobody, NEW g \in 0..MaxGen, Binds(c, g, conf)
  PROVE  acc' \in [cert : Certs, gen : 0..MaxGen] /\ gates' \subseteq consent
  BY MemoryTyped DEF Binds

LEMMA BindPairStep ==
  ASSUME SessionInv, BindPair
  PROVE  SessionInv'
<1>1. /\ op.at = "bind" /\ Binds(op.cert, 0, conf) /\ Free
      /\ Goes("proof") \/ Goes("confirm") \/ Goes("replace")
      /\ snap' \in {snap, Ceremony}
      /\ UNCHANGED <<durable, up, conf, tomb, tasks, consent, refused, issued>>
  BY DEF BindPair, At, history
<1>2. op.cert # Nobody BY <1>1 DEF SessionInv, Underway, Carries
<1>3. acc' \in [cert : Certs, gen : 0..MaxGen] /\ gates' \subseteq consent
  BY <1>1, <1>2, MemoryTyped, Numbers, BindsSound
<1>4. op' \in Ops /\ Underway' BY <1>1, <1>2, GoesUnder DEF Steps, Carries
<1> QED BY <1>1, <1>3, <1>4, Constants, MemoryTyped, SlotStep

LEMMA BindFailsStep ==
  ASSUME SessionInv, BindFails
  PROVE  SessionInv'
<1>1. /\ op.at = "bind" /\ (Goes("load") \/ Goes("settle"))
      /\ UNCHANGED <<durable, up, conf, tomb, snap, acc, gates, tasks, consent, refused, issued>>
  BY DEF BindFails, At, history, memory
<1>2. op.cert # Nobody BY <1>1 DEF SessionInv, Underway, Carries
<1>3. op' \in Ops /\ Underway' BY <1>1, <1>2, GoesUnder DEF Steps, Carries
<1>4. Costs BY DEF BindFails
<1> QED BY <1>1, <1>3, <1>4, MemoryTyped, SlotStep

LEMMA ReplaceUploaderStep ==
  ASSUME SessionInv, ReplaceUploader
  PROVE  SessionInv'
<1>1. /\ op.at = "replace" /\ Free /\ tasks' = Spawned(op.cert)
      /\ Goes("show") \/ Ends
      /\ UNCHANGED <<durable, up, conf, tomb, snap, acc, gates, consent, refused, issued>>
  BY DEF ReplaceUploader, At, history
<1>2. op.cert # Nobody BY <1>1 DEF SessionInv, Underway, Carries
<1>3. op' \in Ops /\ Underway' BY <1>1, <1>2, EndsUnder, GoesUnder DEF Steps, Carries
<1> QED BY <1>1, <1>3, MemoryTyped, SlotStep

LEMMA ShowNativeStep ==
  ASSUME SessionInv, ShowNative
  PROVE  SessionInv'
<1>1. /\ op.at = "show" /\ Free /\ Goes("accept") /\ snap' = Bound(snap, op.cert, conf, tomb)
      /\ UNCHANGED <<durable, up, conf, tomb, acc, gates, tasks, consent, refused, issued>>
  BY DEF ShowNative, At, history
<1>2. op.cert # Nobody BY <1>1 DEF SessionInv, Underway, Carries
<1>3. op' \in Ops /\ Underway' BY <1>1, <1>2, GoesUnder DEF Steps, Carries
<1>4. snap' \in Snaps BY <1>1, MemoryTyped, BoundTyped
<1> QED BY <1>1, <1>3, <1>4, MemoryTyped, SlotStep

LEMMA SettleStep ==
  ASSUME SessionInv, Settle
  PROVE  SessionInv'
<1>1. /\ Free /\ Ends
      /\ snap' \in {snap, Bound(snap, file.cert, conf, tomb), Shown("failed", Nobody)}
      /\ acc' \in {acc, NoAccess} /\ tasks' \in {tasks, Cancelled}
      /\ UNCHANGED <<durable, up, conf, tomb, gates, consent, refused, issued>>
  BY DEF Settle, At, history
<1>2. op' \in Ops /\ Underway' BY <1>1, EndsUnder
<1>3. snap' \in Snaps BY <1>1, Constants, MemoryTyped, BoundTyped
<1> QED BY <1>1, <1>2, <1>3, Constants, MemoryTyped, SlotStep

LEMMA BeginFinishStep ==
  ASSUME SessionInv, BeginFinish
  PROVE  SessionInv'
<1>1. /\ file.cert # Nobody /\ Free
      /\ op' = [at |-> "identity", kind |-> "finish", cert |-> file.cert, gen |-> file.gen, act |-> file.act]
      /\ UNCHANGED <<durable, up, conf, tomb, snap, acc, gates, tasks, consent, refused, issued>>
  BY DEF BeginFinish, history, memory
<1>2. file \in PairedFiles /\ file.gen \in 0..MaxGen BY <1>1 DEF SessionInv, Typed, Disk
<1>3. op' \in Ops /\ op'.at = "identity" /\ op'.cert = file.cert
  BY <1>1, <1>2 DEF Ops, Steps, OpKinds, PairedFiles
<1>4. Underway' BY <1>1, <1>3 DEF Underway, Carries
<1> QED BY <1>1, <1>3, <1>4, MemoryTyped, SlotStep

LEMMA RestoreNativeStep ==
  ASSUME SessionInv, RestoreNative
  PROVE  SessionInv'
<1>1. /\ op.at = "identity" /\ Free
      /\ \/ Binds(op.cert, op.gen, conf) /\ Goes("replace")
         \/ Ends /\ UNCHANGED <<acc, gates>>
      /\ UNCHANGED <<durable, up, conf, tomb, snap, tasks, consent, refused, issued>>
  BY DEF RestoreNative, At, history
<1>2. op.cert # Nobody BY <1>1 DEF SessionInv, Underway, Carries
<1>3. op' \in Ops /\ Underway' BY <1>1, <1>2, EndsUnder, GoesUnder DEF Steps, Carries
<1>4. acc' \in [cert : Certs, gen : 0..MaxGen] /\ gates' \subseteq consent
  BY <1>1, <1>2, MemoryTyped, BindsSound
<1> QED BY <1>1, <1>3, <1>4, MemoryTyped, SlotStep

LEMMA FinishFailsStep ==
  ASSUME SessionInv, FinishFails
  PROVE  SessionInv'
<1>1. /\ Costs /\ Ends
      /\ UNCHANGED <<durable, up, conf, tomb, snap, acc, gates, tasks, consent, refused, issued>>
  BY DEF FinishFails, history, memory
<1>2. op' \in Ops /\ Underway' BY <1>1, EndsUnder
<1> QED BY <1>1, <1>2, MemoryTyped, SlotStep

----------------------------------------------------------------------------
(* The owner's answer, and what is beside the holder of the slot.           *)

LEMMA OwnerRefusesStep ==
  ASSUME SessionInv, OwnerRefuses
  PROVE  SessionInv'
<1>1. PICK b \in 1..MaxCerts : op' = [Idle EXCEPT !.at = "load", !.kind = "answer", !.cert = b]
  BY DEF OwnerRefuses
<1>2. b \in Certs /\ b # Nobody BY SessionAssumption DEF SessionAssumption, Certs, Nobody
<1>3. op' \in Ops /\ op'.at = "load" /\ op'.cert = b
  BY <1>1, <1>2, Constants DEF Ops, Steps, OpKinds
<1>4. Underway' BY <1>2, <1>3 DEF Underway
<1>5. Free /\ UNCHANGED <<durable, up, conf, tomb, snap, acc, gates, tasks, consent, refused, issued>>
  BY DEF OwnerRefuses, history, memory
<1> QED BY <1>3, <1>4, <1>5, MemoryTyped, SlotStep

LEMMA UnderwayKept ==
  ASSUME SessionInv, UNCHANGED <<op, file, issued>>, ans'.st = "absent" => ans.st = "absent"
  PROVE  Underway'
  BY DEF SessionInv, Underway

(* confirm_current, whose caller has the owner's consent or the proof.      *)
LEMMA ConfirmNowSound ==
  ASSUME SessionInv, NEW b \in Certs, ConfirmNow(b), consent' = consent \cup {b}
  PROVE  /\ ans' \in Answers /\ ans'.st # "absent" /\ Free
         /\ {conf', ans'.confirmed} \subseteq {Nobody} \cup consent'
         /\ gates' \subseteq consent' /\ snap' \in Snaps
         /\ consent \subseteq consent' /\ consent' \subseteq Certs
<1>1. Typed BY DEF SessionInv
<1>2. ConfirmedAnswer(b) \in Answers /\ ConfirmedAnswer(b).confirmed = b /\ ConfirmedAnswer(b).st = "ok"
  BY <1>1, AnswerKinds
<1>3. snap' \in Snaps BY MemoryTyped, BoundTyped DEF ConfirmNow
<1>4. ans' = ConfirmedAnswer(b) /\ conf' = b /\ gates' = gates \cup {b} /\ Free BY DEF ConfirmNow
<1>5. consent \subseteq Certs BY <1>1 DEF Typed
<1> QED BY <1>2, <1>3, <1>4, <1>5, MemoryTyped

LEMMA ConfirmFailsSound ==
  ASSUME SessionInv, NEW b \in Certs, ConfirmFails(b), consent' = consent \cup {b}
  PROVE  /\ ans' \in Answers /\ (ans'.st = "absent" => ans.st = "absent") /\ (Costs \/ Free)
         /\ ans'.confirmed \in {Nobody} \cup consent'
         /\ consent \subseteq consent' /\ consent' \subseteq Certs
<1>1. Typed /\ ans \in Answers /\ consent \subseteq Certs BY DEF SessionInv, Typed
<1>2. ConfirmedAnswer(b) \in Answers /\ ConfirmedAnswer(b).confirmed = b /\ ConfirmedAnswer(b).st = "ok"
  BY <1>1, AnswerKinds
<1>3. ans' \in {ans, ConfirmedAnswer(b)} /\ (Costs \/ Free) BY DEF ConfirmFails
<1>4. ans.confirmed \in {Nobody} \cup consent BY DEF SessionInv, Named
<1> QED BY <1>1, <1>2, <1>3, <1>4

LEMMA ProgTyped ==
  ASSUME SessionInv
  PROVE  /\ prog \in [id : {0} \cup Handoffs, expired : BOOLEAN] /\ ans \in Answers
         /\ consent \subseteq Certs /\ ans.confirmed \in {Nobody} \cup consent
  BY DEF SessionInv, Typed, Named

LEMMA OwnerConfirmsStep ==
  ASSUME SessionInv, OwnerConfirms
  PROVE  SessionInv'
<1>1. PICK b \in 1..MaxCerts :
        /\ consent' = consent \cup {b}
        /\ \/ ConfirmNow(b)
           \/ ConfirmFails(b) /\ UNCHANGED <<conf, gates, snap>>
  BY DEF OwnerConfirms
<1>2. b \in Certs BY SessionAssumption DEF SessionAssumption, Certs
<1>3. UNCHANGED <<file, archive, prog, up, op, tomb, acc, tasks, refused, issued>> BY DEF OwnerConfirms
<1>4. /\ ans' \in Answers /\ (ans'.st = "absent" => ans.st = "absent") /\ (Costs \/ Free)
      /\ {conf', ans'.confirmed} \subseteq {Nobody} \cup consent'
      /\ gates' \subseteq consent' /\ snap' \in Snaps
      /\ consent \subseteq consent' /\ consent' \subseteq Certs
  <2>1. CASE ConfirmNow(b) BY <1>1, <1>2, <2>1, ConfirmNowSound
  <2>2. CASE ConfirmFails(b) /\ UNCHANGED <<conf, gates, snap>>
    BY <1>1, <1>2, <2>2, ConfirmFailsSound, MemoryTyped
  <2> QED BY <1>1, <2>1, <2>2
<1>5. Underway' BY <1>3, <1>4, UnderwayKept
<1> QED BY <1>3, <1>4, <1>5, MemoryTyped, ProgTyped, MemoryStep

LEMMA ProvenHereStep ==
  ASSUME SessionInv, ProvenHere
  PROVE  SessionInv'
<1>1. /\ op.at = "proof" /\ Goes("replace") /\ ConfirmNow(op.cert) /\ consent' = consent \cup {op.cert}
      /\ UNCHANGED <<file, archive, prog, up, tomb, acc, tasks, refused, issued>>
  BY DEF ProvenHere, At
<1>2. op.cert # Nobody /\ op.cert \in Certs BY <1>1, MemoryTyped DEF SessionInv, Underway, Carries
<1>3. op' \in Ops /\ Underway' BY <1>1, <1>2, GoesUnder DEF Steps, Carries
<1>4. /\ ans' \in Answers /\ ans'.st # "absent" /\ Free
      /\ {conf', ans'.confirmed} \subseteq {Nobody} \cup consent'
      /\ gates' \subseteq consent' /\ snap' \in Snaps
      /\ consent \subseteq consent' /\ consent' \subseteq Certs
  BY <1>1, <1>2, ConfirmNowSound
<1> QED BY <1>1, <1>3, <1>4, MemoryTyped, ProgTyped, MemoryStep

LEMMA NotProvenHereStep ==
  ASSUME SessionInv, NotProvenHere
  PROVE  SessionInv'
<1>1. /\ op.at = "proof" /\ Goes("replace") /\ snap' = Bound(snap, op.cert, conf, tomb)
      /\ \/ ConfirmFails(op.cert) /\ consent' = consent \cup {op.cert}
         \/ Costs /\ UNCHANGED <<ans, consent>>
      /\ UNCHANGED <<file, archive, prog, up, conf, tomb, acc, gates, tasks, refused, issued>>
  BY DEF NotProvenHere, At
<1>2. op.cert # Nobody /\ op.cert \in Certs BY <1>1, MemoryTyped DEF SessionInv, Underway, Carries
<1>3. op' \in Ops /\ Underway' BY <1>1, <1>2, GoesUnder DEF Steps, Carries
<1>4. snap' \in Snaps BY <1>1, MemoryTyped, BoundTyped
<1>5. /\ ans' \in Answers /\ (ans'.st = "absent" => ans.st = "absent") /\ (Costs \/ Free)
      /\ ans'.confirmed \in {Nobody} \cup consent'
      /\ consent \subseteq consent' /\ consent' \subseteq Certs
  <2>1. CASE ConfirmFails(op.cert) /\ consent' = consent \cup {op.cert}
    BY <1>2, <2>1, ConfirmFailsSound
  <2>2. CASE Costs /\ UNCHANGED <<ans, consent>> BY <2>2, ProgTyped
  <2> QED BY <1>1, <2>1, <2>2
<1> QED BY <1>1, <1>3, <1>4, <1>5, MemoryTyped, ProgTyped, MemoryStep

LEMMA ConfirmFoundStep ==
  ASSUME SessionInv, ConfirmFound
  PROVE  SessionInv'
<1>1. /\ op.at = "confirm" /\ consent' = consent \cup {op.cert}
      /\ \/ ConfirmNow(op.cert) /\ Goes("replace")
         \/ ConfirmFails(op.cert) /\ Goes("load") /\ UNCHANGED <<conf, gates, snap>>
      /\ UNCHANGED <<file, archive, prog, up, tomb, acc, tasks, refused, issued>>
  BY DEF ConfirmFound, At
<1>2. op.cert # Nobody /\ op.cert \in Certs BY <1>1, MemoryTyped DEF SessionInv, Underway, Carries
<1>3. op' \in Ops /\ Underway' BY <1>1, <1>2, GoesUnder DEF Steps, Carries
<1>4. /\ ans' \in Answers /\ (ans'.st = "absent" => ans.st = "absent") /\ (Costs \/ Free)
      /\ {conf', ans'.confirmed} \subseteq {Nobody} \cup consent'
      /\ gates' \subseteq consent' /\ snap' \in Snaps
      /\ consent \subseteq consent' /\ consent' \subseteq Certs
  <2>1. CASE ConfirmNow(op.cert) BY <1>1, <1>2, <2>1, ConfirmNowSound
  <2>2. CASE ConfirmFails(op.cert) /\ UNCHANGED <<conf, gates, snap>>
    BY <1>1, <1>2, <2>2, ConfirmFailsSound, MemoryTyped
  <2> QED BY <1>1, <2>1, <2>2
<1> QED BY <1>1, <1>3, <1>4, MemoryTyped, ProgTyped, MemoryStep

LEMMA AcceptNativeStep ==
  ASSUME SessionInv, AcceptNative
  PROVE  SessionInv'
<1>1. /\ op.at = "accept" /\ Ends
      /\ \/ ConfirmNow(op.cert) /\ consent' = consent \cup {op.cert}
         \/ ConfirmFails(op.cert) /\ UNCHANGED <<conf, gates, snap>> /\ consent' = consent \cup {op.cert}
         \/ Free /\ UNCHANGED <<ans, conf, gates, snap, consent>>
      /\ UNCHANGED <<file, archive, prog, up, tomb, acc, tasks, refused, issued>>
  BY DEF AcceptNative, At
<1>2. op.cert \in Certs BY MemoryTyped
<1>3. op' \in Ops /\ Underway' BY <1>1, EndsUnder
<1>4. /\ ans' \in Answers /\ (ans'.st = "absent" => ans.st = "absent") /\ (Costs \/ Free)
      /\ {conf', ans'.confirmed} \subseteq {Nobody} \cup consent'
      /\ gates' \subseteq consent' /\ snap' \in Snaps
      /\ consent \subseteq consent' /\ consent' \subseteq Certs
  <2>1. CASE ConfirmNow(op.cert) /\ consent' = consent \cup {op.cert}
    BY <1>2, <2>1, ConfirmNowSound
  <2>2. CASE ConfirmFails(op.cert) /\ UNCHANGED <<conf, gates, snap>> /\ consent' = consent \cup {op.cert}
    BY <1>2, <2>2, ConfirmFailsSound, MemoryTyped
  <2>3. CASE Free /\ UNCHANGED <<ans, conf, gates, snap, consent>>
    BY <2>3, MemoryTyped, ProgTyped
  <2> QED BY <1>1, <2>1, <2>2, <2>3
<1> QED BY <1>1, <1>3, <1>4, MemoryTyped, ProgTyped, MemoryStep

(* The uploaders and the clock.                                             *)
LEMMA UploaderSteps ==
  ASSUME SessionInv, UploaderPublishes \/ UploaderFails \/ UploaderEnds
  PROVE  SessionInv'
<1>1. UNCHANGED <<durable, up, op, conf, tomb, acc, gates, consent, refused, issued>> /\ (Costs \/ Free)
  BY DEF UploaderPublishes, UploaderFails, UploaderEnds, history
<1>2. tasks' \subseteq Tasks /\ snap' \in Snaps
  <2>1. CASE UploaderPublishes
    <3>1. PICK t \in tasks : /\ tasks' = (tasks \ {t}) \cup {[t EXCEPT !.said = TRUE]}
                             /\ snap' = Bound(snap, t.cert, conf, tomb)
      BY <2>1 DEF UploaderPublishes
    <3>2. t \in Tasks /\ t.cert \in Certs BY MemoryTyped DEF Tasks
    <3>3. [t EXCEPT !.said = TRUE] \in Tasks BY <3>2 DEF Tasks
    <3>4. snap' \in Snaps BY <3>1, <3>2, MemoryTyped, BoundTyped
    <3> QED BY <3>1, <3>3, <3>4, MemoryTyped
  <2>2. CASE UploaderFails
    <3>1. PICK t \in tasks : snap' = BoundFailed(snap, t.cert, conf, tomb) BY <2>2 DEF UploaderFails
    <3>2. t.cert \in Certs /\ tasks' = tasks BY <2>2, MemoryTyped DEF Tasks, UploaderFails
    <3>3. snap' \in Snaps BY <3>1, <3>2, MemoryTyped, BoundTyped
    <3> QED BY <3>2, <3>3, MemoryTyped
  <2>3. CASE UploaderEnds BY <2>3, MemoryTyped DEF UploaderEnds
  <2> QED BY <2>1, <2>2, <2>3
<1>3. Underway' BY <1>1, UnderwayKept DEF durable
<1> QED BY <1>1, <1>2, <1>3, MemoryTyped, SlotStep

LEMMA HandoffExpiresStep ==
  ASSUME SessionInv, HandoffExpires
  PROVE  SessionInv'
<1>1. /\ prog' = [prog EXCEPT !.expired = TRUE] /\ Free
      /\ UNCHANGED <<file, archive, ans, up, op, conf, tomb, snap, acc, gates, tasks, consent, refused, issued>>
  BY DEF HandoffExpires, memory, history
<1>2. prog' \in [id : {0} \cup Handoffs, expired : BOOLEAN] BY <1>1, ProgTyped
<1>3. Underway' BY <1>1, UnderwayKept
<1> QED BY <1>1, <1>2, <1>3, MemoryTyped, ProgTyped, MemoryStep

(* The program stops, by a crash or by its owner.                           *)
LEMMA StoppedStep ==
  ASSUME SessionInv, Crash \/ Quit
  PROVE  SessionInv'
<1>1. /\ up' = FALSE /\ Ends /\ conf' = Nobody /\ tomb' = Nobody /\ snap' = Shown("notpaired", Nobody)
      /\ acc' = NoAccess /\ gates' = {} /\ tasks' = {} /\ (Costs \/ Free)
      /\ UNCHANGED <<durable, consent, refused, issued>>
  BY DEF Crash, Quit, Stopped, history, Ends
<1>2. op' \in Ops /\ Underway' BY <1>1, EndsUnder
<1> QED BY <1>1, <1>2, Constants, Numbers, MemoryTyped, SlotStep

----------------------------------------------------------------------------
(* Steps that write pairing.json.                                           *)

LEMMA FileStep ==
  ASSUME SessionInv, Disk(file'), archive' \in PairedFiles, Intended(file', refused'),
         refused' \subseteq Certs, UNCHANGED <<prog, consent, issued, gates, tasks>>,
         ans' \in Answers, {conf', ans'.confirmed} \subseteq {Nobody} \cup consent, Grandfathered',
         op' \in Ops, Underway', up' \in BOOLEAN, tomb' \in Certs, snap' \in Snaps,
         acc' \in [cert : Certs, gen : 0..MaxGen], Costs \/ Free
  PROVE  SessionInv'
<1>1. conf' \in Certs BY Numbers, ProgTyped
<1>2. faults' \in 0..MaxFaults BY CostsTyped DEF SessionInv
<1>3. Typed' BY <1>1, <1>2 DEF SessionInv, Typed, Disk
<1>4. Named' /\ GateNeedsConsent' BY DEF SessionInv, Named, GateNeedsConsent
<1> QED BY <1>3, <1>4 DEF SessionInv, Intended

(* A file whose credential and activation are the ones before, or that has  *)
(* no credential, does not need the owner's answer again.                   *)
LEMMA StaysGrandfathered ==
  ASSUME SessionInv, UNCHANGED consent, ans'.st = "absent" => ans.st = "absent",
         file'.cert = Nobody \/ (file'.cert = file.cert /\ file'.act = file.act)
  PROVE  Grandfathered'
  BY DEF SessionInv, Grandfathered

LEMMA FileTyped ==
  ASSUME SessionInv
  PROVE  /\ Disk(file) /\ file \in PairedFiles /\ archive \in PairedFiles /\ refused \subseteq Certs
         /\ file.cert \in Certs /\ file.act \in {0} \cup Handoffs /\ Intended(file, refused)
  BY DEF SessionInv, Typed, Disk, PairedFiles

(* The new credential is saved.                                             *)
LEMMA SavePairStep ==
  ASSUME SessionInv, SavePair
  PROVE  SessionInv'
<1>1. /\ op.at = "save"
      /\ UNCHANGED <<archive, prog, up, tomb, acc, gates, tasks, consent, refused, issued>>
  BY DEF SavePair, At, history
<1>2. /\ op.cert # Nobody /\ op.cert \in Certs /\ op.act \in {0} \cup Handoffs
      /\ op.kind \in {"link", "here", "found", "native"}
      /\ (op.kind \in {"link", "here"} => ans.st # "absent")
      /\ (op.kind = "native" => op.act # 0)
  BY <1>1, MemoryTyped DEF SessionInv, Underway, Carries
<1>3. PICK o \in Outcomes :
        /\ Outcome(o) /\ file' = (IF o = "failed" THEN file ELSE NewFile)
        /\ IF op.kind = "found" THEN ans' = Prepared /\ conf' = PreparedConf
                                ELSE UNCHANGED <<ans, conf>>
        /\ \/ Goes("bind") /\ snap' \in {Bound(snap, op.cert, conf, tomb), Ceremony, snap}
           \/ NotVerified
           \/ Goes("settle") /\ snap' \in {snap, Shown("failed", Nobody)}
  BY DEF SavePair
<1>4. Costs \/ Free BY <1>3 DEF Outcome
<1>5. /\ Disk(NewFile) /\ NewFile.cert = op.cert /\ NewFile.act = op.act /\ ~Retiring(NewFile)
  <2> DEFINE f == FreshPair(op.cert, op.act)
  <2>1. Disk(f) /\ f.cert = op.cert /\ f.act = op.act /\ ~Retiring(f) BY <1>2, FreshKeeps
  <2> HIDE DEF f
  <2>2. f \in PairedFiles BY <2>1 DEF Disk
  <2>3. NewFile = Saved(file, archive, f) BY DEF NewFile, f
  <2> QED BY <2>1, <2>2, <2>3, SavedKeeps, FileTyped
<1>6. Disk(file') /\ Intended(file', refused') BY <1>1, <1>3, <1>5, FileTyped DEF Intended
<1>7. Prepared \in Answers /\ Prepared.confirmed \in {Nobody} \cup consent /\ Prepared.st # "absent"
  BY SettledKinds, Constants DEF Prepared, Settled, Held, EmptyAnswer
<1>8. /\ ans' \in Answers /\ {conf', ans'.confirmed} \subseteq {Nobody} \cup consent
      /\ (ans'.st = "absent" => op.kind = "native" /\ ans.st = "absent")
  BY <1>2, <1>3, <1>7, ProgTyped, MemoryTyped DEF PreparedConf
<1>9. Grandfathered'
  <2>1. CASE file' = file
    BY <1>1, <1>8, <2>1, StaysGrandfathered
  <2>2. CASE file' = NewFile BY <1>2, <1>5, <1>8, <2>2 DEF Grandfathered
  <2> QED BY <1>3, <2>1, <2>2
<1>10. op' \in Ops /\ Underway' BY <1>2, <1>3, EndsUnder, GoesUnder DEF Steps, Carries, NotVerified
<1>11. snap' \in Snaps BY <1>2, <1>3, Constants, MemoryTyped, BoundTyped DEF NotVerified
<1> QED BY <1>1, <1>4, <1>6, <1>8, <1>9, <1>10, <1>11, FileTyped, MemoryTyped, FileStep

(* The pairing is loaded for its refusal.                                   *)
LEMMA LoadForRefusalStep ==
  ASSUME SessionInv, LoadForRefusal
  PROVE  SessionInv'
<1>1. /\ op.at = "load" /\ Free /\ ans' = Legible(ans)
      /\ \/ /\ file.cert = op.cert /\ op' = [op EXCEPT !.at = "install", !.gen = file.gen]
            /\ UNCHANGED snap
         \/ RetirementPending
         \/ Ends /\ UNCHANGED snap
      /\ UNCHANGED <<file, archive, prog, up, conf, tomb, acc, gates, tasks, consent, refused, issued>>
  BY DEF LoadForRefusal, At, history
<1>2. op.cert # Nobody BY <1>1 DEF SessionInv, Underway, Carries
<1>3. /\ ans' \in Answers /\ ans'.confirmed \in {Nobody} \cup consent
      /\ (ans'.st = "absent" => ans.st = "absent")
  BY <1>1, AnswerKinds, ProgTyped, Numbers DEF SessionInv
<1>4. CASE file.cert = op.cert /\ op' = [op EXCEPT !.at = "install", !.gen = file.gen] /\ UNCHANGED snap
  <2>1. file.gen \in 0..MaxGen BY <1>2, <1>4, FileTyped DEF Disk
  <2>2. op' \in Ops /\ op'.at = "install" /\ op'.cert = op.cert
    BY <1>4, <2>1, MemoryTyped DEF Ops, Steps
  <2>3. Underway' BY <1>2, <2>2 DEF Underway
  <2> QED BY <1>1, <1>3, <1>4, <2>2, <2>3, MemoryTyped, ProgTyped, MemoryStep
<1>5. CASE Ends /\ snap' \in {snap, Shown("failed", Nobody)}
  <2>1. op' \in Ops /\ Underway' BY <1>5, EndsUnder
  <2>2. snap' \in Snaps BY <1>5, Constants, MemoryTyped
  <2> QED BY <1>1, <1>3, <2>1, <2>2, MemoryTyped, ProgTyped, MemoryStep
<1> QED BY <1>1, <1>4, <1>5 DEF RetirementPending

(* The retirement of a pairing goes on with it.                             *)
LEMMA RetiresUnder ==
  ASSUME SessionInv, NEW st \in {"stop", "delete", "answer", "drop"}, Goes(st), Retiring(file'),
         op.cert # Nobody \/ st # "stop"
  PROVE  op' \in Ops /\ Underway'
<1>1. op' \in Ops /\ op'.at = st /\ op'.cert = op.cert
  <2>1. op \in Ops BY MemoryTyped
  <2>2. op' = [op EXCEPT !.at = st] BY DEF Goes
  <2> QED BY <2>1, <2>2 DEF Ops, Steps
<1> QED BY <1>1 DEF Underway, Carries

(* The intent is saved.                                                     *)
LEMMA InstallIntentStep ==
  ASSUME SessionInv, InstallIntent
  PROVE  SessionInv'
<1> DEFINE new == Saved(file, archive, WithIntent(file))
<1>1. /\ op.at = "install"
      /\ UNCHANGED <<archive, ans, prog, up, conf, tomb, acc, gates, tasks, consent, issued>>
  BY DEF InstallIntent, At
<1>2. PICK o \in Outcomes :
        /\ IF CanInstall(file, op.cert, op.gen)
           THEN /\ Outcome(o) /\ file' = (IF o = "failed" THEN file ELSE new)
                /\ refused' = IF o = "failed" THEN refused ELSE refused \cup {op.cert}
           ELSE Free /\ o = "failed" /\ UNCHANGED <<file, refused>>
        /\ IF o = "ok" THEN Goes("stop") /\ UNCHANGED snap ELSE RetirementPending
  BY DEF InstallIntent
<1>3. Costs \/ Free BY <1>2 DEF Outcome
<1>4. op.cert # Nobody /\ op.cert \in Certs BY <1>1, MemoryTyped DEF SessionInv, Underway, Carries
<1>5. CASE UNCHANGED <<file, refused>> /\ o # "ok"
  <2>1. Ends /\ snap' = Shown("failed", Nobody) BY <1>2, <1>5 DEF RetirementPending
  <2>2. op' \in Ops /\ Underway' BY <2>1, EndsUnder
  <2>3. UNCHANGED durable BY <1>1, <1>5 DEF durable
  <2> QED BY <1>1, <1>3, <1>5, <2>1, <2>2, <2>3, Constants, MemoryTyped, SlotStep
<1>6. CASE file.cert = op.cert /\ file' = new /\ refused' = refused \cup {op.cert}
  <2> DEFINE g == WithIntent(file)
  <2>1. /\ Disk(g) /\ g.cert = file.cert /\ g.act = file.act /\ Retiring(g)
        /\ g.intent.cert = g.cert /\ g.intent.gen = g.gen
    BY <1>4, <1>6, FileTyped, IntentKeeps
  <2> HIDE DEF g
  <2>2. g \in PairedFiles BY <2>1 DEF Disk
  <2>3. file' = Saved(file, archive, g) BY <1>6 DEF g
  <2>4. /\ Disk(file') /\ file'.cert = g.cert /\ file'.gen = g.gen /\ file'.intent = g.intent
        /\ file'.act = g.act /\ Retiring(file')
    BY <2>1, <2>2, <2>3, FileTyped, SavedKeeps
  <2>5. Intended(file', refused') BY <1>4, <1>6, <2>1, <2>4 DEF Intended
  <2>6. Grandfathered' BY <1>1, <2>1, <2>4, StaysGrandfathered
  <2>7. op' \in Ops /\ Underway' /\ snap' \in Snaps
    BY <1>2, <1>4, <2>4, EndsUnder, RetiresUnder, Constants, MemoryTyped DEF RetirementPending
  <2> QED BY <1>1, <1>3, <1>4, <1>6, <2>4, <2>5, <2>6, <2>7, FileTyped, MemoryTyped, ProgTyped, FileStep
<1> QED BY <1>2, <1>5, <1>6 DEF CanInstall, Outcomes

(* The answer is saved and the access goes.                                 *)
LEMMA StopForRefusalStep ==
  ASSUME SessionInv, StopForRefusal
  PROVE  SessionInv'
<1>1. /\ op.at = "stop" /\ tasks' = Cancelled /\ acc' = NoAccess
      /\ UNCHANGED <<file, archive, prog, up, conf, tomb, gates, consent, refused, issued>>
  BY DEF StopForRefusal, At, history
<1> DEFINE said == [st |-> "ok", confirmed |-> ans.confirmed, rejected |-> op.cert]
<1>2. PICK o \in Outcomes :
        /\ Outcome(o) /\ ans' = (IF o = "failed" THEN ans ELSE said)
        /\ IF o = "ok" THEN Goes("delete") /\ UNCHANGED snap ELSE RetirementPending
  BY DEF StopForRefusal
<1>3. Costs \/ Free BY <1>2 DEF Outcome
<1>4. said \in Answers /\ said.st = "ok" /\ said.confirmed = ans.confirmed
  BY MemoryTyped, ProgTyped DEF Answers
<1> HIDE DEF said
<1>5. ans' \in Answers /\ ans'.confirmed = ans.confirmed /\ (ans'.st = "absent" => ans.st = "absent")
  BY <1>2, <1>4, ProgTyped
<1>6. Retiring(file') BY <1>1 DEF SessionInv, Underway
<1>7. op' \in Ops /\ Underway' /\ snap' \in Snaps
  BY <1>2, <1>6, EndsUnder, RetiresUnder, Constants, MemoryTyped DEF RetirementPending
<1> QED BY <1>1, <1>3, <1>5, <1>7, Constants, MemoryTyped, ProgTyped, MemoryStep

(* The journal is told, and the intent's phase says what it said.           *)
LEMMA DeleteAtJournalStep ==
  ASSUME SessionInv, DeleteAtJournal
  PROVE  SessionInv'
<1>1. /\ op.at = "delete"
      /\ UNCHANGED <<archive, ans, prog, up, conf, tomb, acc, gates, tasks, consent, refused, issued>>
  BY DEF DeleteAtJournal, At, history
<1>2. PICK p \in {"succeeded", "unknown"}, o \in Outcomes :
        /\ Outcome(o)
        /\ file' = IF o = "failed" THEN file ELSE Saved(file, archive, [file EXCEPT !.intent.phase = p])
        /\ IF o = "ok" THEN Goes("answer") /\ UNCHANGED snap ELSE GivesUp
  BY DEF DeleteAtJournal
<1>3. Costs \/ Free BY <1>2 DEF Outcome
<1>4. Retiring(file) BY <1>1 DEF SessionInv, Underway
<1>5. /\ Disk(file') /\ file'.cert = file.cert /\ file'.act = file.act /\ Retiring(file')
      /\ Intended(file', refused')
  <2>1. CASE file' = file BY <1>1, <1>4, <2>1, FileTyped
  <2>2. CASE file' = Saved(file, archive, [file EXCEPT !.intent.phase = p])
    <3> DEFINE g == [file EXCEPT !.intent.phase = p]
    <3>1. /\ Disk(g) /\ g.cert = file.cert /\ g.act = file.act /\ g.gen = file.gen /\ Retiring(g)
          /\ g.intent.cert = file.intent.cert /\ g.intent.gen = file.intent.gen
      BY FileTyped, PhaseKeeps
    <3>2. file' = Saved(file, archive, g) BY <2>2
    <3> HIDE DEF g
    <3>3. g \in PairedFiles BY <3>1 DEF Disk
    <3>4. /\ Disk(file') /\ file'.cert = g.cert /\ file'.gen = g.gen /\ file'.intent = g.intent
          /\ file'.act = g.act /\ Retiring(file')
      BY <3>1, <3>2, <3>3, FileTyped, SavedKeeps
    <3> QED BY <1>1, <1>4, <3>1, <3>4, FileTyped DEF Intended
  <2> QED BY <1>2, <2>1, <2>2
<1>6. Grandfathered' BY <1>1, <1>5, StaysGrandfathered
<1>7. op' \in Ops /\ Underway' /\ snap' \in Snaps
  BY <1>2, <1>5, EndsUnder, RetiresUnder, Constants, MemoryTyped DEF RetirementPending, GivesUp
<1> QED BY <1>1, <1>3, <1>5, <1>6, <1>7, FileTyped, MemoryTyped, ProgTyped, FileStep

LEMMA ClearAnswerStep ==
  ASSUME SessionInv, ClearAnswer
  PROVE  SessionInv'
<1>1. /\ op.at = "answer" /\ (Costs \/ Free) /\ ans' \in {ans, EmptyAnswer}
      /\ (Goes("drop") /\ UNCHANGED snap) \/ GivesUp
      /\ UNCHANGED <<file, archive, prog, up, conf, tomb, acc, gates, tasks, consent, refused, issued>>
  BY DEF ClearAnswer, At, history
<1>2. /\ ans' \in Answers /\ ans'.confirmed \in {Nobody} \cup consent
      /\ (ans'.st = "absent" => ans.st = "absent")
  BY <1>1, ProgTyped, Constants
<1>3. Retiring(file') BY <1>1 DEF SessionInv, Underway
<1>4. op' \in Ops /\ Underway' /\ snap' \in Snaps
  BY <1>1, <1>3, EndsUnder, RetiresUnder, Constants, MemoryTyped DEF RetirementPending, GivesUp
<1> QED BY <1>1, <1>2, <1>4, MemoryTyped, ProgTyped, MemoryStep

LEMMA DropPairingStep ==
  ASSUME SessionInv, DropPairing
  PROVE  SessionInv'
<1>1. /\ op.at = "drop"
      /\ UNCHANGED <<archive, ans, prog, up, acc, gates, tasks, consent, refused, issued>>
  BY DEF DropPairing, At, history
<1>2. PICK o \in Outcomes :
        /\ Outcome(o) /\ file' = (IF o = "failed" THEN file ELSE Saved(file, archive, Cleared(file)))
        /\ \/ GivesUp /\ UNCHANGED <<conf, tomb>>
           \/ Goes("resume") /\ UNCHANGED <<conf, tomb, snap>>
           \/ /\ Ends /\ conf' = Nobody /\ snap' = Shown("notpaired", Nobody)
              /\ tomb' \in {Tombstone(snap, tomb), tomb}
  BY DEF DropPairing
<1>3. Costs \/ Free BY <1>2 DEF Outcome
<1>4. Retiring(file) /\ file.cert # Nobody BY <1>1 DEF SessionInv, Underway, Intended
<1>5. /\ Disk(file') /\ Intended(file', refused')
      /\ (file'.cert = Nobody \/ (file'.cert = file.cert /\ file'.act = file.act))
  <2>1. CASE file' = file BY <1>1, <2>1, FileTyped
  <2>2. CASE file' = Saved(file, archive, Cleared(file))
    <3> DEFINE g == Cleared(file)
    <3>1. Disk(g) /\ g.cert = Nobody /\ ~Retiring(g) BY <1>4, FileTyped, ClearedKeeps
    <3>2. file' = Saved(file, archive, g) BY <2>2
    <3> HIDE DEF g
    <3>3. g \in PairedFiles BY <3>1 DEF Disk
    <3>4. Disk(file') /\ file'.cert = Nobody /\ ~Retiring(file')
      BY <3>1, <3>2, <3>3, FileTyped, SavedKeeps
    <3> QED BY <3>4 DEF Intended
  <2> QED BY <1>2, <2>1, <2>2
<1>6. Grandfathered' BY <1>1, <1>5, StaysGrandfathered
<1>7. op' \in Ops /\ Underway'
  BY <1>2, EndsUnder, GoesUnder DEF RetirementPending, GivesUp, Steps, Carries
<1>8. snap' \in Snaps /\ tomb' \in Certs /\ conf' \in {Nobody} \cup consent
  BY <1>2, Constants, MemoryTyped DEF RetirementPending, GivesUp, Tombstone, Snaps
<1> QED BY <1>1, <1>3, <1>5, <1>6, <1>7, <1>8, FileTyped, MemoryTyped, ProgTyped, FileStep

(* The access and the browser.                                              *)
LEMMA AccessMutatesStep ==
  ASSUME SessionInv, AccessMutates
  PROVE  SessionInv'
<1>1. /\ CanMutate(file, acc.cert, acc.gen) /\ file.gen < MaxGen
      /\ file' = Saved(file, archive, Mutated(file))
      /\ \/ Free /\ acc' = [acc EXCEPT !.gen = file.gen + 1]
         \/ Costs /\ UNCHANGED acc
      /\ UNCHANGED <<archive, ans, prog, up, op, conf, tomb, snap, gates, tasks, consent, refused, issued>>
  BY DEF AccessMutates, history
<1>2. file.cert # Nobody /\ ~Retiring(file) BY <1>1 DEF CanMutate
<1>3. file.gen + 1 \in 0..MaxGen BY <1>1, <1>2, FileTyped, Numbers DEF Disk
<1>4. acc' \in [cert : Certs, gen : 0..MaxGen] BY <1>1, <1>3, MemoryTyped
<1> DEFINE g == Mutated(file)
<1>5. Disk(g) /\ g.cert = file.cert /\ g.act = file.act /\ g.intent = file.intent
  BY <1>1, <1>2, FileTyped, MutatedKeeps
<1>6. file' = Saved(file, archive, g) BY <1>1
<1> HIDE DEF g
<1>7. g \in PairedFiles /\ ~Retiring(g) BY <1>2, <1>5 DEF Disk, Retiring
<1>8. Disk(file') /\ file'.cert = file.cert /\ file'.act = file.act /\ ~Retiring(file')
  BY <1>5, <1>6, <1>7, FileTyped, SavedKeeps
<1>9. Grandfathered' BY <1>1, <1>8, StaysGrandfathered
<1>10. Underway' BY <1>1, <1>2, <1>8 DEF SessionInv, Underway
<1>11. Intended(file', refused') BY <1>8 DEF Intended
<1> QED BY <1>1, <1>4, <1>8, <1>9, <1>10, <1>11, FileTyped, MemoryTyped, ProgTyped, FileStep

LEMMA BrowserOpenedStep ==
  ASSUME SessionInv, BrowserOpened
  PROVE  SessionInv'
<1>1. /\ op.at = "idle" /\ Free /\ ~Retiring(file)
      /\ file' = Saved(file, archive, [file EXCEPT !.opened = TRUE])
      /\ UNCHANGED <<archive, ans, prog, up, op, conf, tomb, snap, acc, gates, tasks, consent, refused, issued>>
  BY DEF BrowserOpened, At, memory, history
<1> DEFINE g == [file EXCEPT !.opened = TRUE]
<1>2. /\ g \in PairedFiles /\ g.cert = file.cert /\ g.act = file.act /\ g.intent = file.intent
      /\ g.gen = file.gen
  BY FileTyped DEF PairedFiles
<1>3. file' = Saved(file, archive, g) BY <1>1
<1> HIDE DEF g
<1>4. Disk(g) /\ ~Retiring(g) BY <1>1, <1>2, FileTyped DEF Disk, Retiring
<1>5. Disk(file') /\ file'.cert = file.cert /\ file'.act = file.act /\ ~Retiring(file')
  BY <1>2, <1>3, <1>4, FileTyped, SavedKeeps
<1>6. Grandfathered' BY <1>1, <1>5, StaysGrandfathered
<1>7. Underway' BY <1>1 DEF Underway, Carries
<1>8. Intended(file', refused') BY <1>5 DEF Intended
<1> QED BY <1>1, <1>5, <1>6, <1>7, <1>8, FileTyped, MemoryTyped, ProgTyped, FileStep

----------------------------------------------------------------------------
(* Crash and launch.                                                        *)

(* While the program is down, nothing holds the slot.                       *)
Down == ~up => op.at = "idle"

LEMMA DownKept ==
  ASSUME Down, Step
  PROVE  Down'
<1>1. CASE up
  <2>1. CASE up' = up BY <1>1, <2>1 DEF Down
  <2>2. CASE up' # up
    <3>1. Crash \/ Quit
      BY <1>1, <2>2
      DEF Step, Holder, Owner, Beside, Starts, Dialled, DialFails, SavePair, BindPair, BindFails,
          ProvenHere, NotProvenHere, ConfirmFound, ReplaceUploader, ShowNative, AcceptNative, Settle,
          RestoreNative, FinishFails, LoadForRefusal, InstallIntent, StopForRefusal, DeleteAtJournal,
          ClearAnswer, DropPairing, SettleLaunch, Mend, Resume, BeginPair, BeginFound, BeginNative,
          BeginFinish, OwnerConfirms, OwnerRefuses, BrowserOpened, UploaderPublishes, UploaderFails,
          UploaderEnds, AccessMutates, HandoffExpires, Launch, LaunchFails, KeyRefused, AnswerCorrupted
    <3> QED BY <3>1 DEF Crash, Quit, Stopped, Idle, Down
  <2> QED BY <2>1, <2>2
<1>2. CASE ~up
  <2>1. Starts \/ AnswerCorrupted \/ HandoffExpires
    BY <1>2
    DEF Step, Holder, Owner, Beside, Dialled, DialFails, SavePair, BindPair, BindFails,
        ProvenHere, NotProvenHere, ConfirmFound, ReplaceUploader, ShowNative, AcceptNative, Settle,
        RestoreNative, FinishFails, LoadForRefusal, InstallIntent, StopForRefusal, DeleteAtJournal,
        ClearAnswer, DropPairing, SettleLaunch, Mend, Resume, BeginPair, BeginFound, BeginNative,
        BeginFinish, OwnerConfirms, OwnerRefuses, Asked, BrowserOpened, UploaderPublishes, UploaderFails,
        UploaderEnds, AccessMutates, Crash, Quit, At
  <2> QED BY <2>1 DEF Starts, Launch, LaunchFails, KeyRefused, AnswerCorrupted, HandoffExpires, Down
<1> QED BY <1>1, <1>2

LEMMA KeyRefusedStep ==
  ASSUME SessionInv, Down, KeyRefused
  PROVE  SessionInv'
<1>1. /\ op.at = "idle" /\ Costs /\ up' = TRUE
      /\ UNCHANGED <<ans, prog, op, conf, tomb, acc, gates, tasks, consent, refused, issued>>
      /\ \/ archive' = file /\ file' = Unpaired /\ snap' = Shown("notpaired", Nobody)
         \/ snap' = Shown("failed", Nobody) /\ UNCHANGED <<archive, file>>
  BY DEF KeyRefused, Down, history
<1>2. Underway' BY <1>1 DEF Underway, Carries
<1>3. snap' \in Snaps BY <1>1, Constants
<1>4. /\ Disk(file') /\ archive' \in PairedFiles /\ Intended(file', refused')
      /\ (file'.cert = Nobody \/ (file'.cert = file.cert /\ file'.act = file.act))
  BY <1>1, Constants, FileTyped DEF Intended
<1>5. Grandfathered' BY <1>1, <1>4, StaysGrandfathered
<1> QED BY <1>1, <1>2, <1>3, <1>4, <1>5, FileTyped, MemoryTyped, ProgTyped, FileStep

LEMMA LaunchFailsStep ==
  ASSUME SessionInv, LaunchFails
  PROVE  SessionInv'
<1>1. /\ Costs /\ up' = TRUE /\ snap' = Shown("failed", Nobody) /\ ans' \in {ans, Legible(ans)}
      /\ UNCHANGED <<file, archive, prog, op, conf, tomb, acc, gates, tasks, consent, refused, issued>>
  BY DEF LaunchFails, history
<1>2. /\ ans' \in Answers /\ ans'.confirmed \in {Nobody} \cup consent
      /\ (ans'.st = "absent" => ans.st = "absent")
  BY <1>1, AnswerKinds, ProgTyped, Numbers DEF SessionInv
<1>3. Underway' BY <1>1, <1>2, UnderwayKept
<1> QED BY <1>1, <1>2, <1>3, Constants, MemoryTyped, ProgTyped, MemoryStep

LEMMA AnswerCorruptedStep ==
  ASSUME SessionInv, AnswerCorrupted
  PROVE  SessionInv'
<1>1. /\ Costs /\ ans' = [EmptyAnswer EXCEPT !.st = "bad"]
      /\ UNCHANGED <<file, archive, prog, up, op, conf, tomb, snap, acc, gates, tasks, consent, refused, issued>>
  BY DEF AnswerCorrupted, memory, history
<1>2. ans' \in Answers /\ ans'.st = "bad" /\ ans'.confirmed = Nobody
  BY <1>1, Constants DEF Answers
<1>3. Underway' BY <1>1, <1>2, UnderwayKept
<1> QED BY <1>1, <1>2, <1>3, MemoryTyped, ProgTyped, MemoryStep

(* A refusal an older version saved is staged, and an intent comes first.   *)
LEMMA LaunchStep ==
  ASSUME SessionInv, Launch
  PROVE  SessionInv'
<1> DEFINE a == Legible(ans)
<1>1. /\ up' = TRUE /\ Free /\ op' = [Idle EXCEPT !.at = FirstStep, !.kind = "launch"]
      /\ file' = (IF Stages(a) THEN Saved(file, archive, WithIntent(file)) ELSE file)
      /\ ans' = (IF Retiring(file') THEN a ELSE [a EXCEPT !.rejected = Nobody])
      /\ refused' = (IF Stages(a) THEN refused \cup {a.rejected} ELSE refused)
      /\ UNCHANGED <<archive, prog, conf, tomb, snap, acc, gates, tasks, consent, issued>>
  BY DEF Launch, memory
<1>2. a \in Answers /\ a.confirmed \in {Nobody} \cup consent /\ (a.st = "absent" => ans.st = "absent")
  BY AnswerKinds, ProgTyped, Numbers DEF SessionInv
<1> HIDE DEF a
<1>3. /\ ans' \in Answers /\ ans'.confirmed \in {Nobody} \cup consent
      /\ (ans'.st = "absent" => ans.st = "absent")
  BY <1>1, <1>2, Numbers DEF Answers
<1>4. /\ Disk(file') /\ Intended(file', refused') /\ refused' \subseteq Certs
      /\ file'.cert = file.cert /\ file'.act = file.act
  <2>1. CASE ~Stages(a) BY <1>1, <2>1, FileTyped
  <2>2. CASE Stages(a)
    <3> DEFINE g == WithIntent(file)
    <3>1. a.rejected # Nobody /\ file.cert = a.rejected BY <2>2 DEF Stages
    <3>2. /\ Disk(g) /\ g.cert = file.cert /\ g.act = file.act /\ Retiring(g)
          /\ g.intent.cert = g.cert /\ g.intent.gen = g.gen
      BY <3>1, FileTyped, IntentKeeps
    <3> HIDE DEF g
    <3>3. g \in PairedFiles BY <3>2 DEF Disk
    <3>4. file' = Saved(file, archive, g) BY <1>1, <2>2 DEF g
    <3>5. /\ Disk(file') /\ file'.cert = g.cert /\ file'.gen = g.gen /\ file'.intent = g.intent
          /\ file'.act = g.act
      BY <3>2, <3>3, <3>4, FileTyped, SavedKeeps
    <3>6. refused' = refused \cup {file.cert} BY <1>1, <2>2, <3>1
    <3>7. Intended(file', refused') BY <3>1, <3>2, <3>5, <3>6 DEF Intended
    <3> QED BY <3>2, <3>5, <3>6, <3>7, FileTyped
  <2> QED BY <2>1, <2>2
<1>5. Grandfathered' BY <1>1, <1>3, <1>4, StaysGrandfathered
<1>6. FirstStep \in {"delete", "resume"} /\ (FirstStep = "delete" => Retiring(file')) BY DEF FirstStep
<1>7. op' \in Ops /\ op'.at = FirstStep BY <1>1, <1>6, Constants DEF Ops, Steps, OpKinds
<1>8. Underway' BY <1>6, <1>7 DEF Underway, Carries
<1> QED BY <1>1, <1>3, <1>4, <1>5, <1>7, <1>8, FileTyped, MemoryTyped, FileStep

(* settle_grandfather and the mending of the saved id.                      *)
LEMMA SettleLaunchStep ==
  ASSUME SessionInv, SettleLaunch
  PROVE  SessionInv'
<1>1. /\ (Costs \/ Free) /\ (Goes("start") \/ Goes("mend"))
      /\ \E a \in {ans, Settled(ans, file), Held(Settled(ans, file), file)} : ans' = a
      /\ conf' \in {conf, ans'.confirmed, Settled(ans, file).confirmed}
      /\ UNCHANGED <<file, archive, prog, up, tomb, snap, acc, gates, tasks, consent, refused, issued>>
  BY DEF SettleLaunch, history
<1>2. /\ ans' \in Answers /\ {conf', ans'.confirmed} \subseteq {Nobody} \cup consent
      /\ (ans'.st = "absent" => ans.st = "absent")
  BY <1>1, SettledKinds, ProgTyped, MemoryTyped
<1>3. op' \in Ops /\ Underway' BY <1>1, GoesUnder DEF Steps, Carries
<1> QED BY <1>1, <1>2, <1>3, MemoryTyped, ProgTyped, MemoryStep

LEMMA MendStep ==
  ASSUME SessionInv, Mend
  PROVE  SessionInv'
<1> DEFINE g == [file EXCEPT !.sound = TRUE]
<1>1. /\ Goes("start") /\ file' \in {file, Saved(file, archive, g)} /\ (Costs \/ Free)
      /\ UNCHANGED <<archive, ans, prog, up, conf, tomb, snap, acc, gates, tasks, consent, refused, issued>>
  BY DEF Mend, memory, history, Outcome
<1>2. /\ g \in PairedFiles /\ g.cert = file.cert /\ g.act = file.act /\ g.intent = file.intent
      /\ g.gen = file.gen
  BY FileTyped DEF PairedFiles
<1> HIDE DEF g
<1>3. Disk(g) BY <1>2, FileTyped DEF Disk
<1>4. /\ Disk(file') /\ file'.cert = file.cert /\ file'.act = file.act /\ file'.intent = file.intent
      /\ file'.gen = file.gen
  BY <1>1, <1>2, <1>3, FileTyped, SavedKeeps
<1>5. Intended(file', refused') BY <1>1, <1>4, FileTyped DEF Intended, Retiring
<1>6. Grandfathered' BY <1>1, <1>4, StaysGrandfathered
<1>7. op' \in Ops /\ Underway' BY <1>1, GoesUnder DEF Steps, Carries
<1> QED BY <1>1, <1>4, <1>5, <1>6, <1>7, FileTyped, MemoryTyped, ProgTyped, FileStep

LEMMA ResumeStep ==
  ASSUME SessionInv, Resume
  PROVE  SessionInv'
<1>1. /\ Ends /\ (Costs \/ Free)
      /\ \/ file.cert # Nobody /\ Binds(file.cert, file.gen, conf) /\ tasks' = Spawned(file.cert)
         \/ UNCHANGED <<acc, gates, tasks>>
      /\ UNCHANGED <<durable, up, conf, tomb, snap, consent, refused, issued>>
  BY DEF Resume, history
<1>2. op' \in Ops /\ Underway' BY <1>1, EndsUnder
<1>3. acc' \in [cert : Certs, gen : 0..MaxGen] /\ gates' \subseteq consent /\ tasks' \subseteq Tasks
  <2>1. CASE file.cert # Nobody /\ Binds(file.cert, file.gen, conf) /\ tasks' = Spawned(file.cert)
    <3>1. file.gen \in 0..MaxGen BY <2>1, FileTyped DEF Disk
    <3> QED BY <2>1, <3>1, FileTyped, MemoryTyped, BindsSound
  <2>2. CASE UNCHANGED <<acc, gates, tasks>> BY <2>2, MemoryTyped
  <2> QED BY <1>1, <2>1, <2>2
<1> QED BY <1>1, <1>2, <1>3, MemoryTyped, SlotStep

----------------------------------------------------------------------------
(* The invariant and the theorems.                                          *)

LEMMA SessionInit ==
  ASSUME Init
  PROVE  SessionInv /\ Down
<1>1. /\ archive = Unpaired /\ refused = {} /\ faults = 0 /\ up = FALSE /\ op = Idle /\ conf = Nobody
      /\ tomb = Nobody /\ snap = Shown("notpaired", Nobody) /\ acc = NoAccess /\ gates = {} /\ tasks = {}
  BY DEF Init
<1>2. prog \in [id : {0} \cup Handoffs, expired : BOOLEAN] BY DEF Init
<1>3. 1 \in Certs /\ 0 \in Certs /\ 0 \in 0..MaxFaults
  BY SessionAssumption DEF SessionAssumption, Certs
<1>4. /\ Disk(file) /\ ~Retiring(file) /\ ans \in Answers /\ issued \in Certs /\ consent \subseteq Certs
      /\ ans.confirmed \in {Nobody} \cup consent
      /\ (ans.st = "absent" => file.cert \in {Nobody} \cup consent)
  <2>1. CASE file = Unpaired /\ ans = NoAnswer /\ consent = {} /\ issued = 0
    BY <1>3, <2>1, Constants, Numbers DEF NoAnswer, Answers
  <2>2. CASE /\ \E s \in OlderSound : file = Older(s)
             /\ issued = 1
             /\ \/ ans \in {NoAnswer, [EmptyAnswer EXCEPT !.confirmed = 1]} /\ consent = {1}
                \/ ans \in {EmptyAnswer, [EmptyAnswer EXCEPT !.rejected = 1]} /\ consent = {}
    <3>1. PICK s \in OlderSound : file = Older(s) BY <2>2
    <3> DEFINE f == FreshPair(1, 0)
    <3>2. Disk(f) /\ f.cert = 1 /\ ~Retiring(f) BY <1>3, FreshKeeps
    <3>3. file = [f EXCEPT !.sound = s] BY <3>1 DEF Older
    <3>4. s \in BOOLEAN BY SessionAssumption DEF SessionAssumption
    <3> HIDE DEF f
    <3>5. Disk(file) /\ file.cert = 1 /\ ~Retiring(file)
      BY <3>2, <3>3, <3>4 DEF Disk, PairedFiles, Retiring
    <3>6. /\ ans \in Answers /\ ans.confirmed \in {Nobody} \cup consent
          /\ (ans.st = "absent" => consent = {1})
      BY <1>3, <2>2, Numbers DEF NoAnswer, EmptyAnswer, Answers
    <3> QED BY <1>3, <2>2, <3>5, <3>6
  <2> QED BY <2>1, <2>2 DEF Init
<1>5. Typed BY <1>1, <1>2, <1>3, <1>4, Constants, Numbers DEF Typed, Disk
<1>6. Underway BY <1>1, Constants DEF Underway, Carries
<1>7. GateNeedsConsent /\ Named /\ Grandfathered BY <1>1, <1>4 DEF GateNeedsConsent, Named, Grandfathered
<1>8. Intended(file, refused) BY <1>4 DEF Intended
<1>9. Down BY <1>1, Constants DEF Down
<1> QED BY <1>5, <1>6, <1>7, <1>8, <1>9 DEF SessionInv

LEMMA StepKeeps ==
  ASSUME SessionInv, Down, Step
  PROVE  SessionInv'
<1>1. CASE Holder
  BY <1>1, DialledStep, DialFailsStep, SavePairStep, BindPairStep, BindFailsStep, ProvenHereStep,
     NotProvenHereStep, ConfirmFoundStep, ReplaceUploaderStep, ShowNativeStep, AcceptNativeStep,
     SettleStep, RestoreNativeStep, FinishFailsStep, LoadForRefusalStep, InstallIntentStep,
     StopForRefusalStep, DeleteAtJournalStep, ClearAnswerStep, DropPairingStep, SettleLaunchStep,
     MendStep, ResumeStep
  DEF Holder
<1>2. CASE Owner
  BY <1>2, BeginPairStep, BeginFoundStep, BeginNativeStep, BeginFinishStep, OwnerConfirmsStep,
     OwnerRefusesStep, BrowserOpenedStep
  DEF Owner
<1>3. CASE Beside BY <1>3, UploaderSteps, AccessMutatesStep, HandoffExpiresStep DEF Beside
<1>4. CASE Starts BY <1>4, LaunchStep, LaunchFailsStep, KeyRefusedStep DEF Starts
<1> QED BY <1>1, <1>2, <1>3, <1>4, StoppedStep, AnswerCorruptedStep DEF Step

(* What has ended is a handoff.                                             *)
Ending == SessionInv /\ Down /\ over \subseteq Handoffs

LEMMA EndingKept ==
  ASSUME Ending, [Next]_vars
  PROVE  Ending'
<1>1. CASE Next
  <2>1. SessionInv' /\ Down' BY <1>1, StepKeeps, DownKept DEF Ending, Next
  <2>2. over' = over \cup EndsNow BY <1>1 DEF Next, Noted
  <2>3. EndsNow \subseteq Handoffs BY FileTyped DEF EndsNow, Ending
  <2> QED BY <2>1, <2>2, <2>3 DEF Ending
<1>2. CASE UNCHANGED vars
  <2>1. /\ UNCHANGED <<file, archive, ans, prog, up, op, conf, tomb, snap, acc, gates, tasks>>
        /\ UNCHANGED <<consent, refused, issued, over, faults>>
    BY <1>2 DEF vars, durable, memory, history
  <2> QED BY <2>1
      DEF Ending, SessionInv, Down, Typed, Disk, Underway, Intended, GateNeedsConsent, Named, Grandfathered
<1> QED BY <1>1, <1>2

(* The session's invariant, over every ceremony, answer, crash and launch.  *)
THEOREM SessionInvariant == Spec => []Ending
<1>1. Init => Ending BY SessionInit DEF Ending, Init
<1>2. Ending /\ [Next]_vars => Ending' BY EndingKept
<1> QED BY <1>1, <1>2, PTL DEF Spec

(* The files, the slot and the cache keep their types; the access           *)
(* generations stay in their bound.                                         *)
THEOREM SessionTypeCorrect == Spec => []TypeOK
<1>1. Ending => TypeOK
  BY DEF Ending, SessionInv, Typed, Disk, TypeOK, Answers, Ops, OpKinds, Snaps, Tasks
<1> QED BY <1>1, SessionInvariant, PTL

(* The gate of a client is open only for a credential its owner accepted or *)
(* that was proven to be on this computer.                                  *)
THEOREM SendsNeedConsent == Spec => []GateNeedsConsent
<1>1. Ending => GateNeedsConsent BY DEF Ending, SessionInv
<1> QED BY <1>1, SessionInvariant, PTL

(* The step property of the pairing run.                                    *)
KeepsCredential ==
  file.cert # Nobody /\ file'.cert # file.cert =>
    \/ file.cert \in refused
    \/ archive' = file
    \/ op.at = "save" /\ op.kind # "found"

LEMMA CredentialStays ==
  ASSUME SessionInv, Step
  PROVE  KeepsCredential
<1>1. CASE SavePair
  BY <1>1 DEF SavePair, At, SessionInv, Underway, KeepsCredential
<1>2. CASE DropPairing
  BY <1>2 DEF DropPairing, At, SessionInv, Underway, Intended, KeepsCredential
<1>3. CASE KeyRefused BY <1>3 DEF KeyRefused, KeepsCredential
<1>4. CASE InstallIntent
  <2>1. PICK o \in Outcomes : file' \in {file, Saved(file, archive, WithIntent(file))}
    BY <1>4 DEF InstallIntent
  <2>2. file.cert # Nobody => WithIntent(file) \in PairedFiles /\ WithIntent(file).cert = file.cert
    BY FileTyped, IntentKeeps DEF Disk
  <2> QED BY <2>1, <2>2, FileTyped, SavedKeeps DEF KeepsCredential
<1>5. CASE Launch
  <2>1. file' \in {file, Saved(file, archive, WithIntent(file))} BY <1>5 DEF Launch
  <2>2. file.cert # Nobody => WithIntent(file) \in PairedFiles /\ WithIntent(file).cert = file.cert
    BY FileTyped, IntentKeeps DEF Disk
  <2> QED BY <2>1, <2>2, FileTyped, SavedKeeps DEF KeepsCredential
<1>6. CASE DeleteAtJournal
  <2>1. PICK p \in {"succeeded", "unknown"} :
          file' \in {file, Saved(file, archive, [file EXCEPT !.intent.phase = p])}
    BY <1>6 DEF DeleteAtJournal
  <2> DEFINE g == [file EXCEPT !.intent.phase = p]
  <2>2. g \in PairedFiles /\ g.cert = file.cert BY FileTyped, PhaseKeeps DEF Disk
  <2> HIDE DEF g
  <2>3. file' \in {file, Saved(file, archive, g)} BY <2>1 DEF g
  <2> QED BY <2>2, <2>3, FileTyped, SavedKeeps DEF KeepsCredential
<1>7. CASE AccessMutates
  <2>1. file' = Saved(file, archive, Mutated(file)) /\ file.cert # Nobody /\ file.gen < MaxGen
    BY <1>7 DEF AccessMutates, CanMutate
  <2>2. Mutated(file) \in PairedFiles /\ Mutated(file).cert = file.cert
    BY <2>1, FileTyped, MutatedKeeps DEF Disk
  <2> QED BY <2>1, <2>2, FileTyped, SavedKeeps DEF KeepsCredential
<1>8. CASE BrowserOpened
  <2> DEFINE g == [file EXCEPT !.opened = TRUE]
  <2>1. g \in PairedFiles /\ g.cert = file.cert BY FileTyped DEF PairedFiles
  <2>2. file' = Saved(file, archive, g) BY <1>8 DEF BrowserOpened
  <2> HIDE DEF g
  <2> QED BY <2>1, <2>2, FileTyped, SavedKeeps DEF KeepsCredential
<1>9. CASE Mend
  <2> DEFINE g == [file EXCEPT !.sound = TRUE]
  <2>1. g \in PairedFiles /\ g.cert = file.cert BY FileTyped DEF PairedFiles
  <2>2. file' \in {file, Saved(file, archive, g)} BY <1>9 DEF Mend
  <2> HIDE DEF g
  <2> QED BY <2>1, <2>2, FileTyped, SavedKeeps DEF KeepsCredential
<1>10. CASE file' = file BY <1>10 DEF KeepsCredential
<1>11. \/ SavePair \/ DropPairing \/ KeyRefused \/ InstallIntent \/ Launch \/ DeleteAtJournal
       \/ AccessMutates \/ BrowserOpened \/ Mend \/ file' = file
  BY DEF Step, Holder, Owner, Beside, Starts, Dialled, DialFails, BindPair, BindFails,
         ProvenHere, NotProvenHere, ConfirmFound, ReplaceUploader, ShowNative, AcceptNative, Settle,
         RestoreNative, FinishFails, LoadForRefusal, StopForRefusal, ClearAnswer, SettleLaunch,
         Resume, BeginPair, BeginFound, BeginNative, BeginFinish, OwnerConfirms, OwnerRefuses,
         UploaderPublishes, UploaderFails, UploaderEnds, HandoffExpires, LaunchFails, AnswerCorrupted,
         Crash, Quit, Stopped, durable
<1> QED BY <1>1, <1>2, <1>3, <1>4, <1>5, <1>6, <1>7, <1>8, <1>9, <1>10, <1>11

(* A saved credential goes only because it was refused, because a new one   *)
(* is saved over it, or into the archive.                                   *)
THEOREM CredentialIsKept == Spec => CredentialKept
<1>1. Ending /\ [Next]_vars => [KeepsCredential]_vars BY CredentialStays DEF Ending, Next
<1> QED BY <1>1, SessionInvariant, PTL DEF Spec, CredentialKept, KeepsCredential

----------------------------------------------------------------------------
(* A refusal, for pairings that can stand.                                  *)

(* Whatever is saved, shown or running is of a credential that was issued.  *)
OnlyIssued ==
  /\ consent \cup refused \cup {file.cert, snap.b, op.cert} \subseteq 0..issued
  /\ \A t \in tasks : t.cert \in 0..issued

(* A refused credential is saved only until its retirement is finished.     *)
RefusedRetires ==
  /\ file.sound
  /\ file.cert # Nobody /\ file.cert \in refused => Retiring(file)

(* The cache and the answer file agree on the saved pairing, and its gate   *)
(* is open only while they confirm it.                                      *)
AnswerAgrees ==
  /\ ans.st # "ok" => ans.confirmed = Nobody
  /\ file.cert # Nobody /\ ~Retiring(file) /\ conf = file.cert => ans.confirmed = file.cert
  /\ file.cert # Nobody /\ file.cert \in gates => conf = file.cert

(* A pairing whose owner is asked has no open gate.                         *)
AskedIsShut ==
  file.cert # Nobody /\ ~Retiring(file) /\ snap.phase = "awaiting" /\ snap.b = file.cert
    => file.cert \notin gates /\ conf # file.cert

(* What the slot's holder carries: a credential that is being saved is new, *)
(* one that is being refused has no open gate, and what a launch resumes is *)
(* not being retired.                                                       *)
LaunchSteps == {"resume", "mend", "start"}
SlotSafe ==
  /\ op.at \in {"save", "bind", "confirm"} => op.cert \notin consent
  /\ op.at = "save" => op.cert \notin refused \cup {file.cert}
  /\ op.at \in LaunchSteps => ~Retiring(file) /\ op.kind = "launch"
  /\ op.at \in {"load", "install"} /\ op.cert = file.cert => file.cert \notin gates
  /\ op.kind = "launch" => op.at \in {"delete", "answer", "drop"} \cup LaunchSteps

(* A launch begins with nothing in memory.                                  *)
QuietStart ==
  /\ op.kind = "launch" \/ ~up => tasks = {} /\ gates = {} /\ snap.b = Nobody
  /\ ~up => conf = Nobody

ShutInv ==
  /\ OnlyIssued /\ RefusedRetires /\ AnswerAgrees /\ AskedIsShut /\ SlotSafe /\ QuietStart
  /\ RefusedStaysShut

(* pairing.json keeps its credential and is as sound and as retired as it   *)
(* was.                                                                     *)
Still ==
  /\ file'.cert = file.cert /\ file'.sound = file.sound
  /\ (Retiring(file') <=> Retiring(file))

(* What may be shown.                                                       *)
ShownFine ==
  /\ snap'.b \in 0..issued /\ (tomb # Nobody => snap'.b # tomb)
  /\ snap'.phase = "awaiting" => snap'.b = Nobody \/ snap' = snap \/ conf # snap'.b

LEMMA SomeIssued ==
  ASSUME SessionInv
  PROVE  issued \in Nat /\ Nobody \in 0..issued
<1>1. issued \in Certs BY DEF SessionInv, Typed
<1>2. issued \in Nat BY <1>1, Numbers
<1> QED BY <1>2 DEF Nobody

LEMMA ShownStays ==
  ASSUME SessionInv, ShutInv,
         \/ snap' = snap
         \/ \E p \in {"notpaired", "failed", "pairing"} : snap' = Shown(p, Nobody)
         \/ \E b \in 0..issued : snap' \in {Bound(snap, b, conf, tomb), BoundFailed(snap, b, conf, tomb)}
  PROVE  ShownFine
<1>1. snap \in Snaps /\ snap.b \in 0..issued /\ (tomb # Nobody => snap.b # tomb)
  BY MemoryTyped DEF ShutInv, OnlyIssued, RefusedStaysShut
<1>2. Nobody \in 0..issued BY SomeIssued
<1>3. CASE snap' = snap BY <1>1, <1>3 DEF ShownFine
<1>4. CASE \E p \in {"notpaired", "failed", "pairing"} : snap' = Shown(p, Nobody)
  <2>1. snap'.b = Nobody BY <1>4 DEF Shown
  <2> QED BY <1>2, <2>1 DEF ShownFine
<1>5. ASSUME NEW b \in 0..issued, snap' \in {Bound(snap, b, conf, tomb), BoundFailed(snap, b, conf, tomb)}
      PROVE  ShownFine
  <2>1. CASE snap' = snap BY <1>1, <2>1 DEF ShownFine
  <2>2. CASE tomb # b /\ snap'.b = b /\ (snap'.phase = "awaiting" => conf # b)
    BY <2>2 DEF ShownFine
  <2> QED BY <1>5, <2>1, <2>2 DEF Bound, BoundFailed, Shown
<1> QED BY <1>3, <1>4, <1>5

(* Most steps leave the answer, the gates and the histories alone.          *)
LEMMA CalmStep ==
  ASSUME SessionInv, ShutInv, Still, ShownFine,
         UNCHANGED <<conf, tomb, gates, consent, refused, issued>>,
         ans'.confirmed = ans.confirmed \/ Retiring(file),
         ans'.st # "ok" => ans'.confirmed = Nobody,
         SlotSafe', QuietStart', op'.cert \in 0..issued, \A t \in tasks' : t.cert \in 0..issued
  PROVE  ShutInv'
<1>1. OnlyIssued' BY DEF ShutInv, OnlyIssued, Still, ShownFine
<1>2. RefusedRetires' BY DEF ShutInv, RefusedRetires, Still
<1>3. AnswerAgrees' BY DEF ShutInv, AnswerAgrees, Still
<1>4. AskedIsShut'
  BY DEF ShutInv, AskedIsShut, AnswerAgrees, Still, ShownFine
<1>5. RefusedStaysShut' BY DEF ShutInv, RefusedStaysShut, ShownFine
<1> QED BY <1>1, <1>2, <1>3, <1>4, <1>5 DEF ShutInv

(* The slot is given back.                                                  *)
LEMMA SlotEnds ==
  ASSUME SessionInv, ShutInv, Ends
  PROVE  op'.cert \in 0..issued /\ SlotSafe' /\ op'.kind # "launch"
<1>1. op'.cert = Nobody /\ op'.at = "idle" /\ op'.kind = "none" BY Constants DEF Ends
<1> QED BY <1>1, SomeIssued DEF SlotSafe, LaunchSteps

(* The slot's holder goes on; a step of a launch is followed by another.    *)
LEMMA SlotGoes ==
  ASSUME SessionInv, ShutInv, NEW st \in Steps, Goes(st), Still, UNCHANGED <<consent, refused, gates>>,
         \/ st \in {"delete", "answer", "drop"}
         \/ op.at \notin {"delete", "answer", "drop"} \cup LaunchSteps
              /\ st \in {"settle", "proof", "replace", "show", "accept"}
         \/ op.at = "bind" /\ st \in {"confirm", "load"}
         \/ op.at = "load" /\ st = "install"
         \/ op.at = "mend" /\ st = "start"
  PROVE  op'.cert \in 0..issued /\ SlotSafe' /\ op'.kind = op.kind /\ op'.at = st
<1>1. op'.at = st /\ op'.kind = op.kind /\ op'.cert = op.cert
  BY MemoryTyped, OpTyped DEF Goes
<1>2. op.cert \in 0..issued BY DEF ShutInv, OnlyIssued
<1>3. SlotSafe BY DEF ShutInv
<1>4. gates \subseteq consent BY MemoryTyped
<1>5. CASE op.at = "bind" /\ st \in {"confirm", "load"}
  <2>1. op.cert \notin consent /\ op.kind # "launch" BY <1>3, <1>5 DEF SlotSafe, LaunchSteps
  <2> QED BY <1>1, <1>2, <1>4, <1>5, <2>1 DEF SlotSafe, LaunchSteps, Still
<1>6. CASE op.at = "load" /\ st = "install"
  BY <1>1, <1>2, <1>3, <1>6 DEF SlotSafe, LaunchSteps, Still
<1>7. CASE op.at = "mend" /\ st = "start"
  BY <1>1, <1>2, <1>3, <1>7 DEF SlotSafe, LaunchSteps, Still
<1>8. CASE st \in {"delete", "answer", "drop"}
  BY <1>1, <1>2, <1>8 DEF SlotSafe, LaunchSteps
<1>9. CASE op.at \notin {"delete", "answer", "drop"} \cup LaunchSteps
             /\ st \in {"settle", "proof", "replace", "show", "accept"}
  BY <1>1, <1>2, <1>3, <1>9 DEF SlotSafe, LaunchSteps
<1> QED BY <1>5, <1>6, <1>7, <1>8, <1>9

(* It stays where it is.                                                    *)
LEMMA SlotStays ==
  ASSUME SessionInv, ShutInv, UNCHANGED <<op, refused, gates, consent>>, Still
  PROVE  op'.cert \in 0..issued /\ SlotSafe'
  BY DEF ShutInv, OnlyIssued, SlotSafe, Still

(* Memory that fills is that of a program that runs and has been launched.  *)
LEMMA Loud ==
  ASSUME up', op'.kind # "launch"
  PROVE  QuietStart'
  BY DEF QuietStart

LEMMA QuietStays ==
  ASSUME ShutInv, up' = up, op'.kind = "launch" => op.kind = "launch",
         UNCHANGED <<conf, gates, tasks>>, snap' = snap \/ snap'.b = Nobody
  PROVE  QuietStart'
  BY DEF ShutInv, QuietStart

LEMMA TasksStay ==
  ASSUME ShutInv
  PROVE  /\ \A t \in tasks : t.cert \in 0..issued
         /\ SessionInv => \A t \in Cancelled : t.cert \in 0..issued
         /\ SessionInv => \A c \in 0..issued : \A t \in Spawned(c) : t.cert \in 0..issued
<1>1. \A t \in tasks : t.cert \in 0..issued BY DEF ShutInv, OnlyIssued
<1>2. SessionInv => \A t \in Cancelled : t.cert \in 0..issued
  BY <1>1 DEF SessionInv, Typed, Tasks, Cancelled
<1> QED BY <1>1, <1>2 DEF Spawned

(* Whatever an operation writes of a pairing is as sound as the pairing.    *)
LEMMA SoundKeeps ==
  ASSUME NEW f \in PairedFiles
  PROVE  /\ WithIntent(f).sound = f.sound /\ Cleared(f).sound = f.sound /\ Mutated(f).sound = f.sound
         /\ \A p : [f EXCEPT !.intent.phase = p].sound = f.sound
         /\ [f EXCEPT !.opened = TRUE].sound = f.sound
         /\ \A c, a : FreshPair(c, a).sound
<1>1. \A c, a : FreshPair(c, a).sound BY DEF FreshPair, Unpaired
<1> QED BY <1>1 DEF WithIntent, Cleared, Mutated, PairedFiles

LEMMA SavedStill ==
  ASSUME SessionInv, NEW g, Disk(g), file' \in {file, Saved(file, archive, g)},
         g.cert = file.cert, g.sound = file.sound, Retiring(g) <=> Retiring(file)
  PROVE  Still
<1>1. g \in PairedFiles BY DEF Disk
<1> QED BY <1>1, FileTyped, SavedKeeps DEF Still

----------------------------------------------------------------------------
(* Steps that only move the slot, the tasks and what is shown.              *)

LEMMA StillFile == file' = file => Still
  BY DEF Still

LEMMA AnswerStays ==
  ASSUME ShutInv, ans' = ans
  PROVE  ans'.confirmed = ans.confirmed /\ (ans'.st # "ok" => ans'.confirmed = Nobody)
  BY DEF ShutInv, AnswerAgrees

LEMMA BeginShut ==
  ASSUME SessionInv, ShutInv, BeginFound \/ BeginNative \/ BeginFinish
  PROVE  ShutInv'
<1>1. /\ up /\ up' = up /\ file' = file /\ ans' = ans /\ tasks' = tasks
      /\ UNCHANGED <<conf, tomb, gates, consent, refused, issued>>
      /\ snap' \in {snap, Ceremony}
  BY DEF BeginFound, BeginNative, BeginFinish, At, durable, memory, history
<1>2. op'.at \in {"dial", "identity"} /\ op'.kind # "launch" /\ op'.cert \in {Nobody, file.cert}
  <2>1. CASE BeginFound BY <2>1 DEF BeginFound, Idle
  <2>2. CASE BeginNative BY <2>2 DEF BeginNative, Idle
  <2>3. CASE BeginFinish BY <2>3 DEF BeginFinish
  <2> QED BY <2>1, <2>2, <2>3
<1>3. op'.cert \in 0..issued BY <1>2, SomeIssued DEF ShutInv, OnlyIssued
<1>4. SlotSafe' BY <1>2 DEF SlotSafe, LaunchSteps
<1>5. QuietStart' BY <1>1, <1>2, Loud
<1>6. ShownFine BY <1>1, ShownStays DEF Ceremony
<1> QED BY <1>1, <1>3, <1>4, <1>5, <1>6, AnswerStays, TasksStay, StillFile, CalmStep

(* A ceremony fails, shows its pairing, or starts its uploader.             *)
LEMMA CeremonyShut ==
  ASSUME SessionInv, ShutInv,
         DialFails \/ BindFails \/ ReplaceUploader \/ ShowNative \/ Settle \/ FinishFails
  PROVE  ShutInv'
<1>1. /\ up /\ up' = up /\ file' = file /\ ans' = ans
      /\ UNCHANGED <<conf, tomb, gates, consent, refused, issued>>
      /\ op.at \in {"dial", "bind", "replace", "show", "settle", "identity"}
  BY DEF DialFails, BindFails, ReplaceUploader, ShowNative, Settle, FinishFails, At, durable, memory, history
<1>2. op.cert \in 0..issued /\ file.cert \in 0..issued BY DEF ShutInv, OnlyIssued
<1>3. tasks' \in {tasks, Cancelled, Spawned(op.cert)}
  BY DEF DialFails, BindFails, ReplaceUploader, ShowNative, Settle, FinishFails, memory
<1>4. \/ Ends \/ \E st \in {"settle", "show", "accept"} : Goes(st)
      \/ op.at = "bind" /\ Goes("load")
  BY DEF DialFails, NotVerified, BindFails, ReplaceUploader, ShowNative, Settle, FinishFails, At
<1>5. \/ snap' = snap \/ \E p \in {"notpaired", "failed"} : snap' = Shown(p, Nobody)
      \/ \E b \in {op.cert, file.cert} : snap' = Bound(snap, b, conf, tomb)
  BY DEF DialFails, NotVerified, BindFails, ReplaceUploader, ShowNative, Settle, FinishFails, memory
<1>6. ShownFine BY <1>2, <1>5, ShownStays
<1>7. \A t \in tasks' : t.cert \in 0..issued BY <1>2, <1>3, TasksStay
<1>8. Still BY <1>1, StillFile
<1>9. op.kind # "launch" BY <1>1 DEF ShutInv, SlotSafe, LaunchSteps
<1>10. op'.cert \in 0..issued /\ SlotSafe' /\ op'.kind # "launch"
  <2>1. CASE Ends BY <2>1, SlotEnds
  <2>2. ASSUME NEW st \in {"settle", "show", "accept"}, Goes(st)
        PROVE  op'.cert \in 0..issued /\ SlotSafe' /\ op'.kind # "launch"
    BY <1>1, <1>8, <1>9, <2>2, SlotGoes DEF Steps, LaunchSteps
  <2>3. CASE op.at = "bind" /\ Goes("load") BY <1>1, <1>8, <1>9, <2>3, SlotGoes DEF Steps
  <2> QED BY <1>4, <2>1, <2>2, <2>3
<1>11. QuietStart' BY <1>1, <1>10, Loud
<1> QED BY <1>1, <1>6, <1>7, <1>8, <1>10, <1>11, AnswerStays, CalmStep

(* A new credential was not accepted yet: its gate stays shut.              *)
LEMMA BindPairShut ==
  ASSUME SessionInv, ShutInv, BindPair
  PROVE  ShutInv'
<1>1. /\ op.at = "bind" /\ up /\ up' = up /\ file' = file /\ ans' = ans /\ tasks' = tasks
      /\ Binds(op.cert, 0, conf) /\ snap' \in {snap, Ceremony}
      /\ Goes("proof") \/ Goes("confirm") \/ Goes("replace")
      /\ UNCHANGED <<conf, tomb, consent, refused, issued>>
  BY DEF BindPair, At, durable, history
<1>2. op.cert # Nobody BY <1>1 DEF SessionInv, Underway, Carries
<1>3. op.cert \notin consent /\ op.kind # "launch" BY <1>1 DEF ShutInv, SlotSafe, LaunchSteps
<1>4. conf # op.cert BY <1>2, <1>3, MemoryTyped
<1>5. gates' = gates BY <1>1, <1>4 DEF Binds
<1>6. Still BY <1>1, StillFile
<1>7. op'.cert \in 0..issued /\ SlotSafe' /\ op'.kind # "launch"
  BY <1>1, <1>3, <1>5, <1>6, SlotGoes DEF Steps, LaunchSteps
<1>8. QuietStart' BY <1>1, <1>7, Loud
<1>9. ShownFine BY <1>1, ShownStays DEF Ceremony
<1> QED BY <1>1, <1>5, <1>6, <1>7, <1>8, <1>9, AnswerStays, TasksStay, CalmStep

(* Beside the holder of the slot.                                           *)
LEMMA UploaderShut ==
  ASSUME SessionInv, ShutInv, UploaderPublishes \/ UploaderFails \/ UploaderEnds
  PROVE  ShutInv'
<1>1. PICK t \in tasks :
        /\ \/ tasks' = tasks \ {t}
           \/ tasks' = (tasks \ {t}) \cup {[t EXCEPT !.said = TRUE]}
           \/ tasks' = tasks
        /\ snap' \in {snap, Bound(snap, t.cert, conf, tomb), BoundFailed(snap, t.cert, conf, tomb)}
  BY DEF UploaderPublishes, UploaderFails, UploaderEnds
<1>2. /\ up /\ up' = up /\ file' = file /\ ans' = ans
      /\ UNCHANGED <<op, conf, tomb, gates, consent, refused, issued>>
  BY DEF UploaderPublishes, UploaderFails, UploaderEnds, durable, history
<1>3. t.cert \in 0..issued /\ \A u \in tasks : u.cert \in 0..issued BY TasksStay
<1>4. [t EXCEPT !.said = TRUE].cert = t.cert BY DEF SessionInv, Typed, Tasks
<1>5. \A u \in tasks' : u.cert \in 0..issued BY <1>1, <1>3, <1>4
<1>6. ShownFine BY <1>1, <1>3, ShownStays
<1>7. op'.kind # "launch" BY <1>2 DEF ShutInv, QuietStart
<1>8. Still BY <1>2, StillFile
<1>9. op'.cert \in 0..issued /\ SlotSafe' BY <1>2, <1>8, SlotStays
<1>10. QuietStart' BY <1>2, <1>7, Loud
<1> QED BY <1>2, <1>5, <1>6, <1>8, <1>9, <1>10, AnswerStays, CalmStep

LEMMA BesideShut ==
  ASSUME SessionInv, ShutInv, AccessMutates \/ BrowserOpened \/ HandoffExpires
  PROVE  ShutInv'
<1>1. UNCHANGED <<up, op, ans, conf, tomb, snap, gates, tasks, consent, refused, issued>>
  BY DEF AccessMutates, BrowserOpened, HandoffExpires, memory, history
<1>2. Still
  <2>1. CASE HandoffExpires BY <2>1, StillFile DEF HandoffExpires
  <2>2. CASE AccessMutates
    <3> DEFINE g == Mutated(file)
    <3>1. file' = Saved(file, archive, g) /\ file.cert # Nobody /\ file.gen < MaxGen
      BY <2>2 DEF AccessMutates, CanMutate
    <3>2. /\ Disk(g) /\ g.cert = file.cert /\ g.sound = file.sound /\ g.intent = file.intent
      BY <3>1, FileTyped, MutatedKeeps, SoundKeeps
    <3> HIDE DEF g
    <3> QED BY <3>1, <3>2, SavedStill DEF Retiring
  <2>3. CASE BrowserOpened
    <3> DEFINE g == [file EXCEPT !.opened = TRUE]
    <3>1. file' = Saved(file, archive, g) BY <2>3 DEF BrowserOpened
    <3>2. /\ g \in PairedFiles /\ g.cert = file.cert /\ g.sound = file.sound /\ g.intent = file.intent
          /\ g.gen = file.gen
      BY FileTyped DEF PairedFiles
    <3> HIDE DEF g
    <3> QED BY <3>1, <3>2, FileTyped, SavedStill DEF Retiring, Disk
  <2> QED BY <2>1, <2>2, <2>3
<1>3. op'.cert \in 0..issued /\ SlotSafe' BY <1>1, <1>2, SlotStays
<1>4. QuietStart' BY <1>1, QuietStays
<1>5. ShownFine BY <1>1, ShownStays
<1> QED BY <1>1, <1>2, <1>3, <1>4, <1>5, AnswerStays, TasksStay, CalmStep


----------------------------------------------------------------------------
(* The refusal.                                                             *)

(* Its pairing has no open gate: it was asked about, or is retired already. *)
LEMMA OwnerRefusesShut ==
  ASSUME SessionInv, ShutInv, OwnerRefuses
  PROVE  ShutInv'
<1>1. PICK b \in 1..MaxCerts :
        Asked(b) /\ op' = [Idle EXCEPT !.at = "load", !.kind = "answer", !.cert = b]
  BY DEF OwnerRefuses
<1>2. UNCHANGED <<file, up, ans, conf, tomb, snap, gates, tasks, consent, refused, issued>>
  BY DEF OwnerRefuses, durable, memory, history
<1>3. op'.at = "load" /\ op'.kind = "answer" /\ op'.cert = b BY <1>1 DEF Idle
<1>4. up /\ snap.phase = "awaiting" /\ snap.b = b /\ b # Nobody BY <1>1 DEF Asked, At, Shown
<1>5. b = file.cert => file.cert \notin gates
  BY <1>4, FileTyped DEF ShutInv, AskedIsShut, RefusedStaysShut, Intended
<1>6. op'.cert \in 0..issued BY <1>3, <1>4 DEF ShutInv, OnlyIssued
<1>7. SlotSafe' BY <1>2, <1>3, <1>5 DEF SlotSafe, LaunchSteps
<1>8. QuietStart' BY <1>2, <1>3, <1>4, Loud
<1>9. ShownFine BY <1>2, ShownStays
<1> QED BY <1>2, <1>6, <1>7, <1>8, <1>9, StillFile, AnswerStays, TasksStay, CalmStep

(* What is shown when a retirement waits.                                   *)
LEMMA PendingShown ==
  ASSUME RetirementPending
  PROVE  Ends /\ snap' = Shown("failed", Nobody) /\ snap'.b = Nobody
  BY DEF RetirementPending, Shown

LEMMA GivesUpShown ==
  ASSUME GivesUp
  PROVE  Ends /\ snap' = Shown("failed", Nobody) /\ snap'.b = Nobody
  BY DEF GivesUp, RetirementPending, Shown

LEMMA LegibleAgrees ==
  ASSUME ShutInv, ans' = Legible(ans)
  PROVE  ans'.confirmed = ans.confirmed /\ (ans'.st # "ok" => ans'.confirmed = Nobody)
  BY DEF ShutInv, AnswerAgrees, Legible, EmptyAnswer

LEMMA LoadShut ==
  ASSUME SessionInv, ShutInv, LoadForRefusal
  PROVE  ShutInv'
<1>1. /\ op.at = "load" /\ up /\ up' = up /\ file' = file /\ tasks' = tasks /\ ans' = Legible(ans)
      /\ UNCHANGED <<conf, tomb, gates, consent, refused, issued>>
  BY DEF LoadForRefusal, At, history
<1>2. \/ op' = [op EXCEPT !.at = "install", !.gen = file.gen] /\ snap' = snap
      \/ Ends /\ snap' \in {snap, Shown("failed", Nobody)}
  BY DEF LoadForRefusal, RetirementPending
<1>3. op'.cert \in 0..issued /\ SlotSafe' /\ op'.kind # "launch"
  <2>1. CASE Ends BY <2>1, SlotEnds
  <2>2. CASE op' = [op EXCEPT !.at = "install", !.gen = file.gen]
    <3>1. op \in Ops BY MemoryTyped
    <3>2. op'.at = "install" /\ op'.kind = op.kind /\ op'.cert = op.cert BY <2>2, <3>1 DEF Ops
    <3> QED BY <1>1, <3>2 DEF ShutInv, OnlyIssued, SlotSafe, LaunchSteps
  <2> QED BY <1>2, <2>1, <2>2
<1>4. QuietStart' BY <1>1, <1>3, Loud
<1>5. ShownFine BY <1>2, ShownStays
<1> QED BY <1>1, <1>3, <1>4, <1>5, StillFile, LegibleAgrees, TasksStay, CalmStep

(* The intent is installed for a pairing whose gate is shut.                *)
LEMMA InstallShut ==
  ASSUME SessionInv, ShutInv, InstallIntent
  PROVE  ShutInv'
<1> DEFINE g == WithIntent(file)
<1>1. PICK o \in Outcomes :
        /\ \/ /\ CanInstall(file, op.cert, op.gen) /\ o # "failed" /\ file' = Saved(file, archive, g)
              /\ refused' = refused \cup {op.cert}
           \/ UNCHANGED <<file, refused>>
        /\ \/ Goes("stop") /\ file' = Saved(file, archive, g) /\ CanInstall(file, op.cert, op.gen)
                /\ refused' = refused \cup {op.cert} /\ UNCHANGED snap
           \/ RetirementPending
  BY DEF InstallIntent, Outcomes
<1>2. /\ op.at = "install" /\ up /\ up' = up /\ ans' = ans /\ tasks' = tasks
      /\ UNCHANGED <<conf, tomb, gates, consent, issued>>
  BY DEF InstallIntent, At
<1>3. SlotSafe /\ op.cert \in 0..issued BY DEF ShutInv, OnlyIssued
<1>4. op.kind # "launch" BY <1>2, <1>3 DEF SlotSafe, LaunchSteps
<1>5. op'.cert \in 0..issued /\ SlotSafe' /\ op'.kind # "launch"
  <2>1. CASE RetirementPending BY <2>1, PendingShown, SlotEnds
  <2>2. CASE Goes("stop")
    <3>1. op'.at = "stop" /\ op'.kind = op.kind /\ op'.cert = op.cert
      BY <2>2, MemoryTyped, OpTyped DEF Goes, Steps
    <3> QED BY <1>3, <1>4, <3>1 DEF SlotSafe, LaunchSteps
  <2> QED BY <1>1, <2>1, <2>2
<1>6. QuietStart' BY <1>2, <1>5, Loud
<1>7. ShownFine BY <1>1, PendingShown, ShownStays
<1>8. CASE UNCHANGED <<file, refused>>
  BY <1>2, <1>5, <1>6, <1>7, <1>8, StillFile, AnswerStays, TasksStay, CalmStep
<1>9. CASE /\ CanInstall(file, op.cert, op.gen) /\ file' = Saved(file, archive, g)
           /\ refused' = refused \cup {op.cert}
  <2>1. file.cert = op.cert /\ file.cert # Nobody BY <1>9 DEF CanInstall
  <2>2. Disk(g) /\ g.cert = file.cert /\ Retiring(g) /\ g.sound = file.sound
    BY <2>1, FileTyped, IntentKeeps, SoundKeeps
  <2> HIDE DEF g
  <2>3. g \in PairedFiles BY <2>2 DEF Disk
  <2>4. file'.cert = file.cert /\ Retiring(file') /\ file'.sound = file.sound
    BY <1>9, <2>2, <2>3, FileTyped, SavedKeeps
  <2>5. op.cert \notin gates BY <1>2, <1>3, <2>1 DEF SlotSafe
  <2>6. OnlyIssued' BY <1>2, <1>3, <1>5, <1>7, <1>9, <2>4, TasksStay DEF ShutInv, OnlyIssued, ShownFine
  <2>7. RefusedRetires' BY <2>4 DEF ShutInv, RefusedRetires
  <2>8. AnswerAgrees' /\ AskedIsShut' BY <1>2, <2>4 DEF ShutInv, AnswerAgrees, AskedIsShut
  <2>9. RefusedStaysShut' BY <1>2, <1>7, <1>9, <2>5 DEF ShutInv, RefusedStaysShut, ShownFine
  <2> QED BY <1>5, <1>6, <2>6, <2>7, <2>8, <2>9 DEF ShutInv
<1> QED BY <1>1, <1>8, <1>9

(* The retirement goes on, in the same run or at a launch.                  *)
LEMMA StopShut ==
  ASSUME SessionInv, ShutInv, StopForRefusal
  PROVE  ShutInv'
<1>1. /\ op.at = "stop" /\ up /\ up' = up /\ file' = file /\ tasks' = Cancelled
      /\ UNCHANGED <<conf, tomb, gates, consent, refused, issued>>
      /\ \/ ans' = ans
         \/ ans' = [st |-> "ok", confirmed |-> ans.confirmed, rejected |-> op.cert]
      /\ \/ Goes("delete") /\ snap' = snap
         \/ RetirementPending
  BY DEF StopForRefusal, At, history
<1>2. ans'.confirmed = ans.confirmed /\ (ans'.st # "ok" => ans'.confirmed = Nobody)
  BY <1>1, AnswerStays
<1>3. Still BY <1>1, StillFile
<1>4. op.kind # "launch" BY <1>1 DEF ShutInv, SlotSafe, LaunchSteps
<1>5. op'.cert \in 0..issued /\ SlotSafe' /\ op'.kind # "launch"
  BY <1>1, <1>3, <1>4, PendingShown, SlotEnds, SlotGoes DEF Steps
<1>6. QuietStart' BY <1>1, <1>5, Loud
<1>7. ShownFine BY <1>1, PendingShown, ShownStays
<1> QED BY <1>1, <1>2, <1>3, <1>5, <1>6, <1>7, TasksStay, CalmStep

LEMMA DeleteShut ==
  ASSUME SessionInv, ShutInv, DeleteAtJournal
  PROVE  ShutInv'
<1>1. PICK p \in {"succeeded", "unknown"} :
        file' \in {file, Saved(file, archive, [file EXCEPT !.intent.phase = p])}
  BY DEF DeleteAtJournal
<1>2. /\ op.at = "delete" /\ up' = up /\ ans' = ans /\ tasks' = tasks
      /\ UNCHANGED <<conf, tomb, gates, consent, refused, issued>>
      /\ \/ Goes("answer") /\ snap' = snap
         \/ GivesUp
  BY DEF DeleteAtJournal, At, history
<1>3. Retiring(file) BY <1>2 DEF SessionInv, Underway
<1> DEFINE g == [file EXCEPT !.intent.phase = p]
<1>4. Disk(g) /\ g.cert = file.cert /\ Retiring(g) /\ g.sound = file.sound
  BY FileTyped, PhaseKeeps, SoundKeeps
<1>5. file' \in {file, Saved(file, archive, g)} BY <1>1
<1> HIDE DEF g
<1>6. Still BY <1>3, <1>4, <1>5, SavedStill
<1>7. op'.cert \in 0..issued /\ SlotSafe' /\ (op'.kind = "launch" => op.kind = "launch")
  BY <1>2, <1>6, GivesUpShown, SlotEnds, SlotGoes DEF Steps
<1>8. QuietStart' BY <1>2, <1>7, GivesUpShown, QuietStays
<1>9. ShownFine BY <1>2, GivesUpShown, ShownStays
<1> QED BY <1>2, <1>6, <1>7, <1>8, <1>9, AnswerStays, TasksStay, CalmStep

LEMMA ClearShut ==
  ASSUME SessionInv, ShutInv, ClearAnswer
  PROVE  ShutInv'
<1>1. /\ op.at = "answer" /\ up' = up /\ file' = file /\ ans' \in {ans, EmptyAnswer} /\ tasks' = tasks
      /\ UNCHANGED <<conf, tomb, gates, consent, refused, issued>>
      /\ \/ Goes("drop") /\ snap' = snap
         \/ GivesUp
  BY DEF ClearAnswer, At, history
<1>2. Retiring(file) BY <1>1 DEF SessionInv, Underway
<1>3. ans'.st # "ok" => ans'.confirmed = Nobody BY <1>1, AnswerStays, Constants
<1>4. Still BY <1>1, StillFile
<1>5. op'.cert \in 0..issued /\ SlotSafe' /\ (op'.kind = "launch" => op.kind = "launch")
  BY <1>1, <1>4, GivesUpShown, SlotEnds, SlotGoes DEF Steps
<1>6. QuietStart' BY <1>1, <1>5, GivesUpShown, QuietStays
<1>7. ShownFine BY <1>1, GivesUpShown, ShownStays
<1> QED BY <1>1, <1>2, <1>3, <1>4, <1>5, <1>6, <1>7, TasksStay, CalmStep

(* The pairing is dropped; the owner's refusal leaves its tombstone.        *)
LEMMA DropShut ==
  ASSUME SessionInv, ShutInv, DropPairing
  PROVE  ShutInv'
<1> DEFINE g == Cleared(file)
<1>1. PICK o \in Outcomes :
        /\ file' = IF o = "failed" THEN file ELSE Saved(file, archive, g)
        /\ \/ o # "ok" /\ GivesUp /\ UNCHANGED <<conf, tomb>>
           \/ o = "ok" /\ op.kind = "launch" /\ Goes("resume") /\ UNCHANGED <<conf, tomb, snap>>
           \/ /\ o = "ok" /\ Ends /\ conf' = Nobody /\ snap' = Shown("notpaired", Nobody)
              /\ tomb' \in {tomb, Tombstone(snap, tomb)}
  BY DEF DropPairing
<1>2. /\ op.at = "drop" /\ up /\ up' = up /\ ans' = ans /\ tasks' = tasks
      /\ UNCHANGED <<gates, consent, refused, issued>>
  BY DEF DropPairing, At, history
<1>3. Retiring(file) /\ file.cert # Nobody /\ file.cert \in refused
  BY <1>2 DEF SessionInv, Underway, Intended
<1>4. Disk(g) /\ g.cert = Nobody /\ ~Retiring(g) /\ g.sound = file.sound
  BY <1>3, FileTyped, ClearedKeeps, SoundKeeps
<1> HIDE DEF g
<1>5. g \in PairedFiles BY <1>4 DEF Disk
<1>6. file' = file \/ (file'.cert = Nobody /\ ~Retiring(file') /\ file'.sound = file.sound)
  BY <1>1, <1>4, <1>5, FileTyped, SavedKeeps
<1>7. snap'.b = Nobody \/ (snap' = snap /\ tomb' = tomb) BY <1>1, GivesUpShown DEF Shown
<1>8. /\ op'.cert \in 0..issued /\ SlotSafe' /\ (op'.kind = "launch" => op.kind = "launch")
  <2>1. CASE Ends BY <2>1, SlotEnds
  <2>2. CASE o = "ok" /\ op.kind = "launch" /\ Goes("resume")
    <3>1. op'.at = "resume" /\ op'.kind = op.kind /\ op'.cert = op.cert
      BY <2>2, MemoryTyped, OpTyped DEF Goes, Steps
    <3>2. ~Retiring(file') BY <1>1, <1>4, <1>5, <2>2, FileTyped, SavedKeeps
    <3> QED BY <2>2, <3>1, <3>2 DEF ShutInv, OnlyIssued, SlotSafe, LaunchSteps
  <2> QED BY <1>1, <2>1, <2>2, GivesUpShown
<1>9. file.cert \notin gates BY <1>3 DEF ShutInv, RefusedStaysShut
<1>10. OnlyIssued' BY <1>2, <1>6, <1>7, <1>8, SomeIssued DEF ShutInv, OnlyIssued
<1>11. RefusedRetires' BY <1>2, <1>3, <1>6 DEF ShutInv, RefusedRetires
<1>12. AnswerAgrees' /\ AskedIsShut'
  BY <1>2, <1>3, <1>6, <1>9 DEF ShutInv, AnswerAgrees, AskedIsShut
<1>13. QuietStart' BY <1>2, <1>7, <1>8 DEF ShutInv, QuietStart
<1>14. RefusedStaysShut' BY <1>2, <1>7 DEF ShutInv, RefusedStaysShut
<1> QED BY <1>8, <1>10, <1>11, <1>12, <1>13, <1>14 DEF ShutInv


----------------------------------------------------------------------------
(* A new credential.                                                        *)

(* For a pairing that stands, the answer that is prepared is the one that   *)
(* was there, or the first.                                                 *)
LEMMA PreparedAgrees ==
  ASSUME SessionInv, ShutInv
  PROVE  /\ ans.st # "absent" => Prepared = ans
         /\ Prepared.st # "ok" => Prepared.confirmed = Nobody
         /\ PreparedConf = IF ans.st = "bad" THEN conf ELSE Prepared.confirmed
<1>1. file.sound /\ (ans.st # "ok" => ans.confirmed = Nobody)
  BY DEF ShutInv, RefusedRetires, AnswerAgrees
<1>2. Held(Settled(ans, file), file) = Settled(ans, file) BY <1>1 DEF Held, Stands
<1>3. Prepared = IF ans.st = "absent" THEN Settled(ans, file) ELSE ans BY <1>2 DEF Prepared
<1>4. ans.st = "absent" => Settled(ans, file).st = "ok" BY DEF Settled, EmptyAnswer
<1> QED BY <1>1, <1>3, <1>4 DEF PreparedConf

LEMMA BeginPairShut ==
  ASSUME SessionInv, ShutInv, BeginPair
  PROVE  ShutInv'
<1>1. PICK k \in {"link", "here"} :
        /\ ans' = Prepared /\ conf' = PreparedConf
        /\ \/ Retiring(file) /\ op' = [Idle EXCEPT !.at = "settle", !.kind = k] /\ snap' = snap
           \/ op' = [Idle EXCEPT !.at = "dial", !.kind = k] /\ snap' = Ceremony
  BY DEF BeginPair
<1>2. /\ up /\ UNCHANGED <<file, up, tomb, gates, tasks, consent, refused, issued>>
  BY DEF BeginPair, At, history
<1>3. op'.at \in {"settle", "dial"} /\ op'.kind # "launch" /\ op'.cert = Nobody
  BY <1>1 DEF Idle
<1>4. op'.cert \in 0..issued /\ SlotSafe' BY <1>3, SomeIssued DEF SlotSafe, LaunchSteps
<1>5. QuietStart' BY <1>2, <1>3, Loud
<1>6. (Retiring(file) /\ snap' = snap) \/ snap'.b = Nobody BY <1>1 DEF Ceremony, Shown
<1>7. file.cert # Nobody /\ Retiring(file) => file.cert \notin gates
  BY FileTyped DEF ShutInv, RefusedStaysShut, Intended
<1>8. AnswerAgrees'
  <2>1. ans'.st # "ok" => ans'.confirmed = Nobody BY <1>1, PreparedAgrees
  <2>2. ASSUME file.cert # Nobody, ~Retiring(file), conf' = file.cert PROVE ans'.confirmed = file.cert
    BY <1>1, <2>2, PreparedAgrees DEF ShutInv, AnswerAgrees
  <2>3. ASSUME file.cert # Nobody, file.cert \in gates PROVE conf' = file.cert
    <3>1. ~Retiring(file) /\ conf = file.cert BY <1>7, <2>3 DEF ShutInv, AnswerAgrees
    <3>2. ans.confirmed = file.cert /\ ans.st = "ok" BY <2>3, <3>1 DEF ShutInv, AnswerAgrees
    <3> QED BY <1>1, <3>2, PreparedAgrees
  <2> QED BY <1>2, <2>1, <2>2, <2>3 DEF AnswerAgrees
<1>9. AskedIsShut' BY <1>2, <1>6 DEF ShutInv, AskedIsShut
<1>10. OnlyIssued' /\ RefusedRetires' /\ RefusedStaysShut'
  BY <1>2, <1>4, <1>6, SomeIssued DEF ShutInv, OnlyIssued, RefusedRetires, RefusedStaysShut
<1> QED BY <1>4, <1>5, <1>8, <1>9, <1>10 DEF ShutInv

(* The credential that is issued is one nobody has seen.                    *)
LEMMA DialledShut ==
  ASSUME SessionInv, ShutInv, Dialled
  PROVE  ShutInv'
<1>1. /\ op.at = "dial" /\ up /\ issued' = issued + 1
      /\ op' = [op EXCEPT !.at = "save", !.cert = issued + 1]
      /\ UNCHANGED <<file, ans, up, conf, tomb, snap, gates, tasks, consent, refused>>
  BY DEF Dialled, At, durable, memory
<1>2. op'.at = "save" /\ op'.kind = op.kind /\ op'.cert = issued + 1 BY <1>1, MemoryTyped DEF Ops
<1>3. op.kind # "launch" BY <1>1 DEF ShutInv, SlotSafe, LaunchSteps
<1>4. /\ issued + 1 \notin 0..issued /\ 0..issued \subseteq 0..(issued + 1) /\ issued + 1 \in 0..(issued + 1)
  BY SomeIssued
<1>5. SlotSafe' BY <1>1, <1>2, <1>3, <1>4 DEF ShutInv, OnlyIssued, SlotSafe, LaunchSteps
<1>6. OnlyIssued' BY <1>1, <1>2, <1>4 DEF ShutInv, OnlyIssued
<1>7. QuietStart' BY <1>1, <1>2, <1>3, Loud
<1> QED BY <1>1, <1>5, <1>6, <1>7 DEF ShutInv, RefusedRetires, AnswerAgrees, AskedIsShut, RefusedStaysShut

(* It is saved, with its gate shut.                                         *)
LEMMA SavePairShut ==
  ASSUME SessionInv, ShutInv, SavePair, SessionInv'
  PROVE  ShutInv'
<1> DEFINE f == FreshPair(op.cert, op.act)
<1>1. /\ op.at = "save" /\ up
      /\ UNCHANGED <<up, tomb, gates, tasks, consent, refused, issued>>
  BY DEF SavePair, At, history
<1>2. file' \in {file, Saved(file, archive, f)} BY DEF SavePair, NewFile
<1>3. \/ op.kind = "found" /\ ans' = Prepared /\ conf' = PreparedConf
      \/ op.kind # "found" /\ ans' = ans /\ conf' = conf
  BY DEF SavePair
<1>4. \/ Ends \/ Goes("bind") \/ Goes("settle")
  BY DEF SavePair, NotVerified
<1>5. \/ snap' = snap \/ \E p \in {"notpaired", "failed", "pairing"} : snap' = Shown(p, Nobody)
      \/ op.kind # "found" /\ snap' = Bound(snap, op.cert, conf, tomb)
  BY DEF SavePair, NotVerified, Ceremony
<1>6. op.cert \in Certs /\ op.act \in {0} \cup Handoffs /\ op.cert \in 0..issued /\ op.cert # Nobody
  BY <1>1, MemoryTyped DEF ShutInv, OnlyIssued, SessionInv, Underway, Carries
<1>7. op.cert \notin consent \cup refused \cup {file.cert} /\ op.kind # "launch"
  BY <1>1 DEF ShutInv, SlotSafe, LaunchSteps
<1>8. Disk(f) /\ f.cert = op.cert /\ ~Retiring(f) /\ f.sound BY <1>6, FreshKeeps, FileTyped, SoundKeeps
<1> HIDE DEF f
<1>9. f \in PairedFiles BY <1>8 DEF Disk
<1>10. file' = file \/ (file'.cert = op.cert /\ ~Retiring(file') /\ file'.sound)
  BY <1>2, <1>8, <1>9, FileTyped, SavedKeeps
<1>11. op.kind = "found" => file.cert = Nobody BY <1>1 DEF SessionInv, Underway
<1>12. op.cert \notin gates BY <1>7, MemoryTyped
<1>13. conf' # op.cert /\ conf # op.cert BY <1>1, <1>6, <1>7, MemoryTyped DEF SessionInv, Named
<1>14. ShownFine BY <1>5, <1>6, ShownStays
<1>15. op'.cert \in 0..issued /\ SlotSafe' /\ op'.kind # "launch"
  <2>1. CASE Ends BY <2>1, SlotEnds
  <2>2. ASSUME NEW st \in {"bind", "settle"}, Goes(st)
        PROVE  op'.cert \in 0..issued /\ SlotSafe' /\ op'.kind # "launch"
    <3>1. op'.at = st /\ op'.kind = op.kind /\ op'.cert = op.cert
      BY <2>2, MemoryTyped, OpTyped DEF Goes, Steps
    <3> QED BY <1>1, <1>6, <1>7, <3>1 DEF SlotSafe, LaunchSteps
  <2> QED BY <1>4, <2>1, <2>2
<1>16. OnlyIssued' BY <1>1, <1>6, <1>10, <1>14, <1>15, TasksStay DEF ShutInv, OnlyIssued, ShownFine
<1>17. RefusedRetires' BY <1>1, <1>7, <1>10 DEF ShutInv, RefusedRetires
<1>18. AnswerAgrees'
  BY <1>1, <1>3, <1>10, <1>11, <1>12, <1>13, PreparedAgrees DEF ShutInv, AnswerAgrees
<1>19. AskedIsShut'
  <2>1. CASE file' = file
    BY <1>1, <1>3, <1>5, <1>11, <1>14, <2>1 DEF ShutInv, AskedIsShut, AnswerAgrees, ShownFine
  <2>2. CASE file'.cert = op.cert BY <1>1, <1>12, <1>13, <2>2 DEF AskedIsShut
  <2> QED BY <1>10, <2>1, <2>2
<1>20. QuietStart' BY <1>1, <1>15, Loud
<1>21. RefusedStaysShut' BY <1>1, <1>14 DEF ShutInv, RefusedStaysShut, ShownFine
<1> QED BY <1>15, <1>16, <1>17, <1>18, <1>19, <1>20, <1>21 DEF ShutInv

----------------------------------------------------------------------------
(* A confirmation.                                                          *)

(* confirm_current opens the gate of the saved pairing, which is not being  *)
(* retired and so was not refused.                                          *)
LEMMA ConfirmNowShut ==
  ASSUME SessionInv, ShutInv, NEW b \in 0..issued, b # Nobody, b \in Certs, ConfirmNow(b),
         consent' = consent \cup {b}, UNCHANGED <<file, tomb, tasks, refused, issued>>,
         up, up' = up, op'.cert \in 0..issued, op'.kind # "launch",
         op'.at \in {"idle", "replace"}
  PROVE  ShutInv'
<1>1. /\ file.cert = b /\ ~Retiring(file) /\ ans' = ConfirmedAnswer(b) /\ conf' = b
      /\ gates' = gates \cup {b} /\ snap' = Bound(snap, b, b, tomb)
  BY DEF ConfirmNow, Confirmable
<1>2. b \notin refused BY <1>1 DEF ShutInv, RefusedRetires
<1>3. ans'.confirmed = b /\ ans'.st = "ok" BY <1>1, AnswerKinds DEF SessionInv
<1>4. /\ snap'.b \in 0..issued /\ (tomb # Nobody => snap'.b # tomb)
      /\ ~(snap'.phase = "awaiting" /\ snap'.b = b) \/ (snap' = snap /\ tomb = b)
  BY <1>1 DEF ShutInv, OnlyIssued, RefusedStaysShut, Bound, Shown
<1>5. ~(snap'.phase = "awaiting" /\ snap'.b = b)
  BY <1>4 DEF ShutInv, RefusedStaysShut
<1>6. OnlyIssued' BY <1>4, TasksStay DEF ShutInv, OnlyIssued
<1>7. RefusedRetires' BY DEF ShutInv, RefusedRetires
<1>8. AnswerAgrees' /\ AskedIsShut' BY <1>1, <1>3, <1>5 DEF AnswerAgrees, AskedIsShut
<1>9. SlotSafe' BY DEF SlotSafe, LaunchSteps
<1>10. QuietStart' BY Loud
<1>11. RefusedStaysShut' BY <1>1, <1>2, <1>4 DEF ShutInv, RefusedStaysShut
<1> QED BY <1>6, <1>7, <1>8, <1>9, <1>10, <1>11 DEF ShutInv

(* One that fails may leave an answer, but of the saved pairing.            *)
LEMMA ConfirmFailsShut ==
  ASSUME SessionInv, ShutInv, NEW b \in 0..issued, b \in Certs, ans' = ans \/ ConfirmFails(b),
         consent' \in {consent, consent \cup {b}},
         UNCHANGED <<file, conf, gates, tomb, tasks, refused, issued>>,
         up, up' = up, op'.cert \in 0..issued, op'.kind # "launch",
         \/ op'.at \in {"idle", "replace"}
         \/ op'.at = "load" /\ (op'.cert = file.cert => file.cert \notin gates),
         ShownFine
  PROVE  ShutInv'
<1>1. \/ ans' = ans
      \/ file.cert = b /\ ans' = ConfirmedAnswer(b)
  BY DEF ConfirmFails, Confirmable
<1>2. ConfirmedAnswer(b).confirmed = b /\ ConfirmedAnswer(b).st = "ok" BY AnswerKinds DEF SessionInv
<1>3. OnlyIssued' BY TasksStay DEF ShutInv, OnlyIssued, ShownFine
<1>4. RefusedRetires' BY DEF ShutInv, RefusedRetires
<1>5. AnswerAgrees' BY <1>1, <1>2 DEF ShutInv, AnswerAgrees
<1>6. AskedIsShut' BY DEF ShutInv, AskedIsShut, AnswerAgrees, ShownFine
<1>7. SlotSafe' BY DEF SlotSafe, LaunchSteps
<1>8. QuietStart' BY Loud
<1>9. RefusedStaysShut' BY DEF ShutInv, RefusedStaysShut, ShownFine
<1> QED BY <1>3, <1>4, <1>5, <1>6, <1>7, <1>8, <1>9 DEF ShutInv

LEMMA ProofShut ==
  ASSUME SessionInv, ShutInv, ProvenHere \/ NotProvenHere
  PROVE  ShutInv'
<1>1. /\ op.at = "proof" /\ up /\ Goes("replace") /\ UNCHANGED <<file, up, tomb, tasks, refused, issued>>
      /\ \/ ConfirmNow(op.cert) /\ consent' = consent \cup {op.cert}
         \/ /\ (ConfirmFails(op.cert) /\ consent' = consent \cup {op.cert}) \/ UNCHANGED <<ans, consent>>
            /\ snap' = Bound(snap, op.cert, conf, tomb) /\ UNCHANGED <<conf, gates>>
  BY DEF ProvenHere, NotProvenHere, At
<1>2. op.cert # Nobody /\ op.cert \in Certs /\ op.cert \in 0..issued
  BY <1>1, MemoryTyped DEF SessionInv, Underway, Carries, ShutInv, OnlyIssued
<1>3. op'.at = "replace" /\ op'.kind = op.kind /\ op'.cert = op.cert
  BY <1>1, MemoryTyped, OpTyped DEF Goes, Steps
<1>4. op.kind # "launch" BY <1>1 DEF ShutInv, SlotSafe, LaunchSteps
<1>5. CASE ConfirmNow(op.cert) /\ consent' = consent \cup {op.cert}
  BY <1>1, <1>2, <1>3, <1>4, <1>5, ConfirmNowShut
<1>6. CASE /\ (ConfirmFails(op.cert) /\ consent' = consent \cup {op.cert}) \/ UNCHANGED <<ans, consent>>
           /\ snap' = Bound(snap, op.cert, conf, tomb) /\ UNCHANGED <<conf, gates>>
  <2>1. ShownFine BY <1>2, <1>6, ShownStays
  <2>2. ans' = ans \/ ConfirmFails(op.cert) BY <1>6
  <2>3. consent' \in {consent, consent \cup {op.cert}} BY <1>6
  <2> QED BY <1>1, <1>2, <1>3, <1>4, <1>6, <2>1, <2>2, <2>3, ConfirmFailsShut
<1> QED BY <1>1, <1>5, <1>6

LEMMA ConfirmFoundShut ==
  ASSUME SessionInv, ShutInv, ConfirmFound
  PROVE  ShutInv'
<1>1. /\ op.at = "confirm" /\ up /\ UNCHANGED <<file, up, tomb, tasks, refused, issued>>
      /\ consent' = consent \cup {op.cert}
      /\ \/ ConfirmNow(op.cert) /\ Goes("replace")
         \/ ConfirmFails(op.cert) /\ Goes("load") /\ UNCHANGED <<conf, gates, snap>>
  BY DEF ConfirmFound, At
<1>2. op.cert # Nobody /\ op.cert \in Certs /\ op.cert \in 0..issued
  BY <1>1, MemoryTyped DEF SessionInv, Underway, Carries, ShutInv, OnlyIssued
<1>3. \A st \in {"replace", "load"} : Goes(st) => op'.at = st /\ op'.kind = op.kind /\ op'.cert = op.cert
  BY MemoryTyped, OpTyped DEF Goes, Steps
<1>4. op.kind # "launch" /\ op.cert \notin consent BY <1>1 DEF ShutInv, SlotSafe, LaunchSteps
<1>5. op.cert \notin gates BY <1>4, MemoryTyped
<1>6. CASE ConfirmNow(op.cert) /\ Goes("replace")
  BY <1>1, <1>2, <1>3, <1>4, <1>6, ConfirmNowShut
<1>7. CASE ConfirmFails(op.cert) /\ Goes("load") /\ UNCHANGED <<conf, gates, snap>>
  <2>1. ShownFine BY <1>7, ShownStays
  <2> QED BY <1>1, <1>2, <1>3, <1>4, <1>5, <1>7, <2>1, ConfirmFailsShut
<1> QED BY <1>1, <1>6, <1>7

LEMMA AcceptNativeShut ==
  ASSUME SessionInv, ShutInv, AcceptNative
  PROVE  ShutInv'
<1>1. /\ op.at = "accept" /\ up /\ Ends /\ UNCHANGED <<file, up, tomb, tasks, refused, issued>>
      /\ \/ ConfirmNow(op.cert) /\ consent' = consent \cup {op.cert}
         \/ /\ (ConfirmFails(op.cert) /\ consent' = consent \cup {op.cert}) \/ UNCHANGED <<ans, consent>>
            /\ UNCHANGED <<conf, gates, snap>>
  BY DEF AcceptNative, At
<1>2. op.cert # Nobody /\ op.cert \in Certs /\ op.cert \in 0..issued
  BY <1>1, MemoryTyped DEF SessionInv, Underway, Carries, ShutInv, OnlyIssued
<1>3. op'.cert \in 0..issued /\ op'.at = "idle" /\ op'.kind # "launch"
  BY <1>1, SlotEnds, Constants DEF Ends
<1>4. CASE ConfirmNow(op.cert) /\ consent' = consent \cup {op.cert}
  BY <1>1, <1>2, <1>3, <1>4, ConfirmNowShut
<1>5. CASE /\ (ConfirmFails(op.cert) /\ consent' = consent \cup {op.cert}) \/ UNCHANGED <<ans, consent>>
           /\ UNCHANGED <<conf, gates, snap>>
  <2>1. ShownFine BY <1>5, ShownStays
  <2>2. ans' = ans \/ ConfirmFails(op.cert) BY <1>5
  <2>3. consent' \in {consent, consent \cup {op.cert}} BY <1>5
  <2> QED BY <1>1, <1>2, <1>3, <1>5, <2>1, <2>2, <2>3, ConfirmFailsShut
<1> QED BY <1>1, <1>4, <1>5

LEMMA OwnerConfirmsShut ==
  ASSUME SessionInv, ShutInv, OwnerConfirms
  PROVE  ShutInv'
<1>1. PICK b \in 1..MaxCerts :
        /\ Asked(b) /\ consent' = consent \cup {b}
        /\ \/ ConfirmNow(b)
           \/ ConfirmFails(b) /\ UNCHANGED <<conf, gates, snap>>
  BY DEF OwnerConfirms
<1>2. UNCHANGED <<file, up, op, tomb, tasks, refused, issued>> BY DEF OwnerConfirms
<1>3. up /\ op.at = "idle" /\ b # Nobody /\ snap.b = b BY <1>1 DEF Asked, At, Shown
<1>4. b \in 0..issued /\ b \in Certs /\ op.cert \in 0..issued
  BY <1>3, MemoryTyped DEF ShutInv, OnlyIssued, Snaps
<1>5. op.kind # "launch" BY <1>3 DEF ShutInv, SlotSafe, LaunchSteps
<1>6. CASE ConfirmNow(b) BY <1>1, <1>2, <1>3, <1>4, <1>5, <1>6, ConfirmNowShut
<1>7. CASE ConfirmFails(b) /\ UNCHANGED <<conf, gates, snap>>
  <2>1. ShownFine BY <1>7, ShownStays
  <2> QED BY <1>1, <1>2, <1>3, <1>4, <1>5, <1>7, <2>1, ConfirmFailsShut
<1> QED BY <1>1, <1>6, <1>7


----------------------------------------------------------------------------
(* A pairing that is bound again, crashes and launches.                     *)

(* The saved pairing is bound: its gate opens if the cache confirms it.     *)
LEMMA BindSavedShut ==
  ASSUME SessionInv, ShutInv, NEW gen, file.cert # Nobody, ~Retiring(file), Binds(file.cert, gen, conf),
         UNCHANGED <<file, ans, conf, tomb, snap, consent, refused, issued>>,
         up, up' = up, op'.cert \in 0..issued, op'.kind # "launch", op'.at \in {"idle", "replace"},
         \A t \in tasks' : t.cert \in 0..issued
  PROVE  ShutInv'
<1>1. gates' \in {gates, gates \cup {file.cert}} /\ (file.cert \in gates' => conf = file.cert)
  BY DEF Binds, ShutInv, AnswerAgrees
<1>2. file.cert \notin refused BY DEF ShutInv, RefusedRetires
<1>3. OnlyIssued' /\ RefusedRetires' BY DEF ShutInv, OnlyIssued, RefusedRetires
<1>4. AnswerAgrees' /\ AskedIsShut' BY <1>1 DEF ShutInv, AnswerAgrees, AskedIsShut
<1>5. SlotSafe' BY DEF SlotSafe, LaunchSteps
<1>6. QuietStart' BY Loud
<1>7. RefusedStaysShut' BY <1>1, <1>2 DEF ShutInv, RefusedStaysShut
<1> QED BY <1>3, <1>4, <1>5, <1>6, <1>7 DEF ShutInv

LEMMA RestoreShut ==
  ASSUME SessionInv, ShutInv, RestoreNative
  PROVE  ShutInv'
<1>1. /\ op.at = "identity" /\ up
      /\ UNCHANGED <<file, ans, up, conf, tomb, snap, tasks, consent, refused, issued>>
      /\ \/ file.cert = op.cert /\ ~Retiring(file) /\ Binds(op.cert, op.gen, conf) /\ Goes("replace")
         \/ Ends /\ gates' = gates
  BY DEF RestoreNative, At, durable, history
<1>2. op.cert # Nobody /\ op.cert \in 0..issued /\ op.kind # "launch"
  BY <1>1 DEF SessionInv, Underway, Carries, ShutInv, OnlyIssued, SlotSafe, LaunchSteps
<1>3. CASE file.cert = op.cert /\ ~Retiring(file) /\ Binds(op.cert, op.gen, conf) /\ Goes("replace")
  <2>1. op'.at = "replace" /\ op'.kind = op.kind /\ op'.cert = op.cert
    BY <1>3, MemoryTyped, OpTyped DEF Goes, Steps
  <2>2. Binds(file.cert, op.gen, conf) /\ file.cert # Nobody /\ ~Retiring(file) BY <1>2, <1>3
  <2> QED BY <1>1, <1>2, <2>1, <2>2, TasksStay, BindSavedShut
<1>4. CASE Ends /\ gates' = gates
  <2>1. op'.cert \in 0..issued /\ SlotSafe' /\ op'.kind # "launch" BY <1>4, SlotEnds
  <2>2. QuietStart' BY <1>1, <2>1, Loud
  <2>3. ShownFine BY <1>1, ShownStays
  <2> QED BY <1>1, <1>4, <2>1, <2>2, <2>3, StillFile, AnswerStays, TasksStay, CalmStep
<1> QED BY <1>1, <1>3, <1>4

LEMMA ResumeShut ==
  ASSUME SessionInv, ShutInv, Resume
  PROVE  ShutInv'
<1>1. /\ op.at = "start" /\ up /\ Ends
      /\ UNCHANGED <<file, ans, up, conf, tomb, snap, consent, refused, issued>>
      /\ \/ file.cert # Nobody /\ Binds(file.cert, file.gen, conf) /\ tasks' = Spawned(file.cert)
         \/ UNCHANGED <<gates, tasks>>
  BY DEF Resume, At, durable, history
<1>2. ~Retiring(file) /\ file.cert \in 0..issued
  BY <1>1 DEF ShutInv, SlotSafe, LaunchSteps, OnlyIssued
<1>3. op'.cert \in 0..issued /\ SlotSafe' /\ op'.kind # "launch" /\ op'.at = "idle"
  BY <1>1, SlotEnds, Constants DEF Ends
<1>4. CASE file.cert # Nobody /\ Binds(file.cert, file.gen, conf) /\ tasks' = Spawned(file.cert)
  <2>1. \A t \in tasks' : t.cert \in 0..issued BY <1>2, <1>4, TasksStay
  <2> QED BY <1>1, <1>2, <1>3, <1>4, <2>1, BindSavedShut
<1>5. CASE UNCHANGED <<gates, tasks>>
  <2>1. QuietStart' BY <1>1, <1>3, Loud
  <2>2. ShownFine BY <1>1, ShownStays
  <2> QED BY <1>1, <1>3, <1>5, <2>1, <2>2, StillFile, AnswerStays, TasksStay, CalmStep
<1> QED BY <1>1, <1>4, <1>5

(* The answer that a launch settles for a pairing that stands is the one in *)
(* the cache, unless it could not be written.                               *)
LEMMA SettleLaunchShut ==
  ASSUME SessionInv, ShutInv, SettleLaunch
  PROVE  ShutInv'
<1> DEFINE a == Settled(ans, file)
<1>1. Stands(file) /\ Held(a, file) = a BY DEF ShutInv, RefusedRetires, Stands, Held
<1>2. /\ op.at = "resume" /\ up /\ Goes("start")
      /\ UNCHANGED <<file, up, tomb, snap, gates, tasks, consent, refused, issued>>
      /\ \/ ans' = a /\ conf' = a.confirmed
         \/ ans.st = "absent" /\ ans' \in {ans, a} /\ conf' = conf
  BY <1>1 DEF SettleLaunch, At, history
<1>3. ans.st # "ok" => ans.confirmed = Nobody BY DEF ShutInv, AnswerAgrees
<1>4. a.st # "ok" => a.confirmed = Nobody BY <1>3 DEF Settled, EmptyAnswer
<1> HIDE DEF a
<1>5. /\ op.kind = "launch" /\ ~Retiring(file) /\ tasks = {} /\ gates = {} /\ snap.b = Nobody
  BY <1>2 DEF ShutInv, SlotSafe, LaunchSteps, QuietStart
<1>6. op'.at = "start" /\ op'.kind = op.kind /\ op'.cert = op.cert
  BY <1>2, MemoryTyped, OpTyped DEF Goes, Steps
<1>7. AnswerAgrees' BY <1>2, <1>3, <1>4, <1>5 DEF ShutInv, AnswerAgrees
<1>8. AskedIsShut' BY <1>2, <1>5 DEF AskedIsShut
<1>9. OnlyIssued' /\ RefusedRetires' /\ RefusedStaysShut'
  BY <1>2, <1>6 DEF ShutInv, OnlyIssued, RefusedRetires, RefusedStaysShut
<1>10. SlotSafe' /\ QuietStart' BY <1>2, <1>5, <1>6 DEF SlotSafe, LaunchSteps, QuietStart
<1> QED BY <1>7, <1>8, <1>9, <1>10 DEF ShutInv

LEMMA MendShut ==
  ASSUME SessionInv, ShutInv, Mend
  PROVE  ShutInv'
<1> DEFINE g == [file EXCEPT !.sound = TRUE]
<1>1. /\ op.at = "mend" /\ Goes("start") /\ file' \in {file, Saved(file, archive, g)}
      /\ UNCHANGED <<ans, up, conf, tomb, snap, gates, tasks, consent, refused, issued>>
  BY DEF Mend, At, memory, history
<1>2. file.sound = TRUE BY FileTyped DEF ShutInv, RefusedRetires, PairedFiles
<1>3. /\ g \in PairedFiles /\ g.cert = file.cert /\ g.gen = file.gen /\ g.intent = file.intent
      /\ g.sound = file.sound
  BY <1>2, FileTyped DEF PairedFiles
<1> HIDE DEF g
<1>4. Still BY <1>1, <1>3, FileTyped, SavedStill DEF Disk, Retiring
<1>5. op'.cert \in 0..issued /\ SlotSafe' /\ op'.kind = op.kind BY <1>1, <1>4, SlotGoes DEF Steps
<1>6. QuietStart' BY <1>1, <1>5, QuietStays
<1>7. ShownFine BY <1>1, ShownStays
<1> QED BY <1>1, <1>4, <1>5, <1>6, <1>7, AnswerStays, TasksStay, CalmStep

(* The program ends: what is left is what is on disk.                       *)
LEMMA StoppedShut ==
  ASSUME SessionInv, ShutInv, Stopped
  PROVE  ShutInv'
<1>1. /\ op' = Idle /\ conf' = Nobody /\ tomb' = Nobody /\ snap' = Shown("notpaired", Nobody)
      /\ gates' = {} /\ tasks' = {} /\ UNCHANGED <<file, ans, consent, refused, issued>>
  BY DEF Stopped, durable, history
<1>2. op'.cert \in 0..issued /\ SlotSafe' BY <1>1, SlotEnds DEF Ends
<1>3. snap'.b = Nobody BY <1>1 DEF Shown
<1>4. OnlyIssued' /\ RefusedRetires'
  BY <1>1, <1>2, <1>3, SomeIssued DEF ShutInv, OnlyIssued, RefusedRetires
<1>5. AnswerAgrees' /\ AskedIsShut' BY <1>1, <1>3 DEF ShutInv, AnswerAgrees, AskedIsShut
<1>6. QuietStart' /\ RefusedStaysShut' BY <1>1, <1>3 DEF QuietStart, RefusedStaysShut
<1> QED BY <1>2, <1>4, <1>5, <1>6 DEF ShutInv

LEMMA FailedLaunchShut ==
  ASSUME SessionInv, ShutInv, Down, LaunchFails \/ KeyRefused
  PROVE  ShutInv'
<1>1. /\ ~up /\ up' /\ UNCHANGED <<op, conf, tomb, gates, tasks, consent, refused, issued>>
      /\ \E p \in {"notpaired", "failed"} : snap' = Shown(p, Nobody)
      /\ ans' \in {ans, Legible(ans)} /\ file' \in {file, Unpaired}
  BY DEF LaunchFails, KeyRefused, history
<1>2. ans'.confirmed = ans.confirmed /\ (ans'.st # "ok" => ans'.confirmed = Nobody)
  BY <1>1, AnswerStays, LegibleAgrees
<1>3. op.at = "idle" BY <1>1 DEF Down
<1>4. op'.kind # "launch" /\ op'.cert \in 0..issued
  BY <1>1, <1>3 DEF ShutInv, OnlyIssued, SlotSafe, LaunchSteps
<1>5. SlotSafe' BY <1>1, <1>3, <1>4 DEF SlotSafe, LaunchSteps
<1>6. QuietStart' BY <1>1, <1>4, Loud
<1>7. ShownFine BY <1>1, ShownStays
<1>8. CASE file' = file
  BY <1>1, <1>2, <1>4, <1>5, <1>6, <1>7, <1>8, StillFile, TasksStay, CalmStep
<1>9. CASE file' = Unpaired
  <2>1. file'.cert = Nobody /\ file'.sound BY <1>9 DEF Unpaired
  <2>2. OnlyIssued' /\ RefusedRetires'
    BY <1>1, <1>4, <1>7, <2>1, SomeIssued DEF ShutInv, OnlyIssued, RefusedRetires, ShownFine
  <2>3. AnswerAgrees' /\ AskedIsShut' BY <1>2, <2>1 DEF AnswerAgrees, AskedIsShut
  <2>4. RefusedStaysShut' BY <1>1, <1>7 DEF ShutInv, RefusedStaysShut, ShownFine
  <2> QED BY <1>5, <1>6, <2>2, <2>3, <2>4 DEF ShutInv
<1> QED BY <1>1, <1>8, <1>9

(* A refusal that a launch stages is of a pairing with nothing in memory.   *)
LEMMA LaunchShut ==
  ASSUME SessionInv, ShutInv, Launch, SessionInv'
  PROVE  ShutInv'
<1> DEFINE a == Legible(ans)
<1>1. /\ ~up /\ up' = TRUE /\ op' = [Idle EXCEPT !.at = FirstStep, !.kind = "launch"]
      /\ file' = (IF Stages(a) THEN Saved(file, archive, WithIntent(file)) ELSE file)
      /\ ans' = (IF Retiring(file') THEN a ELSE [a EXCEPT !.rejected = Nobody])
      /\ refused' = (IF Stages(a) THEN refused \cup {a.rejected} ELSE refused)
      /\ UNCHANGED <<conf, tomb, snap, gates, tasks, consent, issued>>
  BY DEF Launch, memory
<1>2. a \in Answers /\ (a.st # "ok" => a.confirmed = Nobody)
  BY AnswerKinds, Numbers, Constants DEF SessionInv, ShutInv, AnswerAgrees, Legible
<1> HIDE DEF a
<1>3. ans'.st # "ok" => ans'.confirmed = Nobody BY <1>1, <1>2 DEF Answers
<1>4. /\ tasks' = {} /\ gates' = {} /\ snap'.b = Nobody /\ conf' = Nobody
  BY <1>1 DEF ShutInv, QuietStart
<1>5. op'.at = FirstStep /\ op'.kind = "launch" /\ op'.cert = Nobody BY <1>1 DEF Idle
<1>6. \/ FirstStep = "delete"
      \/ FirstStep = "resume" /\ ~Retiring(file')
  BY DEF FirstStep
<1>7. SlotSafe' BY <1>5, <1>6 DEF SlotSafe, LaunchSteps
<1>8. /\ file'.cert = file.cert /\ file'.sound = file.sound
      /\ refused' \subseteq refused \cup {file.cert}
      /\ (file.cert # Nobody /\ file.cert \in refused' => Retiring(file'))
  <2>1. CASE ~Stages(a) BY <1>1, <2>1 DEF ShutInv, RefusedRetires
  <2>2. CASE Stages(a)
    <3> DEFINE g == WithIntent(file)
    <3>1. file.cert # Nobody /\ file.cert = a.rejected BY <2>2 DEF Stages
    <3>2. Disk(g) /\ g.cert = file.cert /\ Retiring(g) /\ g.sound = file.sound
      BY <3>1, FileTyped, IntentKeeps, SoundKeeps
    <3>3. file' = Saved(file, archive, g) BY <1>1, <2>2
    <3> HIDE DEF g
    <3>4. g \in PairedFiles BY <3>2 DEF Disk
    <3>5. file'.cert = file.cert /\ Retiring(file') /\ file'.sound = file.sound
      BY <3>2, <3>3, <3>4, FileTyped, SavedKeeps
    <3> QED BY <1>1, <2>2, <3>1, <3>5
  <2> QED BY <2>1, <2>2
<1>9. OnlyIssued' BY <1>1, <1>4, <1>5, <1>8, SomeIssued DEF ShutInv, OnlyIssued
<1>10. RefusedRetires' BY <1>8 DEF ShutInv, RefusedRetires
<1>11. AnswerAgrees' /\ AskedIsShut' BY <1>3, <1>4 DEF AnswerAgrees, AskedIsShut
<1>12. QuietStart' /\ RefusedStaysShut' BY <1>1, <1>4 DEF QuietStart, RefusedStaysShut
<1> QED BY <1>7, <1>9, <1>10, <1>11, <1>12 DEF ShutInv

LEMMA CorruptedShut ==
  ASSUME SessionInv, ShutInv, AnswerCorrupted
  PROVE  ShutInv'
<1>1. /\ ~up /\ ans' = [EmptyAnswer EXCEPT !.st = "bad"]
      /\ UNCHANGED <<file, up, op, conf, tomb, snap, gates, tasks, consent, refused, issued>>
  BY DEF AnswerCorrupted, memory, history
<1>2. ans'.confirmed = Nobody BY <1>1 DEF EmptyAnswer
<1>3. conf = Nobody /\ gates = {} BY <1>1 DEF ShutInv, QuietStart
<1>4. AnswerAgrees' BY <1>1, <1>2, <1>3 DEF AnswerAgrees
<1> QED BY <1>1, <1>4
    DEF ShutInv, OnlyIssued, RefusedRetires, AskedIsShut, SlotSafe, QuietStart, RefusedStaysShut

LEMMA ShutInit ==
  ASSUME OlderSound \subseteq {TRUE}, Init
  PROVE  ShutInv
<1>1. /\ refused = {} /\ up = FALSE /\ op = Idle /\ conf = Nobody
      /\ tomb = Nobody /\ snap = Shown("notpaired", Nobody) /\ gates = {} /\ tasks = {}
  BY DEF Init
<1>2. snap.b = Nobody /\ op.at = "idle" /\ op.kind = "none" /\ op.cert = Nobody
  BY <1>1, Constants DEF Shown
<1>3. /\ file.sound /\ issued \in Nat /\ file.cert \in 0..issued /\ consent \subseteq 0..issued
      /\ (ans.st # "ok" => ans.confirmed = Nobody)
  <2>1. CASE file = Unpaired /\ ans = NoAnswer /\ consent = {} /\ issued = 0
    BY <2>1 DEF Unpaired, NoAnswer, Nobody
  <2>2. CASE /\ \E s \in OlderSound : file = Older(s)
             /\ issued = 1
             /\ \/ ans \in {NoAnswer, [EmptyAnswer EXCEPT !.confirmed = 1]} /\ consent = {1}
                \/ ans \in {EmptyAnswer, [EmptyAnswer EXCEPT !.rejected = 1]} /\ consent = {}
    <3>1. PICK s \in OlderSound : file = Older(s) BY <2>2
    <3>2. s = TRUE OBVIOUS
    <3>3. file.sound /\ file.cert = 1 BY <3>1, <3>2 DEF Older, FreshPair, Unpaired
    <3>4. ans.st # "ok" => ans.confirmed = Nobody BY <2>2 DEF NoAnswer, EmptyAnswer
    <3> QED BY <2>2, <3>3, <3>4
  <2> QED BY <2>1, <2>2 DEF Init
<1>4. OnlyIssued
  <2>1. Nobody \in 0..issued BY <1>3 DEF Nobody
  <2>2. {snap.b, op.cert} \subseteq 0..issued BY <1>2, <2>1
  <2>3. consent \cup refused \cup {file.cert} \subseteq 0..issued BY <1>1, <1>3
  <2> QED BY <1>1, <2>2, <2>3 DEF OnlyIssued
<1>5. RefusedRetires /\ AnswerAgrees /\ AskedIsShut
  BY <1>1, <1>3 DEF RefusedRetires, AnswerAgrees, AskedIsShut
<1>6. SlotSafe /\ QuietStart /\ RefusedStaysShut
  BY <1>1, <1>2 DEF SlotSafe, LaunchSteps, QuietStart, RefusedStaysShut
<1> QED BY <1>4, <1>5, <1>6 DEF ShutInv

LEMMA StepShut ==
  ASSUME SessionInv, Down, ShutInv, Step
  PROVE  ShutInv'
<1>1. SessionInv' BY StepKeeps
<1>2. CASE Holder
  BY <1>1, <1>2, DialledShut, CeremonyShut, SavePairShut, BindPairShut, ProofShut, ConfirmFoundShut,
     AcceptNativeShut, RestoreShut, LoadShut, InstallShut, StopShut, DeleteShut, ClearShut, DropShut,
     SettleLaunchShut, MendShut, ResumeShut
  DEF Holder
<1>3. CASE Owner
  BY <1>3, BeginPairShut, BeginShut, OwnerConfirmsShut, OwnerRefusesShut, BesideShut DEF Owner
<1>4. CASE Beside BY <1>4, UploaderShut, BesideShut DEF Beside
<1>5. CASE Starts BY <1>1, <1>5, LaunchShut, FailedLaunchShut DEF Starts
<1>6. CASE Crash \/ Quit BY <1>6, StoppedShut DEF Crash, Quit
<1> QED BY <1>2, <1>3, <1>4, <1>5, <1>6, CorruptedShut DEF Step

LEMMA ShutKept ==
  ASSUME Ending, ShutInv, [Next]_vars
  PROVE  ShutInv'
<1>1. CASE Next BY <1>1, StepShut DEF Ending, Next
<1>2. CASE UNCHANGED vars
  <2>1. UNCHANGED <<file, ans, up, op, conf, tomb, snap, gates, tasks, consent, refused, issued>>
    BY <1>2 DEF vars, durable, memory, history
  <2> QED BY <2>1 DEF ShutInv, OnlyIssued, RefusedRetires, AnswerAgrees, AskedIsShut, SlotSafe, QuietStart,
                      RefusedStaysShut
<1> QED BY <1>1, <1>2

(* Where no pairing of an older version fails to stand, nothing is sent for *)
(* a pairing once its refusal is durable, whatever crash, failed write or   *)
(* relaunch comes between the steps of the retirement, and the binding      *)
(* refused last is not shown again.                                         *)
THEOREM RefusalIsFinal ==
  ASSUME OlderSound \subseteq {TRUE}
  PROVE  Spec => []RefusedStaysShut
<1>1. Init => ShutInv BY ShutInit
<1>2. Ending /\ ShutInv /\ [Next]_vars => ShutInv' BY ShutKept
<1>3. ShutInv => RefusedStaysShut BY DEF ShutInv
<1> QED BY <1>1, <1>2, <1>3, SessionInvariant, PTL DEF Spec

=============================================================================
