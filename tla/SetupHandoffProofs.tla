------------------------- MODULE SetupHandoffProofs -------------------------
(***************************************************************************)
(* Proofs about SetupHandoff, for any number of handoffs, deliveries and    *)
(* faults: the installer's receipt is true, a valid draft is kept, and what *)
(* has ended is not activated again.                                        *)
(*                                                                          *)
(* All three rest on one fact about pairing.json and its archive: the       *)
(* handoffs they remember only ever grow (HistoryGrows), whatever writes    *)
(* the file and however a launch archives it.  What the mailbox has decided *)
(* under the handoff lock stays true until it acts (Decided), and so does   *)
(* what a ceremony found at its start (Fresh).                              *)
(***************************************************************************)
EXTENDS SetupHandoff, PairingSessionProofs

Ceremonies == {"link", "here", "found", "native", "finish"}

(* What process_mailbox relies on at its next write.                        *)
Decided ==
  /\ box.at \in {"retire", "accept"} => op.kind \notin Ceremonies
  /\ box.at = "retire" => prog.id # 0 /\ prog.expired
  /\ box.at = "accept" => prog.id \in {0} \cup Over
  /\ box.at \in {"receipt", "consume"} => box.id \in {prog.id} \cup Over

(* A ceremony that is about to save a handoff's pairing: it has not ended.  *)
Fresh == op.at \in {"dial", "save"} /\ op.act # 0 => op.act \notin Over

MailInv ==
  /\ Ending /\ MailTypeOK /\ over \subseteq Over
  /\ Decided /\ Fresh /\ ReceiptTruthful

----------------------------------------------------------------------------
(* What the files remember.                                                 *)

(* save_inner adds the file it replaces, and what ends by it, to what it    *)
(* is given.                                                                *)
LEMMA SavedAdds ==
  ASSUME NEW p \in PairedFiles, NEW a \in PairedFiles, NEW f \in PairedFiles
  PROVE  LET s == Saved(p, a, f)
             same == p.act = f.act /\ p.cert = f.cert
         IN  /\ s.opened = (f.opened \/ (same /\ p.opened))
             /\ s.retired = f.retired \cup History(p, a) \cup Ended(s)
                            \cup (IF same THEN {} ELSE {p.act} \ {0})
<1> DEFINE same == p.act = f.act /\ p.cert = f.cert
<1> DEFINE g == [f EXCEPT !.opened = f.opened \/ (same /\ p.opened)]
<1> DEFINE R == g.retired \cup History(p, a) \cup Ended(g) \cup (IF same THEN {} ELSE {p.act} \ {0})
<1> DEFINE s == [g EXCEPT !.retired = R]
<1>1. Saved(p, a, f) = s BY DEF Saved
<1>2. (f.opened \/ (same /\ p.opened)) \in BOOLEAN BY DEF PairedFiles
<1>3. /\ g \in PairedFiles /\ g.cert = f.cert /\ g.intent = f.intent /\ g.act = f.act
      /\ g.retired = f.retired /\ g.opened = (f.opened \/ (same /\ p.opened))
  BY <1>2 DEF PairedFiles
<1> HIDE DEF g
<1> HIDE DEF R
<1>4. /\ s.cert = g.cert /\ s.intent = g.intent /\ s.act = g.act
      /\ s.retired = R /\ s.opened = g.opened
  BY <1>3 DEF PairedFiles
<1> HIDE DEF s
<1>5. Ended(s) = Ended(g) BY <1>4 DEF Ended, Retiring
<1> QED BY <1>1, <1>3, <1>4, <1>5 DEF R

(* So the handoffs remembered grow, by what ended at most.                  *)
LEMMA SavedRemembers ==
  ASSUME NEW p \in PairedFiles, NEW a \in PairedFiles, NEW f \in PairedFiles
  PROVE  LET s == Saved(p, a, f)
         IN  /\ History(p, a) \subseteq History(s, a)
             /\ f.retired \subseteq History(s, a)
             /\ History(s, a) \subseteq History(p, a) \cup f.retired \cup Ended(s) \cup ({p.act} \ {0})
             /\ p.act = f.act /\ p.cert = f.cert =>
                  History(s, a) = History(p, a) \cup f.retired \cup Ended(s)
             /\ (p.act # 0 /\ (s.act # p.act \/ s.cert # p.cert \/ s.opened \/ Retiring(s)))
                  => p.act \in History(s, a)
<1> DEFINE s == Saved(p, a, f)
<1>1. /\ s \in PairedFiles /\ s.act = f.act /\ s.cert = f.cert
      /\ ((p.act # f.act \/ p.cert # f.cert) /\ p.act # 0 => p.act \in s.retired)
  BY SavedKeeps
<1>2. s.retired = f.retired \cup History(p, a) \cup Ended(s)
                  \cup (IF p.act = f.act /\ p.cert = f.cert THEN {} ELSE {p.act} \ {0})
  BY SavedAdds
<1> HIDE DEF s
<1>3. History(s, a) = s.retired \cup Ended(s) \cup a.retired \cup ({a.act} \ {0}) BY DEF History
<1>4. a.retired \cup ({a.act} \ {0}) \subseteq History(p, a) BY DEF History
<1>5. History(p, a) \subseteq History(s, a) /\ f.retired \subseteq History(s, a) BY <1>2, <1>3
<1>6. History(s, a) \subseteq History(p, a) \cup f.retired \cup Ended(s) \cup ({p.act} \ {0})
  BY <1>2, <1>3, <1>4
<1>7. p.act = f.act /\ p.cert = f.cert => History(s, a) = History(p, a) \cup f.retired \cup Ended(s)
  BY <1>2, <1>3, <1>4
<1>8. ASSUME p.act # 0, s.act # p.act \/ s.cert # p.cert \/ s.opened \/ Retiring(s)
      PROVE  p.act \in History(s, a)
  <2>1. CASE s.act # p.act \/ s.cert # p.cert BY <1>1, <1>3, <1>8, <2>1
  <2>2. CASE s.act = p.act /\ (s.opened \/ Retiring(s))
    <3>1. Ended(s) = {p.act} BY <1>8, <2>2 DEF Ended
    <3> QED BY <1>3, <3>1
  <2> QED BY <1>8, <2>1, <2>2
<1> QED BY <1>5, <1>6, <1>7, <1>8 DEF s

(* What a step of the session does to the two files.                        *)
Rewrites(f) ==
  /\ f \in PairedFiles /\ f.act = file.act /\ f.retired = file.retired
  /\ f.cert \in {Nobody, file.cert}
  /\ file' = Saved(file, archive, f) /\ archive' = archive

LEMMA FileMoves ==
  ASSUME SessionInv, Down, Step
  PROVE  \/ UNCHANGED <<file, archive>>
         \/ SavePair /\ file' = NewFile /\ archive' = archive
         \/ AccessMutates
         \/ KeyRefused
         \/ ~AccessMutates /\ op.at \notin {"dial", "save"} /\ \E f : Rewrites(f)
<1>1. CASE SavePair BY <1>1 DEF SavePair
<1>2. CASE AccessMutates \/ KeyRefused BY <1>2
<1> SUFFICES ASSUME ~SavePair, ~AccessMutates, ~KeyRefused
             PROVE  \/ UNCHANGED <<file, archive>>
                    \/ op.at \notin {"dial", "save"} /\ \E f : Rewrites(f)
  BY <1>1, <1>2
<1>3. CASE DropPairing
  <2>1. op.at = "drop" /\ archive' = archive /\ file' \in {file, Saved(file, archive, Cleared(file))}
    BY <1>3 DEF DropPairing, At
  <2>2. file.cert # Nobody BY <2>1 DEF SessionInv, Underway, Intended
  <2>3. /\ Cleared(file) \in PairedFiles /\ Cleared(file).act = file.act
        /\ Cleared(file).retired = file.retired /\ Cleared(file).cert = Nobody
    BY <2>2, FileTyped, ClearedKeeps DEF Disk
  <2> QED BY <2>1, <2>3 DEF Rewrites
<1>4. CASE InstallIntent
  <2>1. /\ op.at = "install" /\ archive' = archive
        /\ file' \in {file, Saved(file, archive, WithIntent(file))}
    BY <1>4 DEF InstallIntent, At
  <2>2. file' # file => file.cert # Nobody BY <1>4 DEF InstallIntent, CanInstall
  <2>3. file' # file => /\ WithIntent(file) \in PairedFiles /\ WithIntent(file).act = file.act
                        /\ WithIntent(file).retired = file.retired /\ WithIntent(file).cert = file.cert
    BY <2>2, FileTyped, IntentKeeps DEF Disk
  <2> QED BY <2>1, <2>3 DEF Rewrites
<1>5. CASE Launch
  <2>1. /\ archive' = archive /\ file' \in {file, Saved(file, archive, WithIntent(file))}
        /\ (file' # file => file.cert # Nobody)
    BY <1>5 DEF Launch, Stages
  <2>2. file' # file => /\ WithIntent(file) \in PairedFiles /\ WithIntent(file).act = file.act
                        /\ WithIntent(file).retired = file.retired /\ WithIntent(file).cert = file.cert
    BY <2>1, FileTyped, IntentKeeps DEF Disk
  <2>3. op.at = "idle" BY <1>5 DEF Launch, Down
  <2> QED BY <2>1, <2>2, <2>3 DEF Rewrites
<1>6. CASE DeleteAtJournal
  <2>1. PICK p \in {"succeeded", "unknown"} :
          file' \in {file, Saved(file, archive, [file EXCEPT !.intent.phase = p])}
    BY <1>6 DEF DeleteAtJournal
  <2> DEFINE g == [file EXCEPT !.intent.phase = p]
  <2>2. g \in PairedFiles /\ g.act = file.act /\ g.cert = file.cert /\ g.retired = file.retired
    BY FileTyped, PhaseKeeps DEF Disk
  <2>3. file' \in {file, Saved(file, archive, g)} BY <2>1
  <2>4. op.at = "delete" /\ archive' = archive BY <1>6 DEF DeleteAtJournal, At
  <2> HIDE DEF g
  <2> QED BY <2>2, <2>3, <2>4 DEF Rewrites
<1>7. CASE BrowserOpened
  <2> DEFINE g == [file EXCEPT !.opened = TRUE]
  <2>1. g \in PairedFiles /\ g.act = file.act /\ g.cert = file.cert /\ g.retired = file.retired
    BY FileTyped DEF PairedFiles
  <2>2. op.at = "idle" /\ archive' = archive /\ file' = Saved(file, archive, g)
    BY <1>7 DEF BrowserOpened, At
  <2> HIDE DEF g
  <2> QED BY <2>1, <2>2 DEF Rewrites
<1>8. CASE Mend
  <2> DEFINE g == [file EXCEPT !.sound = TRUE]
  <2>1. g \in PairedFiles /\ g.act = file.act /\ g.cert = file.cert /\ g.retired = file.retired
    BY FileTyped DEF PairedFiles
  <2>2. op.at = "mend" /\ archive' = archive /\ file' \in {file, Saved(file, archive, g)}
    BY <1>8 DEF Mend, At
  <2> HIDE DEF g
  <2> QED BY <2>1, <2>2 DEF Rewrites
<1>9. \/ DropPairing \/ InstallIntent \/ Launch \/ DeleteAtJournal
      \/ BrowserOpened \/ Mend \/ UNCHANGED <<file, archive>>
  BY DEF Step, Holder, Owner, Beside, Starts, Dialled, DialFails, BindPair, BindFails,
         ProvenHere, NotProvenHere, ConfirmFound, ReplaceUploader, ShowNative, AcceptNative, Settle,
         RestoreNative, FinishFails, LoadForRefusal, StopForRefusal, ClearAnswer, SettleLaunch,
         Resume, BeginPair, BeginFound, BeginNative, BeginFinish, OwnerConfirms, OwnerRefuses,
         UploaderPublishes, UploaderFails, UploaderEnds, HandoffExpires, LaunchFails, AnswerCorrupted,
         Crash, Quit, Stopped, durable
<1> QED BY <1>3, <1>4, <1>5, <1>6, <1>7, <1>8, <1>9

(* The handoffs remembered only grow, by the activation of the file alone;  *)
(* and an activation that ends is remembered.                               *)
LEMMA HistoryGrows ==
  ASSUME SessionInv, Down, Step
  PROVE  /\ Over \subseteq Over' /\ Over' \subseteq Over \cup {file.act}
         /\ EndsNow \subseteq Over'
<1>1. file \in PairedFiles /\ archive \in PairedFiles /\ Disk(file) BY FileTyped
<1>2. ASSUME NEW f, Rewrites(f)
      PROVE  Over \subseteq Over' /\ Over' \subseteq Over \cup {file.act} /\ EndsNow \subseteq Over'
  <2> DEFINE s == Saved(file, archive, f)
  <2>1. f \in PairedFiles /\ f.act = file.act /\ f.retired = file.retired /\ file' = s /\ archive' = archive
    BY <1>2 DEF Rewrites
  <2>2. s.act = f.act BY <1>1, <2>1, SavedKeeps
  <2>3. /\ History(file, archive) \subseteq History(s, archive)
        /\ History(s, archive) \subseteq
             History(file, archive) \cup f.retired \cup Ended(s) \cup ({file.act} \ {0})
        /\ (file.act # 0 /\ (s.act # file.act \/ s.cert # file.cert \/ s.opened \/ Retiring(s)))
             => file.act \in History(s, archive)
    BY <1>1, <2>1, SavedRemembers
  <2> HIDE DEF s
  <2>4. Over' = History(s, archive) BY <2>1 DEF Over
  <2>5. f.retired \subseteq Over BY <2>1 DEF Over, History
  <2>6. Ended(s) \subseteq {file.act} BY <2>1, <2>2 DEF Ended
  <2>7. EndsNow \subseteq Over' BY <2>1, <2>3, <2>4 DEF EndsNow
  <2> QED BY <2>3, <2>4, <2>5, <2>6, <2>7 DEF Over
<1>3. CASE SavePair /\ file' = NewFile /\ archive' = archive
  <2>1. op.at = "save" BY <1>3 DEF SavePair, At
  <2>2. op.cert \in Certs /\ op.cert # Nobody /\ op.act \in {0} \cup Handoffs
    BY <2>1, MemoryTyped DEF SessionInv, Underway, Carries
  <2> DEFINE f == FreshPair(op.cert, op.act)
  <2>3. f.cert = op.cert /\ f.act = op.act /\ ~Retiring(f) /\ ~f.opened /\ f \in PairedFiles
    BY <2>2, FreshKeeps DEF Disk
  <2>4. f.retired = {} BY DEF FreshPair, Unpaired
  <2> HIDE DEF f
  <2> DEFINE s == Saved(file, archive, f)
  <2>5. s.act = f.act /\ s.cert = f.cert /\ (Retiring(s) <=> Retiring(f)) BY <1>1, <2>3, SavedKeeps
  <2>6. s.opened = (f.opened \/ (file.act = f.act /\ file.cert = f.cert /\ file.opened))
    BY <1>1, <2>3, SavedAdds
  <2>7. /\ History(file, archive) \subseteq History(s, archive)
        /\ History(s, archive) \subseteq
             History(file, archive) \cup f.retired \cup Ended(s) \cup ({file.act} \ {0})
        /\ (file.act # 0 /\ (s.act # file.act \/ s.cert # file.cert \/ s.opened \/ Retiring(s)))
             => file.act \in History(s, archive)
    BY <1>1, <2>3, SavedRemembers
  <2>8. file' = s BY <1>3 DEF NewFile, f
  <2> HIDE DEF s
  <2>9. Ended(s) \subseteq {file.act} BY <2>2, <2>3, <2>5, <2>6 DEF Ended
  <2>10. Over' = History(s, archive) BY <1>3, <2>8 DEF Over
  <2>11. EndsNow \subseteq Over' BY <2>7, <2>8, <2>10 DEF EndsNow
  <2> QED BY <2>4, <2>7, <2>9, <2>10, <2>11 DEF Over
<1>4. CASE AccessMutates
  <2>1. /\ file' = Saved(file, archive, Mutated(file)) /\ archive' = archive
        /\ file.cert # Nobody /\ file.gen < MaxGen
    BY <1>4 DEF AccessMutates, CanMutate
  <2>2. /\ Mutated(file) \in PairedFiles /\ Mutated(file).act = file.act
        /\ Mutated(file).retired = file.retired /\ Mutated(file).cert = file.cert
    BY <1>1, <2>1, MutatedKeeps DEF Disk
  <2>3. Rewrites(Mutated(file)) BY <2>1, <2>2 DEF Rewrites
  <2> QED BY <1>2, <2>3
<1>5. CASE KeyRefused
  <2>1. CASE UNCHANGED <<file, archive>>
    BY <2>1, <1>5 DEF Over, EndsNow, KeyRefused, History, Ended
  <2>2. CASE archive \in {Unpaired, file} /\ archive' = file /\ file' = Unpaired
    <3>1. Over = file.retired \cup Ended(file) \cup archive.retired \cup ({archive.act} \ {0})
      BY DEF Over, History
    <3>2. Over' = Unpaired.retired \cup Ended(Unpaired) \cup file.retired \cup ({file.act} \ {0})
      BY <2>2 DEF Over, History
    <3>3. Unpaired.retired = {} /\ Unpaired.act = 0 BY DEF Unpaired
    <3>4. Ended(Unpaired) = {} BY <3>3 DEF Ended
    <3>5. Ended(file) \subseteq {file.act} \ {0} BY DEF Ended
    <3>6. EndsNow \subseteq {file.act} \ {0} BY DEF EndsNow
    <3> HIDE DEF Unpaired
    <3>7. Over' = file.retired \cup ({file.act} \ {0}) BY <3>2, <3>3, <3>4
    <3>8. Over \subseteq Over'
      <4>1. CASE archive = Unpaired BY <3>1, <3>3, <3>5, <3>7, <4>1
      <4>2. CASE archive = file BY <3>1, <3>5, <3>7, <4>2
      <4> QED BY <2>2, <4>1, <4>2
    <3> QED BY <3>1, <3>6, <3>7, <3>8
  <2> QED BY <1>5, <2>1, <2>2 DEF KeyRefused
<1>6. CASE UNCHANGED <<file, archive>>
  BY <1>6 DEF Over, EndsNow, History, Ended
<1> QED BY <1>2, <1>3, <1>4, <1>5, <1>6, FileMoves

(* While a ceremony is under way, only its own save ends an activation.     *)
LEMMA QuietUnderCeremony ==
  ASSUME SessionInv, Down, Step, op.at \in {"dial", "save"}, ~SavePair
  PROVE  Over' = Over
<1>1. file \in PairedFiles /\ archive \in PairedFiles /\ Disk(file) BY FileTyped
<1>2. CASE AccessMutates
  <2>1. /\ file' = Saved(file, archive, Mutated(file)) /\ archive' = archive
        /\ file.cert # Nobody /\ file.gen < MaxGen
    BY <1>2 DEF AccessMutates, CanMutate
  <2> DEFINE f == Mutated(file)
  <2>2. /\ f \in PairedFiles /\ f.act = file.act /\ f.cert = file.cert /\ f.intent = file.intent
        /\ f.retired = file.retired /\ f.opened = file.opened
    BY <1>1, <2>1, MutatedKeeps DEF Disk
  <2> HIDE DEF f
  <2> DEFINE s == Saved(file, archive, f)
  <2>3. s.act = file.act /\ s.cert = file.cert /\ s.intent = file.intent BY <1>1, <2>2, SavedKeeps
  <2>4. s.opened = (f.opened \/ (file.act = f.act /\ file.cert = f.cert /\ file.opened))
    BY <1>1, <2>2, SavedAdds
  <2>5. History(s, archive) = History(file, archive) \cup f.retired \cup Ended(s)
    BY <1>1, <2>2, SavedRemembers
  <2>6. file' = s BY <2>1 DEF f
  <2> HIDE DEF s
  <2>7. Ended(s) = Ended(file) BY <2>2, <2>3, <2>4 DEF Ended, Retiring
  <2>8. f.retired \cup Ended(file) \subseteq History(file, archive) BY <2>2 DEF History
  <2> QED BY <2>1, <2>5, <2>6, <2>7, <2>8 DEF Over
<1>3. CASE KeyRefused BY <1>3 DEF KeyRefused, Down
<1>4. CASE UNCHANGED <<file, archive>> BY <1>4 DEF Over
<1> QED BY <1>2, <1>3, <1>4, FileMoves

(* What a step does to the slot and to the progress file.                   *)
LEMMA SlotMoves ==
  ASSUME SessionInv, Step
  PROVE  /\ op'.kind \in Ceremonies => op.at = "idle" \/ op'.kind = op.kind
         /\ op'.at \in {"dial", "save"} /\ op'.act # 0 =>
              \/ BeginNative /\ op'.act = prog.id
              \/ ~SavePair /\ op.at \in {"dial", "save"} /\ op'.act = op.act
         /\ prog'.id = prog.id /\ (prog.expired => prog'.expired)
<1>1. op \in Ops BY MemoryTyped
<1>2. Idle.at = "idle" /\ Idle.kind = "none" /\ Idle.act = 0 BY Constants
<1>3. \A st \in Steps : LET o == [op EXCEPT !.at = st] IN o.at = st /\ o.kind = op.kind /\ o.act = op.act
  BY <1>1, OpTyped
<1>4. CASE BeginPair
  <2>1. PICK k \in {"link", "here"}, st \in {"settle", "dial"} :
          op' = [Idle EXCEPT !.at = st, !.kind = k]
    BY <1>4 DEF BeginPair
  <2>2. op.at = "idle" /\ prog' = prog BY <1>4 DEF BeginPair, At
  <2>3. op'.act = 0 BY <2>1 DEF Idle
  <2> QED BY <2>2, <2>3
<1>5. CASE BeginFound
  <2>1. op.at = "idle" /\ prog' = prog /\ op'.act = 0 BY <1>5 DEF BeginFound, At, durable, Idle
  <2> QED BY <2>1
<1>6. CASE BeginNative
  <2>1. op.at = "idle" /\ prog' = prog /\ op'.act = prog.id BY <1>6 DEF BeginNative, At, durable, Idle
  <2> QED BY <1>6, <2>1
<1>7. CASE BeginFinish
  <2>1. op.at = "idle" /\ prog' = prog /\ op'.at = "identity" BY <1>7 DEF BeginFinish, At, durable
  <2> QED BY <2>1
<1>8. CASE OwnerRefuses
  <2>1. op.at = "idle" /\ prog' = prog /\ op'.at = "load" BY <1>8 DEF OwnerRefuses, Asked, At, durable, Idle
  <2> QED BY <2>1
<1>9. CASE Launch
  <2>1. op' = [Idle EXCEPT !.at = FirstStep, !.kind = "launch"] /\ prog' = prog BY <1>9 DEF Launch
  <2>2. op'.kind = "launch" /\ op'.act = 0 BY <2>1 DEF Idle
  <2> QED BY <2>1, <2>2 DEF Ceremonies
<1>10. CASE Dialled
  <2>1. op.at = "dial" /\ op' = [op EXCEPT !.at = "save", !.cert = issued + 1] /\ prog' = prog
    BY <1>10 DEF Dialled, At, durable
  <2>2. op'.kind = op.kind /\ op'.act = op.act BY <1>1, <2>1 DEF Ops
  <2>3. ~SavePair BY <2>1 DEF SavePair, At
  <2> QED BY <2>1, <2>2, <2>3
<1>11. CASE LoadForRefusal
  <2>1. prog' = prog /\ (op' = [op EXCEPT !.at = "install", !.gen = file.gen] \/ op' = Idle)
    BY <1>11 DEF LoadForRefusal, RetirementPending, Ends
  <2>2. CASE op' = [op EXCEPT !.at = "install", !.gen = file.gen]
    <3>1. op'.kind = op.kind /\ op'.at = "install" BY <1>1, <2>2 DEF Ops
    <3> QED BY <2>1, <3>1
  <2> QED BY <1>2, <2>1, <2>2 DEF Ceremonies
<1>12. CASE op' = Idle /\ prog' = prog BY <1>2, <1>12 DEF Ceremonies
<1>13. CASE op' = op /\ ~SavePair /\ prog'.id = prog.id /\ (prog.expired => prog'.expired) BY <1>13
<1>14. CASE prog' = prog /\ \E st \in Steps \ {"dial", "save"} : Goes(st) BY <1>3, <1>14 DEF Goes
<1>15. CASE HandoffExpires
  <2>1. op' = op /\ prog' = [prog EXCEPT !.expired = TRUE] BY <1>15 DEF HandoffExpires
  <2>2. prog \in [id : {0} \cup Handoffs, expired : BOOLEAN] BY DEF SessionInv, Typed
  <2>3. prog'.id = prog.id /\ prog'.expired BY <2>1, <2>2
  <2>4. ~SavePair BY <1>15, <2>2 DEF HandoffExpires, SavePair
  <2> QED BY <2>1, <2>3, <2>4
<1>16. CASE DialFails \/ SavePair \/ BindPair \/ BindFails
  BY <1>12, <1>14, <1>16 DEF DialFails, SavePair, BindPair, BindFails, NotVerified, Ends, Steps, durable, Goes
<1>17. CASE ProvenHere \/ NotProvenHere \/ ConfirmFound \/ ReplaceUploader \/ ShowNative \/ AcceptNative
  BY <1>12, <1>14, <1>17
  DEF ProvenHere, NotProvenHere, ConfirmFound, ReplaceUploader, ShowNative, AcceptNative, Ends, Steps, durable
<1>18. CASE Settle \/ RestoreNative \/ FinishFails \/ InstallIntent \/ StopForRefusal
  BY <1>12, <1>14, <1>18
  DEF Settle, RestoreNative, FinishFails, InstallIntent, StopForRefusal, RetirementPending, Ends, Steps, durable
<1>19. CASE DeleteAtJournal \/ ClearAnswer \/ DropPairing \/ SettleLaunch \/ Mend \/ Resume
  BY <1>12, <1>14, <1>19
  DEF DeleteAtJournal, ClearAnswer, DropPairing, SettleLaunch, Mend, Resume, GivesUp, RetirementPending,
      Ends, Steps, durable
<1>20. CASE Crash \/ Quit BY <1>12, <1>20 DEF Crash, Quit, Stopped, durable
<1>21. CASE \/ OwnerConfirms \/ BrowserOpened \/ UploaderPublishes \/ UploaderFails \/ UploaderEnds
            \/ AccessMutates \/ LaunchFails \/ KeyRefused \/ AnswerCorrupted
  <2>1. op' = op /\ prog' = prog
    BY <1>21 DEF OwnerConfirms, BrowserOpened, UploaderPublishes, UploaderFails, UploaderEnds,
       AccessMutates, LaunchFails, KeyRefused, AnswerCorrupted, durable
  <2>2. CASE SavePair BY <1>16, <2>2
  <2> QED BY <1>13, <2>1, <2>2
<1> QED BY <1>4, <1>5, <1>6, <1>7, <1>8, <1>9, <1>10, <1>11, <1>15, <1>16, <1>17, <1>18, <1>19, <1>20, <1>21
    DEF Step, Holder, Owner, Beside, Starts

----------------------------------------------------------------------------
(* The invariant.                                                           *)

LEMMA BoxTyped ==
  ASSUME MailTypeOK
  PROVE  /\ NoWork.at = "idle" /\ NoWork.id = 0
         /\ NoWork \in [at : {"idle", "retire", "accept", "receipt", "consume"}, id : {0} \cup Handoffs]
         /\ \A st \in {"retire", "accept", "receipt", "consume"} :
              LET b == [box EXCEPT !.at = st]
              IN  /\ b \in [at : {"idle", "retire", "accept", "receipt", "consume"}, id : {0} \cup Handoffs]
                  /\ b.at = st /\ b.id = box.id
  BY DEF MailTypeOK, NoWork

LEMMA MailInit == HandoffInit => MailInv
<1> SUFFICES ASSUME HandoffInit PROVE MailInv OBVIOUS
<1>1. Init /\ prog.id = 0 /\ mail = 0 /\ receipt = 0 /\ box = NoWork /\ delivered = 0 BY DEF HandoffInit
<1>2. op = Idle /\ over = {} BY <1>1 DEF Init
<1>3. Ending BY <1>1, <1>2, SessionInit DEF Ending
<1>4. NoWork.at = "idle" /\ NoWork.id = 0 /\ Idle.at = "idle" BY DEF NoWork, Idle
<1>5. MailTypeOK BY <1>1, <1>4, DeliveriesAssumption DEF MailTypeOK, NoWork, DeliveriesAssumption
<1> QED BY <1>1, <1>2, <1>3, <1>4, <1>5 DEF MailInv, Decided, Fresh, ReceiptTruthful

(* A step of the session, of which the mailbox sees the history growing.    *)
LEMMA SessionKeeps ==
  ASSUME MailInv, SessionStep
  PROVE  MailInv'
<1>1. Step /\ Admitted /\ over' = over \cup EndsNow /\ UNCHANGED <<mail, receipt, delivered>>
      /\ box' = IF up' THEN box ELSE NoWork
  BY DEF SessionStep, Next, Noted
<1>2. SessionInv /\ Down BY DEF MailInv, Ending
<1>3. Ending' BY EndingKept DEF MailInv, SessionStep
<1>4. Over \subseteq Over' /\ EndsNow \subseteq Over' BY <1>1, <1>2, HistoryGrows
<1>5. over' \subseteq Over' BY <1>1, <1>4 DEF MailInv
<1>6. /\ op'.kind \in Ceremonies => op.at = "idle" \/ op'.kind = op.kind
      /\ op'.at \in {"dial", "save"} /\ op'.act # 0 =>
           \/ BeginNative /\ op'.act = prog.id
           \/ ~SavePair /\ op.at \in {"dial", "save"} /\ op'.act = op.act
      /\ prog'.id = prog.id /\ (prog.expired => prog'.expired)
  BY <1>1, <1>2, SlotMoves
<1>7. MailTypeOK' BY <1>1, BoxTyped DEF MailInv, MailTypeOK
<1>8. ReceiptTruthful' BY <1>1, <1>4, <1>6 DEF MailInv, ReceiptTruthful
<1>9. Fresh'
  <2>1. CASE BeginNative /\ op'.act = prog.id
    <3>1. prog.id \notin Over /\ UNCHANGED <<file, archive>> BY <2>1 DEF BeginNative, durable, Over
    <3>2. Over' = Over BY <3>1 DEF Over
    <3> QED BY <2>1, <3>1, <3>2 DEF Fresh
  <2>2. CASE ~SavePair /\ op.at \in {"dial", "save"} /\ op'.act = op.act
    <3>1. Over' = Over BY <1>1, <1>2, <2>2, QuietUnderCeremony
    <3> QED BY <2>2, <3>1 DEF MailInv, Fresh
  <2> QED BY <1>6, <2>1, <2>2 DEF Fresh
<1>10. Decided'
  <2>1. CASE box' = NoWork BY <2>1, BoxTyped DEF MailInv, Decided
  <2>2. CASE box' = box /\ box # NoWork
    <3>1. op'.kind \in Ceremonies => op'.kind = op.kind
      BY <1>1, <1>6, <2>2 DEF Admitted, Ceremonies
    <3> QED BY <1>4, <1>6, <2>2, <3>1 DEF MailInv, Decided
  <2> QED BY <1>1, <2>1, <2>2
<1> QED BY <1>3, <1>5, <1>7, <1>8, <1>9, <1>10 DEF MailInv

(* The session is left alone.                                               *)
LEMMA SessionRests ==
  ASSUME MailInv, UNCHANGED <<file, archive, ans, prog, up, op, conf, tomb, snap, acc, gates, tasks>>,
         UNCHANGED <<consent, refused, issued, over>>, Costs \/ Free
  PROVE  /\ Ending' /\ over' \subseteq Over' /\ Fresh' /\ Over' = Over
<1>1. SessionInv /\ Down /\ over \subseteq Handoffs BY DEF MailInv, Ending
<1>2. faults' \in 0..MaxFaults BY <1>1, CostsTyped DEF SessionInv
<1>3. SessionInv'
  BY <1>1, <1>2 DEF SessionInv, Typed, Disk, Underway, Intended, GateNeedsConsent, Named, Grandfathered
<1>4. Over' = Over BY DEF Over
<1> QED BY <1>1, <1>3, <1>4 DEF MailInv, Ending, Down, Fresh

LEMMA DeliverKeeps ==
  ASSUME MailInv, Deliver
  PROVE  MailInv'
<1>1. /\ delivered < MaxDeliveries /\ delivered' = delivered + 1 /\ mail' \in Handoffs
      /\ UNCHANGED <<receipt, box>> /\ Free
      /\ UNCHANGED <<file, archive, ans, prog, up, op, conf, tomb, snap, acc, gates, tasks>>
      /\ UNCHANGED <<consent, refused, issued, over>>
  BY DEF Deliver, vars, durable, memory, history, Free
<1>2. Ending' /\ over' \subseteq Over' /\ Fresh' /\ Over' = Over BY <1>1, SessionRests
<1>3. MailTypeOK' BY <1>1, DeliveriesAssumption DEF MailInv, MailTypeOK, DeliveriesAssumption
<1> QED BY <1>1, <1>2, <1>3 DEF MailInv, Decided, ReceiptTruthful

LEMMA ReadMailKeeps ==
  ASSUME MailInv, ReadMail
  PROVE  MailInv'
<1>1. /\ UNCHANGED <<mail, delivered>> /\ Free /\ mail # 0
      /\ UNCHANGED <<file, archive, ans, prog, up, op, conf, tomb, snap, acc, gates, tasks>>
      /\ UNCHANGED <<consent, refused, issued, over>>
  BY DEF ReadMail, vars, durable, memory, history, Free
<1>2. Ending' /\ over' \subseteq Over' /\ Fresh' /\ Over' = Over BY <1>1, SessionRests
<1>3. receipt' \in {0, receipt} BY DEF ReadMail
<1>4. ReceiptTruthful' BY <1>1, <1>2, <1>3 DEF MailInv, ReceiptTruthful
<1>5. mail \in Handoffs BY <1>1 DEF MailInv, MailTypeOK
<1>6. CASE Replayed /\ box' = [at |-> "receipt", id |-> mail]
  <2>1. MailTypeOK' BY <1>1, <1>3, <1>5, <1>6 DEF MailInv, MailTypeOK, NoWork
  <2>2. Decided' BY <1>1, <1>2, <1>6 DEF Decided, Replayed
  <2> QED BY <1>2, <1>4, <2>1, <2>2 DEF MailInv
<1>7. CASE box' = box
  <2>1. MailTypeOK' BY <1>1, <1>3, <1>7 DEF MailInv, MailTypeOK
  <2> QED BY <1>1, <1>2, <1>4, <1>7, <2>1 DEF MailInv, Decided
<1>8. CASE ~CeremonyActive /\ Vacant /\ box' = [at |-> NextWrite, id |-> mail]
  <2>1. NextWrite \in {"accept", "retire"} BY DEF NextWrite
  <2>2. box'.at = NextWrite /\ box'.id = mail BY <1>8
  <2>3. MailTypeOK' BY <1>1, <1>3, <1>5, <1>8, <2>1 DEF MailInv, MailTypeOK, NoWork
  <2>4. op.kind \notin Ceremonies BY <1>8 DEF CeremonyActive, Ceremonies
  <2>5. NextWrite = "retire" => prog.id # 0 /\ prog.expired BY <1>8 DEF NextWrite, Vacant
  <2>6. NextWrite = "accept" => prog.id \in {0} \cup Over BY DEF NextWrite
  <2>7. Decided' BY <1>1, <1>2, <2>1, <2>2, <2>4, <2>5, <2>6 DEF Decided
  <2> QED BY <1>2, <1>4, <2>3, <2>7 DEF MailInv
<1> QED BY <1>6, <1>7, <1>8 DEF ReadMail

(* A draft that has expired is remembered before it is replaced.            *)
LEMMA RetireDraftKeeps ==
  ASSUME MailInv, RetireDraft
  PROVE  MailInv' /\ prog' = prog /\ prog.expired
<1>1. /\ box.at = "retire" /\ UNCHANGED <<archive, ans, prog, up, op, conf, tomb, snap, acc, gates, tasks>>
      /\ UNCHANGED <<consent, refused, issued, over, mail, receipt, delivered>>
  BY DEF RetireDraft, Work, memory, history
<1>2. PICK o \in Outcomes :
        /\ Outcome(o)
        /\ file' = IF o = "failed" THEN file
                   ELSE Saved(file, archive, [file EXCEPT !.retired = @ \cup {prog.id}])
        /\ IF o = "ok" THEN Ahead("accept") ELSE box' = NoWork
  BY DEF RetireDraft
<1>3. prog.id # 0 /\ prog.expired /\ op.kind \notin Ceremonies BY <1>1 DEF MailInv, Decided
<1>4. SessionInv /\ Down /\ over \subseteq Handoffs BY DEF MailInv, Ending
<1>5. prog.id \in Handoffs BY <1>3, <1>4 DEF SessionInv, Typed
<1> DEFINE f == [file EXCEPT !.retired = file.retired \cup {prog.id}]
<1>6. /\ f \in PairedFiles /\ f.cert = file.cert /\ f.act = file.act /\ f.intent = file.intent
      /\ f.gen = file.gen /\ f.retired = file.retired \cup {prog.id}
  BY <1>4, <1>5, FileTyped DEF PairedFiles
<1>7. file' = IF o = "failed" THEN file ELSE Saved(file, archive, f) BY <1>2, <1>4, FileTyped DEF PairedFiles
<1> HIDE DEF f
<1>8. Disk(f) BY <1>4, <1>6, FileTyped DEF Disk
<1>9. /\ Disk(file') /\ file'.cert = file.cert /\ file'.act = file.act /\ file'.intent = file.intent
      /\ file'.gen = file.gen
  BY <1>4, <1>6, <1>7, <1>8, FileTyped, SavedKeeps
<1>10. Over \subseteq Over' /\ (o # "failed" => prog.id \in Over')
  <2>1. CASE o = "failed" BY <1>1, <1>7, <2>1 DEF Over
  <2>2. CASE o # "failed"
    <3>1. /\ History(file, archive) \subseteq History(Saved(file, archive, f), archive)
          /\ f.retired \subseteq History(Saved(file, archive, f), archive)
      BY <1>4, <1>6, FileTyped, SavedRemembers
    <3> QED BY <1>1, <1>6, <1>7, <2>2, <3>1 DEF Over
  <2> QED BY <2>1, <2>2
<1>11. Retiring(file') <=> Retiring(file) BY <1>9 DEF Retiring
<1>12. Intended(file', refused') BY <1>1, <1>4, <1>9, <1>11, FileTyped DEF Intended
<1>13. Underway' BY <1>1, <1>4, <1>9, <1>11 DEF SessionInv, Underway
<1>14. Grandfathered' BY <1>1, <1>4, <1>9, StaysGrandfathered
<1>15. Costs \/ Free BY <1>2 DEF Outcome
<1>16. SessionInv'
  BY <1>1, <1>4, <1>9, <1>12, <1>13, <1>14, <1>15, FileTyped, MemoryTyped, ProgTyped, FileStep
<1>17. Ending' BY <1>1, <1>4, <1>16 DEF Ending, Down
<1>18. MailTypeOK'
  <2>1. MailTypeOK BY DEF MailInv
  <2>2. CASE o = "ok" BY <1>1, <1>2, <2>1, <2>2, BoxTyped DEF MailTypeOK, Ahead
  <2>3. CASE o # "ok" BY <1>1, <1>2, <2>1, <2>3, BoxTyped DEF MailTypeOK
  <2> QED BY <2>2, <2>3
<1>19. Decided'
  <2>1. MailTypeOK BY DEF MailInv
  <2>2. CASE o = "ok"
    <3>1. box'.at = "accept" BY <1>2, <2>1, <2>2, BoxTyped DEF Ahead
    <3> QED BY <1>1, <1>3, <1>10, <2>2, <3>1 DEF Decided
  <2>3. CASE o # "ok"
    <3>1. box'.at = "idle" BY <1>2, <2>1, <2>3, BoxTyped
    <3> QED BY <3>1 DEF Decided
  <2> QED BY <2>2, <2>3
<1>20. Fresh'
  <2>1. op.at \notin {"dial", "save"} BY <1>3, <1>4 DEF SessionInv, Underway, Ceremonies
  <2> QED BY <1>1, <2>1 DEF Fresh
<1>21. ReceiptTruthful' /\ over' \subseteq Over' BY <1>1, <1>10 DEF MailInv, ReceiptTruthful
<1> QED BY <1>1, <1>3, <1>17, <1>18, <1>19, <1>20, <1>21 DEF MailInv

(* The draft that is replaced has ended, or there was none.                 *)
LEMMA AcceptHandoffKeeps ==
  ASSUME MailInv, AcceptHandoff
  PROVE  MailInv' /\ prog.id \in {0} \cup Over /\ UNCHANGED <<file, archive>>
<1>1. /\ box.at = "accept" /\ UNCHANGED <<file, archive, ans, up, op, conf, tomb, snap, acc, gates, tasks>>
      /\ UNCHANGED <<consent, refused, issued, mail, receipt, delivered>>
  BY DEF AcceptHandoff, Work, memory, history
<1>2. PICK o \in Outcomes :
        /\ Outcome(o)
        /\ prog' = IF o = "failed" THEN prog ELSE [id |-> box.id, expired |-> FALSE]
        /\ over' = IF o = "failed" THEN over ELSE over \cup ({prog.id} \ {0})
        /\ IF o = "ok" THEN Ahead("receipt") ELSE box' = NoWork
  BY DEF AcceptHandoff
<1>3. prog.id \in {0} \cup Over /\ op.kind \notin Ceremonies BY <1>1 DEF MailInv, Decided
<1>4. SessionInv /\ Down /\ over \subseteq Handoffs BY DEF MailInv, Ending
<1>5. box.id \in {0} \cup Handoffs BY DEF MailInv, MailTypeOK
<1>6. prog' \in [id : {0} \cup Handoffs, expired : BOOLEAN] BY <1>2, <1>4, <1>5 DEF SessionInv, Typed
<1>7. faults' \in 0..MaxFaults BY <1>2, <1>4, CostsTyped DEF SessionInv, Outcome
<1>8. SessionInv'
  BY <1>1, <1>4, <1>6, <1>7
  DEF SessionInv, Typed, Disk, Underway, Intended, GateNeedsConsent, Named, Grandfathered
<1>9. prog.id \in {0} \cup Handoffs BY <1>4 DEF SessionInv, Typed
<1>10. Ending' BY <1>1, <1>2, <1>4, <1>8, <1>9 DEF Ending, Down
<1>11. Over' = Over BY <1>1 DEF Over
<1>12. over' \subseteq Over' BY <1>2, <1>3, <1>11 DEF MailInv
<1>13. ReceiptTruthful' BY <1>1, <1>2, <1>3, <1>11 DEF MailInv, ReceiptTruthful
<1>14. Fresh' BY <1>1, <1>11 DEF MailInv, Fresh
<1>15. MailTypeOK /\ prog'.id \in {prog.id, box.id} BY <1>2 DEF MailInv
<1>16. MailTypeOK' /\ Decided'
  <2>1. CASE o = "ok"
    <3>1. box'.at = "receipt" /\ box'.id = box.id BY <1>2, <1>15, <2>1, BoxTyped DEF Ahead
    <3>2. MailTypeOK' BY <1>1, <1>2, <1>15, <2>1, BoxTyped DEF MailTypeOK, Ahead
    <3>3. prog'.id = box.id BY <1>2, <2>1
    <3> QED BY <3>1, <3>2, <3>3 DEF Decided
  <2>2. CASE o # "ok"
    <3>1. box'.at = "idle" BY <1>2, <1>15, <2>2, BoxTyped
    <3>2. MailTypeOK' BY <1>1, <1>2, <1>15, <2>2, BoxTyped DEF MailTypeOK
    <3> QED BY <3>1, <3>2 DEF Decided
  <2> QED BY <2>1, <2>2
<1> QED BY <1>1, <1>3, <1>10, <1>12, <1>13, <1>14, <1>16 DEF MailInv

LEMMA WriteReceiptKeeps ==
  ASSUME MailInv, WriteReceipt
  PROVE  MailInv'
<1>1. /\ box.at = "receipt"
      /\ UNCHANGED <<file, archive, ans, prog, up, op, conf, tomb, snap, acc, gates, tasks>>
      /\ UNCHANGED <<consent, refused, issued, over, mail, delivered>>
  BY DEF WriteReceipt, Work, durable, memory, history
<1>2. PICK o \in Outcomes :
        /\ Outcome(o) /\ receipt' = IF o = "failed" THEN receipt ELSE box.id
        /\ IF o = "ok" THEN Ahead("consume") ELSE box' = NoWork
  BY DEF WriteReceipt
<1>3. Costs \/ Free BY <1>2 DEF Outcome
<1>4. Ending' /\ over' \subseteq Over' /\ Fresh' /\ Over' = Over BY <1>1, <1>3, SessionRests
<1>5. box.id \in {prog.id} \cup Over /\ MailTypeOK BY <1>1 DEF MailInv, Decided
<1>6. receipt' \in {0} \cup Handoffs BY <1>2, <1>5 DEF MailTypeOK
<1>7. ReceiptTruthful' BY <1>1, <1>2, <1>4, <1>5 DEF MailInv, ReceiptTruthful
<1>8. MailTypeOK' /\ Decided'
  <2>1. CASE o = "ok"
    <3>1. box'.at = "consume" /\ box'.id = box.id BY <1>2, <1>5, <2>1, BoxTyped DEF Ahead
    <3>2. MailTypeOK' BY <1>1, <1>2, <1>5, <1>6, <2>1, BoxTyped DEF MailTypeOK, Ahead
    <3> QED BY <1>1, <1>4, <1>5, <3>1, <3>2 DEF Decided
  <2>2. CASE o # "ok"
    <3>1. box'.at = "idle" BY <1>2, <1>5, <2>2, BoxTyped
    <3>2. MailTypeOK' BY <1>1, <1>2, <1>5, <1>6, <2>2, BoxTyped DEF MailTypeOK
    <3> QED BY <3>1, <3>2 DEF Decided
  <2> QED BY <2>1, <2>2
<1> QED BY <1>4, <1>7, <1>8 DEF MailInv

LEMMA ConsumeKeeps ==
  ASSUME MailInv, Consume
  PROVE  MailInv'
<1>1. /\ box' = NoWork /\ mail' \in {0, mail} /\ (Costs \/ Free)
      /\ UNCHANGED <<file, archive, ans, prog, up, op, conf, tomb, snap, acc, gates, tasks>>
      /\ UNCHANGED <<consent, refused, issued, over, receipt, delivered>>
  BY DEF Consume, durable, memory, history
<1>2. Ending' /\ over' \subseteq Over' /\ Fresh' /\ Over' = Over BY <1>1, SessionRests
<1>3. MailTypeOK BY DEF MailInv
<1>4. MailTypeOK' BY <1>1, <1>3, BoxTyped DEF MailTypeOK
<1>5. Decided' BY <1>1, <1>3, BoxTyped DEF Decided
<1> QED BY <1>1, <1>2, <1>4, <1>5 DEF MailInv, ReceiptTruthful

LEMMA MailKept ==
  ASSUME MailInv, [HandoffNext]_allVars
  PROVE  MailInv'
<1>1. CASE HandoffNext
  BY <1>1, SessionKeeps, DeliverKeeps, ReadMailKeeps, RetireDraftKeeps, AcceptHandoffKeeps,
     WriteReceiptKeeps, ConsumeKeeps
  DEF HandoffNext, MailStep
<1>2. CASE UNCHANGED allVars
  <2>1. /\ UNCHANGED <<file, archive, ans, prog, up, op, conf, tomb, snap, acc, gates, tasks>>
        /\ UNCHANGED <<consent, refused, issued, over>> /\ Free
        /\ UNCHANGED <<mail, receipt, box, delivered>>
    BY <1>2 DEF allVars, vars, mailVars, durable, memory, history, Free
  <2>2. Ending' /\ over' \subseteq Over' /\ Fresh' /\ Over' = Over BY <2>1, SessionRests
  <2> QED BY <2>1, <2>2 DEF MailInv, MailTypeOK, Decided, ReceiptTruthful
<1> QED BY <1>1, <1>2

(* The mailbox's invariant, for every interleaving of the installer, the    *)
(* session and the writes of process_mailbox.                               *)
THEOREM HandoffInvariant == HandoffSpec => []MailInv
<1>1. MailInv /\ [HandoffNext]_allVars => MailInv' BY MailKept
<1> QED BY <1>1, MailInit, PTL DEF HandoffSpec

(* The mailbox keeps its type, and so does the session composed with it.    *)
THEOREM HandoffTypeCorrect == HandoffSpec => [](TypeOK /\ MailTypeOK)
<1>1. MailInv => TypeOK /\ MailTypeOK
  BY DEF MailInv, Ending, SessionInv, Typed, Disk, TypeOK, Answers, Ops, OpKinds, Snaps, Tasks
<1> QED BY <1>1, HandoffInvariant, PTL

(* The receipt names the accepted handoff, or one that was accepted and has *)
(* ended, at every moment.                                                  *)
THEOREM ReceiptIsTrue == HandoffSpec => []ReceiptTruthful
<1>1. MailInv => ReceiptTruthful BY DEF MailInv
<1> QED BY <1>1, HandoffInvariant, PTL

(* The step property of a draft.                                            *)
KeepsDraft ==
  prog.id # 0 /\ ~prog.expired /\ prog.id \notin Over
    /\ (prog'.id # prog.id \/ prog.id \in Over')
  => file.act = prog.id

LEMMA DraftStays ==
  ASSUME MailInv, HandoffNext
  PROVE  KeepsDraft
<1>1. CASE SessionStep
  <2>1. Step /\ SessionInv /\ Down BY <1>1 DEF SessionStep, Next, MailInv, Ending
  <2>2. Over' \subseteq Over \cup {file.act} BY <2>1, HistoryGrows
  <2>3. prog'.id = prog.id BY <2>1, SlotMoves
  <2> QED BY <2>2, <2>3 DEF KeepsDraft
<1>2. CASE RetireDraft BY <1>2, RetireDraftKeeps DEF KeepsDraft
<1>3. CASE AcceptHandoff BY <1>3, AcceptHandoffKeeps DEF KeepsDraft
<1>4. CASE UNCHANGED <<file, archive, prog>> BY <1>4 DEF KeepsDraft, Over
<1> QED BY <1>1, <1>2, <1>3, <1>4
    DEF HandoffNext, MailStep, Deliver, ReadMail, WriteReceipt, Consume, vars, durable

(* An accepted handoff that is valid is replaced or retired by no other: it *)
(* ends by its own activation.                                              *)
THEOREM DraftIsKept == HandoffSpec => DraftKept
<1>1. MailInv /\ [HandoffNext]_allVars => [KeepsDraft]_allVars BY DraftStays
<1> QED BY <1>1, HandoffInvariant, PTL DEF HandoffSpec, DraftKept, KeepsDraft

(* The step property of an activation.                                      *)
ActivatesFresh == file'.cert \notin {Nobody, file.cert} /\ file'.act # 0 => file'.act \notin over

LEMMA ActivationIsFresh ==
  ASSUME MailInv, HandoffNext
  PROVE  ActivatesFresh
<1>1. SessionInv /\ Down /\ over \subseteq Over BY DEF MailInv, Ending
<1>2. CASE SessionStep
  <2>1. Step BY <1>2 DEF SessionStep, Next
  <2>2. CASE SavePair /\ file' = NewFile
    <3>1. op.at = "save" BY <2>2 DEF SavePair, At
    <3>2. op.cert \in Certs /\ op.act \in {0} \cup Handoffs BY <1>1, MemoryTyped
    <3> DEFINE f == FreshPair(op.cert, op.act)
    <3>3. f \in PairedFiles /\ f.act = op.act BY <3>2, FreshKeeps DEF Disk
    <3> HIDE DEF f
    <3>4. file' = Saved(file, archive, f) BY <2>2 DEF NewFile, f
    <3>5. file'.act = op.act BY <1>1, <3>3, <3>4, FileTyped, SavedKeeps
    <3> QED BY <1>1, <3>1, <3>5 DEF MailInv, Fresh, ActivatesFresh
  <2>3. CASE KeyRefused BY <2>3 DEF KeyRefused, ActivatesFresh, Unpaired
  <2>4. CASE file'.cert \in {Nobody, file.cert} BY <2>4 DEF ActivatesFresh
  <2>5. CASE AccessMutates
    <3>1. /\ file' = Saved(file, archive, Mutated(file)) /\ file.cert # Nobody /\ file.gen < MaxGen
      BY <2>5 DEF AccessMutates, CanMutate
    <3>2. Mutated(file) \in PairedFiles /\ Mutated(file).cert = file.cert
      BY <1>1, <3>1, FileTyped, MutatedKeeps DEF Disk
    <3>3. file'.cert = file.cert BY <1>1, <3>1, <3>2, FileTyped, SavedKeeps
    <3> QED BY <3>3 DEF ActivatesFresh
  <2>6. ASSUME NEW f, Rewrites(f) PROVE file'.cert \in {Nobody, file.cert}
    BY <1>1, <2>6, FileTyped, SavedKeeps DEF Rewrites
  <2> QED BY <1>1, <2>1, <2>2, <2>3, <2>4, <2>5, <2>6, FileMoves
<1>3. CASE RetireDraft
  <2> DEFINE f == [file EXCEPT !.retired = file.retired \cup {prog.id}]
  <2>1. prog.id \in Handoffs BY <1>1, <1>3 DEF RetireDraft, Work, MailInv, Decided, SessionInv, Typed
  <2>2. f \in PairedFiles /\ f.cert = file.cert BY <1>1, <2>1, FileTyped DEF PairedFiles
  <2>3. file' \in {file, Saved(file, archive, f)} BY <1>1, <1>3, FileTyped DEF RetireDraft, PairedFiles
  <2> HIDE DEF f
  <2>4. file'.cert = file.cert BY <1>1, <2>2, <2>3, FileTyped, SavedKeeps
  <2> QED BY <2>4 DEF ActivatesFresh
<1>4. CASE file' = file BY <1>4 DEF ActivatesFresh
<1> QED BY <1>2, <1>3, <1>4
    DEF HandoffNext, MailStep, Deliver, ReadMail, AcceptHandoff, WriteReceipt, Consume, vars, durable

(* No handoff whose activation ended and no draft that was retired is ever  *)
(* activated.                                                               *)
THEOREM EndedStaysEnded == HandoffSpec => EndedNotActivated
<1>1. MailInv /\ [HandoffNext]_allVars => [ActivatesFresh]_allVars BY ActivationIsFresh
<1> QED BY <1>1, HandoffInvariant, PTL DEF HandoffSpec, EndedNotActivated, ActivatesFresh
=============================================================================
