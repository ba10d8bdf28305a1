---------------------------- MODULE SetupHandoff ----------------------------
(***************************************************************************)
(* The setup mailbox.  The installer leaves a handoff in the mailbox file   *)
(* and waits for its receipt.  The program takes it over in up to four      *)
(* durable writes, under the handoff lock: the draft it supersedes is       *)
(* retired, the handoff becomes the accepted progress, the receipt is       *)
(* written and the mailbox is emptied.  It may crash between any two, and   *)
(* the installer may write the mailbox again at any time.                   *)
(***************************************************************************)
EXTENDS PairingSession

CONSTANT MaxDeliveries   \* handoffs put into the mailbox

ASSUME DeliveriesAssumption == MaxDeliveries \in Nat

VARIABLES
  mail,     \* the handoff in the mailbox, 0 if there is none
  receipt,  \* the handoff whose acceptance is on file, 0 if there is none
  box,      \* the next write of process_mailbox and the handoff it carries
  delivered

mailVars == <<mail, receipt, box, delivered>>
allVars == <<vars, mailVars>>

NoWork == [at |-> "idle", id |-> 0]
Work(step) == up /\ box.at = step
Ahead(step) == box' = [box EXCEPT !.at = step]

(* The installer, outside of the program.                                   *)
Deliver ==
  /\ delivered < MaxDeliveries /\ delivered' = delivered + 1
  /\ mail' \in Handoffs
  /\ UNCHANGED <<vars, receipt, box>>

(* Mutation: a ceremony counts only once its mark waits for an answer.      *)
CeremonyAwaiting == snap.phase = "awaiting"

(* pairing_admission, or a mark that waits for its answer.                  *)
CeremonyActive ==
  \/ op.kind \in {"link", "here", "found", "native", "finish"}
  \/ snap.phase \in {"pairing", "awaiting"}

Over == History(file, archive)

(* Mutation: a draft that has expired is simply replaced.                   *)
NextWriteOverwrites == "accept"

(* A draft that nobody used is retired before it is replaced.               *)
NextWrite == IF prog.id \in {0} \cup Over THEN "accept" ELSE "retire"

(* Mutation: the newest handoff wins.                                       *)
AlwaysVacant == TRUE

(* No accepted handoff is in the way.                                       *)
Vacant == prog.id \in {0} \cup Over \/ prog.expired

Replayed == mail \in Over \cup {prog.id}

(* process_mailbox up to its first write: a replay is answered again, an    *)
(* expired handoff is refused, and one that comes while another is in use   *)
(* waits.  A receipt that this handoff has no right to is taken back.       *)
ReadMail ==
  /\ Work("idle") /\ mail # 0
  /\ \/ Replayed /\ box' = [at |-> "receipt", id |-> mail] /\ UNCHANGED receipt
     \/ /\ ~Replayed
        /\ receipt' = IF receipt = mail THEN 0 ELSE receipt
        /\ \/ UNCHANGED box
           \/ /\ ~CeremonyActive /\ Vacant
              /\ box' = [at |-> NextWrite, id |-> mail]
  /\ UNCHANGED <<vars, mail, delivered>>

(* retire_setup_handoff.                                                    *)
RetireDraft ==
  /\ Work("retire")
  /\ \E o \in Outcomes :
       /\ Outcome(o)
       /\ file' = IF o = "failed" THEN file
                  ELSE Saved(file, archive, [file EXCEPT !.retired = @ \cup {prog.id}])
       /\ IF o = "ok" THEN Ahead("accept") ELSE box' = NoWork
  /\ UNCHANGED <<archive, ans, prog, up, op, memory, history, over, mail, receipt, delivered>>

(* The progress file is replaced; a draft that was in it has come to its    *)
(* end.                                                                     *)
AcceptHandoff ==
  /\ Work("accept")
  /\ \E o \in Outcomes :
       /\ Outcome(o)
       /\ prog' = IF o = "failed" THEN prog ELSE [id |-> box.id, expired |-> FALSE]
       /\ over' = IF o = "failed" THEN over ELSE over \cup ({prog.id} \ {0})
       /\ IF o = "ok" THEN Ahead("receipt") ELSE box' = NoWork
  /\ UNCHANGED <<file, archive, ans, up, op, memory, history, mail, receipt, delivered>>

WriteReceipt ==
  /\ Work("receipt")
  /\ \E o \in Outcomes :
       /\ Outcome(o)
       /\ receipt' = IF o = "failed" THEN receipt ELSE box.id
       /\ IF o = "ok" THEN Ahead("consume") ELSE box' = NoWork
  /\ UNCHANGED <<durable, up, op, memory, history, over, mail, delivered>>

(* consume_mailbox_if_same.                                                 *)
Consume ==
  /\ Work("consume") /\ box' = NoWork
  /\ \/ Free /\ mail' = IF mail = box.id THEN 0 ELSE mail
     \/ Costs /\ UNCHANGED mail
  /\ UNCHANGED <<durable, up, op, memory, history, over, receipt, delivered>>

MailStep == ReadMail \/ RetireDraft \/ AcceptHandoff \/ WriteReceipt \/ Consume

(* claim_pairing_admission waits for the handoff lock.                      *)
Admitted == op.at = "idle" /\ op'.kind \in {"link", "here", "found", "native", "finish"} => box = NoWork

SessionStep ==
  /\ Next /\ Admitted
  /\ box' = IF up' THEN box ELSE NoWork
  /\ UNCHANGED <<mail, receipt, delivered>>

HandoffInit == Init /\ prog.id = 0 /\ mail = 0 /\ receipt = 0 /\ box = NoWork /\ delivered = 0

HandoffNext == SessionStep \/ Deliver \/ MailStep

HandoffSpec == HandoffInit /\ [][HandoffNext]_allVars

----------------------------------------------------------------------------
(* Type correctness of the mailbox.                                         *)
MailTypeOK ==
  /\ mail \in {0} \cup Handoffs /\ receipt \in {0} \cup Handoffs
  /\ box \in [at : {"idle", "retire", "accept", "receipt", "consume"}, id : {0} \cup Handoffs]
  /\ (box.at = "idle") = (box = NoWork) /\ delivered \in 0..MaxDeliveries

(* The installer's receipt is true at every moment, also after a crash and  *)
(* after the pairing was set aside: the handoff it names is the accepted    *)
(* one, or it was accepted before and has ended (process_mailbox).          *)
ReceiptTruthful == receipt # 0 => receipt \in {prog.id} \cup Over

(* While it is valid, an accepted handoff is neither replaced nor retired   *)
(* by the one that comes after it: it ends by its own activation only.      *)
DraftKept ==
  [][prog.id # 0 /\ ~prog.expired /\ prog.id \notin Over
       /\ (prog'.id # prog.id \/ prog.id \in Over')
     => file.act = prog.id]_allVars

(* Neither a handoff whose activation ended nor a draft that was retired is *)
(* ever activated, however often the installer delivers it again and        *)
(* whatever ceremony was running when it was retired.                       *)
EndedNotActivated ==
  [][file'.cert \notin {Nobody, file.cert} /\ file'.act # 0 => file'.act \notin over]_allVars

=============================================================================
