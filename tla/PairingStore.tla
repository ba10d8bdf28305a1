---------------------------- MODULE PairingStore ----------------------------
(***************************************************************************)
(* pairing.json, the archive of a pairing whose key Windows refused to      *)
(* unwrap, and pairing-answer.json, with the operations on them that run    *)
(* under the owner lock: each is one atomic replacement of one file.        *)
(*                                                                          *)
(* A credential is the number of its certificate, which is also its         *)
(* binding; 0 is none.  A setup handoff is a number; 0 is none.             *)
(***************************************************************************)
EXTENDS Naturals

Nobody == 0
NoIntent == [phase |-> "none", cert |-> Nobody, gen |-> 0]

(* `sound`: the journal's id is that of the CA the credential pins.         *)
Unpaired == [cert |-> Nobody, gen |-> 0, intent |-> NoIntent, sound |-> TRUE,
             act |-> 0, opened |-> FALSE, retired |-> {}]

EmptyAnswer == [st |-> "ok", confirmed |-> Nobody, rejected |-> Nobody]
NoAnswer == [st |-> "absent", confirmed |-> Nobody, rejected |-> Nobody]

Retiring(f) == f.intent # NoIntent

(* The activation of such a file can never be continued.                    *)
Ended(f) ==
  IF f.act # 0 /\ (f.opened \/ f.cert = Nobody \/ Retiring(f)) THEN {f.act} ELSE {}

(* setup_handoff_history.                                                   *)
History(f, archive) ==
  f.retired \cup Ended(f) \cup archive.retired \cup ({archive.act} \ {0})

(* save_inner: what the file becomes.  It keeps the handoffs of the file it *)
(* replaces and of the archive, and those of an activation that ends here;  *)
(* an opened browser stays opened while credential and activation stay.     *)
Saved(prev, archive, f) ==
  LET same == prev.act = f.act /\ prev.cert = f.cert
      g == [f EXCEPT !.opened = f.opened \/ (same /\ prev.opened)]
  IN  [g EXCEPT !.retired = g.retired \cup History(prev, archive) \cup Ended(g)
                            \cup (IF same THEN {} ELSE {prev.act} \ {0})]

FreshPair(cert, act) == [Unpaired EXCEPT !.cert = cert, !.act = act]

(* install_pair_rejection_intent.                                           *)
CanInstall(f, cert, gen) ==
  cert # Nobody /\ ~Retiring(f) /\ f.cert = cert /\ f.gen = gen
WithIntent(f) ==
  [f EXCEPT !.intent = [phase |-> "prepared", cert |-> f.cert, gen |-> f.gen]]

(* The intent still owns the credential and the access generation.          *)
Owned(f, intent) ==
  /\ f.intent.cert = intent.cert /\ f.intent.gen = intent.gen
  /\ f.cert = intent.cert /\ f.gen = intent.gen

(* finish_pair_rejection, after the answer has been cleared.                *)
Finishable(f, intent) == Owned(f, intent) /\ f.intent.phase \in {"succeeded", "unknown"}
Cleared(f) == [f EXCEPT !.cert = Nobody, !.intent = NoIntent, !.gen = @ + 1]

(* PairedState::mutate, for a token or for endpoints.                       *)
CanMutate(f, cert, gen) == cert # Nobody /\ f.cert = cert /\ f.gen = gen /\ ~Retiring(f)
Mutated(f) == [f EXCEPT !.gen = @ + 1]

(* read_answer_or_reset: an unreadable answer is set aside, and is no answer. *)
Legible(ans) == IF ans.st = "bad" THEN EmptyAnswer ELSE ans

(* Mutation: a pairing that setup began counts as confirmed as well.        *)
SettledAlways(ans, f) ==
  IF ans.st # "absent" THEN ans ELSE [EmptyAnswer EXCEPT !.confirmed = f.cert]

(* settle_answer_file: without an answer file an older pairing counts as    *)
(* confirmed, one that setup began does not.                                *)
Settled(ans, f) ==
  IF ans.st # "absent" THEN ans
  ELSE IF f.act # 0 THEN EmptyAnswer ELSE [EmptyAnswer EXCEPT !.confirmed = f.cert]

(* hold_stored_pairing_that_cant_stand: its owner is asked again.           *)
Stands(f) == f.cert = Nobody \/ f.sound
Held(ans, f) == IF Stands(f) THEN ans ELSE [ans EXCEPT !.confirmed = Nobody]

=============================================================================
