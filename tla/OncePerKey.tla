------------------------------ MODULE OncePerKey ------------------------------
(***************************************************************************)
(* What the idempotency guard promises its callers, with no table, lock or *)
(* failure in sight: within a key's retention a request has one outcome,   *)
(* and every caller that is given a response is given that one, for the    *)
(* request it sent.                                                        *)
(***************************************************************************)
CONSTANTS Key, Call, KeyOf, DigestOf, NoOutcome, NoAnswer

VARIABLES outcome,   \* the key's one outcome, while it is retained
          answer     \* what each call was told

vars == <<outcome, answer>>

Outcome == [state : {"SUCCEEDED", "FAILED"}, settler : Call]

Init ==
  /\ outcome = [k \in Key |-> NoOutcome]
  /\ answer = [c \in Call |-> NoAnswer]

(* A key without an outcome gets one, settled by the call that executed;   *)
(* that call is told at the same moment, or never learns of it.            *)
Settle(c) ==
  LET k == KeyOf[c] IN
  /\ outcome[k] = NoOutcome
  /\ \E o \in Outcome :
       /\ o.settler = c
       /\ outcome' = [outcome EXCEPT ![k] = o]
       /\ \/ answer' = answer
          \/ answer[c] = NoAnswer /\ answer' = [answer EXCEPT ![c] = o]

(* An unanswered call whose request is the one that was settled is told    *)
(* the outcome.                                                            *)
Replay(c) ==
  LET o == outcome[KeyOf[c]] IN
  /\ answer[c] = NoAnswer
  /\ o # NoOutcome
  /\ DigestOf[o.settler] = DigestOf[c]
  /\ answer' = [answer EXCEPT ![c] = o]
  /\ UNCHANGED outcome

(* The retention of a key's outcome ends.                                  *)
Forget(k) ==
  /\ outcome[k] # NoOutcome
  /\ outcome' = [outcome EXCEPT ![k] = NoOutcome]
  /\ UNCHANGED answer

Next ==
  \/ \E c \in Call : Settle(c) \/ Replay(c)
  \/ \E k \in Key : Forget(k)

Spec == Init /\ [][Next]_vars
=============================================================================
