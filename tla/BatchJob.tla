------------------------------- MODULE BatchJob -------------------------------
(***************************************************************************)
(* One batch job (internal/app/batch.go, Submit and Work) and the workers  *)
(* of the replicas that execute it (cmd/ztax-core, runBatchWorker).        *)
(*                                                                         *)
(* A worker leases the job, reads the items that have no result, commits   *)
(* each one under its own idempotency key and records what came of it.     *)
(* The lease is a hint: nothing but the job's status and the items' keys   *)
(* is checked when a worker writes, so a worker whose lease lapsed while   *)
(* it was working goes on next to the one that took the job over.          *)
(*                                                                         *)
(* The guard's table (module Idempotency) is seen here through the state   *)
(* of each item's key; the keys outlive the job by years.                  *)
(***************************************************************************)
EXTENDS Naturals

CONSTANTS
  Worker,      \* one per replica
  Item,        \* positions of the job's items
  Undecodable, \* those whose stored request does not read back
  MaxFaults    \* bound: failures that are not an item's own

ASSUME ItemAssumption == Item \subseteq Nat
ASSUME UndecodableAssumption == Undecodable \subseteq Item
ASSUME MaxFaultsAssumption == MaxFaults \in Nat

VARIABLES
  status,      \* batch_job.status; "absent" before Submit
  lease,       \* batch_job.lease_until: NULL, ahead, or passed
  result,      \* batch_item_result: what each item came to
  key,         \* the idempotency record of each item's key
  committed,   \* how often each item's decision has been committed
  pc,          \* where each worker is in Work
  todo,        \* the items each worker read as pending and has not done
  item,        \* the item each worker is at
  outcome,     \* what runItem returned for it
  unsettled,   \* auxiliary: items refused with no record of the refusal
  faults

vars == <<status, lease, result, key, committed, pc, todo, item, outcome,
          unsettled, faults>>

Keys == {"none", "PENDING", "SUCCEEDED", "FAILED"}

(* A FAILED result is told apart by its reason: the reason the item was    *)
(* refused with, or REQUEST_IN_PROGRESS.                                   *)
Outcomes == {"SUCCEEDED", "refused", "inProgress"}

Pcs == {"idle", "pending", "items", "claim", "execute", "append"}

TypeOK ==
  /\ status \in {"absent", "QUEUED", "RUNNING", "COMPLETED"}
  /\ lease \in {"none", "held", "lapsed"}
  /\ status = "RUNNING" <=> lease # "none"
  /\ result \in [Item -> Outcomes \cup {"none"}]
  /\ key \in [Item -> Keys]
  /\ committed \in [Item -> Nat]
  /\ pc \in [Worker -> Pcs]
  /\ todo \in [Worker -> SUBSET Item]
  /\ item \in [Worker -> Item]
  /\ outcome \in [Worker -> Outcomes]
  /\ unsettled \subseteq Item
  /\ faults \in 0..MaxFaults

Init ==
  /\ status = "absent" /\ lease = "none"
  /\ result = [i \in Item |-> "none"]
  /\ key = [i \in Item |-> "none"]
  /\ committed = [i \in Item |-> 0]
  /\ pc = [w \in Worker |-> "idle"]
  /\ todo = [w \in Worker |-> {}]
  /\ item \in {[w \in Worker |-> i] : i \in Item}
  /\ outcome = [w \in Worker |-> "refused"]
  /\ unsettled = {}
  /\ faults = 0

Goto(w, p) == pc' = [pc EXCEPT ![w] = p]

-----------------------------------------------------------------------------
(* The job and its items are created in the transaction that settles the   *)
(* submission's own idempotency record.                                    *)
Submit ==
  /\ status = "absent"
  /\ status' = "QUEUED"
  /\ UNCHANGED <<lease, result, key, committed, pc, todo, item, outcome,
                 unsettled, faults>>

(* The jobs sqlJobClaim finds; mutated, a job whose worker died is not.    *)
ClaimableQueued == status = "QUEUED"
Claimable == status = "QUEUED" \/ (status = "RUNNING" /\ lease = "lapsed")

ClaimNext(w) ==
  /\ pc[w] = "idle" /\ Claimable
  /\ status' = "RUNNING" /\ lease' = "held"
  /\ Goto(w, "pending")
  /\ UNCHANGED <<result, key, committed, todo, item, outcome, unsettled,
                 faults>>

Pending(w) ==
  /\ pc[w] = "pending"
  /\ todo' = [todo EXCEPT ![w] = {i \in Item : result[i] = "none"}]
  /\ Goto(w, "items")
  /\ UNCHANGED <<status, lease, result, key, committed, item, outcome,
                 unsettled, faults>>

(* The next item in order, the lease renewed first when half of it is      *)
(* gone.  Renew asks for a RUNNING job and not for its own lease.          *)
StartItem(w) ==
  /\ pc[w] = "items"
  /\ \E i \in todo[w] :
       /\ \A j \in todo[w] : i <= j
       /\ item' = [item EXCEPT ![w] = i]
  /\ \/ UNCHANGED lease
     \/ status = "RUNNING" /\ lease' = "held"
  /\ Goto(w, "claim")
  /\ UNCHANGED <<status, result, key, committed, todo, outcome, unsettled,
                 faults>>

(* The renewal finds the job no longer RUNNING and ends the pass.          *)
RenewRefused(w) ==
  /\ pc[w] = "items" /\ todo[w] # {} /\ status # "RUNNING"
  /\ Goto(w, "idle")
  /\ UNCHANGED <<status, lease, result, key, committed, todo, item, outcome,
                 unsettled, faults>>

(* A request that does not read back is refused before the guard sees it.  *)
Undecoded(w) ==
  /\ pc[w] = "claim" /\ item[w] \in Undecodable
  /\ outcome' = [outcome EXCEPT ![w] = "refused"]
  /\ Goto(w, "append")
  /\ UNCHANGED <<status, lease, result, key, committed, todo, item,
                 unsettled, faults>>

(* What runItem makes of the record the guard found under the item's key:  *)
(* a replayed response, or a REQUEST_IN_PROGRESS that recordable takes for *)
(* the item's own failure.  Mutated, a replayed refusal passes for a       *)
(* success.                                                                *)
FoundAnySettled(k) == IF k = "PENDING" THEN "inProgress" ELSE "SUCCEEDED"
Found(k) ==
  IF k = "PENDING" THEN "inProgress"
  ELSE IF k = "SUCCEEDED" THEN "SUCCEEDED" ELSE "refused"

(* ItemKey makes every attempt at an item the same request: an attempt may *)
(* execute when nobody has claimed its key.  Mutated, attempts do not      *)
(* exclude each other while they execute.                                  *)
FirstAttemptLoose(i) == key[i] \in {"none", "PENDING"}
FirstAttempt(i) == key[i] = "none"

Claim(w) ==
  LET i == item[w] IN
  /\ pc[w] = "claim" /\ i \notin Undecodable
  /\ IF FirstAttempt(i)
       THEN /\ key' = [key EXCEPT ![i] = "PENDING"]
            /\ Goto(w, "execute") /\ UNCHANGED outcome
       ELSE /\ outcome' = [outcome EXCEPT ![w] = Found(key[i])]
            /\ Goto(w, "append") /\ UNCHANGED key
  /\ UNCHANGED <<status, lease, result, committed, todo, item, unsettled,
                 faults>>

(* The decision and its settled key commit together.                       *)
CommitItem(i) ==
  /\ key' = [key EXCEPT ![i] = "SUCCEEDED"]
  /\ committed' = [committed EXCEPT ![i] = @ + 1]

ExecuteCommits(w) ==
  /\ pc[w] = "execute"
  /\ CommitItem(item[w])
  /\ outcome' = [outcome EXCEPT ![w] = "SUCCEEDED"]
  /\ Goto(w, "append")
  /\ UNCHANGED <<status, lease, result, todo, item, unsettled, faults>>

(* The commit path refuses the item and the guard records the refusal.     *)
ExecuteRefuses(w) ==
  /\ pc[w] = "execute"
  /\ key' = [key EXCEPT ![item[w]] = "FAILED"]
  /\ outcome' = [outcome EXCEPT ![w] = "refused"]
  /\ Goto(w, "append")
  /\ UNCHANGED <<status, lease, result, committed, todo, item, unsettled,
                 faults>>

(* Recording the refusal fails too.  The guard gives the key back where it *)
(* can and returns the refusal nevertheless, which the pass takes for the  *)
(* item's result: the key may be free, stay PENDING, or be FAILED when     *)
(* only the reply was lost.                                                *)
RefusalUnsettled(w) ==
  LET i == item[w] IN
  /\ pc[w] = "execute" /\ faults < MaxFaults
  /\ faults' = faults + 1
  /\ \E k \in {"none", "PENDING", "FAILED"} :
       /\ key' = [key EXCEPT ![i] = k]
       /\ unsettled' = IF k = "FAILED" THEN unsettled ELSE unsettled \cup {i}
  /\ outcome' = [outcome EXCEPT ![w] = "refused"]
  /\ Goto(w, "append")
  /\ UNCHANGED <<status, lease, result, committed, todo, item>>

(* ON CONFLICT DO NOTHING.                                                 *)
KeepFirst(old, new) == IF old = "none" THEN new ELSE old

AppendResult(w) ==
  LET i == item[w] IN
  /\ pc[w] = "append"
  /\ result' = [result EXCEPT ![i] = KeepFirst(@, outcome[w])]
  /\ todo' = [todo EXCEPT ![w] = @ \ {i}]
  /\ Goto(w, "items")
  /\ UNCHANGED <<status, lease, key, committed, item, outcome, unsettled,
                 faults>>

(* UPDATE ... WHERE status = 'RUNNING', after the last item.               *)
Stop == status' = "COMPLETED" /\ lease' = "none"

Complete(w) ==
  /\ pc[w] = "items" /\ todo[w] = {}
  /\ IF status = "RUNNING"
       THEN Stop
       ELSE UNCHANGED <<status, lease>>
  /\ Goto(w, "idle")
  /\ UNCHANGED <<result, key, committed, todo, item, outcome, unsettled,
                 faults>>

-----------------------------------------------------------------------------
(* A failure that is not the item's stops the pass.  Mutated, the loop     *)
(* logs it and carries on with the next item.                              *)
SkipItem(w) == /\ pc' = [pc EXCEPT ![w] = "items"]
               /\ todo' = [todo EXCEPT ![w] = @ \ {item[w]}]
StopPass(w) == /\ pc' = [pc EXCEPT ![w] = "idle"]
               /\ todo' = [todo EXCEPT ![w] = {}]

Fault(w) ==
  /\ faults < MaxFaults /\ faults' = faults + 1
  /\ StopPass(w)

(* The worker dies, or a statement of Work fails: what is committed stays, *)
(* and so does the key of an item that was executing.                      *)
PassFails(w) ==
  /\ pc[w] # "idle" /\ Fault(w)
  /\ UNCHANGED <<status, lease, result, key, committed, item, outcome,
                 unsettled>>

(* The commit path fails transiently: the key is released, or the commit's *)
(* reply is lost and the decision is there.                                *)
ExecuteFails(w) ==
  /\ pc[w] = "execute" /\ Fault(w)
  /\ \/ key' = [key EXCEPT ![item[w]] = "none"] /\ UNCHANGED committed
     \/ CommitItem(item[w])
  /\ UNCHANGED <<status, lease, result, item, outcome, unsettled>>

(* lease_until passes, whether or not the worker is still at work.         *)
LeaseLapses ==
  /\ lease = "held" /\ lease' = "lapsed"
  /\ UNCHANGED <<status, result, key, committed, pc, todo, item, outcome,
                 unsettled, faults>>

(* The statements of one worker's pass, when none of them fails.           *)
Work(w) ==
  \/ ClaimNext(w) \/ Pending(w) \/ StartItem(w) \/ Undecoded(w)
  \/ Claim(w) \/ ExecuteCommits(w) \/ ExecuteRefuses(w) \/ AppendResult(w)
  \/ Complete(w)

Next ==
  \/ Submit \/ LeaseLapses
  \/ \E w \in Worker :
       \/ Work(w) \/ RenewRefused(w) \/ RefusalUnsettled(w)
       \/ PassFails(w) \/ ExecuteFails(w)

Spec == Init /\ [][Next]_vars

(* Every replica's worker ticks, every lease runs out, and the failures    *)
(* that are not the items' are bounded by MaxFaults.                       *)
Fairness == WF_vars(LeaseLapses) /\ \A w \in Worker : WF_vars(Work(w))
FairSpec == Spec /\ Fairness

-----------------------------------------------------------------------------
(* Properties                                                              *)

(* "cannot commit any item twice" (package batch), with two workers on the *)
(* job, dead workers and lost commits.                                     *)
CommittedOnce == \A i \in Item : committed[i] <= 1

(* Whoever of several workers recorded it, a SUCCEEDED result has its      *)
(* decision, and a refusal was settled with no decision (runItem), except  *)
(* in two cases: the item's request does not read back, and then its key   *)
(* is never claimed; or the guard could not record the refusal.            *)
ResultTellsOutcome ==
  \A i \in Item :
    /\ result[i] = "SUCCEEDED" => key[i] = "SUCCEEDED" /\ committed[i] = 1
    /\ result[i] = "refused" =>
         \/ key[i] = "FAILED" /\ committed[i] = 0
         \/ i \in Undecodable /\ key[i] = "none" /\ committed[i] = 0
         \/ i \in unsettled

(* A job that ran to the end has a result for every item, so its counts    *)
(* add up, even when a worker that lost its lease completed it.            *)
CompletedHasResults ==
  status = "COMPLETED" => \A i \in Item : result[i] # "none"

(* Every submitted job completes: a worker that dies is replaced when its  *)
(* lease lapses.                                                           *)
JobCompletes == status = "QUEUED" ~> status = "COMPLETED"
=============================================================================
