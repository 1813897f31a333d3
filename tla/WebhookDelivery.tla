--------------------------- MODULE WebhookDelivery ---------------------------
(***************************************************************************)
(* The delivery of webhooks (internal/app/webhooks.go, Dispatch and        *)
(* attempt; internal/adapter/postgres/webhook_repo.go).                    *)
(*                                                                         *)
(* A dispatcher claims due deliveries by pushing their next attempt a      *)
(* lease into the future, commits, and then attempts them one after the    *)
(* other: it reads the subscription, sends, and records the attempt with   *)
(* its outcome.  No lock is held between those steps, so a dispatcher      *)
(* whose lease has lapsed works on next to the one that claimed after it.  *)
(*                                                                         *)
(* Time passes in ticks.  A scheduled delivery's wait says how many ticks  *)
(* are left before it is due.                                              *)
(***************************************************************************)
EXTENDS Naturals, FiniteSets

CONSTANTS
  Delivery, Dispatcher, None,
  MaxAttempts,   \* a delivery's attempts before it is dead
  Backoff,       \* the wait after each failed attempt
  Lease,         \* how long a claim keeps others off
  BatchSize,     \* the deliveries of one claim
  MaxFaults,     \* bound: statements and commits that fail, and crashes
  MaxMoves       \* bound: status changes of the subscription

ASSUME BoundAssumption ==
  /\ {MaxAttempts, Lease, BatchSize} \subseteq Nat \ {0}
  /\ MaxFaults \in Nat /\ MaxMoves \in Nat
ASSUME DeliveryAssumption == IsFiniteSet(Delivery)
ASSUME BackoffAssumption == Backoff \in [1..(MaxAttempts - 1) -> Nat \ {0}]

(* What a dispatcher read of a delivery when it claimed it.                *)
Claimed == [delivery : Delivery, attempts : 0..(MaxAttempts - 1)]
ASSUME NoneAssumption == None \notin Claimed

VARIABLES
  status, attempts, wait,  \* the rows of webhook_delivery
  attempt,     \* the rows of webhook_attempt: <<attempt, succeeded>>
  webhook,     \* the subscription's current status
  held,        \* what each dispatcher has claimed and not yet finished
  step, item,  \* where it is, at which of those
  faults, moves

rows == <<status, attempts, wait, attempt>>
pass == <<held, step, item>>
vars == <<rows, webhook, pass, faults, moves>>

Steps == {"idle", "burying", "sending", "succeeded", "failed"}

TypeOK ==
  /\ status \in [Delivery -> {"absent", "PENDING", "DELIVERED", "DEAD"}]
  /\ attempts \in [Delivery -> 0..MaxAttempts]
  /\ wait \in [Delivery -> Nat]
  /\ attempt \in [Delivery -> SUBSET ((1..MaxAttempts) \X BOOLEAN)]
  /\ webhook \in {"ACTIVE", "PAUSED", "DISABLED"}
  /\ held \in [Dispatcher -> SUBSET Claimed]
  /\ step \in [Dispatcher -> Steps]
  /\ item \in [Dispatcher -> Claimed \cup {None}]
  /\ \A r \in Dispatcher :
       /\ step[r] = "idle" <=> item[r] = None
       /\ item[r] = None \/ item[r] \in held[r]
       /\ Cardinality(held[r]) <= BatchSize
  /\ faults \in 0..MaxFaults /\ moves \in 0..MaxMoves

Init ==
  /\ status = [d \in Delivery |-> "absent"]
  /\ attempts = [d \in Delivery |-> 0] /\ wait = [d \in Delivery |-> 0]
  /\ attempt = [d \in Delivery |-> {}]
  /\ webhook = "ACTIVE"
  /\ held = [r \in Dispatcher |-> {}]
  /\ step = [r \in Dispatcher |-> "idle"]
  /\ item = [r \in Dispatcher |-> None]
  /\ faults = 0 /\ moves = 0

-----------------------------------------------------------------------------
(* FanOut or Replay inserts a delivery, due at once.  Both read the        *)
(* subscription first and insert later, whatever it is by then.            *)
InsertDelivery(d) ==
  /\ status[d] = "absent"
  /\ status' = [status EXCEPT ![d] = "PENDING"]
  /\ UNCHANGED <<attempts, wait, attempt, webhook, pass, faults, moves>>

CanMoveTo(from, to) ==
  \/ from = "ACTIVE" /\ to \in {"PAUSED", "DISABLED"}
  \/ from = "PAUSED" /\ to \in {"ACTIVE", "DISABLED"}

SetStatus ==
  /\ moves < MaxMoves /\ moves' = moves + 1
  /\ \E to \in {"ACTIVE", "PAUSED", "DISABLED"} :
       CanMoveTo(webhook, to) /\ webhook' = to
  /\ UNCHANGED <<rows, pass, faults>>

(* Time passes whatever the dispatchers are at: any of them may stall.     *)
Tick ==
  /\ \E d \in Delivery : wait[d] > 0
  /\ wait' = [d \in Delivery |-> IF wait[d] > 0 THEN wait[d] - 1 ELSE 0]
  /\ UNCHANGED <<status, attempts, attempt, webhook, pass, faults, moves>>

-----------------------------------------------------------------------------
(* Mutated, a delivery that failed once is never due again.                *)
DueOnce == {d \in Delivery :
              status[d] = "PENDING" /\ wait[d] = 0 /\ attempts[d] = 0}
Due == {d \in Delivery : status[d] = "PENDING" /\ wait[d] = 0}

(* The claim commits before anything is sent.                              *)
ClaimDue(r) ==
  /\ held[r] = {} /\ Due # {}
  /\ \E S \in SUBSET Due :
       /\ S # {} /\ Cardinality(S) <= BatchSize
       /\ S # Due => Cardinality(S) = BatchSize
       /\ held' = [held EXCEPT ![r] =
                     {[delivery |-> d, attempts |-> attempts[d]] : d \in S}]
       /\ wait' = [d \in Delivery |-> IF d \in S THEN Lease ELSE wait[d]]
  /\ UNCHANGED <<status, attempts, attempt, webhook, step, item, faults,
                 moves>>

(* The next claimed delivery, in whatever order they came: read the        *)
(* subscription and the secrets.                                           *)
Attempt(r) ==
  /\ step[r] = "idle"
  /\ \E h \in held[r] :
       /\ item' = [item EXCEPT ![r] = h]
       /\ step' = [step EXCEPT ![r] =
                     IF webhook = "ACTIVE" THEN "sending" ELSE "burying"]
  /\ UNCHANGED <<rows, webhook, held, faults, moves>>

(* The receiver's acceptance arrives; or it refuses, or its answer is lost.*)
Send(r) ==
  /\ step[r] = "sending"
  /\ \E answer \in {"succeeded", "failed"} : step' = [step EXCEPT ![r] = answer]
  /\ UNCHANGED <<rows, webhook, held, item, faults, moves>>

(* Back to the loop of Dispatch.                                           *)
Finish(r) ==
  /\ held' = [held EXCEPT ![r] = @ \ {item[r]}]
  /\ step' = [step EXCEPT ![r] = "idle"]
  /\ item' = [item EXCEPT ![r] = None]

(* attempt returned an error, and Dispatch returns it: the rest of the     *)
(* batch is dropped, and comes round when its lease lapses.                *)
Abandon(r) ==
  /\ held' = [held EXCEPT ![r] = {}]
  /\ step' = [step EXCEPT ![r] = "idle"]
  /\ item' = [item EXCEPT ![r] = None]

(* The row sqlDeliverySettle moves; mutated, it moves a settled one.       *)
SettlesAny(d, n) == attempts[d] = n - 1
Settles(d, n) == status[d] = "PENDING" /\ attempts[d] = n - 1

(* AfterFailure.                                                           *)
Exhausted(n) == n >= MaxAttempts

(* What a conflict leaves of the attempt row inserted before it: the       *)
(* transaction rolls back; mutated, the row was written outside it.        *)
KeepAttempt(d, n, ok) ==
  attempt' = [attempt EXCEPT ![d] = @ \cup {<<n, ok>>}]
DropAttempt(d, n, ok) == UNCHANGED attempt

(* RecordAttempt: the attempt row, unique per delivery and attempt, and    *)
(* the delivery it moves, or neither.                                      *)
RecordAttempt(d, n, ok) ==
  IF n \notin {a[1] : a \in attempt[d]} /\ Settles(d, n)
  THEN /\ attempt' = [attempt EXCEPT ![d] = @ \cup {<<n, ok>>}]
       /\ attempts' = [attempts EXCEPT ![d] = n]
       /\ status' = [status EXCEPT ![d] =
                       IF ok THEN "DELIVERED"
                       ELSE IF Exhausted(n) THEN "DEAD" ELSE "PENDING"]
       /\ wait' = [wait EXCEPT ![d] =
                     IF ok \/ Exhausted(n) THEN 0 ELSE Backoff[n]]
  ELSE DropAttempt(d, n, ok) /\ UNCHANGED <<status, attempts, wait>>

Bury(d) ==
  /\ status' = [status EXCEPT ![d] = IF @ = "PENDING" THEN "DEAD" ELSE @]
  /\ wait' = [wait EXCEPT ![d] = IF status[d] = "PENDING" THEN 0 ELSE @]
  /\ UNCHANGED <<attempts, attempt>>

(* The transaction that ends the attempt.                                  *)
Settle(r) ==
  \/ /\ step[r] \in {"succeeded", "failed"}
     /\ RecordAttempt(item[r].delivery, item[r].attempts + 1,
                      step[r] = "succeeded")
  \/ step[r] = "burying" /\ Bury(item[r].delivery)

Record(r) ==
  /\ Settle(r) /\ Finish(r)
  /\ UNCHANGED <<webhook, faults, moves>>

Fault == faults < MaxFaults /\ faults' = faults + 1

(* The commit's reply is lost: the transaction stands and the pass ends.   *)
RecordUncertain(r) ==
  /\ Fault /\ Settle(r) /\ Abandon(r)
  /\ UNCHANGED <<webhook, moves>>

(* A statement fails, the database refuses the commit, a signing secret    *)
(* does not open, or the dispatcher dies, at any point of its pass.        *)
PassFails(r) ==
  /\ Fault /\ held[r] # {} /\ Abandon(r)
  /\ UNCHANGED <<rows, webhook, moves>>

Dispatch(r) ==
  ClaimDue(r) \/ Attempt(r) \/ Send(r) \/ Record(r)

Next ==
  \/ \E d \in Delivery : InsertDelivery(d)
  \/ SetStatus \/ Tick
  \/ \E r \in Dispatcher : Dispatch(r) \/ RecordUncertain(r) \/ PassFails(r)

Spec == Init /\ [][Next]_vars

(* Time passes, and the dispatchers keep working.                          *)
FairSpec ==
  Spec /\ WF_vars(Tick) /\ \A r \in Dispatcher : WF_vars(Dispatch(r))

-----------------------------------------------------------------------------
(* Properties                                                              *)

(* "Only a PENDING delivery moves" (sqlDeliverySettle): a delivery that    *)
(* was settled stays as it is, however late a dispatcher records its own   *)
(* attempt.                                                                *)
SettledIsFinal ==
  [][\A d \in Delivery : status[d] \in {"DELIVERED", "DEAD"} =>
       /\ status'[d] = status[d] /\ attempts'[d] = attempts[d]
       /\ attempt'[d] = attempt[d]]_vars

(* A delivery's count is that of its attempt rows, numbered without a gap  *)
(* or a double, although dispatchers race for the same number.             *)
AttemptsCounted ==
  \A d \in Delivery :
    /\ {a[1] : a \in attempt[d]} = 1..attempts[d]
    /\ Cardinality(attempt[d]) = attempts[d]

(* Every delivery is settled in the end, although dispatchers die holding  *)
(* it and its lease has to lapse.                                          *)
DeliverySettles ==
  \A d \in Delivery :
    status[d] = "PENDING" ~> status[d] \in {"DELIVERED", "DEAD"}
=============================================================================
