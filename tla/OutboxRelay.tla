----------------------------- MODULE OutboxRelay -----------------------------
(***************************************************************************)
(* The transactional outbox and its relay (cmd/ztax-outbox-relay, drain;   *)
(* internal/adapter/postgres/outbox_repo.go), with the fan-out of a        *)
(* published event to the webhook subscriptions (internal/app/webhooks.go, *)
(* FanOut).                                                                *)
(*                                                                         *)
(* A relay claims unpublished rows, publishes each and marks it, all in    *)
(* one transaction that holds the rows.  What it publishes has left when   *)
(* Publish returns; what it marks and schedules is there only if the       *)
(* transaction commits.  Several relays run without a leader, and walk     *)
(* past each other's rows.                                                 *)
(***************************************************************************)
EXTENDS Naturals, FiniteSets

CONSTANTS
  Event,        \* outbox rows, in the order of created_at
  Aggregate, AggregateOf,
  Webhook,      \* subscriptions that receive the events' type
  Relay,
  RelayBatch,
  Poison,       \* events whose Publish always fails
  MaxRollbacks, \* bound: relay transactions that roll back
  MaxChanges    \* bound: status changes of subscriptions

ASSUME EventAssumption == Event \subseteq Nat /\ IsFiniteSet(Event)
ASSUME AggregateAssumption == AggregateOf \in [Event -> Aggregate]
ASSUME RelayBoundAssumption ==
  RelayBatch \in Nat \ {0} /\ MaxRollbacks \in Nat /\ MaxChanges \in Nat
ASSUME PoisonAssumption == Poison \subseteq Event

VARIABLES
  row,          \* absent, unpublished, published: the rows as committed
  subscription, \* each subscription's current status
  scheduled,    \* <<webhook, event>> of the deliveries as committed
  batch,        \* the rows each relay's transaction holds
  turn,         \* those it has not come to yet
  marked,       \* those it has published and marked
  inserted,     \* the deliveries it has inserted
  published,    \* how often the broker has accepted each event
  lost,         \* how often its relay rolled back after that
  rollbacks, changes

tx == <<batch, turn, marked, inserted>>
history == <<published, lost>>
outboxVars == <<row, subscription, scheduled, tx, history, rollbacks, changes>>

OutboxTypeOK ==
  /\ row \in [Event -> {"absent", "unpublished", "published"}]
  /\ subscription \in [Webhook -> {"ACTIVE", "PAUSED", "DISABLED"}]
  /\ scheduled \subseteq Webhook \X Event
  /\ \A r \in Relay :
       /\ turn[r] \cup marked[r] \subseteq batch[r]
       /\ turn[r] \cap marked[r] = {}
       /\ batch[r] \subseteq Event /\ Cardinality(batch[r]) <= RelayBatch
       /\ inserted[r] \subseteq Webhook \X marked[r]
  /\ published \in [Event -> Nat] /\ lost \in [Event -> Nat]
  /\ rollbacks \in 0..MaxRollbacks /\ changes \in 0..MaxChanges

OutboxInit ==
  /\ row = [e \in Event |-> "absent"]
  /\ subscription = [w \in Webhook |-> "ACTIVE"]
  /\ scheduled = {}
  /\ batch = [r \in Relay |-> {}] /\ turn = [r \in Relay |-> {}]
  /\ marked = [r \in Relay |-> {}] /\ inserted = [r \in Relay |-> {}]
  /\ published = [e \in Event |-> 0] /\ lost = [e \in Event |-> 0]
  /\ rollbacks = 0 /\ changes = 0

Active == {w \in Webhook : subscription[w] = "ACTIVE"}

-----------------------------------------------------------------------------
(* A use case appends its event in its own transaction, and that commits:  *)
(* rows become visible in any order of their created_at.                   *)
Append(e) ==
  /\ row[e] = "absent"
  /\ row' = [row EXCEPT ![e] = "unpublished"]
  /\ UNCHANGED <<subscription, scheduled, tx, history, rollbacks, changes>>

(* An administrator pauses, resumes or disables a subscription.            *)
CanChangeTo(from, to) ==
  \/ from = "ACTIVE" /\ to \in {"PAUSED", "DISABLED"}
  \/ from = "PAUSED" /\ to \in {"ACTIVE", "DISABLED"}

SetSubscription(w) ==
  /\ changes < MaxChanges /\ changes' = changes + 1
  /\ \E to \in {"ACTIVE", "PAUSED", "DISABLED"} :
       CanChangeTo(subscription[w], to) /\ subscription' = [subscription EXCEPT ![w] = to]
  /\ UNCHANGED <<row, scheduled, tx, history, rollbacks>>

-----------------------------------------------------------------------------
(* FOR UPDATE SKIP LOCKED; mutated, a relay does not see the others' rows. *)
UnlockedAny(e) == TRUE
Unlocked(e) == \A r \in Relay : e \notin batch[r]

Limit == RelayBatch

(* WHERE published_at IS NULL ORDER BY created_at LIMIT.                   *)
Claim(r) ==
  LET free == {e \in Event : row[e] = "unpublished" /\ Unlocked(e)} IN
  /\ batch[r] = {} /\ free # {}
  /\ \E S \in SUBSET free :
       /\ S # {} /\ Cardinality(S) <= Limit
       /\ S # free => Cardinality(S) = Limit
       /\ \A e \in S, f \in free \ S : e < f
       /\ batch' = [batch EXCEPT ![r] = S]
       /\ turn' = [turn EXCEPT ![r] = S]
  /\ UNCHANGED <<row, subscription, scheduled, marked, inserted, history,
                 rollbacks, changes>>

ComesNext(r, e) == e \in turn[r] /\ \A f \in turn[r] : e <= f

(* FanOut inserts a delivery for every subscription that is ACTIVE now and *)
(* has none of this event yet.                                             *)
FanOut(r, e) ==
  inserted' = [inserted EXCEPT ![r] = @ \cup
                 {we \in Active \X {e} : we \notin scheduled}]

(* Mutated, deliveries are inserted outside the relay's transaction.       *)
ScheduleNow(r, e) == scheduled' = scheduled \cup (Active \X {e})
ScheduleLater(r, e) == UNCHANGED scheduled

(* Publish, FanOut and MarkPublished for the next row of the batch.        *)
Publish(r) ==
  \E e \in turn[r] :
    /\ ComesNext(r, e) /\ e \notin Poison
    /\ published' = [published EXCEPT ![e] = @ + 1]
    /\ FanOut(r, e) /\ ScheduleLater(r, e)
    /\ turn' = [turn EXCEPT ![r] = @ \ {e}]
    /\ marked' = [marked EXCEPT ![r] = @ \cup {e}]
    /\ UNCHANGED <<row, subscription, batch, lost, rollbacks, changes>>

(* RecordFailure leaves the row unpublished.                               *)
RecordFailure(r, e) == UNCHANGED marked

End(r) ==
  /\ batch' = [batch EXCEPT ![r] = {}] /\ turn' = [turn EXCEPT ![r] = {}]
  /\ marked' = [marked EXCEPT ![r] = {}]
  /\ inserted' = [inserted EXCEPT ![r] = {}]

(* Mutated, the failure ends the pass.                                     *)
PublishFailsReturns(r) ==
  /\ \E e \in turn[r] : ComesNext(r, e)
  /\ End(r)
  /\ UNCHANGED <<row, subscription, scheduled, history, rollbacks, changes>>

(* Publish fails: RecordFailure, and on with the batch.                    *)
PublishFails(r) ==
  \E e \in turn[r] :
    /\ ComesNext(r, e)
    /\ turn' = [turn EXCEPT ![r] = @ \ {e}]
    /\ RecordFailure(r, e)
    /\ UNCHANGED <<row, subscription, scheduled, batch, inserted, history,
                   rollbacks, changes>>

Commit(r) ==
  /\ batch[r] # {} /\ turn[r] = {}
  /\ row' = [e \in Event |-> IF e \in marked[r] THEN "published" ELSE row[e]]
  /\ scheduled' = scheduled \cup inserted[r]
  /\ End(r)
  /\ UNCHANGED <<subscription, history, rollbacks, changes>>

(* A statement fails, FanOut included, the commit fails, or the relay      *)
(* dies: the transaction rolls back, and the events it published have left *)
(* all the same.                                                           *)
Rollback(r) ==
  /\ batch[r] # {}
  /\ rollbacks < MaxRollbacks /\ rollbacks' = rollbacks + 1
  /\ lost' = [e \in Event |->
                IF e \in marked[r] THEN lost[e] + 1 ELSE lost[e]]
  /\ End(r)
  /\ UNCHANGED <<row, subscription, scheduled, published, changes>>

Drain(r) == Claim(r) \/ Publish(r) \/ PublishFails(r) \/ Commit(r)

OutboxNext ==
  \/ \E e \in Event : Append(e)
  \/ \E w \in Webhook : SetSubscription(w)
  \/ \E r \in Relay : Drain(r) \/ Rollback(r)

OutboxSpec == OutboxInit /\ [][OutboxNext]_outboxVars

(* The relays keep ticking, rollbacks are bounded, and the broker does not *)
(* refuse for ever an event that it could take.                            *)
Fairness ==
  \A r \in Relay :
    /\ WF_outboxVars(Drain(r))
    /\ \A e \in Event :
         SF_outboxVars(Publish(r) /\ e \in turn[r] /\ e \notin turn'[r])

OutboxFairSpec == OutboxSpec /\ Fairness

-----------------------------------------------------------------------------
(* Properties                                                              *)

(* An event reaches the broker again only when a relay that had published  *)
(* it rolled back: concurrent relays add no duplicates of their own.       *)
DuplicatesNeedRollback == \A e \in Event : published[e] <= 1 + lost[e]

(* "scheduled for delivery exactly when it leaves" (main.go, run): an      *)
(* event's deliveries appear in the step that marks its row, and no later  *)
(* pass adds one.                                                          *)
FannedOutOnce ==
  [][\A w \in Webhook, e \in Event :
       <<w, e>> \in scheduled' \ scheduled =>
         row[e] = "unpublished" /\ row'[e] = "published"]_outboxVars

(* Every committed event the broker takes does leave, although relays roll *)
(* back and an undeliverable event comes before it in the batch: as long   *)
(* as fewer than RelayBatch events are undeliverable, since Claim always   *)
(* takes the oldest rows.                                                  *)
EventLeaves ==
  \A e \in Event \ Poison : row[e] = "unpublished" ~> row[e] = "published"

=============================================================================
