# Zoiko-Tax: TLA+ models and proofs

This directory holds a TLA+ development of the fiscal core of Zoiko-Tax
(`src/backend`): modules that model its components, TLC configurations that
check them on small instances, and theorems that TLAPS proves for every value
of the constants.  Paths below are relative to `src/backend/` unless they begin
with `src/`.

Run it from this directory:

    tlc -workers 2 -config ledger.cfg MCLedger      # one model-checking run
    tlapm LedgerProofs.tla                          # the proofs of one module

`PROJECT.json` lists the components, the runs, for every definition the code it
models, the hazards of the code with the properties that watch over them, and
for every property a mutation of the model that breaks it.

## 1. The system

Zoiko-Tax decides taxes on commercial events, records the decisions as
evidence, and keeps the tax subledger that follows from them.  The core is a Go
service (`cmd/ztax-core`) over PostgreSQL, run in several replicas without a
leader, next to a relay (`cmd/ztax-outbox-relay`), also in several replicas.
Every transaction runs at READ COMMITTED (`internal/adapter/postgres/store.go`,
`Begin`), so nothing but explicit row and advisory locks, unique indexes and
predicates in UPDATE statements keeps two transactions apart.  Nearly all the
hard questions of this code are therefore about the interleaving of
transactions, and about a process or a commit failing between two of them.

### Components

| Component | State | Operations | Hard because | Correct when |
|---|---|---|---|---|
| Idempotency guard (`internal/app/idempotency.go`, `adapter/postgres/idempotency_repo.go`) | one row per (tenant, endpoint, key): PENDING, SUCCEEDED, FAILED, with digest, response, expiry | `Do`: claim, execute and settle, record a failure, release | calls on one key between any two statements; lost commits; crashes that leave PENDING; expiry under a call | an effect commits at most once; an answer belongs to the request; every call returns |
| Batch jobs (`internal/app/batch.go`, `adapter/postgres/batch_repo.go`) | job status and lease, item results | `Submit`, `Work`, lease, renew, complete, `runItem` through the guard | leases lapse under a worker; two passes over the same items | no item commits twice; results agree with what the guard recorded; a job completes |
| Outbox relay (`cmd/ztax-outbox-relay/main.go`, `adapter/postgres/outbox_repo.go`) | outbox rows, attempts, marks | append in the use case's transaction; claim, publish, mark | several relays; publish is not transactional; poison events | at least once; duplicates only from rollbacks; deliveries with the mark |
| Webhook delivery (`internal/app/webhooks.go`, `adapter/postgres/webhook_repo.go`) | deliveries with attempts and due time, attempt rows, subscription status, secrets | `FanOut`, `Dispatch`, `attempt`, status changes, secret rotation | no lock from claim to record; one lease for a batch | attempts counted; settled deliveries stay; every delivery settles |
| Period close (`internal/app/periods.go`, `domain/subledger/period.go`) | events of each legal period, close manifests, reopen requests | `Transition`, `RequestReopen`, approval, `guardPosting` | postings race closes; several periods in one posting; two people | a manifest is exactly the period's journals; sealed stays; late is marked |
| Determination and accumulators (`internal/app/determination.go`, `fiscal.go`, `fiscal_record.go`, `domain/accumulator`) | decisions and what they supersede, contribution log, snapshots, crossings, journals | `Commit`, `Adjust`, `Quote` | read, evaluate and add under locks of several accumulators; corrections of corrections | totals are those of the decisions in force; a crossing once; one successor |
| Refunds (`internal/app/refund.go`, `domain/settlement/refund.go`) | refund events | `Request`, `Report` | late provider reports against admissions | never more than the decision's tax |
| Obligations and compliance (`internal/app/obligations.go`, `compliance.go`, `domain/obligation`, `domain/compliance`) | the assessed figure and current row of each obligation, what users have read; packages with versions, reviews, approvals and submission attempts | assess, transition, the filing and payment boundaries; prepare, review, approve, submit, acknowledge, resolve, cancel | corrections against filed returns; two locks; answers that are lost, late or unknown | the authority never holds two returns; what leaves was agreed by two; statuses rest on evidence |
| Billing documents (`internal/app/documents.go`, `domain/document`) | documents, their lines and status events | issue, void, credit, rebill | documents against each other and against corrections of the decisions they bill | a decision is billed by one document, and its documents together charge what of it is not credited |
| Remittance and beneficiaries (`internal/app/remittance.go`, `domain/remittance`) | payee versions, instructions, submissions | enter, verify, suspend a payee; create, approve, submit, report, resolve, return, cancel | three locks; a provider that is silent or late | an obligation is paid once, by people who check each other; PAID means settled |
| Evidence seals (`internal/app/seal.go`, `domain/evidence`, `platform/canonical/digest.go`) | evidence objects, seals, Merkle trees | seal, verify, prove inclusion | decisions in hand while their period is sealed; two sealers | a seal verifies ever after; a decision is in one seal |
| Migration (`internal/app/migration.go`, `domain/migration`) | snapshots, mappings, runs, exceptions, the cutover | register, map, convert, decide, move the cutover | runs commit around a switch that rests on them | what a run leaves out cancels; a switch rests on a ready run |
| Authority gateway client (`internal/adapter/gateway`) | circuit breaker | calls | late outcomes of calls admitted earlier | the cooldown holds |
| Accounts, sessions, credentials (`internal/app/admin.go`, `credentials.go`) | users, roles, sessions, tokens | disable, revoke, set password | two administrators at once; status read before the transaction | an administrator remains; a disabled account stays disabled |
| Shadow runs, retention and holds, legal authorizations, reconciliation | comparisons, holds, grants, resolutions | guarded appends | few races | a hold keeps what it holds |
| Rule engine, taxation, content | none | pure evaluation and compilation | – | replay gives the same answer |
| HTTP, rate limiter, configuration; dashboard, contact forms | token buckets, read models | – | – | – |
| Frontend, SDKs, AI gateway, infrastructure, content packs (`src/frontend`, `src/sdk`, `src/intelligence`, `src/infra`, `src/content`) | outside the core | – | – | – |

### How they interact

* Transport calls a use case under the **guard**: `Do` claims the key in one
  transaction, then the use case's effect and the settled key commit together
  in a second one.
* `Commit` and `Adjust` lock **accumulators**, evaluate the rules, insert the
  decision, add contributions and crossings, **post** journals (each posting
  takes its period's lock shared, `guardPosting`), assess **obligations**, and
  append **outbox** events, all in the guard's transaction.
* A **period** transition takes the same lock exclusively.
* The **relay** publishes the outbox and in the same transaction **fans out** to
  **webhook** subscriptions; dispatchers deliver those.
* **Batch** workers call the determination service through the guard, with a key
  per item; **refunds** and **documents** name a decision and ask whether it is
  current.
* A **package** files one obligation and an **instruction** pays it.  Each act reads
  the obligation under a lock of its own, which is not the obligation's, and moves
  it through `advanceFiling` and `advancePayment` in the transaction of the act.
* A **seal** covers decisions by the instant the determination service took for them
  before it wrote their evidence and their row.

## 2. The modules

| Module | Models | Extended by |
|---|---|---|
| `OncePerKey` | what the guard promises, with no row, lock or statement | – |
| `Idempotency` | `Do` over its table, statement by statement; refines `OncePerKey` (`KeepsPromise`) | `MCIdempotency`, `IdempotencyProofs` |
| `BatchJob` | one job and the workers of several replicas | `MCBatchJob`, `BulkProofs` |
| `OutboxRelay` | outbox rows, relays, fan-out | `MCOutboxRelay`, `DeliveryProofs` |
| `WebhookDelivery` | deliveries, dispatchers, the subscription | `MCWebhookDelivery`, `DeliveryProofs` |
| `PeriodClose` | periods, postings, transitions, reopenings and their locks | `MCPeriodClose`, `PeriodCloseProofs` |
| `Ledger` | commits and corrections over accumulators, journals, refunds | `MCLedger`, `LedgerProofs` |
| `Obligation` | one obligation: assessments, users' moves, the two boundaries | `Filing`, `Payment` |
| `Filing` | the package of that obligation, and the authority | `MCFiling`, `FilingProofs` |
| `Payment` | payees and the instructions of that obligation, and the provider | `MCPayment`, `PaymentProofs` |
| `Documents` | billing calls over decisions, chains and their locks | `MCDocuments`, `LedgerProofs` |
| `Merkle` | the tree, the audit path and its verification; RFC 6962's tree | `Sealing` |
| `SealAtOnce` | what seals promise, with no clock, lock or failure | – |
| `Sealing` | decisions in hand, sealers and their lock; refines `SealAtOnce` (`SealsAtOnce`) | `MCSealing`, `SealingProofs` |
| `Migration` | one program: conversion, exceptions and cutover | `MCMigration`, `BulkProofs` |

`BulkProofs`, `DeliveryProofs` and `LedgerProofs` each hold the theorems of two components,
whose modules they both extend; that is why some definitions carry the component's name
(`MigrationSpec`, `OutboxSpec`, `DocumentsSpec`).

Where two components meet, the module that models one contains as much of the
other as it sees.  `BatchJob` sees the guard through the state of each item's key.
`OutboxRelay` contains `FanOut`, whose deliveries `WebhookDelivery` then starts
from.  `PeriodClose` contains a posting's walk over its journals; `Ledger`
contains the postings as the journals they leave.  `Filing` and `Payment` each EXTEND
`Obligation` and run beside all its actions, so the obligation each of them acts on
is one that decisions, users and the other boundary move at any time.

Operators named in "mutated" comments (`UnlockedAny` next to `Unlocked`, for
instance) are the changed definitions the mutation runs put in place of the real
one; no specification uses them otherwise.

### Idempotency

`table` is the committed `idempotency_record`; `lock` is the open transaction
that has updated a row and not ended; `pc` is the statement each call runs next;
`applied` is the ghost set of calls whose effect is committed in the key's present
retention.  `Insert`, `Get` and `DeleteExpired` are claim's loop; execution, `Complete`
and COMMIT are steps of their own; a COMMIT whose reply is lost leaves the row
locked until the database decides it (`Resolve`), while the call goes on to
`Release`, which waits for that row.  A process may die at any statement, and rows
expire (`Lapse`).  `RetentionOutlivesCalls` says whether a row may expire under a
call that is still working on it: the runs set it, three theorems assume it, the
others hold either way.

### BatchJob

`status`, `lease` and `result` are the rows; `key` is the state of each item's
idempotency record and `committed` counts decisions.  A lease is NULL, ahead or
passed, and passes at any moment.  A pass reads the pending items once (`todo`),
renews, runs an item, records its result and completes the job; none of those
writes checks the lease, as in the code.  An item may fail without the guard's knowing:
its stored request does not read back (`Undecoded`), or it is refused and recording the
refusal fails (`RefusalUnsettled`), after which the key is free, left PENDING, or FAILED
when only the reply was lost, and the refusal is the item's result all the same.
`unsettled` is an auxiliary variable: the items that were refused with nothing recorded.

### OutboxRelay

Events are numbered in the order of `created_at` and become visible in any
order.  `batch`, `turn`, `marked` and `inserted` are one relay's open
transaction, `published` counts what the broker accepted and `lost` how often the relay
rolled back after that.  A failed publish is
recorded and passed over; any other failure, and a crash, rolls the transaction
back, and what was published has left all the same.  The counter of failed
attempts is left out: nothing reads it to decide.

### WebhookDelivery

Time passes in ticks; `wait` is the ticks left before a delivery is due, which a
claim sets to the lease and a failed attempt to its backoff.  `held`, `step`
and `item` are a dispatcher's pass; a dispatcher reads the subscription,
sends, and records, as three steps, between which it may stall for as long as it
likes, past its lease too.  Secrets and signatures are not in the model.

### PeriodClose

`history` is each period's events: a period's state is the last one's, OPEN if there
is none.  Postings and transitions are transactions that take advisory locks,
shared or exclusive, one statement a step, and hold them to the end; the model has
the queue of waiters, so that a shared request waits behind an exclusive one, and
PostgreSQL's deadlock detector, which lets a posting pass the queue when the queue alone
closes a circle (`PassesQueue`).
Journals carry the late mark, manifests the journals sealed and the manifest they
supersede; reopen requests are asked by one user and approved by another.

### Ledger

`log` is each accumulator's contributions, `snapshot` its stored total, sequence and
thresholds reached; `held` is what a call holds locked and what it read there;
`reads` is the read set its decision carries.  A call takes the locks it misses one
by one in canonical order, then inserts its decision (the unique index on the
superseded decision makes the insert wait for a rival and fail if that commits),
and commits with contributions, crossings and journals in one step; before that step
all of it is invisible and the locks keep every writer of the same rows out, so
the order of the statements within cannot be observed.
A correction withdraws what the decision it corrects contributed.
`Quote` reads without a lock and leaves everything as it is.
Refund admission and commit are two steps under the lock of the decision's refunds;
provider reports arrive between.

Evaluation is abstracted to a constant amount per decision and binding: what the
rules compute is data, that they are given the right totals is control.  All
decisions are made under one bundle of content; that a correction under newer
content can bind other accumulators than the original is not modelled.  A threshold is
its limit.  Obligations, documents and the period guard are in modules of their own.

### Obligation and Filing

An obligation is its assessed figure (`sum`), its current row (`status`, `figure`) and
the row each user has read (`seen`): every act takes the obligation's lock for its
whole transaction, so each is one step.  `Assess` is a decision's delta with
`settleObligation`'s answer to it; `AdvanceFiling` and `AdvancePayment` walk the shortest
permitted path within the statuses their boundary may set.

`Filing` adds one package, under the package's lock: its status, the version
prepared, the review and approval of exactly that version, and the attempts.
`Prepare` and `Submit` read the obligation and then its figure, in statements of
their own, so each is two or three steps (`tx`) with anything between them.  An attempt
is in transit, lost, received, accepted or rejected at the authority, whatever the
package believes; the answers the package records are those an attempt's
whereabouts allow, and an unknown outcome is always possible.  That a resolution
(`ResolveNotFiled`) is true is an assumption on the person who establishes it.

### Payment

Payee versions are entered, verified by somebody else, suspended and succeeded under
one lock; an instruction is created, approved, submitted, reported, resolved, returned
or cancelled under the obligation's payment lock; the obligation is `Obligation`.
The money of a submission is in transit, lost, processing, settled, rejected or
returned, whatever is recorded of it.  Amounts are the figures, `Positive` those that
leave something to pay.

### Documents

A call (`tx`) asks, takes the lock of the chain it corrects and reads the original under it,
locks and checks the decisions it bills one by one in the order of their ids, and commits.  Line
amounts are signed, as `LineInput`'s are; a credit note names lines in the order its own take,
and that order decides what `Decided` keeps.  `superseded` is what corrections of the decisions
themselves do, under no lock of these.  A document's lines are decision and amount, one
component per decision, and the line each cancels.  What `CommitDocument` compares is translated
as it is written: the presented amounts are summed, the expected ones replace each other
(`Decided`).

### Merkle and Sealing

Hashes are the terms they are hashes of, so that two are equal only if what was
hashed is: the tree, the path and the verifier are the functions of `digest.go`,
level by level, and `TreeIsRFC6962` compares them with the recursive definition of RFC 6962.
`Sealing` has the clock, the instants decisions take, the evidence objects, the rows
and the sealers between their statements.  All clocks are one, and what they may
differ by belongs to `Longest`, the time a decision takes from its instant to its commit.
`SealAtOnce` has a table of decisions with their instants and the statements made of its
periods: a period is stated in one step, by RFC 6962's tree of exactly what the table has in
it, apart from the periods stated before, and no decision enters it afterwards.  The
refinement maps the recorded rows to the table and the committed seals to the statements; a
seal then takes effect when it commits, although it was read before.

### Migration

A snapshot's record has a source identifier, a currency, a total, a date inside the period or
not, and components; None is what cannot be read.  `Kind` is Convert's verdict in the order of
its tests; `InSlot` its accumulation of components that share a slot; `Passed` the
reconciliation.  The order of the tests matters, since a record may fail several, so `Kind` is
nested conditions: a CASE whose guards overlap promises no arm. `exceptions` are the records a
run left out, `open` those not yet dispositioned.  Runs take their `created_at` before they
commit and the cutover reads the latest committed one under a lock that runs do not take.
The cutover reads the runs and then their exceptions (`migration_repo.go:411`, `:463`);
`MoveCutover` takes both at once, which loses nothing: decisions only close exceptions, and
closing one never takes a readiness away.  Totals have signs, as `decimalShape` admits
them.

## 3. What the runs show

Each component has one passing run that checks its safety invariants, its action
properties and its liveness on one instance; one further run shows where a
statement made in the repository does not hold.  `CHECK_DEADLOCK FALSE` stands in the
configurations of components whose work is bounded and ends (all calls returned, job
completed, events published, documents written, runs used up); the others keep the
deadlock check.  Type invariants (`TypeOK`) are proved where a component has a module
of proofs and stand beside the others as the statement of what the variables hold.

| Run | Instance | Shows |
|---|---|---|
| `idempotency` | one key; a request, its retry, a reuse with another body | `EffectIffSucceeded`, the refinement `KeepsPromise` of `OncePerKey`, and `EveryCallReturns` |
| `batch` | 2 workers, 3 items, one of which does not read back; 2 failures: passes that die, commits that fail, refusals that cannot be recorded (109 thousand states) | `CommittedOnce`, `ResultTellsOutcome`, `CompletedHasResults`, `JobCompletes` |
| `outbox` | 3 events (2 of one aggregate), the first undeliverable; 2 relays, batches of 2; 1 subscription that changes status twice; 2 rollbacks | `DuplicatesNeedRollback`, `FannedOutOnce`, `EventLeaves` |
| `webhook` | 2 deliveries, 2 dispatchers, 2 attempts; anything may stall past its lease; 1 failed pass, 1 status change | `AttemptsCounted`, `SettledIsFinal`, `DeliverySettles` |
| `period` | 2 periods of up to 4 and 1 events; 2 corrections of 2 journals each, in opposite order; 2 officers, 1 reopen request, 1 failure | `ManifestHolds`, `LateIsMarked`, `ManifestsChain`, `ReopenedByTwo`, `CloseGoesThrough` |
| `ledger` | 2 decisions, 2 corrections into each other's month, a correction of a correction and a commit that both name the same decision; 2 bindings by 2 months, one threshold; 2 refunds; 1 failure | `TotalsOfStanding`, `CrossedOnce`, `ReadsItsPast`, `OneSuccessor`, `RefundsWithinTax`, `CallEnds` |
| `filing` | 2 people who may do everything, 2 figures, 2 attempts (193 thousand states) | `NoSecondFiling`, `SubmittedAsApproved`, `ActedOnFigureIsLive`, `EvidenceBehindStatus`, `UncertainLeavesForOutcome` |
| `payment` | 2 people, 2 payee versions (symmetric), a figure to pay and one not, 2 instructions, 2 submissions (1.7 million states) | `PaidOnce`, `PaidByOthers`, `PaidBySettlement` |
| `documents` | 2 decisions, 2 calls, 4 documents; drafts of one or two lines, in either order, one short, and one with a negative line (151 thousand states) | `ChargedAsDecided`, `StatusTellsCancelled`, `BillingEnds` |
| `sealing` | 3 decisions, 2 sealers (symmetric), periods that meet, overlap and repeat over 3 ticks; every tree of up to 17 leaves | `SealsStayValid`, `InclusionProves`, and the refinement `SealsAtOnce` of `SealAtOnce` |
| `migration` | 2 people, 2 mappings, 2 runs, 3 snapshots: one that reconciles with a HIGH exception, one with two MEDIUM ones whose totals cancel, one that never does (1.1 million states) | `RunsBalance`, `SwitchRestsOnReadyRun` |
| `documents_void` | the instance of `documents` | `CancellationAgrees` is violated |

Each property is stated in words, with the behaviour of the code it is about, in the
comment above its definition.

### Statements the code does not keep

`documents_void` shows the first.  The others were met while modelling; the models
contain the behaviour that refutes them, and no property claims them.

| Where | The repository says | What the code does |
|---|---|---|
| `document.go:259-262` | a void or a credit note cancels exactly what a predecessor charged (`documents.go:36-37`, `lifecycle.go:124-127`) | a document that presents one decision on two lines is committed, but a void, or a credit of both lines at once, is refused as a variance: expected amounts replace each other, presented ones are summed.  Crediting line by line goes through |
| `migration.go:438-446` | converted records carry the source's amounts under mapped slots (`:267-269`) | with two legacy codes in one slot the second component adds the slot's first again to the sum the total is compared with: a record that adds up is refused, one that does not can be carried |
| `batch.go:242` | a result is a decision or the reason the item was refused (`domain/batch/batch.go:73-74`) | the next pass takes REQUEST_IN_PROGRESS, left by a slow or dead worker's PENDING key, for a refusal and records FAILED; the slow worker may still commit the item.  So may another worker after a refusal that could not be recorded: its key is given back and the refusal returned (`idempotency.go:109-114`) |
| `batch.go:195` | items run in submission order (`domain/batch/batch.go:8-9`) | the next pass goes past an item that another pass is still executing, and may commit a later one first |
| `migration.go:302-314` | HIGH blocks the cutover until it is dispositioned (`:230-231`) | a readable record left out keeps the run from reconciling, whatever is decided of its exception; unless its total is nil or cancels another's, and then nothing in the totals tells that it is missing |
| `idempotency.go:170` | "An error means nothing was executed and nothing was recorded" (`:75-78`) | COMMIT's reply is lost: `Do` returns an error, the database commits |
| `cmd/ztax-outbox-relay/main.go:216` | ordering is per aggregate (`domain/outbox/outbox.go:32-36`) | an event whose publish fails is passed over; the next of its aggregate reaches the broker first |
| `webhooks.go:344` | an event committed while a subscription is paused is not delivered when it resumes (`domain/webhook/webhook.go:95-97`) | subscriptions are read when the relay comes to the event |
| `webhooks.go:395` | the lease is longer than an attempt and keeps a second dispatcher off (`:369-370`, `380-382`) | one lease covers a whole batch attempted one by one |
| `determination.go:420` | a superseded decision's posting has been reversed (`refund.go:211`, `fiscal_record.go:197-198`) | a `:commit` naming `supersedes` reverses nothing |
| `remittance.go:505` | a returned payment is repaid through a new instruction (`:505-507`) | nothing leads back from PAID, and an instruction is created for an accepted or payment-due obligation only: a new one waits for a decision to amend the obligation |
| `compliance.go:327` | the obligation still holds the figure that was approved (`:299-302`) | it did when it was read; a decision can commit before the attempt does, so `SubmittedAsApproved` speaks of the approved figure and not of the live one |

### Bounds, and why they are enough

* **Faults** (`MaxFaults`): one or two transactions that fail, because one failure
  between two steps, followed by free work of everybody else, already reaches every
  state in which another failure is only a repetition.  In `Idempotency` crashes need no
  bound: a call crashes once.  In `Documents`, `Filing`, `Payment`, `Sealing` and
  `Migration` failures are unbounded.
* **Actors**: two workers, relays, dispatchers, officers, sealers, calls: the code's
  protection is pairwise (a row or advisory lock, a unique index, a lease).  The guard
  has three calls because claim's races involve the call that inserts, the one that
  deletes an expired row and the one that inserts after it.  Filing and payment have
  two people because separation of duties is broken by one doing what two should;
  `Payment`'s operator is one of the two.
* **Moves** (`MaxMoves`, `MaxEvents`, `Tried`): how often people change a subscription or
  a period.  Four events reach close, reopen or amend, close again and seal, or reopen
  twice; the second period needs only a close for the circles of locks.
* **Repetitions** (`MaxAttempts`, `MaxInstructions`, `MaxPayments`, `MaxDocs`, `MaxRuns`):
  two, so that a second submission, payment or run meets every end of the first; four
  documents are an invoice, its two credits and a rebill.
* **Time** (`MaxTime`): three ticks hold two adjacent periods and the settle window
  after the second.
* **Data**: in `ledger` the amounts are chosen so that the threshold is reached, taken
  back and reached again, and that a correction withdraws on one binding and adds on
  another; refund amounts so that either fits within the tax and both do not.  In
  `outbox` the batch is larger than the number of undeliverable events; with as many
  undeliverable events as a batch holds nothing behind them would ever be claimed.
  In `webhook` two attempts reach first, retried and exhausted.  In `batch` the undecodable
  item lies between two that can be committed, so that order is a question of the other two.
  In `migration` totals are of both signs, and a snapshot leaves out two records that cancel.
* **Symmetry** only where values are interchangeable in module and configuration, and in
  runs without liveness: payee versions, and sealers.
* The theorems below need none of these bounds.

### Fairness, and why the code justifies it

| Module | Assumed | Because |
|---|---|---|
| `Idempotency` | each live call runs its next statement; the database decides a lost commit; rows expire | a goroutine goes on, or its process dies (a step of its own, not fair); PostgreSQL ends a transaction whose client is gone; time passes |
| `BatchJob` | a lease lapses; each worker works | `runBatchWorker` ticks for as long as the process lives, and a dead one is restarted |
| `OutboxRelay` | each relay drains; strong fairness on publishing an event that is not undeliverable | the relay ticks; a broker does not refuse for ever what it can take.  Weak fairness would not do, since a relay may always be beaten to it by a failed publish |
| `WebhookDelivery` | time passes; each dispatcher goes on | ticker; each send has a timeout |
| `PeriodClose` | begun transactions go on, postings and officers | the database serves waiters in order and breaks deadlocks; nobody is obliged to begin |
| `Ledger` | begun calls go on | as above; callers need not call, providers need not report |
| `Documents` | strong fairness of each call's next step | PostgreSQL serves a lock's waiters in the order they came, so a call that can again and again have a lock gets it; a failed call ends too |
| `Filing`, `Payment`, `Sealing`, `Migration` | none | people, authorities and providers are not obliged to act, and an unknown outcome may stay unknown |

## 4. What is proved

TLAPS proves, for every value of the constants the named assumptions allow:

| Module | Theorems | Inductive invariant |
|---|---|---|
| `IdempotencyProofs` | `TypeCorrect`, `AtMostOnce` (`EffectIffSucceeded`), `SettledImmutable` (`SettledIsFinal`), `ReplayMatchesRequest` (`AnswerForRequest`), `SingleExecutor` (`OneExecutor`), `ImplementsPromise` (`KeepsPromise`) | a locked row is there and PENDING, a call that is committing holds its row, and `EffectIffSucceeded`; answers and the executor add that a working call owns the row under its key (`OwnInv`); the refinement, that a row is locked by a call of its key and a call not done has no answer yet (`ToldInv`) |
| `BulkProofs` (`BatchJob`) | `TypeCorrect`, `NoItemTwice` (`CommittedOnce`), `ResultsTell` (`ResultTellsOutcome`), `CompletedIsWhole` (`CompletedHasResults`) | an item is committed exactly when its key succeeded; a refusal, in a worker's hands or recorded, has its FAILED key, or the item does not read back and its key is unclaimed, or the refusal went unrecorded (`OutcomeTold`, `ResultTold`, `UndecodableUnclaimed`); and what a worker no longer has to do has a result |
| `PeriodCloseProofs` | `TypeCorrect`, `CloseIsExact` (`ManifestHolds`), `SealedStays` (`SealedIsFinal`), `PostsAllOrNone` (`PostsWhole`), `ReopeningTakesTwo` (`ReopenedByTwo`), `ManifestsAreChained` (`ManifestsChain`), `LateOnlyAsAmendment` (`LateIsMarked`), `SomeoneProceeds` (`NoDeadlock`) | the locks exclude: no posting holds a period that a transition holds; what a posting has appended lies in periods it holds and that admit it; a written event is what the period now calls for. For reopenings, an act that reopens names a request of another, and no committed event names the request of a written one; for chains, a written close names the last manifest, and no journal leaves a manifest; for late journals, since a close that no reopening followed the period is closed or amended and what is posted is marked, as is what a posting has in hand; a posting holds locks only once it has appended (`HoldsToPost`) |
| `BulkProofs` (`Migration`) | `SwitchIsReady` (`SwitchRestsOnReadyRun`), `RunsAccount` (`RunsBalance`), `MigrationTypeCorrect`, `MovesArePermitted` (`CutoverFollows`) | the run of every gated move, committed or under way, exists and does not block (`SwitchInv`); a run, committed or not, says of its snapshot under its mapping what converting it says (`ConvertInv`), and what is converted is readable and first of its identifier (`ConvertedIsReadable`); runs have numbers of their own (`Numbered`), and one move at a time is under way, which the status it found permits (`Moves`) |
| `DeliveryProofs` (`OutboxRelay`) | `RelayTypeCorrect`, `RepublishedAfterRollback` (`DuplicatesNeedRollback`), `NoEventIsLost` (`MarkedHasLeft`), `ScheduledAsItLeaves` (`FannedOutOnce`) | what the broker accepted is marked for good, marked by an open transaction, or was marked by one that rolled back (`Accounted`); relays hold different unpublished rows, and insert deliveries of what they marked |
| `DeliveryProofs` (`WebhookDelivery`) | `TypeCorrect`, `SettledStays` (`SettledIsFinal`), `CountsAgree` (`AttemptsCounted`) | a delivery still to be sent has attempts left, and a dispatcher at work is at something it claimed, counted below the policy's limit when it claimed it; `AttemptsCounted` adds itself |
| `LedgerProofs` | `TypeCorrect`, `ReadsUnderLock` (`HeldIsCurrent`), `CorrectionsFormALine` (`OneSuccessor`) | an accumulator has one holder, a call that has appended holds all it needs; a committed call has ended, and one that has appended is alone in naming its predecessor, which no committed one names |
| | `TotalsAreOfStanding` (`TotalsOfStanding`) | finitely many calls have committed, each has contributed to what it moves, and a total is the sum over those that stand (`StandInv`) |
| | `ThresholdsCrossOnce` (`CrossedOnce`) | a total is the sum of its log, and the limits a snapshot has crossed are those some prefix of the log reaches (`TotalInv`) |
| | `DecisionsReadTheirPast` (`ReadsItsPast`) | a call that has appended carries the totals it holds locked, or what the decision it corrects carries, and names a committed decision (`ReadInv`) |
| | `RefundsNeverExceedTax` (`RefundsWithinTax`) | finitely many refunds were asked, one is being admitted for a decision and fits with what still reserves (`RefundInv`) |
| | `SomeCallProceeds` (`NoDeadlock`) | what a call holds comes before all it has yet to lock, a stored total is numbered by its log, and finitely many calls are in progress (`WaitInv`) |
| `LedgerProofs` (`Documents`) | `DocumentsTypeCorrect`, `DecisionsChargedOnce` (`ChargedAsDecided`), `StatusesTell` (`StatusTellsCancelled`), `ReleasedStaysReleased` (`ReleasedIsFinal`) | a line is cancelled by one line, its exact opposite (`DocShape`, `CancelledOnce`); what a call under its chain's lock chose is still left, and nothing stands for a decision a call has checked (`Shape`); calls hold different chains and decisions (`Apart`); there is room for the document of every call (`DocsFit`) |
| | `SomeBillProceeds` (`NoBillingDeadlock`) | a chain is locked before any decision, a decision before all that are left to lock, and the history of a locked chain's document is the one read (`QueueInv`) |
| `FilingProofs` | `TypeCorrect`, `OneReturn` (`NoSecondFiling`), `AgreedByTwo` (`SubmittedAsApproved`), `LiveFigures` (`ActedOnFigureIsLive`), `EvidenceFirst` (`EvidenceBehindStatus`), `UncertainKept` (`UncertainLeavesForOutcome`) | every attempt but the last is over, and the last is as the package's status says; review and approval are of the current version and by others; an act in progress holds the package's lock, so that nothing but the obligation moves under it; the obligation's status against the package's |
| `PaymentProofs` | `TypeCorrect`, `OnePayment` (`PaidOnce`), `ThreeActs` (`PaidByOthers`), `SettledFirst` (`PaidBySettlement`) | every submission but the last is over, and while the last is under way the last instruction's status says so; an act in progress holds the payment lock, so that instructions stay as it found them; who entered and verified a payee version outlives its suspension and succession |
| `SealingProofs` | `TypeCorrect`, `SealsVerify` (`SealsStayValid`), `SealedOnce` (`InOneSeal`), `InclusionIsProof` (`InclusionProves`), `SealsAreRFC6962` (`RootsAreMTH`), `SealsTakeEffectAtOnce` (`SealsAtOnce`) | a decision in hand is younger than `Longest`, a period in a sealer's hands or sealed ended a settle window ago, and what was read of it is what is there; one sealer is between check and commit, its period clear of the committed ones, which are apart; instants are the clock's (`Dated`) |
| | `EveryTreeIsRFC6962` (`TreeIsRFC6962`, for every number of leaves) | of the levels of a tree, not of states: every node of a level is the RFC's tree over its stretch of the leaves (`OverTrees`) |

Theorems that name a formula no run checks (`MarkedHasLeft`, `CutoverFollows`,
`ReleasedIsFinal`, `InOneSeal`, `RootsAreMTH`, the two `NoDeadlock`, `NoBillingDeadlock` and the
parts of invariants) define it beside the theorem or in the component's module; TLC agreed with
each on the component's instance before it was proved.

Why the strengthenings are needed.  `EffectIffSucceeded` alone is not inductive: a lost commit
decided late could otherwise meet a row that was released or taken by somebody else; that it
cannot rests on the row lock being held by exactly the transaction that updated a PENDING row.
`CommittedOnce` says nothing of a worker that is about to commit: the key does.  A manifest
written before its commit would go stale if a posting could commit in between: the exclusive
lock is what forbids it. `OneSuccessor` must speak of the successor that is inserted and not yet
committed, which is where the unique index acts.  `NoSecondFiling` counts attempts and says
nothing of the one about to leave: that all earlier ones are over follows only from what the
package's status says of the last; `PaidOnce` rests on the instruction's status in the same way.
`PaidByOthers` needs more of a payee than its state, which may change while a submission is
under way: what is kept is that another verified it.  `SealsStayValid` speaks of committed
seals, while a decision can be in hand when the leaves are read: that its instant is too young
for any period that may be sealed is the argument for the settle window. `SealsAtOnce` asks for
more: that nothing enters the period between the reading and the commit, and nothing ever after,
which is the same argument (`Frozen`), and that no other period met it when it was chosen and
does when it commits, which is the sealers' lock.

A step of the refinement of `OncePerKey` settles a key and tells one call, so the proof has to
know that the transaction the database decides is that of a call of this key, and that nobody it
is told to was told before (`ToldInv`); that it may still be told rests on the row being its
own.  `DuplicatesNeedRollback` counts rollbacks, and an event accepted under a transaction still
open is neither marked nor lost yet.  `SwitchRestsOnReadyRun` looks back from a committed
switch, and what it looks back at may change: dispositions of exceptions run beside the cutover
under no common lock, and it holds because they go one way.  `RefundsWithinTax` does not mention
the refund checked and not yet admitted, whose amount was compared with a sum that another
admission would have changed: the decision's refund lock allows one.  `ChargedAsDecided` needs
to know of every call that has read and not committed: that its chain and its decisions are its
own, so that no commit of another invalidates what it read.

Sums.  No induction principle of the library can be used, since they take operators as
parameters, but a sum over a finite set does not need one of them: among the
subsets of a finite set that lack a property there is a minimal one (`WFMin`), which gives
`SubsetInduction` over sets instead of predicates, and with it what the community modules'
folds are worth when an element comes or goes, over a union, and along an injective
function (`SumAdd`, `SumRemove`, `SumUnion`, `SumImage`).  `ChargedAsDecided` then is a matter
of pairing each cancelled line with the one that cancels it.

Trees.  `Merkle`'s functions recurse over levels, and TLAPS knows of a recursive function only
that it is what it is if such a function exists.  That it does, for every number of levels, and
what it then is, go by induction over sets of numbers (`EveryNatural`, again from `WFMin`) in
place of predicates.  The path and the verifier go up the same levels, so what is shown of one
node (`UpFollows`, `ClimbAt`) carries from the leaf to the root (`PathProves`): the path of a
leaf verifies for that leaf and no other.  RFC 6962's tree splits at the greatest power of two
below its size where the code pairs neighbours level by level; that the two meet is that the
node over a stretch of leaves is the RFC's tree of the stretch, at every level (`AboveIsOver`).

Waiting.  `CallEnds`, `BillingEnds` and `CloseGoesThrough` rest on fairness and are out of the
provers' reach, but what could keep them from holding is a ring of calls that wait for each
other's locks, and that none closes is a safety property.  `NoDeadlock` says that while calls
are in progress the guards of some call's next statement hold (TLC: these guards are the
enabling condition of `Proceed`, in `Documents` of `Step`, in `PeriodClose` of `Work` and
`Proceed`).  Were it false, every call would wait for a key that another one holds, and what
that one waits for comes later in the order of the keys; but a finite set has a last member
under any strict order (`LastExists`).  That calls in progress are finitely many is in the
invariant, and no assumption.  Periods have no such order: postings lock them as their journals
come.  There a transition waits for postings alone and holds nothing meanwhile, so that if all
of them wait, the postings in progress are themselves the set that `PassesQueue` asks for, and
the detector lets them through (`SomeoneProceeds`); without that disjunct TLC finds the circle
at once.

`RunsBalance` says of a reconciled run that what it left out cancels, and not that nothing is
missing, which the totals cannot tell: in the instance of `migration` a run reconciles with two
readable records left out, and a cutover switches on it with no exception decided.
`ResultTellsOutcome` makes an exception of `unsettled` items because the code does: the key is
free beside a FAILED result.

Two of these proofs found something to change in the models.  `Kind` of the migration was
a CASE with overlapping guards, which leaves the verdict open.  And documents had
positive lines only: with a negative one, crediting that line alone raises what is charged
above what was decided, so that "never more than decided" is not what the code keeps;
`ChargedAsDecided` says what it does keep.

`ReplayMatchesRequest`, `SingleExecutor` and `ImplementsPromise` assume
`RetentionOutlivesCalls`: a row does not expire under a call that still works on it.  Retention
is measured in days and a call in seconds, but no statement of the code enforces it, so the
assumption is explicit; `AtMostOnce` and `SettledImmutable` hold without it.  The theorems of
webhooks assume that deliveries are finite (`DeliveryAssumption`), as a batch is counted.  Other
assumptions only say what the constants are: that no value for an absent record, line or
currency is one of the present ones (`NoRecordAssumption`, `NoneAssumption`, `AbsentAssumption`,
`CurrencyAssumption`), that drafts are sequences of lines (`DraftAssumption`), that the records
of a snapshot are a sequence (`SourceAssumption`), that undecodable items are items
(`UndecodableAssumption`).  The theorems of seals assume `Longest <=
Settle` (`WindowAssumption`): no decision takes longer from its instant to its commit than the
fifteen minutes of `DefaultSettleWindow`, which no statement of the code enforces either.

### Only model-checked

Every safety invariant, action property and refinement the runs check is also proved.  Liveness
is not (`EveryCallReturns`, `JobCompletes`, `EventLeaves`, `DeliverySettles`, `CloseGoesThrough`,
`CallEnds`, `BillingEnds`): the installed provers do not reason about ENABLED, on which fairness
rests.  For the last three, that the transactions in progress never all wait is proved (above),
and what TLC adds is that each of them ends.

## 5. What is not modelled, and why

* Pure evaluation (rule engine, taxation, content compilation, document totals):
  no state to interleave; the repository has replay certification and golden tests.
* Transport, configuration, rate limiter, read models: decoding and rendering.
* Frontend, SDKs, AI gateway, infrastructure, policy, content packs: clients,
  deployment and data.
* Shadow runs, reconciliation, legal authorizations: single appends of computed data or
  of one person's act.  Retention and holds: nothing in the repository disposes of a
  record; the verdict is a read under the hold lock.
* Gateway client and accounts: beside the fiscal core.  Three races were seen in them.
  A call admitted before the circuit breaker opened reports its success afterwards and
  closes it within the cooldown (`adapter/gateway/breaker.go:67`).  Two administrators
  revoked or disabled at once each see the other as the one who remains
  (`app/admin.go:330`).  A user's status is read before the transaction that sets the
  password, so an account disabled in between is made active again
  (`app/credentials.go:208`).
* Within modelled components: webhook secrets and signatures (rotating twice within the
  overlap retires the first version at once, `webhooks.go:230`, and a secret that never
  opens ends every pass its delivery is claimed in, `:424`), the relay's counter of
  failed attempts, content effective-dating in `Ledger`, refund reports repeated
  with the same reference, the batch's per-item request bodies, what an assessment adds
  up to, the legal gate's rules, references and rails of payments, debit notes (issued
  as invoices are), signatures and encodings of seals, migration watermarks.
* A document bills a decision under a lock that corrections of the decision do not take
  (`documents.go:461`): in `Documents` a document can commit right after its decision was
  superseded.  The code promises the check and not that it still holds at the commit,
  so no property claims it.

## 6. Plan

Every component that decides what is owed, filed, billed or paid has its module.  What
would add most next, in this order:

1. **`Accounts`**: `SetUserStatus`, `RevokeRole`, `refuseIfLastAdmin`, `SetPassword` and
   sessions.  An active administrator remains; a disabled account stays disabled.
2. **`Breaker`**: the circuit breaker with several calls in flight.
3. **`WebhookDelivery`**: secret versions and their overlap.

New components get one run each, in the form above: properties over several actors, one
mutation per property, instances of two actors and the smallest data that lets each
hazard happen, within a few minutes.
