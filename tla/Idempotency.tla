----------------------------- MODULE Idempotency -----------------------------
(***************************************************************************)
(* The idempotency guard (internal/app/idempotency.go, Do) over its table  *)
(* (internal/adapter/postgres/idempotency_repo.go).                        *)
(*                                                                         *)
(* A call claims its key by inserting a PENDING row that commits on its    *)
(* own, runs its effect and settles the row in one transaction, records a  *)
(* deterministic failure in a second one, and deletes the row again after  *)
(* a transient failure.  Every statement is a step of its own: calls on    *)
(* one key interleave between any two of them, a process dies between any  *)
(* two of them, and a commit whose reply is lost is decided later, by the  *)
(* database, while the row stays locked.                                   *)
(*                                                                         *)
(* A retry is simply another call with the same key.                       *)
(***************************************************************************)
EXTENDS Naturals, FiniteSets

CONSTANTS
  Key,                     \* (tenant, endpoint, Idempotency-Key) triples
  Call,                    \* invocations of Do, retries included
  Digest,                  \* canonical digests of request bodies
  KeyOf, DigestOf,         \* the key and the digest each call carries
  RetentionOutlivesCalls,  \* no row expires under a call still working on it
  NoRecord, NoAnswer, NoLock

ASSUME KeyOfAssumption == KeyOf \in [Call -> Key]
ASSUME DigestOfAssumption == DigestOf \in [Call -> Digest]
ASSUME RetentionAssumption == RetentionOutlivesCalls \in BOOLEAN

(* A row: the request that inserted it, the call whose response it holds   *)
(* once settled, and whether expires_at has passed.                        *)
Record == [state : {"PENDING", "SUCCEEDED", "FAILED"},
           inserter : Call, settler : Call, expired : BOOLEAN]

(* The response a settled row replays.                                     *)
Response == [state : {"SUCCEEDED", "FAILED"}, settler : Call]

(* A transaction that has run Complete and not ended: it holds the row.    *)
Lock == [call : Call, state : {"SUCCEEDED", "FAILED"}]

ASSUME NoRecordAssumption == NoRecord \notin Record \cup Response
ASSUME NoAnswerAssumption == NoAnswer \notin Response
ASSUME NoLockAssumption == NoLock \notin Lock

VARIABLES
  table,     \* idempotency_record as committed
  lock,      \* the open transaction that has updated the key's row, if any
  pc,        \* the statement each call runs next
  tries,     \* turns of claim's loop each call has left
  answer,    \* the response Do returned with a nil error
  refusal,   \* the error Do returned
  applied    \* calls whose effect is committed, in the key's current retention

vars == <<table, lock, pc, tries, answer, refusal, applied>>

Pcs == {"insert", "get", "expire", "run", "commit", "settle", "release",
        "done", "crashed"}
Refusals == {"none", "keyReuse", "inProgress", "error"}

(* The pcs of a call that inserted a row and has neither settled nor       *)
(* released it yet.                                                        *)
Working == {"run", "commit", "settle", "release"}

TypeOK ==
  /\ table \in [Key -> Record \cup {NoRecord}]
  /\ lock \in [Key -> Lock \cup {NoLock}]
  /\ pc \in [Call -> Pcs]
  /\ tries \in [Call -> 1..2]
  /\ answer \in [Call -> Response \cup {NoAnswer}]
  /\ refusal \in [Call -> Refusals]
  /\ applied \in [Key -> SUBSET Call]

Init ==
  /\ table = [k \in Key |-> NoRecord]
  /\ lock = [k \in Key |-> NoLock]
  /\ pc = [c \in Call |-> "insert"]
  /\ tries = [c \in Call |-> 2]
  /\ answer = [c \in Call |-> NoAnswer]
  /\ refusal = [c \in Call |-> "none"]
  /\ applied = [k \in Key |-> {}]

-----------------------------------------------------------------------------
(* The WHERE clauses of the three statements that change a row; mutated,   *)
(* the release takes a settled row too.                                    *)

Completes(r) == r # NoRecord /\ r.state = "PENDING"

ReleasesAny(r) == r # NoRecord
Releases(r) == r # NoRecord /\ r.state = "PENDING"

Expires(r) == r # NoRecord /\ r.expired

(* idempotency.Decide: the digest before the state.                        *)
DecideStateOnly(r, c) == IF r.state = "PENDING" THEN "inProgress" ELSE "replay"
Decide(r, c) ==
  IF DigestOf[r.inserter] # DigestOf[c] THEN "keyReuse"
  ELSE IF r.state = "PENDING" THEN "inProgress" ELSE "replay"

(* An UPDATE or DELETE waits for the transaction that has the row.         *)
RowFree(k) == lock[k] = NoLock

Goto(c, p) == pc' = [pc EXCEPT ![c] = p]
Return(c, resp) == Goto(c, "done") /\ answer' = [answer EXCEPT ![c] = resp]
Refuse(c, why) == Goto(c, "done") /\ refusal' = [refusal EXCEPT ![c] = why]

(* One more turn of claim's loop, or REQUEST_IN_PROGRESS after the second. *)
Again(c) ==
  IF tries[c] > 1
    THEN /\ tries' = [tries EXCEPT ![c] = tries[c] - 1]
         /\ Goto(c, "insert") /\ UNCHANGED refusal
    ELSE Refuse(c, "inProgress") /\ UNCHANGED tries

-----------------------------------------------------------------------------
(* claim                                                                   *)

NewPending(c) ==
  [state |-> "PENDING", inserter |-> c, settler |-> c, expired |-> FALSE]

(* INSERT ... ON CONFLICT DO NOTHING, committed on its own.  The insert    *)
(* may land and its reply be lost: Do returns the error and the row stays. *)
Insert(c) ==
  LET k == KeyOf[c] IN
  /\ pc[c] = "insert"
  /\ IF table[k] # NoRecord
       THEN Goto(c, "get") /\ UNCHANGED <<table, refusal>>
       ELSE /\ table' = [table EXCEPT ![k] = NewPending(c)]
            /\ \/ Goto(c, "run") /\ UNCHANGED refusal
               \/ Refuse(c, "error")
  /\ UNCHANGED <<lock, tries, answer, applied>>

(* Get, and the branch taken on what it read.                              *)
Get(c) ==
  LET r == table[KeyOf[c]] IN
  /\ pc[c] = "get"
  /\ \/ r = NoRecord /\ Again(c) /\ UNCHANGED answer
     \/ /\ r # NoRecord /\ r.expired
        /\ Goto(c, "expire") /\ UNCHANGED <<tries, answer, refusal>>
     \/ /\ r # NoRecord /\ ~r.expired /\ UNCHANGED tries
        /\ IF Decide(r, c) = "replay"
             THEN /\ Return(c, [state |-> r.state, settler |-> r.settler])
                  /\ UNCHANGED refusal
             ELSE Refuse(c, Decide(r, c)) /\ UNCHANGED answer
  /\ UNCHANGED <<table, lock, applied>>

(* DELETE ... WHERE expires_at <= now: with the row ends its retention.    *)
Expire(c) ==
  LET k == KeyOf[c] IN
  /\ pc[c] = "expire" /\ RowFree(k)
  /\ IF Expires(table[k])
       THEN /\ table' = [table EXCEPT ![k] = NoRecord]
            /\ applied' = [applied EXCEPT ![k] = {}]
       ELSE UNCHANGED <<table, applied>>
  /\ Again(c)
  /\ UNCHANGED <<lock, answer>>

(* A statement of claim fails, or its context is cancelled, unapplied.     *)
ClaimFails(c) ==
  /\ pc[c] \in {"insert", "get", "expire"}
  /\ Refuse(c, "error")
  /\ UNCHANGED <<table, lock, tries, answer, applied>>

-----------------------------------------------------------------------------
(* execute, settle and Release                                             *)

(* The effect ran inside the transaction; Complete then updates the row,   *)
(* and must find one row to update.                                        *)
Complete(c, state) ==
  LET k == KeyOf[c] IN
  /\ RowFree(k)
  /\ IF Completes(table[k])
       THEN /\ lock' = [lock EXCEPT ![k] = [call |-> c, state |-> state]]
            /\ Goto(c, "commit")
       ELSE Goto(c, "release") /\ UNCHANGED lock
  /\ UNCHANGED <<table, tries, answer, refusal, applied>>

ExecuteSucceeds(c) == pc[c] = "run" /\ Complete(c, "SUCCEEDED")

(* The effect failed and its transaction rolled back: a deterministic      *)
(* failure is recorded, any other releases the key (recordable).           *)
ExecuteFails(c) ==
  /\ pc[c] = "run"
  /\ Goto(c, "settle") \/ Goto(c, "release")
  /\ UNCHANGED <<table, lock, tries, answer, refusal, applied>>

SettleFailure(c) == pc[c] = "settle" /\ Complete(c, "FAILED")

(* What the database does when it commits the transaction that holds k.    *)
Settled(r, l) == [r EXCEPT !.state = l.state, !.settler = l.call]
Committed(k) ==
  LET l == lock[k] IN
  /\ table' = [table EXCEPT ![k] = Settled(table[k], l)]
  /\ applied' = [applied EXCEPT ![k] =
                   IF l.state = "SUCCEEDED" THEN @ \cup {l.call} ELSE @]
  /\ lock' = [lock EXCEPT ![k] = NoLock]

CommitSucceeds(c) ==
  LET k == KeyOf[c] IN
  /\ pc[c] = "commit"
  /\ Committed(k)
  /\ Return(c, [state |-> lock[k].state, settler |-> c])
  /\ UNCHANGED <<tries, refusal>>

(* COMMIT's reply is an error or never comes: the application goes on to   *)
(* Release while the database has yet to decide.                           *)
CommitUncertain(c) ==
  /\ pc[c] = "commit"
  /\ Goto(c, "release")
  /\ UNCHANGED <<table, lock, tries, answer, refusal, applied>>

(* The database decides a transaction its client no longer waits for.      *)
AbandonedByDead(k) == pc[lock[k].call] \in {"done", "crashed"}
Abandoned(k) == pc[lock[k].call] # "commit"

Resolve(k) ==
  /\ ~RowFree(k) /\ Abandoned(k)
  /\ \/ Committed(k)
     \/ lock' = [lock EXCEPT ![k] = NoLock] /\ UNCHANGED <<table, applied>>
  /\ UNCHANGED <<pc, tries, answer, refusal>>

(* DELETE ... WHERE state = 'PENDING', then the error goes back.           *)
Release(c) ==
  LET k == KeyOf[c] IN
  /\ pc[c] = "release" /\ RowFree(k)
  /\ table' = [table EXCEPT ![k] = IF Releases(@) THEN NoRecord ELSE @]
  /\ Refuse(c, "error")
  /\ UNCHANGED <<lock, tries, answer, applied>>

(* The delete fails too, as it must when the caller's context has ended.   *)
ReleaseFails(c) ==
  /\ pc[c] = "release"
  /\ Refuse(c, "error")
  /\ UNCHANGED <<table, lock, tries, answer, applied>>

-----------------------------------------------------------------------------
(* The process serving c dies between two statements.                      *)
Crash(c) ==
  /\ pc[c] \notin {"insert", "done", "crashed"}
  /\ Goto(c, "crashed")
  /\ UNCHANGED <<table, lock, tries, answer, refusal, applied>>

(* expires_at passes.                                                      *)
Lapse(k) ==
  /\ table[k] # NoRecord /\ ~table[k].expired
  /\ RetentionOutlivesCalls =>
       RowFree(k) /\ \A c \in Call : KeyOf[c] = k => pc[c] \notin Working
  /\ table' = [table EXCEPT ![k].expired = TRUE]
  /\ UNCHANGED <<lock, pc, tries, answer, refusal, applied>>

(* The statements a live call runs next.                                   *)
Do(c) ==
  \/ Insert(c) \/ Get(c) \/ Expire(c) \/ ClaimFails(c)
  \/ ExecuteSucceeds(c) \/ ExecuteFails(c) \/ SettleFailure(c)
  \/ CommitSucceeds(c) \/ CommitUncertain(c)
  \/ Release(c) \/ ReleaseFails(c)

Next ==
  \/ \E c \in Call : Do(c) \/ Crash(c)
  \/ \E k \in Key : Resolve(k) \/ Lapse(k)

Spec == Init /\ [][Next]_vars

(* A live call goes on to its next statement, the database decides every   *)
(* transaction, and time passes.  ReleaseFails and ClaimFails need no      *)
(* fairness: nothing makes a statement fail.  A Release that waits for a   *)
(* row does run once the row stays free.                                   *)
Fairness ==
  /\ \A c \in Call :
       WF_vars(Insert(c) \/ Get(c) \/ Expire(c) \/ ExecuteSucceeds(c)
               \/ ExecuteFails(c) \/ SettleFailure(c) \/ CommitSucceeds(c)
               \/ CommitUncertain(c) \/ Release(c))
  /\ \A k \in Key : WF_vars(Resolve(k)) /\ WF_vars(Lapse(k))

FairSpec == Spec /\ Fairness

-----------------------------------------------------------------------------
(* Properties                                                              *)

(* The effect and the row's completion commit together (Do's step 2): in   *)
(* a key's retention the committed effects are exactly the one the row     *)
(* answers for, however commits are lost, released or retried.             *)
EffectIffSucceeded ==
  \A k \in Key :
    applied[k] = IF table[k] # NoRecord /\ table[k].state = "SUCCEEDED"
                 THEN {table[k].settler} ELSE {}

(* claim lets one call through: two calls never execute one key at once.   *)
OneExecutor ==
  \A c, d \in Call :
    KeyOf[c] = KeyOf[d] /\ {pc[c], pc[d]} \subseteq Working => c = d

(* Do replays to a caller only what was settled for its own request: a key *)
(* reused with another body never returns the first body's response.       *)
AnswerForRequest ==
  \A c \in Call :
    answer[c] # NoAnswer => DigestOf[answer[c].settler] = DigestOf[c]

(* "a settled record, once written, is as immutable here as a decision is  *)
(* by grant": a settled row only ever expires and is deleted expired.      *)
SettledIsFinal ==
  [][\A k \in Key :
       table[k] # NoRecord /\ table[k].state # "PENDING" =>
         \/ table'[k] = table[k]
         \/ table'[k] = [table[k] EXCEPT !.expired = TRUE]
         \/ table[k].expired /\ table'[k] = NoRecord]_vars

(* Do returns: no call waits for ever on a row, a lock or a retry.         *)
EveryCallReturns ==
  \A c \in Call : pc[c] = "insert" ~> pc[c] \in {"done", "crashed"}

(* The guard implements its promise.                                       *)
Outcome(k) ==
  IF table[k] = NoRecord \/ table[k].state = "PENDING" THEN NoRecord
  ELSE [state |-> table[k].state, settler |-> table[k].settler]

Promise == INSTANCE OncePerKey
  WITH NoOutcome <- NoRecord, outcome <- [k \in Key |-> Outcome(k)]

KeepsPromise == Promise!Spec
=============================================================================
