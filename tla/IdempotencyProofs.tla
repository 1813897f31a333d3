-------------------------- MODULE IdempotencyProofs --------------------------
(***************************************************************************)
(* Theorems about the idempotency guard, for any number of keys and calls. *)
(*                                                                         *)
(* EffectIffSucceeded is not inductive alone: a commit the database        *)
(* decides late must still find the row PENDING.  What carries it is that  *)
(* a row somebody's transaction has updated is PENDING until that          *)
(* transaction ends (LockedIsPending), because every statement that would  *)
(* change it waits for the row, and that a call about to commit is the     *)
(* one that holds it (CommitterHolds).  The refinement of OncePerKey then  *)
(* takes each step to one that settles, replays or forgets, or to none.    *)
(***************************************************************************)
EXTENDS Idempotency, TLAPS

LockedIsPending ==
  \A k \in Key : lock[k] # NoLock =>
    table[k] # NoRecord /\ table[k].state = "PENDING"

CommitterHolds ==
  \A c \in Call : pc[c] = "commit" =>
    lock[KeyOf[c]] # NoLock /\ lock[KeyOf[c]].call = c

Inv == TypeOK /\ LockedIsPending /\ CommitterHolds /\ EffectIffSucceeded

(* The steps of one call, named for the case split the proofs share.       *)
LEMMA NextCases ==
  ASSUME [Next]_vars
  PROVE  \/ \E c \in Call :
              \/ Insert(c) \/ Get(c) \/ Expire(c) \/ ClaimFails(c)
              \/ ExecuteSucceeds(c) \/ ExecuteFails(c) \/ SettleFailure(c)
              \/ CommitSucceeds(c) \/ CommitUncertain(c)
              \/ Release(c) \/ ReleaseFails(c) \/ Crash(c)
         \/ \E k \in Key : Resolve(k) \/ Lapse(k)
         \/ UNCHANGED vars
  BY DEF Next, Do

-----------------------------------------------------------------------------
(* Type correctness                                                        *)

LEMMA TypeInit == Init => TypeOK
  BY NoRecordAssumption, NoAnswerAssumption, NoLockAssumption
  DEF Init, TypeOK, Pcs, Refusals

LEMMA AgainType ==
  ASSUME TypeOK, NEW c \in Call, Again(c)
  PROVE  /\ tries' \in [Call -> 1..2]
         /\ pc' \in [Call -> Pcs]
         /\ refusal' \in [Call -> Refusals]
  BY DEF TypeOK, Again, Goto, Refuse, Pcs, Refusals

LEMMA CompleteType ==
  ASSUME TypeOK, NEW c \in Call, NEW s \in {"SUCCEEDED", "FAILED"},
         Complete(c, s)
  PROVE  TypeOK'
  BY KeyOfAssumption DEF TypeOK, Complete, Goto, Pcs, Lock

LEMMA CommittedType ==
  ASSUME TypeOK, NEW k \in Key, Committed(k), lock[k] # NoLock
  PROVE  /\ lock' \in [Key -> Lock \cup {NoLock}]
         /\ applied' \in [Key -> SUBSET Call]
         /\ table[k] # NoRecord => table' \in [Key -> Record \cup {NoRecord}]
  BY DEF TypeOK, Committed, Settled, Lock, Record

-----------------------------------------------------------------------------
(* The invariant                                                           *)

LEMMA InvInit == Init => Inv
  BY TypeInit, KeyOfAssumption
  DEF Init, Inv, LockedIsPending, CommitterHolds, EffectIffSucceeded

(* Complete: of the two transactions that settle a row.                    *)
LEMMA CompleteInv ==
  ASSUME Inv, NEW c \in Call, NEW s \in {"SUCCEEDED", "FAILED"},
         Complete(c, s)
  PROVE  Inv'
<1> DEFINE k == KeyOf[c]
<1>1. TypeOK'
  BY CompleteType DEF Inv
<1>2. LockedIsPending'
  BY <1>1, KeyOfAssumption
  DEF Inv, TypeOK, LockedIsPending, Complete, Completes, Goto
<1>3. CommitterHolds'
  <2> SUFFICES ASSUME NEW d \in Call, pc'[d] = "commit"
               PROVE  lock'[KeyOf[d]] # NoLock /\ lock'[KeyOf[d]].call = d
    BY DEF CommitterHolds
  <2>1. CASE Completes(table[k]) /\ d = c
    <3> DEFINE held == [call |-> c, state |-> s]
    <3>1. lock'[k] = held
      BY <2>1, KeyOfAssumption DEF Inv, TypeOK, Complete
    <3>2. held \in Lock
      BY DEF Lock
    <3> QED BY <2>1, <3>1, <3>2, NoLockAssumption
  <2>2. CASE ~(Completes(table[k]) /\ d = c)
    <3>1. pc[d] = "commit"
      BY <2>2 DEF Inv, TypeOK, Complete, Goto
    <3>2. KeyOf[d] # k
      BY <3>1 DEF Inv, CommitterHolds, Complete, RowFree
    <3> QED
      BY <3>1, <3>2, KeyOfAssumption
      DEF Inv, TypeOK, CommitterHolds, Complete
  <2> QED BY <2>1, <2>2
<1>4. EffectIffSucceeded'
  BY DEF Inv, EffectIffSucceeded, Complete
<1> QED BY <1>1, <1>2, <1>3, <1>4 DEF Inv

(* The database commits the transaction that holds k, whoever learns of it. *)
LEMMA CommittedInv ==
  ASSUME Inv, NEW k \in Key, lock[k] # NoLock, Committed(k)
  PROVE  /\ lock' \in [Key -> Lock \cup {NoLock}]
         /\ applied' \in [Key -> SUBSET Call]
         /\ table' \in [Key -> Record \cup {NoRecord}]
         /\ LockedIsPending'
         /\ EffectIffSucceeded'
<1>1. table[k] # NoRecord /\ table[k].state = "PENDING"
  BY DEF Inv, LockedIsPending
<1>2. /\ lock' \in [Key -> Lock \cup {NoLock}]
      /\ applied' \in [Key -> SUBSET Call]
      /\ table' \in [Key -> Record \cup {NoRecord}]
  BY <1>1, CommittedType DEF Inv
<1>3. LockedIsPending'
  BY DEF Inv, TypeOK, LockedIsPending, Committed
<1>4. EffectIffSucceeded'
  <2> SUFFICES ASSUME NEW j \in Key
               PROVE  applied'[j] =
                        IF table'[j] # NoRecord /\ table'[j].state = "SUCCEEDED"
                        THEN {table'[j].settler} ELSE {}
    BY DEF EffectIffSucceeded
  <2>1. CASE j # k
    BY <2>1 DEF Inv, TypeOK, EffectIffSucceeded, Committed
  <2>2. CASE j = k
    <3>1. applied[k] = {}
      BY <1>1 DEF Inv, EffectIffSucceeded
    <3>2. /\ table'[k] # NoRecord
          /\ table'[k].state = lock[k].state
          /\ table'[k].settler = lock[k].call
      <4>1. table[k] \in Record /\ lock[k] \in Lock
        BY <1>1 DEF Inv, TypeOK
      <4>2. table'[k] = Settled(table[k], lock[k])
        BY DEF Inv, TypeOK, Committed
      <4>3. /\ Settled(table[k], lock[k]) \in Record
            /\ Settled(table[k], lock[k]).state = lock[k].state
            /\ Settled(table[k], lock[k]).settler = lock[k].call
        BY <4>1 DEF Settled, Record, Lock
      <4> QED BY <4>2, <4>3, NoRecordAssumption
    <3>3. applied'[k] = IF lock[k].state = "SUCCEEDED"
                        THEN {lock[k].call} ELSE {}
      BY <3>1 DEF Inv, TypeOK, Committed
    <3> QED BY <2>2, <3>2, <3>3
  <2> QED BY <2>1, <2>2
<1> QED BY <1>2, <1>3, <1>4

(* One step per statement; the commits go through the two lemmas above.    *)
LEMMA InvNext == Inv /\ [Next]_vars => Inv'
<1> SUFFICES ASSUME Inv, [Next]_vars PROVE Inv'
  OBVIOUS
<1>1. ASSUME NEW c \in Call, Insert(c) PROVE Inv'
  <2>1. NewPending(c) \in Record
    BY DEF NewPending, Record
  <2>2. TypeOK'
    BY <1>1, <2>1, KeyOfAssumption
    DEF Inv, TypeOK, Insert, Goto, Refuse, Pcs, Refusals
  <2>3. LockedIsPending' /\ CommitterHolds'
    BY <1>1, KeyOfAssumption
    DEF Inv, TypeOK, LockedIsPending, CommitterHolds, Insert, Goto, Refuse
  <2>4. EffectIffSucceeded'
    BY <1>1, <2>1, KeyOfAssumption
    DEF Inv, TypeOK, EffectIffSucceeded, Insert, NewPending
  <2> QED BY <2>2, <2>3, <2>4 DEF Inv
<1>2. ASSUME NEW c \in Call, Get(c) PROVE Inv'
  <2> DEFINE r == table[KeyOf[c]]
  <2>1. r # NoRecord /\ ~r.expired /\ Decide(r, c) = "replay" =>
          [state |-> r.state, settler |-> r.settler] \in Response
    BY KeyOfAssumption DEF Inv, TypeOK, Record, Response, Decide
  <2>2. r # NoRecord => Decide(r, c) \in Refusals \cup {"replay"}
    BY DEF Decide, Refusals
  <2>3. TypeOK'
    <3>1. CASE r = NoRecord
      BY <1>2, <3>1, AgainType DEF Inv, TypeOK, Get
    <3>2. CASE r # NoRecord
      BY <1>2, <2>1, <2>2, <3>2
      DEF Inv, TypeOK, Get, Goto, Return, Refuse, Pcs
    <3> QED BY <3>1, <3>2
  <2>4. LockedIsPending' /\ CommitterHolds' /\ EffectIffSucceeded'
    BY <1>2
    DEF Inv, TypeOK, LockedIsPending, CommitterHolds, EffectIffSucceeded,
        Get, Again, Goto, Return, Refuse
  <2> QED BY <2>3, <2>4 DEF Inv
<1>3. ASSUME NEW c \in Call, Expire(c) PROVE Inv'
  <2>1. TypeOK'
    BY <1>3, AgainType, KeyOfAssumption DEF Inv, TypeOK, Expire
  <2>2. /\ UNCHANGED lock
        /\ \A d \in Call : pc'[d] = "commit" => pc[d] = "commit"
    BY <1>3 DEF Inv, TypeOK, Expire, Again, Goto, Refuse
  <2>3. /\ \A j \in Key : lock[j] # NoLock => table'[j] = table[j]
        /\ \A j \in Key : \/ table'[j] = table[j] /\ applied'[j] = applied[j]
                          \/ table'[j] = NoRecord /\ applied'[j] = {}
    BY <1>3, KeyOfAssumption DEF Inv, TypeOK, Expire, RowFree
  <2>4. LockedIsPending' /\ CommitterHolds'
    BY <2>2, <2>3 DEF Inv, LockedIsPending, CommitterHolds
  <2>5. EffectIffSucceeded'
    BY <2>3 DEF Inv, EffectIffSucceeded
  <2> QED BY <2>1, <2>4, <2>5 DEF Inv
<1>4. ASSUME NEW c \in Call,
             ClaimFails(c) \/ ExecuteFails(c) \/ ReleaseFails(c) \/ Crash(c)
      PROVE  Inv'
  BY <1>4
  DEF Inv, TypeOK, LockedIsPending, CommitterHolds, EffectIffSucceeded,
      ClaimFails, ExecuteFails, ReleaseFails, Crash, Goto, Refuse,
      Pcs, Refusals
<1>5. ASSUME NEW c \in Call, ExecuteSucceeds(c) \/ SettleFailure(c)
      PROVE  Inv'
  BY <1>5, CompleteInv DEF ExecuteSucceeds, SettleFailure
<1>6. ASSUME NEW c \in Call, CommitSucceeds(c) PROVE Inv'
  <2> DEFINE k == KeyOf[c]
  <2>1. k \in Key /\ lock[k] # NoLock /\ lock[k].call = c /\ lock[k] \in Lock
    BY <1>6, KeyOfAssumption DEF Inv, TypeOK, CommitterHolds, CommitSucceeds
  <2>2. [state |-> lock[k].state, settler |-> c] \in Response
    BY <2>1 DEF Lock, Response
  <2>3. TypeOK' /\ LockedIsPending' /\ EffectIffSucceeded'
    BY <1>6, <2>1, <2>2, CommittedInv
    DEF Inv, TypeOK, CommitSucceeds, Return, Goto, Pcs
  <2>4. CommitterHolds'
    BY <1>6, <2>1, KeyOfAssumption
    DEF Inv, TypeOK, CommitterHolds, CommitSucceeds, Committed, Return, Goto
  <2> QED BY <2>3, <2>4 DEF Inv
<1>7. ASSUME NEW c \in Call, CommitUncertain(c) PROVE Inv'
  BY <1>7
  DEF Inv, TypeOK, LockedIsPending, CommitterHolds, EffectIffSucceeded,
      CommitUncertain, Goto, Pcs
<1>8. ASSUME NEW c \in Call, Release(c) PROVE Inv'
  BY <1>8, KeyOfAssumption
  DEF Inv, TypeOK, LockedIsPending, CommitterHolds, EffectIffSucceeded,
      Release, Releases, RowFree, Goto, Refuse, Pcs, Refusals
<1>9. ASSUME NEW k \in Key, Resolve(k) PROVE Inv'
  <2>1. lock[k] # NoLock /\ lock[k] \in Lock
    BY <1>9 DEF Inv, TypeOK, Resolve, RowFree
  <2>2. TypeOK' /\ LockedIsPending' /\ EffectIffSucceeded'
    <3>1. CASE Committed(k)
      BY <1>9, <2>1, <3>1, CommittedInv DEF Inv, TypeOK, Resolve
    <3>2. CASE ~Committed(k)
      BY <1>9, <3>2
      DEF Inv, TypeOK, LockedIsPending, EffectIffSucceeded, Resolve
    <3> QED BY <3>1, <3>2
  <2>3. lock' = [lock EXCEPT ![k] = NoLock] /\ UNCHANGED pc
    BY <1>9 DEF Resolve, Committed
  <2>4. CommitterHolds'
    BY <1>9, <2>1, <2>3, KeyOfAssumption
    DEF Inv, TypeOK, CommitterHolds, Resolve, Abandoned
  <2> QED BY <2>2, <2>4 DEF Inv
<1>10. ASSUME NEW k \in Key, Lapse(k) PROVE Inv'
  <2>1. table[k] \in Record /\ table[k] # NoRecord
    BY <1>10 DEF Inv, TypeOK, Lapse
  <2>2. /\ [table[k] EXCEPT !.expired = TRUE] \in Record
        /\ [table[k] EXCEPT !.expired = TRUE].state = table[k].state
        /\ [table[k] EXCEPT !.expired = TRUE].settler = table[k].settler
    BY <2>1 DEF Record
  <2>3. table' = [table EXCEPT ![k] = [table[k] EXCEPT !.expired = TRUE]]
    BY <1>10 DEF Lapse
  <2>4. /\ UNCHANGED <<lock, pc, tries, answer, refusal, applied>>
        /\ \A j \in Key : j # k => table'[j] = table[j]
        /\ table'[k] \in Record
        /\ table'[k] # NoRecord
        /\ table'[k].state = table[k].state
        /\ table'[k].settler = table[k].settler
    BY <1>10, <2>2, <2>3, NoRecordAssumption DEF Inv, TypeOK, Lapse
  <2>5. TypeOK'
    BY <2>2, <2>3, <2>4 DEF Inv, TypeOK
  <2>6. LockedIsPending' /\ CommitterHolds' /\ EffectIffSucceeded'
    BY <2>1, <2>4
    DEF Inv, LockedIsPending, CommitterHolds, EffectIffSucceeded
  <2> QED BY <2>5, <2>6 DEF Inv
<1>11. CASE UNCHANGED vars
  BY <1>11
  DEF Inv, TypeOK, LockedIsPending, CommitterHolds, EffectIffSucceeded, vars
<1> QED
  BY <1>1, <1>2, <1>3, <1>4, <1>5, <1>6, <1>7, <1>8, <1>9, <1>10, <1>11,
     NextCases

(* The state of the guard is well typed: rows, locks, program counters and *)
(* answers of Do.                                                          *)
THEOREM TypeCorrect == Spec => []TypeOK
<1>1. Inv => TypeOK
  BY DEF Inv
<1> QED BY <1>1, InvInit, InvNext, PTL DEF Spec

(* Do commits the effect and the row's completion together: for every key  *)
(* the committed effects of its retention are the single one its settled   *)
(* row answers for, whatever crashes, lost commits, releases and expiries  *)
(* interleave.                                                             *)
THEOREM AtMostOnce == Spec => []EffectIffSucceeded
<1>1. Inv => EffectIffSucceeded
  BY DEF Inv
<1> QED BY <1>1, InvInit, InvNext, PTL DEF Spec

-----------------------------------------------------------------------------
(* A settled row is final                                                  *)

RowFinal(k) ==
  table[k] # NoRecord /\ table[k].state # "PENDING" =>
    \/ table'[k] = table[k]
    \/ table'[k] = [table[k] EXCEPT !.expired = TRUE]
    \/ table[k].expired /\ table'[k] = NoRecord

LEMMA FinalNext == Inv /\ [Next]_vars => \A k \in Key : RowFinal(k)
<1> SUFFICES ASSUME Inv, [Next]_vars, NEW k \in Key,
                    table[k] # NoRecord, table[k].state # "PENDING"
             PROVE  \/ table'[k] = table[k]
                    \/ table'[k] = [table[k] EXCEPT !.expired = TRUE]
                    \/ table[k].expired /\ table'[k] = NoRecord
  BY DEF RowFinal
<1>1. lock[k] = NoLock
  BY DEF Inv, LockedIsPending
<1>2. ASSUME NEW c \in Call,
             \/ Insert(c) \/ Get(c) \/ Expire(c) \/ ClaimFails(c)
             \/ ExecuteFails(c) \/ CommitUncertain(c)
             \/ Release(c) \/ ReleaseFails(c) \/ Crash(c)
      PROVE  table'[k] = table[k] \/ (table[k].expired /\ table'[k] = NoRecord)
  BY <1>2, KeyOfAssumption
  DEF Inv, TypeOK, Insert, Get, Expire, Expires, ClaimFails, ExecuteFails,
      CommitUncertain, Release, Releases, ReleaseFails, Crash
<1>3. ASSUME NEW c \in Call, ExecuteSucceeds(c) \/ SettleFailure(c)
      PROVE  table'[k] = table[k]
  BY <1>3 DEF ExecuteSucceeds, SettleFailure, Complete
<1>4. ASSUME NEW c \in Call, CommitSucceeds(c) PROVE table'[k] = table[k]
  BY <1>1, <1>4, KeyOfAssumption
  DEF Inv, TypeOK, CommitterHolds, CommitSucceeds, Committed
<1>5. ASSUME NEW j \in Key, Resolve(j) PROVE table'[k] = table[k]
  BY <1>1, <1>5 DEF Inv, TypeOK, Resolve, RowFree, Committed
<1>6. ASSUME NEW j \in Key, Lapse(j)
      PROVE  \/ table'[k] = table[k]
             \/ table'[k] = [table[k] EXCEPT !.expired = TRUE]
  BY <1>6 DEF Inv, TypeOK, Lapse
<1>7. CASE UNCHANGED vars
  BY <1>7 DEF vars
<1> QED BY <1>2, <1>3, <1>4, <1>5, <1>6, <1>7, NextCases

(* "a settled record, once written, is as immutable here as a decision is  *)
(* by grant": no statement of Do changes a settled row; it only expires.   *)
THEOREM SettledImmutable == Spec => SettledIsFinal
<1>1. Inv /\ [Next]_vars => [\A k \in Key : RowFinal(k)]_vars
  BY FinalNext
<1>2. Spec => [][\A k \in Key : RowFinal(k)]_vars
  BY <1>1, InvInit, InvNext, PTL DEF Spec
<1> QED BY <1>2 DEF SettledIsFinal, RowFinal

-----------------------------------------------------------------------------
(* Ownership, while retention outlives the calls                           *)
(*                                                                         *)
(* The row carries no token of the call that inserted it, so that a call   *)
(* settles and releases its own row and no other rests on the row staying  *)
(* until the call is through with it.                                      *)

Owned ==
  \A c \in Call : pc[c] \in Working =>
    /\ table[KeyOf[c]] # NoRecord
    /\ table[KeyOf[c]].inserter = c
    /\ ~table[KeyOf[c]].expired

LockerInserted ==
  \A k \in Key : lock[k] # NoLock => lock[k].call = table[k].inserter

SettlerInserted ==
  \A k \in Key : table[k] # NoRecord => table[k].settler = table[k].inserter

OwnInv == Owned /\ LockerInserted /\ SettlerInserted /\ AnswerForRequest

LEMMA OwnInit == Init => OwnInv
  BY DEF Init, OwnInv, Owned, Working, LockerInserted, SettlerInserted,
         AnswerForRequest

(* A committed transaction settles the row its own call inserted.          *)
LEMMA CommittedOwn ==
  ASSUME Inv, OwnInv, NEW k \in Key, lock[k] # NoLock, Committed(k)
  PROVE  /\ \A j \in Key : j # k => table'[j] = table[j] /\ lock'[j] = lock[j]
         /\ lock'[k] = NoLock
         /\ table'[k] # NoRecord
         /\ table'[k].inserter = table[k].inserter
         /\ table'[k].expired = table[k].expired
         /\ table'[k].settler = table[k].inserter
<1>1. table[k] \in Record /\ lock[k] \in Lock
  BY DEF Inv, TypeOK, LockedIsPending
<1>2. table'[k] = Settled(table[k], lock[k]) /\ lock'[k] = NoLock
  BY DEF Inv, TypeOK, Committed
<1>3. /\ Settled(table[k], lock[k]) \in Record
      /\ Settled(table[k], lock[k]).inserter = table[k].inserter
      /\ Settled(table[k], lock[k]).expired = table[k].expired
      /\ Settled(table[k], lock[k]).settler = lock[k].call
  BY <1>1 DEF Settled, Record, Lock
<1>4. \A j \in Key : j # k => table'[j] = table[j] /\ lock'[j] = lock[j]
  BY DEF Inv, TypeOK, Committed
<1> QED
  BY <1>2, <1>3, <1>4, NoRecordAssumption DEF OwnInv, LockerInserted

LEMMA OwnNext ==
  RetentionOutlivesCalls /\ Inv /\ OwnInv /\ [Next]_vars => OwnInv'
<1> SUFFICES ASSUME RetentionOutlivesCalls, Inv, OwnInv, [Next]_vars
             PROVE  OwnInv'
  OBVIOUS
<1>1. ASSUME NEW c \in Call, Insert(c) PROVE OwnInv'
  <2>1. /\ NewPending(c) # NoRecord
        /\ NewPending(c).inserter = c
        /\ NewPending(c).settler = c
        /\ NewPending(c).expired = FALSE
    <3>1. NewPending(c) \in Record
      BY DEF NewPending, Record
    <3>2. /\ NewPending(c).inserter = c
          /\ NewPending(c).settler = c
          /\ NewPending(c).expired = FALSE
      BY DEF NewPending
    <3> QED BY <3>1, <3>2, NoRecordAssumption
  <2>2. CASE table[KeyOf[c]] # NoRecord
    BY <1>1, <2>2
    DEF Inv, TypeOK, OwnInv, Owned, Working, LockerInserted, SettlerInserted,
        AnswerForRequest, Insert, Goto
  <2>3. CASE table[KeyOf[c]] = NoRecord
    <3>1. /\ table'[KeyOf[c]] = NewPending(c)
          /\ \A j \in Key : j # KeyOf[c] => table'[j] = table[j]
          /\ UNCHANGED <<lock, answer>>
          /\ \A d \in Call : d # c => pc'[d] = pc[d]
      BY <1>1, <2>3, KeyOfAssumption
      DEF Inv, TypeOK, Insert, Goto, Refuse
    <3>2. \A d \in Call : pc[d] \in Working => KeyOf[d] # KeyOf[c]
      BY <2>3 DEF OwnInv, Owned
    <3>3. Owned'
      BY <2>1, <3>1, <3>2, KeyOfAssumption DEF OwnInv, Owned
    <3>4. LockerInserted'
      BY <2>3, <3>1 DEF Inv, LockedIsPending, OwnInv, LockerInserted
    <3>5. SettlerInserted' /\ AnswerForRequest'
      BY <2>1, <3>1 DEF OwnInv, SettlerInserted, AnswerForRequest
    <3> QED BY <3>3, <3>4, <3>5 DEF OwnInv
  <2> QED BY <2>2, <2>3
<1>2. ASSUME NEW c \in Call, Get(c) PROVE OwnInv'
  <2> DEFINE r == table[KeyOf[c]]
  <2>1. /\ UNCHANGED <<table, lock>>
        /\ \A d \in Call : pc'[d] \in Working => pc[d] \in Working
    BY <1>2 DEF Inv, TypeOK, Get, Again, Goto, Return, Refuse, Working
  <2>2. Owned' /\ LockerInserted' /\ SettlerInserted'
    BY <2>1 DEF OwnInv, Owned, LockerInserted, SettlerInserted
  <2>3. CASE r # NoRecord /\ ~r.expired /\ Decide(r, c) = "replay"
    <3>1. DigestOf[r.settler] = DigestOf[c]
      <4>1. r.settler = r.inserter
        BY <2>3, KeyOfAssumption DEF OwnInv, SettlerInserted
      <4>2. DigestOf[r.inserter] = DigestOf[c]
        BY <2>3 DEF Decide
      <4> QED BY <4>1, <4>2
    <3>2. answer' = [answer EXCEPT
                       ![c] = [state |-> r.state, settler |-> r.settler]]
      BY <1>2, <2>3 DEF Get, Return
    <3>3. AnswerForRequest'
      BY <3>1, <3>2 DEF Inv, TypeOK, OwnInv, AnswerForRequest
    <3> QED BY <2>2, <3>3 DEF OwnInv
  <2>4. CASE ~(r # NoRecord /\ ~r.expired /\ Decide(r, c) = "replay")
    <3>1. UNCHANGED answer
      BY <1>2, <2>4 DEF Get
    <3> QED BY <2>2, <3>1 DEF OwnInv, AnswerForRequest
  <2> QED BY <2>3, <2>4
<1>3. ASSUME NEW c \in Call, Expire(c) PROVE OwnInv'
  <2>1. /\ UNCHANGED <<lock, answer>>
        /\ \A d \in Call : pc'[d] \in Working => pc[d] \in Working
    BY <1>3 DEF Inv, TypeOK, Expire, Again, Goto, Refuse, Working
  <2>2. \A j \in Key :
          \/ table'[j] = table[j]
          \/ table'[j] = NoRecord /\ table[j].expired /\ lock[j] = NoLock
    BY <1>3, KeyOfAssumption DEF Inv, TypeOK, Expire, Expires, RowFree
  <2>3. Owned'
    BY <2>1, <2>2, KeyOfAssumption DEF OwnInv, Owned
  <2>4. LockerInserted' /\ SettlerInserted' /\ AnswerForRequest'
    BY <2>1, <2>2
    DEF OwnInv, LockerInserted, SettlerInserted, AnswerForRequest
  <2> QED BY <2>3, <2>4 DEF OwnInv
<1>4. ASSUME NEW c \in Call,
             \/ ClaimFails(c) \/ ExecuteFails(c) \/ CommitUncertain(c)
             \/ ReleaseFails(c) \/ Crash(c)
      PROVE  OwnInv'
  <2>1. /\ UNCHANGED <<table, lock, answer>>
        /\ \A d \in Call : pc'[d] \in Working => pc[d] \in Working
    BY <1>4
    DEF Inv, TypeOK, ClaimFails, ExecuteFails, CommitUncertain, ReleaseFails,
        Crash, Goto, Refuse, Working
  <2> QED
    BY <2>1
    DEF OwnInv, Owned, LockerInserted, SettlerInserted, AnswerForRequest
<1>5. ASSUME NEW c \in Call, NEW s \in {"SUCCEEDED", "FAILED"},
             pc[c] \in Working, Complete(c, s)
      PROVE  OwnInv'
  <2> DEFINE k == KeyOf[c]
             held == [call |-> c, state |-> s]
  <2>1. /\ UNCHANGED <<table, answer>>
        /\ \A d \in Call : pc'[d] \in Working => pc[d] \in Working
        /\ \A j \in Key : lock'[j] = lock[j] \/ (j = k /\ lock'[j] = held)
    BY <1>5, KeyOfAssumption
    DEF Inv, TypeOK, Complete, Goto, Working
  <2>2. held.call = table[k].inserter
    BY <1>5 DEF OwnInv, Owned
  <2>3. LockerInserted'
    BY <2>1, <2>2 DEF OwnInv, LockerInserted
  <2> QED
    BY <2>1, <2>3 DEF OwnInv, Owned, SettlerInserted, AnswerForRequest
<1>6. ASSUME NEW c \in Call, ExecuteSucceeds(c) \/ SettleFailure(c)
      PROVE  OwnInv'
  BY <1>5, <1>6 DEF ExecuteSucceeds, SettleFailure, Working
<1>7. ASSUME NEW k \in Key, lock[k] # NoLock, Committed(k),
             \A d \in Call : pc'[d] \in Working => pc[d] \in Working
      PROVE  Owned' /\ LockerInserted' /\ SettlerInserted'
  <2>1. Owned'
    BY <1>7, CommittedOwn, KeyOfAssumption DEF OwnInv, Owned
  <2>2. LockerInserted' /\ SettlerInserted'
    BY <1>7, CommittedOwn DEF OwnInv, LockerInserted, SettlerInserted
  <2> QED BY <2>1, <2>2
<1>8. ASSUME NEW c \in Call, CommitSucceeds(c) PROVE OwnInv'
  <2> DEFINE resp == [state |-> lock[KeyOf[c]].state, settler |-> c]
  <2>1. KeyOf[c] \in Key /\ lock[KeyOf[c]] # NoLock
    BY <1>8, KeyOfAssumption DEF Inv, CommitterHolds, CommitSucceeds
  <2>2. /\ \A d \in Call : pc'[d] \in Working => pc[d] \in Working
        /\ answer' = [answer EXCEPT ![c] = resp]
    BY <1>8 DEF Inv, TypeOK, CommitSucceeds, Return, Goto, Working
  <2>3. Owned' /\ LockerInserted' /\ SettlerInserted'
    BY <1>7, <1>8, <2>1, <2>2 DEF CommitSucceeds
  <2>4. resp.settler = c
    OBVIOUS
  <2>5. AnswerForRequest'
    BY <2>2, <2>4 DEF Inv, TypeOK, OwnInv, AnswerForRequest
  <2> QED BY <2>3, <2>5 DEF OwnInv
<1>9. ASSUME NEW c \in Call, Release(c) PROVE OwnInv'
  <2> DEFINE k == KeyOf[c]
  <2>1. /\ lock[k] = NoLock
        /\ UNCHANGED <<lock, answer>>
        /\ \A j \in Key : \/ table'[j] = table[j]
                          \/ j = k /\ table'[j] = NoRecord
        /\ \A d \in Call : pc'[d] \in Working => pc[d] \in Working /\ d # c
    BY <1>9, KeyOfAssumption
    DEF Inv, TypeOK, Release, RowFree, Goto, Refuse, Working
  <2>2. \A d \in Call : pc'[d] \in Working => KeyOf[d] # k
    BY <1>9, <2>1 DEF OwnInv, Owned, Release, Working
  <2>3. Owned'
    BY <2>1, <2>2, KeyOfAssumption DEF OwnInv, Owned
  <2>4. LockerInserted' /\ SettlerInserted' /\ AnswerForRequest'
    BY <2>1 DEF OwnInv, LockerInserted, SettlerInserted, AnswerForRequest
  <2> QED BY <2>3, <2>4 DEF OwnInv
<1>10. ASSUME NEW k \in Key, Resolve(k) PROVE OwnInv'
  <2>1. lock[k] # NoLock /\ UNCHANGED <<pc, answer>>
    BY <1>10 DEF Resolve, RowFree
  <2>2. CASE Committed(k)
    BY <1>7, <2>1, <2>2 DEF OwnInv, AnswerForRequest
  <2>3. CASE ~Committed(k)
    <3>1. UNCHANGED table /\ lock' = [lock EXCEPT ![k] = NoLock]
      BY <1>10, <2>3 DEF Resolve
    <3> QED
      BY <2>1, <3>1
      DEF Inv, TypeOK, OwnInv, Owned, LockerInserted, SettlerInserted,
          AnswerForRequest
  <2> QED BY <2>2, <2>3
<1>11. ASSUME NEW k \in Key, Lapse(k) PROVE OwnInv'
  <2>1. /\ \A c \in Call : KeyOf[c] = k => pc[c] \notin Working
        /\ UNCHANGED <<lock, pc, answer>>
    BY <1>11 DEF Lapse
  <2>2. table[k] \in Record
    BY <1>11 DEF Inv, TypeOK, Lapse
  <2>3. /\ \A j \in Key : j # k => table'[j] = table[j]
        /\ table'[k] = [table[k] EXCEPT !.expired = TRUE]
    BY <1>11 DEF Inv, TypeOK, Lapse
  <2>4. /\ table'[k].inserter = table[k].inserter
        /\ table'[k].settler = table[k].settler
    BY <2>2, <2>3 DEF Record
  <2>5. Owned'
    BY <2>1, <2>3, KeyOfAssumption DEF OwnInv, Owned
  <2>6. LockerInserted' /\ SettlerInserted' /\ AnswerForRequest'
    BY <1>11, <2>1, <2>3, <2>4
    DEF OwnInv, LockerInserted, SettlerInserted, AnswerForRequest, Lapse
  <2> QED BY <2>5, <2>6 DEF OwnInv
<1>12. CASE UNCHANGED vars
  BY <1>12
  DEF OwnInv, Owned, LockerInserted, SettlerInserted, AnswerForRequest, vars
<1> QED
  BY <1>1, <1>2, <1>3, <1>4, <1>6, <1>8, <1>9, <1>10, <1>11, <1>12, NextCases

LEMMA OwnAlways == RetentionOutlivesCalls => (Spec => []OwnInv)
<1> SUFFICES ASSUME RetentionOutlivesCalls PROVE Spec => []OwnInv
  OBVIOUS
<1>1. Inv /\ OwnInv /\ [Next]_vars => OwnInv'
  BY OwnNext
<1> QED BY <1>1, OwnInit, InvInit, InvNext, PTL DEF Spec

(* A key reused with another body never replays the first body's response: *)
(* Decide compares digests first, and the row's settler is its inserter.   *)
THEOREM ReplayMatchesRequest ==
  RetentionOutlivesCalls => (Spec => []AnswerForRequest)
<1>1. OwnInv => AnswerForRequest
  BY DEF OwnInv
<1> QED BY <1>1, OwnAlways, PTL

(* claim lets through one call of a key at a time: while a call executes,  *)
(* the row it inserted is there for every other call to find.              *)
THEOREM SingleExecutor == RetentionOutlivesCalls => (Spec => []OneExecutor)
<1>1. OwnInv => OneExecutor
  BY DEF OwnInv, Owned, OneExecutor
<1> QED BY <1>1, OwnAlways, PTL

-----------------------------------------------------------------------------
(* The guard implements its promise                                        *)
(*                                                                         *)
(* The promise's outcome of a key is what its settled row says (Outcome).  *)
(* Two facts more are needed: a transaction updates the row of its own     *)
(* call's key, so that its commit is that call's Settle; and Do has told a *)
(* call nothing before it returns, so that a call is told once.            *)

LockerOfKey == \A k \in Key : lock[k] # NoLock => KeyOf[lock[k].call] = k

UntoldUntilDone ==
  \A c \in Call : pc[c] \notin {"done", "crashed"} => answer[c] = NoAnswer

ToldInv == LockerOfKey /\ UntoldUntilDone

LEMMA ToldInit == Init => ToldInv
  BY DEF Init, ToldInv, LockerOfKey, UntoldUntilDone

LEMMA ToldNext == Inv /\ ToldInv /\ [Next]_vars => ToldInv'
<1> SUFFICES ASSUME Inv, ToldInv, [Next]_vars PROVE ToldInv'
  OBVIOUS
<1>1. ASSUME NEW c \in Call,
             \/ Insert(c) \/ Get(c) \/ Expire(c) \/ ClaimFails(c)
             \/ ExecuteFails(c) \/ CommitUncertain(c)
             \/ Release(c) \/ ReleaseFails(c) \/ Crash(c)
      PROVE  ToldInv'
  <2>1. UNCHANGED lock
    BY <1>1
    DEF Insert, Get, Expire, ClaimFails, ExecuteFails, CommitUncertain,
        Release, ReleaseFails, Crash
  <2>2. CASE Get(c)
    BY <2>1, <2>2
    DEF Inv, TypeOK, ToldInv, LockerOfKey, UntoldUntilDone,
        Get, Again, Goto, Return, Refuse
  <2>3. CASE ~Get(c)
    <3>1. /\ UNCHANGED answer
          /\ \A d \in Call : pc'[d] \notin {"done", "crashed"} =>
                               pc[d] \notin {"done", "crashed"}
      BY <1>1, <2>3
      DEF Inv, TypeOK, Insert, Expire, ClaimFails, ExecuteFails,
          CommitUncertain, Release, ReleaseFails, Crash, Again, Goto, Refuse
    <3> QED BY <2>1, <3>1 DEF ToldInv, LockerOfKey, UntoldUntilDone
  <2> QED BY <2>2, <2>3
<1>2. ASSUME NEW c \in Call, ExecuteSucceeds(c) \/ SettleFailure(c)
      PROVE  ToldInv'
  <2>1. PICK s \in {"SUCCEEDED", "FAILED"} : Complete(c, s)
    BY <1>2 DEF ExecuteSucceeds, SettleFailure
  <2> DEFINE held == [call |-> c, state |-> s]
  <2>2. \A j \in Key : lock'[j] = lock[j] \/ (j = KeyOf[c] /\ lock'[j] = held)
    BY <2>1, KeyOfAssumption DEF Inv, TypeOK, Complete
  <2>3. /\ UNCHANGED answer
        /\ \A d \in Call : pc'[d] \notin {"done", "crashed"} =>
                             pc[d] \notin {"done", "crashed"}
    BY <1>2, <2>1
    DEF Inv, TypeOK, Complete, ExecuteSucceeds, SettleFailure, Goto
  <2> QED BY <2>2, <2>3 DEF ToldInv, LockerOfKey, UntoldUntilDone
<1>3. ASSUME NEW c \in Call, CommitSucceeds(c) PROVE ToldInv'
  BY <1>3, KeyOfAssumption
  DEF Inv, TypeOK, ToldInv, LockerOfKey, UntoldUntilDone, CommitSucceeds,
      Committed, Return, Goto
<1>4. ASSUME NEW k \in Key, Resolve(k) PROVE ToldInv'
  <2>1. lock' = [lock EXCEPT ![k] = NoLock] /\ UNCHANGED <<pc, answer>>
    BY <1>4 DEF Resolve, Committed
  <2> QED
    BY <2>1 DEF Inv, TypeOK, ToldInv, LockerOfKey, UntoldUntilDone
<1>5. CASE UNCHANGED vars \/ \E k \in Key : Lapse(k)
  BY <1>5 DEF ToldInv, LockerOfKey, UntoldUntilDone, Lapse, vars
<1> QED BY <1>1, <1>2, <1>3, <1>4, <1>5, NextCases

LEMMA PromiseInit == Init => Promise!Init
  BY DEF Init, Promise!Init, Outcome

(* A committed transaction is a Settle of the call that held the row.      *)
LEMMA CommittedSettles ==
  ASSUME Inv, ToldInv, NEW k \in Key, lock[k] # NoLock, Committed(k)
  PROVE  /\ lock[k].call \in Call /\ KeyOf[lock[k].call] = k
         /\ Outcome(k) = NoRecord
         /\ Outcome(k)' =
              [state |-> lock[k].state, settler |-> lock[k].call]
         /\ [state |-> lock[k].state, settler |-> lock[k].call] \in Response
         /\ \A j \in Key : j # k => Outcome(j)' = Outcome(j)
<1>1. /\ table[k] \in Record /\ table[k].state = "PENDING"
      /\ lock[k] \in Lock
  BY DEF Inv, TypeOK, LockedIsPending
<1>2. table'[k] = Settled(table[k], lock[k])
  BY DEF Inv, TypeOK, Committed
<1>3. /\ Settled(table[k], lock[k]) \in Record
      /\ Settled(table[k], lock[k]).state = lock[k].state
      /\ Settled(table[k], lock[k]).settler = lock[k].call
      /\ lock[k].state # "PENDING"
  BY <1>1 DEF Settled, Record, Lock
<1>4. Outcome(k)' = [state |-> lock[k].state, settler |-> lock[k].call]
  BY <1>2, <1>3, NoRecordAssumption DEF Outcome
<1>5. [state |-> lock[k].state, settler |-> lock[k].call] \in Response
  BY <1>1 DEF Lock, Response
<1>6. \A j \in Key : j # k => Outcome(j)' = Outcome(j)
  BY DEF Inv, TypeOK, Committed, Outcome
<1>7. lock[k].call \in Call /\ KeyOf[lock[k].call] = k
  BY <1>1 DEF ToldInv, LockerOfKey, Lock
<1> QED BY <1>1, <1>4, <1>5, <1>6, <1>7 DEF Outcome

(* Every statement of Do, and every decision of the database, is a step of *)
(* the promise or leaves it as it is.                                      *)
LEMMA PromiseNext ==
  Inv /\ OwnInv /\ ToldInv /\ [Next]_vars => [Promise!Next]_Promise!vars
<1> SUFFICES ASSUME Inv, OwnInv, ToldInv, [Next]_vars
             PROVE  [Promise!Next]_Promise!vars
  OBVIOUS
<1> DEFINE outcomes == [k \in Key |-> Outcome(k)]
<1>a. ASSUME UNCHANGED answer, \A j \in Key : Outcome(j)' = Outcome(j)
      PROVE  [Promise!Next]_Promise!vars
  BY <1>a DEF Promise!vars
<1>1. ASSUME NEW c \in Call, Insert(c) PROVE [Promise!Next]_Promise!vars
  <2>1. NewPending(c).state = "PENDING"
    BY DEF NewPending
  <2>2. UNCHANGED answer /\ \A j \in Key : Outcome(j)' = Outcome(j)
    BY <1>1, <2>1, KeyOfAssumption DEF Inv, TypeOK, Insert, Outcome
  <2> QED BY <1>a, <2>2
<1>2. ASSUME NEW c \in Call, Get(c) PROVE [Promise!Next]_Promise!vars
  <2> DEFINE r == table[KeyOf[c]]
             o == [state |-> r.state, settler |-> r.settler]
  <2>1. \A j \in Key : Outcome(j)' = Outcome(j)
    BY <1>2 DEF Get, Outcome
  <2>2. CASE r # NoRecord /\ ~r.expired /\ Decide(r, c) = "replay"
    <3>1. KeyOf[c] \in Key /\ r \in Record /\ r.state # "PENDING"
      BY <2>2, KeyOfAssumption DEF Inv, TypeOK, Decide
    <3>2. Outcome(KeyOf[c]) = o /\ o \in Response /\ o.settler = r.settler
      BY <2>2, <3>1 DEF Outcome, Record, Response
    <3>3. DigestOf[r.settler] = DigestOf[c]
      BY <2>2, <3>1 DEF OwnInv, SettlerInserted, Decide
    <3>4. answer[c] = NoAnswer
      BY <1>2 DEF ToldInv, UntoldUntilDone, Get
    <3>5. answer' = [answer EXCEPT ![c] = o]
      BY <1>2, <2>2 DEF Get, Return
    <3>6. outcomes[KeyOf[c]] = o /\ outcomes' = outcomes
      BY <2>1, <3>1, <3>2
    <3>7. o # NoRecord
      BY <3>2, NoRecordAssumption
    <3>8. Promise!Replay(c)
      BY <3>2, <3>3, <3>4, <3>5, <3>6, <3>7 DEF Promise!Replay
    <3> QED BY <3>8 DEF Promise!Next
  <2>3. CASE ~(r # NoRecord /\ ~r.expired /\ Decide(r, c) = "replay")
    <3>1. UNCHANGED answer
      BY <1>2, <2>3 DEF Get
    <3> QED BY <1>a, <2>1, <3>1
  <2> QED BY <2>2, <2>3
<1>3. ASSUME NEW c \in Call, Expire(c) PROVE [Promise!Next]_Promise!vars
  <2> DEFINE k == KeyOf[c]
  <2>1. k \in Key /\ UNCHANGED answer
    BY <1>3, KeyOfAssumption DEF Expire
  <2>2. CASE ~Expires(table[k]) \/ Outcome(k) = NoRecord
    <3>1. \A j \in Key : Outcome(j)' = Outcome(j)
      BY <1>3, <2>1, <2>2 DEF Inv, TypeOK, Expire, Outcome
    <3> QED BY <1>a, <2>1, <3>1
  <2>3. CASE Expires(table[k]) /\ Outcome(k) # NoRecord
    <3>1. /\ Outcome(k)' = NoRecord
          /\ \A j \in Key : j # k => Outcome(j)' = Outcome(j)
      BY <1>3, <2>1, <2>3 DEF Inv, TypeOK, Expire, Outcome
    <3>2. outcomes' = [outcomes EXCEPT ![k] = NoRecord]
      BY <2>1, <3>1
    <3>3. outcomes[k] # NoRecord
      BY <2>1, <2>3
    <3>4. Promise!Forget(k)
      BY <2>1, <3>2, <3>3 DEF Promise!Forget
    <3> QED BY <2>1, <3>4 DEF Promise!Next
  <2> QED BY <2>2, <2>3
<1>4. ASSUME NEW c \in Call,
             \/ ClaimFails(c) \/ ExecuteFails(c) \/ CommitUncertain(c)
             \/ ReleaseFails(c) \/ Crash(c)
             \/ ExecuteSucceeds(c) \/ SettleFailure(c)
      PROVE  [Promise!Next]_Promise!vars
  <2>1. UNCHANGED <<table, answer>>
    BY <1>4
    DEF ClaimFails, ExecuteFails, CommitUncertain, ReleaseFails, Crash,
        ExecuteSucceeds, SettleFailure, Complete
  <2> QED BY <1>a, <2>1 DEF Outcome
<1>5. ASSUME NEW c \in Call, CommitSucceeds(c)
      PROVE  [Promise!Next]_Promise!vars
  <2> DEFINE k == KeyOf[c]
             o == [state |-> lock[k].state, settler |-> c]
  <2>1. k \in Key /\ lock[k] # NoLock /\ lock[k].call = c /\ Committed(k)
    BY <1>5, KeyOfAssumption DEF Inv, CommitterHolds, CommitSucceeds
  <2>2. /\ outcomes[k] = NoRecord
        /\ outcomes' = [outcomes EXCEPT ![k] = o]
        /\ o \in Promise!Outcome /\ o.settler = c
    BY <2>1, CommittedSettles DEF Response, Promise!Outcome
  <2>3. answer[c] = NoAnswer /\ answer' = [answer EXCEPT ![c] = o]
    BY <1>5 DEF ToldInv, UntoldUntilDone, CommitSucceeds, Return
  <2>4. Promise!Settle(c)
    BY <2>2, <2>3 DEF Promise!Settle
  <2> QED BY <2>4 DEF Promise!Next
<1>6. ASSUME NEW c \in Call, Release(c) PROVE [Promise!Next]_Promise!vars
  <2>1. UNCHANGED answer /\ \A j \in Key : Outcome(j)' = Outcome(j)
    BY <1>6, KeyOfAssumption DEF Inv, TypeOK, Release, Releases, Outcome
  <2> QED BY <1>a, <2>1
<1>7. ASSUME NEW k \in Key, Resolve(k) PROVE [Promise!Next]_Promise!vars
  <2>1. lock[k] # NoLock /\ UNCHANGED answer
    BY <1>7 DEF Resolve, RowFree
  <2>2. CASE Committed(k)
    <3> DEFINE c == lock[k].call
               o == [state |-> lock[k].state, settler |-> c]
    <3>1. /\ c \in Call /\ KeyOf[c] = k
          /\ outcomes[k] = NoRecord
          /\ outcomes' = [outcomes EXCEPT ![k] = o]
          /\ o \in Promise!Outcome /\ o.settler = c
      BY <2>1, <2>2, CommittedSettles DEF Response, Promise!Outcome
    <3>2. Promise!Settle(c)
      BY <2>1, <3>1 DEF Promise!Settle
    <3> QED BY <3>1, <3>2 DEF Promise!Next
  <2>3. CASE ~Committed(k)
    <3>1. UNCHANGED table
      BY <1>7, <2>3 DEF Resolve
    <3> QED BY <1>a, <2>1, <3>1 DEF Outcome
  <2> QED BY <2>2, <2>3
<1>8. ASSUME NEW k \in Key, Lapse(k) PROVE [Promise!Next]_Promise!vars
  <2>1. table[k] \in Record /\ UNCHANGED answer
    BY <1>8 DEF Inv, TypeOK, Lapse
  <2> DEFINE lapsed == [table[k] EXCEPT !.expired = TRUE]
  <2>2. /\ lapsed \in Record
        /\ lapsed.state = table[k].state /\ lapsed.settler = table[k].settler
    BY <2>1 DEF Record
  <2>3. /\ table'[k] = lapsed /\ table[k] # NoRecord
        /\ \A j \in Key : j # k => table'[j] = table[j]
    BY <1>8 DEF Inv, TypeOK, Lapse
  <2>4. \A j \in Key : Outcome(j)' = Outcome(j)
    BY <2>2, <2>3, NoRecordAssumption DEF Outcome
  <2> QED BY <1>a, <2>1, <2>4
<1>9. CASE UNCHANGED vars
  BY <1>a, <1>9 DEF vars, Outcome
<1> QED
  BY <1>1, <1>2, <1>3, <1>4, <1>5, <1>6, <1>7, <1>8, <1>9, NextCases

(* Do's contract: within a key's retention a request has one outcome, and  *)
(* every caller that is given a response is given that one, for the body   *)
(* it sent, however statements, crashes and late commits interleave.       *)
THEOREM ImplementsPromise == RetentionOutlivesCalls => (Spec => KeepsPromise)
<1> SUFFICES ASSUME RetentionOutlivesCalls PROVE Spec => KeepsPromise
  OBVIOUS
<1>1. Spec => []Inv
  BY InvInit, InvNext, PTL DEF Spec
<1>2. Spec => []ToldInv
  BY <1>1, ToldInit, ToldNext, PTL DEF Spec
<1>3. Spec => []OwnInv
  BY OwnAlways
<1> QED
  BY <1>1, <1>2, <1>3, PromiseInit, PromiseNext, PTL
  DEF Spec, KeepsPromise, Promise!Spec
=============================================================================
