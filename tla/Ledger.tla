-------------------------------- MODULE Ledger --------------------------------
(***************************************************************************)
(* Committed decisions and what they move (internal/app/determination.go,  *)
(* fiscal.go, fiscal_record.go, refund.go; internal/domain/accumulator).   *)
(*                                                                         *)
(* A :commit or :adjust locks the accumulators its content binds, in       *)
(* canonical order, evaluates against their totals, inserts the decision,  *)
(* and commits it with its contributions, threshold crossings and          *)
(* journals.  A refund returns part of the tax a decision posted.          *)
(***************************************************************************)
EXTENDS Integers, Sequences, FiniteSetsExt

CONSTANTS
  Call,               \* each records one decision, and is known by it
  Adjusting,          \* the :adjust calls, the others being :commit
  Supersedes,         \* the decision each call names, or None
  Binding, Month,     \* numbers, in the order of the accumulator keys
  MonthOf,            \* the month of each call's event time
  Amount,             \* what each decision contributes, by binding
  Limit,              \* the thresholds of each binding
  Tax,                \* what each decision posts to the collected liability
  Refund, RefundOf, RefundAmount,
  None,
  MaxFaults           \* bound: transactions that fail

ASSUME OrderAssumption == Binding \subseteq Nat /\ Month \subseteq Nat
ASSUME CallAssumption ==
  /\ Adjusting \subseteq Call
  /\ Supersedes \in [Call -> Call \cup {None}]
  /\ \A c \in Adjusting : Supersedes[c] # None
  /\ MonthOf \in [Call -> Month]
  /\ \A c \in Call : \E B \in SUBSET Binding : Amount[c] \in [B -> Int]
  /\ Tax \in [Call -> Nat]
ASSUME LimitAssumption == Limit \in [Binding -> SUBSET Int]
ASSUME RefundAssumption ==
  RefundOf \in [Refund -> Call] /\ RefundAmount \in [Refund -> Nat \ {0}]
ASSUME FaultAssumption == MaxFaults \in Nat

Key == Binding \X Month
Snapshot == [total : Int, seq : Nat, crossed : SUBSET Int]
Journal == {"DECISION_COMMITTED", "DECISION_SUPERSEDED"} \X Call
             \cup {"REFUND_COMPLETED"} \X Refund
Nothing == [k \in Key |-> None]

ASSUME NoneAssumption == None \notin Call \cup Snapshot

VARIABLES
  decided,     \* decisions committed
  log,         \* each accumulator's contributions, in sequence order
  snapshot,    \* each accumulator's stored total
  crossing,    \* threshold crossings recorded
  journal,     \* journals posted
  step,        \* where each call's transaction is
  held,        \* the snapshot of each accumulator it holds locked
  reads,       \* the totals each decision was evaluated against
  status,      \* each refund's latest status
  faults

books == <<decided, log, snapshot, crossing, journal>>
vars == <<books, step, held, reads, status, faults>>

TypeOK ==
  /\ decided \subseteq Call
  /\ log \in [Key -> Seq([of : Call, amount : Int])]
  /\ snapshot \in [Key -> Snapshot]
  /\ crossing \subseteq [key : Key, limit : Int, seq : Nat]
  /\ journal \subseteq Journal
  /\ step \in [Call -> {"idle", "locking", "appended", "over"}]
  /\ held \in [Call -> [Key -> Snapshot \cup {None}]]
  /\ \A c \in Call : step[c] \in {"idle", "over"} => held[c] = Nothing
  /\ reads \in [Call -> [Binding -> Int]]
  /\ status \in [Refund -> {"none", "admitting", "refused", "REQUESTED",
                            "PENDING", "UNCERTAIN", "COMPLETED", "FAILED"}]
  /\ faults \in 0..MaxFaults

Init ==
  /\ decided = {} /\ crossing = {} /\ journal = {}
  /\ log = [k \in Key |-> <<>>]
  /\ snapshot = [k \in Key |-> [total |-> 0, seq |-> 0, crossed |-> {}]]
  /\ step = [c \in Call |-> "idle"] /\ held = [c \in Call |-> Nothing]
  /\ reads = [c \in Call |-> [b \in Binding |-> 0]]
  /\ status = [r \in Refund |-> "none"]
  /\ faults = 0

Superseded(d) == \E c \in decided : Supersedes[c] = d

-----------------------------------------------------------------------------
(* The accumulators                                                        *)

Bound(c) == Binding \X {MonthOf[c]}
Needs(c) ==
  Bound(c) \cup IF c \in Adjusting THEN Bound(Supersedes[c]) ELSE {}
Holds(c) == {k \in Key : held[c][k] # None}
Missing(c) == Needs(c) \ Holds(c)

(* Canonical order: by name, then by the period's first day.               *)
AnyOrder(k, l) == TRUE
Before(k, l) == k[1] < l[1] \/ (k[1] = l[1] /\ k[2] <= l[2])

(* A caller can name only a decision it was told of.                       *)
Begin(c) ==
  /\ step[c] = "idle"
  /\ Supersedes[c] \in decided \cup {None}
  /\ step' = [step EXCEPT ![c] = "locking"]
  /\ UNCHANGED <<books, held, reads, status, faults>>

Free(k) == \A c \in Call : k \notin Holds(c)

LockNext(c) ==
  /\ step[c] = "locking"
  /\ \E k \in Missing(c) :
       /\ \A l \in Missing(c) : Before(k, l)
       /\ Free(k)
       /\ held' = [held EXCEPT ![c][k] = snapshot[k]]
  /\ UNCHANGED <<books, step, reads, status, faults>>

ReadsNow(c) == [b \in Binding |-> held[c][<<b, MonthOf[c]>>].total]

(* A correction re-decides at the original's point in its period.          *)
ReadSet(c) ==
  IF c \in Adjusting THEN reads[Supersedes[c]]
  ELSE ReadsNow(c)

(* One successor a decision: the unique index makes an insert wait for     *)
(* another that is not yet committed, and fail on one that is.             *)
NoOneElse(c) == TRUE
Alone(c) ==
  \A d \in Call : step[d] = "appended" => Supersedes[d] # Supersedes[c]

AppendDecision(c) ==
  /\ step[c] = "locking" /\ Missing(c) = {}
  /\ Supersedes[c] # None => ~Superseded(Supersedes[c]) /\ Alone(c)
  /\ reads' = [reads EXCEPT ![c] = ReadSet(c)]
  /\ step' = [step EXCEPT ![c] = "appended"]
  /\ UNCHANGED <<books, held, status, faults>>

(* A transaction that ends releases its locks.                             *)
End(c, to) ==
  /\ step' = [step EXCEPT ![c] = to]
  /\ held' = [held EXCEPT ![c] = Nothing]

RefuseSuccessor(c) ==
  /\ step[c] = "locking" /\ Missing(c) = {}
  /\ Supersedes[c] # None /\ Superseded(Supersedes[c])
  /\ End(c, "over")
  /\ UNCHANGED <<books, reads, status, faults>>

-----------------------------------------------------------------------------
(* What a decision moves                                                   *)

Own(c) == (DOMAIN Amount[c]) \X {MonthOf[c]}

Contributed(k, c) == \E i \in DOMAIN log[k] : log[k][i].of = c

(* A correction takes back all that the corrected decision contributed.    *)
Withdrawn(c) ==
  IF c \in Adjusting
  THEN {k \in Own(Supersedes[c]) : Contributed(k, Supersedes[c])} ELSE {}

(* One contribution a key, whatever a correction both withdraws and adds.  *)
Overwrites(c, k) ==
  IF k \in Own(c) THEN Amount[c][k[1]] ELSE -Amount[Supersedes[c]][k[1]]
Contribution(c, k) ==
  (IF k \in Own(c) THEN Amount[c][k[1]] ELSE 0)
    - (IF k \in Withdrawn(c) THEN Amount[Supersedes[c]][k[1]] ELSE 0)

CrossesAgain(k, s, after) == {l \in Limit[k[1]] : s.total < l /\ after >= l}
Crosses(k, s, after) == {l \in Limit[k[1]] : l \notin s.crossed /\ after >= l}

Apply(k, s, amount) ==
  [total |-> s.total + amount, seq |-> s.seq + 1,
   crossed |-> s.crossed \cup Crosses(k, s, s.total + amount)]

(* Only an :adjust reverses: a :commit that names supersedes has no prior. *)
Journals(c) ==
  (IF Tax[c] > 0 THEN {<<"DECISION_COMMITTED", c>>} ELSE {})
    \cup {j \in {<<"DECISION_SUPERSEDED", Supersedes[c]>>} :
            c \in Adjusting /\ <<"DECISION_COMMITTED", Supersedes[c]>> \in journal}

Commit(c) ==
  /\ step[c] = "appended"
  /\ LET touched == Own(c) \cup Withdrawn(c)
         next(k) == Apply(k, held[c][k], Contribution(c, k))
     IN
     /\ \A k \in touched : next(k).seq = Len(log[k]) + 1
     /\ log' = [k \in Key |->
          IF k \in touched
          THEN Append(log[k], [of |-> c, amount |-> Contribution(c, k)])
          ELSE log[k]]
     /\ snapshot' = [k \in Key |->
          IF k \in touched THEN next(k) ELSE snapshot[k]]
     /\ crossing' = crossing \cup UNION
          {{[key |-> k, limit |-> l, seq |-> next(k).seq] :
              l \in Crosses(k, held[c][k], next(k).total)} : k \in touched}
  /\ journal' = journal \cup Journals(c)
  /\ decided' = decided \cup {c}
  /\ End(c, "over")
  /\ UNCHANGED <<reads, status, faults>>

(* A lock timeout, a deadlock, a closed period, a lost connection: the     *)
(* transaction rolls back, and its caller may try again.                   *)
Fail(c) ==
  /\ step[c] \in {"locking", "appended"}
  /\ faults < MaxFaults
  /\ faults' = faults + 1
  /\ End(c, "idle")
  /\ UNCHANGED <<books, reads, status>>

-----------------------------------------------------------------------------
(* Refunds                                                                 *)

ReservesKnown(s) == s \in {"REQUESTED", "PENDING", "COMPLETED"}
Reserves(s) == s \in {"REQUESTED", "PENDING", "UNCERTAIN", "COMPLETED"}

Reserved(d) ==
  MapThenSumSet(LAMBDA r : RefundAmount[r],
                {r \in Refund : RefundOf[r] = d /\ Reserves(status[r])})

Collected(d) == IF <<"DECISION_COMMITTED", d>> \in journal THEN Tax[d] ELSE 0

LockedForRefund(d) ==
  \E r \in Refund : RefundOf[r] = d /\ status[r] = "admitting"

Refundable(r) ==
  /\ ~Superseded(RefundOf[r])
  /\ Reserved(RefundOf[r]) + RefundAmount[r] <= Collected(RefundOf[r])

(* The decision's refund lock, and the checks under it.                    *)
Check(r) ==
  /\ status[r] = "none"
  /\ RefundOf[r] \in decided /\ ~LockedForRefund(RefundOf[r])
  /\ status' = [status EXCEPT ![r] =
                  IF Refundable(r) THEN "admitting" ELSE "refused"]
  /\ UNCHANGED <<books, step, held, reads, faults>>

Admit(r) ==
  /\ status[r] = "admitting"
  /\ status' = [status EXCEPT ![r] = "REQUESTED"]
  /\ UNCHANGED <<books, step, held, reads, faults>>

(* Its caller asks again under the same key.                               *)
FailAdmission(r) ==
  /\ status[r] = "admitting"
  /\ faults < MaxFaults
  /\ faults' = faults + 1
  /\ status' = [status EXCEPT ![r] = "none"]
  /\ UNCHANGED <<books, step, held, reads>>

CanMoveTo(from, to) ==
  \/ to = "PENDING" /\ from \in {"REQUESTED", "UNCERTAIN"}
  \/ to \in {"COMPLETED", "FAILED"}
       /\ from \in {"REQUESTED", "PENDING", "UNCERTAIN"}
  \/ to = "UNCERTAIN" /\ from \in {"REQUESTED", "PENDING"}

(* What the provider says, under the lock admissions take.                 *)
Report(r) ==
  /\ ~LockedForRefund(RefundOf[r])
  /\ \E to \in {"PENDING", "UNCERTAIN", "COMPLETED", "FAILED"} :
       /\ CanMoveTo(status[r], to)
       /\ status' = [status EXCEPT ![r] = to]
       /\ journal' = IF to = "COMPLETED"
                     THEN journal \cup {<<"REFUND_COMPLETED", r>>} ELSE journal
  /\ UNCHANGED <<decided, log, snapshot, crossing, step, held, reads, faults>>

-----------------------------------------------------------------------------

Proceed(c) ==
  LockNext(c) \/ AppendDecision(c) \/ RefuseSuccessor(c) \/ Commit(c)

(* A :quote reads without locks and records nothing: a cell with nothing   *)
(* left to commit still answers, and CallEnds is what rules deadlock out.  *)
Quote == UNCHANGED vars

Next ==
  \/ \E c \in Call : Begin(c) \/ Proceed(c) \/ Fail(c)
  \/ \E r \in Refund : Check(r) \/ Admit(r) \/ FailAdmission(r) \/ Report(r)
  \/ Quote

Spec == Init /\ [][Next]_vars

(* A transaction that can go on does; callers and providers need not.      *)
Fairness == \A c \in Call : WF_vars(Proceed(c))
FairSpec == Spec /\ Fairness

-----------------------------------------------------------------------------
(* Properties                                                              *)

SumOf(s) == MapThenSumSet(LAMBDA i : s[i].amount, DOMAIN s)
TotalAt(k, n) == SumOf(SubSeq(log[k], 1, n))

(* Whoever holds an accumulator's lock holds its current total: no commit  *)
(* moves a total under another that has already read it (LockAll).         *)
HeldIsCurrent ==
  \A c \in Call : \A k \in Holds(c) : held[c][k] = snapshot[k]

(* A stored total is what the standing decisions contribute: corrections   *)
(* of corrections, across months, neither lose nor count anything twice    *)
(* (record, mergeContributions).                                           *)
Standing(k) ==
  {d \in decided : k \in Own(d) /\ ~\E a \in decided \cap Adjusting :
                                      Supersedes[a] = d}
TotalsOfStanding ==
  \A k \in Key : snapshot[k].total =
    MapThenSumSet(LAMBDA d : Amount[d][k[1]], Standing(k))

(* A threshold is recorded as crossed exactly once, by the contribution    *)
(* that first reached it, whatever withdrawals and returns come after it   *)
(* (Apply, Rebuild).                                                       *)
CrossedOnce ==
  \A k \in Key : \A l \in Limit[k[1]] :
    {x.seq : x \in {y \in crossing : y.key = k /\ y.limit = l}} =
      {n \in DOMAIN log[k] : /\ TotalAt(k, n) >= l
                             /\ \A m \in 1..n-1 : TotalAt(k, m) < l}

(* A decision was evaluated against exactly what came before it in the     *)
(* log, and a correction against what the decision it corrects saw, so a   *)
(* replay finds the same (readSet, record).                                *)
ReadsItsPast ==
  \A c \in decided :
    IF c \in Adjusting THEN reads[c] = reads[Supersedes[c]]
    ELSE \A k \in Own(c) : \E n \in DOMAIN log[k] :
           log[k][n].of = c /\ reads[c][k[1]] = TotalAt(k, n - 1)

(* Corrections form a line: a decision has at most one successor, however  *)
(* many calls name it at once (checkSupersedes, tax_decision_one_successor).*)
OneSuccessor ==
  \A c, d \in decided :
    Supersedes[c] # None /\ Supersedes[c] = Supersedes[d] => c = d

(* Refunds that paid or may pay never exceed the tax their decision        *)
(* posted, whatever order admissions and reports come in (admit, Reserves).*)
RefundsWithinTax ==
  \A d \in Call :
    MapThenSumSet(LAMBDA r : RefundAmount[r],
      {r \in Refund : RefundOf[r] = d /\
         status[r] \notin {"none", "admitting", "refused", "FAILED"}})
      <= Collected(d)

(* Calls that lock accumulators of several months never wait for each      *)
(* other in a circle: each one ends (LockOrder).                           *)
CallEnds ==
  \A c \in Call : step[c] \in {"locking", "appended"} ~>
                    step[c] \in {"over", "idle"}
==============================================================================
