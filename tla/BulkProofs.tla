---------------------------- MODULE BulkProofs ----------------------------
(***************************************************************************)
(* Theorems about the two bulk operations, for any number of workers and   *)
(* items, people and runs: a batch job, and a migration program.           *)
(*                                                                         *)
(* A batch job's lease excludes nobody, so the argument rests on the      *)
(* items' keys: a worker that executes an item found its key unclaimed     *)
(* (ExecutorClaimed), and is the only one (SoleExecutor); what a worker is *)
(* about to record is what the key settled, or a refusal that could not be *)
(* (OutcomeTold); a settled key never changes, and the key of an item that *)
(* does not read back is never claimed (UndecodableUnclaimed).  A worker   *)
(* has not yet done every item that has no result (TodoCovers), so that    *)
(* one with nothing left may complete the job.                             *)
(*                                                                         *)
(* A cutover's lock excludes neither runs nor decisions, so the argument   *)
(* rests on what they cannot do: a run once committed keeps what it found, *)
(* and its open exceptions only close (Keeps), so a run that was ready is  *)
(* ready for good (SwitchInv).  What the lock does exclude is two moves of *)
(* the cutover's status, which is why each follows from the one before     *)
(* (Moves).                                                                *)
(***************************************************************************)
EXTENDS BatchJob, Migration, SequenceTheorems, FiniteSetTheorems, TLAPS

AtItem == {"claim", "execute", "append"}

CommittedByKey ==
  \A i \in Item : committed[i] = IF key[i] = "SUCCEEDED" THEN 1 ELSE 0

ExecutorClaimed ==
  \A w \in Worker : pc[w] = "execute" => key[item[w]] = "PENDING"

SoleExecutor ==
  \A v, w \in Worker :
    pc[v] = "execute" /\ pc[w] = "execute" /\ item[v] = item[w] => v = w

UndecodableUnclaimed == \A i \in Undecodable : key[i] = "none"

(* What a refusal may rest on.                                             *)
RefusalTold(i) == key[i] = "FAILED" \/ i \in Undecodable \/ i \in unsettled

OutcomeTold ==
  \A w \in Worker : pc[w] = "append" =>
    /\ outcome[w] = "SUCCEEDED" => key[item[w]] = "SUCCEEDED"
    /\ outcome[w] = "refused" => RefusalTold(item[w])

ResultTold ==
  \A i \in Item :
    /\ result[i] = "SUCCEEDED" => key[i] = "SUCCEEDED"
    /\ result[i] = "refused" => RefusalTold(i)

TodoCovers ==
  \A w \in Worker : pc[w] \in AtItem \cup {"items"} =>
    \A i \in Item : result[i] = "none" => i \in todo[w]

KeyInv == /\ CommittedByKey /\ ExecutorClaimed /\ SoleExecutor
          /\ UndecodableUnclaimed /\ OutcomeTold /\ ResultTold

DoneInv == TodoCovers /\ CompletedHasResults

Inv == TypeOK /\ KeyInv /\ DoneInv

LEMMA NextCases ==
  ASSUME [Next]_vars
  PROVE  \/ Submit \/ LeaseLapses
         \/ \E w \in Worker :
              \/ ClaimNext(w) \/ Pending(w) \/ StartItem(w) \/ Claim(w)
              \/ ExecuteCommits(w) \/ ExecuteRefuses(w)
              \/ Undecoded(w) \/ RefusalUnsettled(w)
              \/ AppendResult(w) \/ Complete(w)
              \/ RenewRefused(w) \/ PassFails(w) \/ ExecuteFails(w)
         \/ UNCHANGED vars
  BY DEF Next, Work

-----------------------------------------------------------------------------
(* Type correctness                                                        *)

LEMMA TypeInit == Init => TypeOK
<1> SUFFICES ASSUME Init PROVE TypeOK
  OBVIOUS
<1>1. item \in [Worker -> Item]
  BY DEF Init
<1> QED
  BY <1>1, MaxFaultsAssumption DEF Init, TypeOK, Keys, Outcomes, Pcs

LEMMA TypeNext == TypeOK /\ [Next]_vars => TypeOK'
<1> SUFFICES ASSUME TypeOK, [Next]_vars PROVE TypeOK'
  OBVIOUS
<1> USE DEF TypeOK, Goto, Keys, Outcomes, Pcs
<1>1. CASE Submit \/ LeaseLapses
  BY <1>1 DEF Submit, LeaseLapses
<1>2. ASSUME NEW w \in Worker,
             ClaimNext(w) \/ Pending(w) \/ StartItem(w) \/ Complete(w)
      PROVE  TypeOK'
  <2>1. /\ lease' \in {"none", "held", "lapsed"}
        /\ status' = "RUNNING" <=> lease' # "none"
    BY <1>2 DEF ClaimNext, Pending, StartItem, Complete, Stop
  <2>2. /\ status' \in {"QUEUED", "RUNNING", "COMPLETED", "absent"}
        /\ todo' \in [Worker -> SUBSET Item]
        /\ item' \in [Worker -> Item]
    BY <1>2 DEF ClaimNext, Pending, StartItem, Complete, Stop
  <2>3. pc' \in [Worker -> Pcs]
    BY <1>2 DEF ClaimNext, Pending, StartItem, Complete, Stop
  <2>4. UNCHANGED <<result, key, committed, outcome, unsettled, faults>>
    BY <1>2 DEF ClaimNext, Pending, StartItem, Complete, Stop
  <2> QED BY <2>1, <2>2, <2>3, <2>4
<1>3. ASSUME NEW w \in Worker, Undecoded(w) \/ Claim(w) PROVE TypeOK'
  BY <1>3 DEF Undecoded, Claim, Found
<1>4. ASSUME NEW w \in Worker,
             ExecuteCommits(w) \/ ExecuteRefuses(w) \/ AppendResult(w)
      PROVE  TypeOK'
  BY <1>4 DEF ExecuteCommits, ExecuteRefuses, AppendResult, CommitItem,
              KeepFirst
<1>5. ASSUME NEW w \in Worker,
             RenewRefused(w) \/ PassFails(w) \/ ExecuteFails(w)
      PROVE  TypeOK'
  <2>1. faults' \in 0..MaxFaults
    BY <1>5, MaxFaultsAssumption
    DEF RenewRefused, PassFails, ExecuteFails, Fault
  <2> QED
    BY <1>5, <2>1
    DEF RenewRefused, PassFails, ExecuteFails, CommitItem, Fault, StopPass
<1>6. ASSUME NEW w \in Worker, RefusalUnsettled(w) PROVE TypeOK'
  <2>1. faults' \in 0..MaxFaults
    BY <1>6, MaxFaultsAssumption DEF RefusalUnsettled
  <2>2. /\ key' \in [Item -> Keys] /\ unsettled' \subseteq Item
        /\ outcome' \in [Worker -> Outcomes] /\ pc' \in [Worker -> Pcs]
    BY <1>6 DEF RefusalUnsettled
  <2> QED BY <1>6, <2>1, <2>2 DEF RefusalUnsettled
<1>7. CASE UNCHANGED vars
  BY <1>7 DEF vars
<1> QED BY <1>1, <1>2, <1>3, <1>4, <1>5, <1>6, <1>7, NextCases

-----------------------------------------------------------------------------
(* Keys, decisions and results                                             *)

LEMMA KeyInit == Init => KeyInv
  BY UndecodableAssumption
  DEF Init, TypeOK, KeyInv, CommittedByKey, ExecutorClaimed, SoleExecutor,
      UndecodableUnclaimed, OutcomeTold, ResultTold

(* Steps that leave keys, decisions and results alone, and bring no worker *)
(* to an item's execution or its result.                                   *)
LEMMA KeyQuiet ==
  ASSUME KeyInv,
         UNCHANGED <<key, committed, result, outcome, unsettled>>,
         \A w \in Worker : pc'[w] \in {"execute", "append"} =>
           pc'[w] = pc[w] /\ item'[w] = item[w]
  PROVE  KeyInv'
  BY DEF KeyInv, CommittedByKey, ExecutorClaimed, SoleExecutor,
         UndecodableUnclaimed, OutcomeTold, ResultTold, RefusalTold

(* A worker that executes an item settles its key, gives it back or leaves *)
(* it, and nobody else is executing it.                                    *)
LEMMA KeyExecuted ==
  ASSUME TypeOK, KeyInv, NEW w \in Worker, pc[w] = "execute",
         NEW k \in {"SUCCEEDED", "FAILED", "none", "PENDING"},
         key' = [key EXCEPT ![item[w]] = k],
         committed' = IF k = "SUCCEEDED"
                      THEN [committed EXCEPT ![item[w]] = @ + 1]
                      ELSE committed,
         UNCHANGED <<result, item>>, unsettled \subseteq unsettled',
         \A v \in Worker : v # w => pc'[v] = pc[v] /\ outcome'[v] = outcome[v],
         pc'[w] \in {"idle", "append"},
         pc'[w] = "append" /\ outcome'[w] = "SUCCEEDED" => k = "SUCCEEDED",
         pc'[w] = "append" /\ outcome'[w] = "refused" =>
           k = "FAILED" \/ item[w] \in unsettled'
  PROVE  KeyInv'
<1> DEFINE i == item[w]
<1>1. i \in Item /\ key[i] = "PENDING" /\ i \notin Undecodable
  BY DEF TypeOK, KeyInv, ExecutorClaimed, UndecodableUnclaimed
<1>2. key'[i] = k /\ \A j \in Item : j # i => key'[j] = key[j]
  BY <1>1 DEF TypeOK
<1>3. CommittedByKey'
  BY <1>1, <1>2 DEF TypeOK, KeyInv, CommittedByKey
<1>4. \A v \in Worker : pc'[v] = "execute" =>
        v # w /\ pc[v] = "execute" /\ item[v] # i
  BY DEF KeyInv, SoleExecutor
<1>5. ExecutorClaimed' /\ SoleExecutor'
  BY <1>2, <1>4 DEF TypeOK, KeyInv, ExecutorClaimed, SoleExecutor
<1>6. OutcomeTold'
  <2> SUFFICES ASSUME NEW v \in Worker, pc'[v] = "append"
               PROVE  /\ outcome'[v] = "SUCCEEDED" => key'[item[v]] = "SUCCEEDED"
                      /\ outcome'[v] = "refused" => RefusalTold(item[v])'
    BY DEF OutcomeTold
  <2>1. CASE v = w
    BY <1>2, <2>1 DEF RefusalTold
  <2>2. CASE v # w
    <3>1. pc[v] = "append" /\ outcome'[v] = outcome[v] /\ item[v] \in Item
      BY <2>2 DEF TypeOK
    <3> QED BY <1>1, <1>2, <3>1 DEF KeyInv, OutcomeTold, RefusalTold
  <2> QED BY <2>1, <2>2
<1>7. ResultTold'
  BY <1>1, <1>2 DEF KeyInv, ResultTold, RefusalTold
<1>8. UndecodableUnclaimed'
  BY <1>1, <1>2, UndecodableAssumption DEF KeyInv, UndecodableUnclaimed
<1> QED BY <1>3, <1>5, <1>6, <1>7, <1>8 DEF KeyInv

LEMMA KeyNext == TypeOK /\ KeyInv /\ [Next]_vars => KeyInv'
<1> SUFFICES ASSUME TypeOK, KeyInv, [Next]_vars PROVE KeyInv'
  OBVIOUS
<1>1. CASE Submit \/ LeaseLapses \/ UNCHANGED vars
  BY <1>1, KeyQuiet DEF Submit, LeaseLapses, vars
<1>2. ASSUME NEW w \in Worker,
             \/ ClaimNext(w) \/ Pending(w) \/ StartItem(w) \/ Complete(w)
             \/ RenewRefused(w) \/ PassFails(w)
      PROVE  KeyInv'
  <2>1. /\ UNCHANGED <<key, committed, result, outcome, unsettled>>
        /\ \A v \in Worker : pc'[v] \in {"execute", "append"} =>
             pc'[v] = pc[v] /\ item'[v] = item[v]
    BY <1>2
    DEF TypeOK, ClaimNext, Pending, StartItem, Complete, RenewRefused,
        PassFails, Fault, StopPass, Goto
  <2> QED BY <2>1, KeyQuiet
<1>3. ASSUME NEW w \in Worker, Claim(w) PROVE KeyInv'
  <2> DEFINE i == item[w]
  <2>1. /\ i \in Item /\ i \notin Undecodable
        /\ UNCHANGED <<committed, result, item, unsettled>>
    BY <1>3 DEF TypeOK, Claim
  <2>2. CASE key[i] = "none"
    <3>1. /\ key'[i] = "PENDING" /\ \A j \in Item : j # i => key'[j] = key[j]
          /\ UNCHANGED outcome
          /\ pc'[w] = "execute" /\ \A v \in Worker : v # w => pc'[v] = pc[v]
      BY <1>3, <2>1, <2>2 DEF TypeOK, Claim, FirstAttempt, Goto
    <3>2. CommittedByKey' /\ ResultTold' /\ UndecodableUnclaimed'
      BY <2>1, <2>2, <3>1, UndecodableAssumption
      DEF KeyInv, CommittedByKey, ResultTold, RefusalTold,
          UndecodableUnclaimed
    <3>3. ExecutorClaimed' /\ SoleExecutor'
      BY <2>1, <2>2, <3>1 DEF TypeOK, KeyInv, ExecutorClaimed, SoleExecutor
    <3>4. OutcomeTold'
      BY <2>1, <2>2, <3>1 DEF TypeOK, KeyInv, OutcomeTold, RefusalTold
    <3> QED BY <3>2, <3>3, <3>4 DEF KeyInv
  <2>3. CASE key[i] # "none"
    <3>1. /\ UNCHANGED key
          /\ outcome' = [outcome EXCEPT ![w] = Found(key[i])]
          /\ pc'[w] = "append" /\ \A v \in Worker : v # w => pc'[v] = pc[v]
      BY <1>3, <2>3 DEF TypeOK, Claim, FirstAttempt, Goto
    <3>2. /\ Found(key[i]) = "SUCCEEDED" => key[i] = "SUCCEEDED"
          /\ Found(key[i]) = "refused" => key[i] = "FAILED"
      BY <2>1, <2>3 DEF TypeOK, Keys, Found
    <3>3. CommittedByKey' /\ ResultTold' /\ ExecutorClaimed' /\ SoleExecutor'
          /\ UndecodableUnclaimed'
      BY <2>1, <3>1
      DEF KeyInv, CommittedByKey, ResultTold, RefusalTold, ExecutorClaimed,
          SoleExecutor, UndecodableUnclaimed
    <3>4. OutcomeTold'
      BY <2>1, <3>1, <3>2 DEF TypeOK, KeyInv, OutcomeTold, RefusalTold
    <3> QED BY <3>3, <3>4 DEF KeyInv
  <2> QED BY <2>2, <2>3
<1>4. ASSUME NEW w \in Worker, ExecuteCommits(w) PROVE KeyInv'
  <2>1. /\ key' = [key EXCEPT ![item[w]] = "SUCCEEDED"]
        /\ committed' = [committed EXCEPT ![item[w]] = @ + 1]
        /\ pc[w] = "execute" /\ UNCHANGED <<result, item, unsettled>>
        /\ pc'[w] = "append" /\ outcome'[w] = "SUCCEEDED"
        /\ \A v \in Worker : v # w => pc'[v] = pc[v] /\ outcome'[v] = outcome[v]
    BY <1>4 DEF TypeOK, ExecuteCommits, CommitItem, Goto
  <2> QED BY <2>1, KeyExecuted
<1>5. ASSUME NEW w \in Worker, ExecuteRefuses(w) PROVE KeyInv'
  <2>1. /\ key' = [key EXCEPT ![item[w]] = "FAILED"]
        /\ pc[w] = "execute" /\ UNCHANGED <<committed, result, item, unsettled>>
        /\ pc'[w] = "append" /\ outcome'[w] = "refused"
        /\ \A v \in Worker : v # w => pc'[v] = pc[v] /\ outcome'[v] = outcome[v]
    BY <1>5 DEF TypeOK, ExecuteRefuses, Goto
  <2> QED BY <2>1, KeyExecuted
<1>6. ASSUME NEW w \in Worker, ExecuteFails(w) PROVE KeyInv'
  <2>1. /\ pc[w] = "execute" /\ UNCHANGED <<result, item, outcome, unsettled>>
        /\ pc'[w] = "idle"
        /\ \A v \in Worker : v # w => pc'[v] = pc[v]
    BY <1>6 DEF TypeOK, ExecuteFails, Fault, StopPass
  <2>2. CASE key' = [key EXCEPT ![item[w]] = "none"] /\ UNCHANGED committed
    BY <2>1, <2>2, KeyExecuted
  <2>3. CASE CommitItem(item[w])
    BY <2>1, <2>3, KeyExecuted DEF CommitItem
  <2> QED BY <1>6, <2>2, <2>3 DEF ExecuteFails
<1>7. ASSUME NEW w \in Worker, AppendResult(w) PROVE KeyInv'
  <2>1. /\ item[w] \in Item
        /\ UNCHANGED <<key, committed, item, outcome, unsettled>>
        /\ \A v \in Worker : pc'[v] \in {"execute", "append"} => pc'[v] = pc[v]
    BY <1>7 DEF TypeOK, AppendResult, Goto
  <2>2. \A i \in Item : \/ result'[i] = result[i]
                        \/ i = item[w] /\ result'[i] = outcome[w]
    BY <1>7, <2>1 DEF TypeOK, AppendResult, KeepFirst
  <2>3. ResultTold'
    BY <1>7, <2>1, <2>2
    DEF KeyInv, OutcomeTold, ResultTold, RefusalTold, AppendResult
  <2>4. CommittedByKey' /\ ExecutorClaimed' /\ SoleExecutor' /\ OutcomeTold'
        /\ UndecodableUnclaimed'
    BY <2>1
    DEF KeyInv, CommittedByKey, ExecutorClaimed, SoleExecutor, OutcomeTold,
        RefusalTold, UndecodableUnclaimed
  <2> QED BY <2>3, <2>4 DEF KeyInv
<1>8. ASSUME NEW w \in Worker, Undecoded(w) PROVE KeyInv'
  <2>1. /\ item[w] \in Undecodable /\ pc'[w] = "append"
        /\ outcome'[w] = "refused"
        /\ UNCHANGED <<key, committed, result, item, unsettled>>
        /\ \A v \in Worker : v # w => pc'[v] = pc[v] /\ outcome'[v] = outcome[v]
    BY <1>8 DEF TypeOK, Undecoded, Goto
  <2>2. OutcomeTold' /\ ResultTold'
    BY <2>1 DEF KeyInv, OutcomeTold, ResultTold, RefusalTold
  <2>3. /\ CommittedByKey' /\ ExecutorClaimed' /\ SoleExecutor'
        /\ UndecodableUnclaimed'
    BY <2>1
    DEF KeyInv, CommittedByKey, ExecutorClaimed, SoleExecutor,
        UndecodableUnclaimed
  <2> QED BY <2>2, <2>3 DEF KeyInv
<1>9. ASSUME NEW w \in Worker, RefusalUnsettled(w) PROVE KeyInv'
  <2>1. PICK k \in {"none", "PENDING", "FAILED"} :
          /\ key' = [key EXCEPT ![item[w]] = k]
          /\ unsettled' = IF k = "FAILED" THEN unsettled
                          ELSE unsettled \cup {item[w]}
    BY <1>9 DEF RefusalUnsettled
  <2>2. /\ pc[w] = "execute" /\ UNCHANGED <<committed, result, item>>
        /\ pc'[w] = "append" /\ outcome'[w] = "refused"
        /\ \A v \in Worker : v # w => pc'[v] = pc[v] /\ outcome'[v] = outcome[v]
    BY <1>9 DEF TypeOK, RefusalUnsettled, Goto
  <2> QED BY <2>1, <2>2, KeyExecuted
<1> QED
  BY <1>1, <1>2, <1>3, <1>4, <1>5, <1>6, <1>7, <1>8, <1>9, NextCases

-----------------------------------------------------------------------------
(* A job with nothing left to do                                           *)

LEMMA DoneInit == Init => DoneInv
  BY DEF Init, TypeOK, DoneInv, TodoCovers, CompletedHasResults, AtItem

LEMMA DoneNext == TypeOK /\ DoneInv /\ [Next]_vars => DoneInv'
<1> SUFFICES ASSUME TypeOK, DoneInv, [Next]_vars PROVE DoneInv'
  OBVIOUS
<1>1. CASE Submit \/ LeaseLapses \/ UNCHANGED vars
  BY <1>1
  DEF DoneInv, TodoCovers, CompletedHasResults, Submit, LeaseLapses, vars
<1>2. ASSUME NEW w \in Worker,
             \/ ClaimNext(w) \/ StartItem(w) \/ Claim(w) \/ RenewRefused(w)
             \/ ExecuteCommits(w) \/ ExecuteRefuses(w)
             \/ Undecoded(w) \/ RefusalUnsettled(w)
             \/ PassFails(w) \/ ExecuteFails(w)
      PROVE  DoneInv'
  <2>1. /\ UNCHANGED result
        /\ status' = "COMPLETED" => status = "COMPLETED"
        /\ \A v \in Worker : pc'[v] \in AtItem \cup {"items"} =>
             pc[v] \in AtItem \cup {"items"} /\ todo'[v] = todo[v]
    BY <1>2
    DEF TypeOK, ClaimNext, Claimable, StartItem, Claim, RenewRefused,
        ExecuteCommits, ExecuteRefuses, Undecoded, RefusalUnsettled,
        PassFails, ExecuteFails, Fault, StopPass, Goto, AtItem
  <2> QED BY <2>1 DEF DoneInv, TodoCovers, CompletedHasResults
<1>3. ASSUME NEW w \in Worker, Pending(w) PROVE DoneInv'
  <2>1. /\ UNCHANGED <<result, status>>
        /\ todo'[w] = {i \in Item : result[i] = "none"}
        /\ \A v \in Worker : v # w => pc'[v] = pc[v] /\ todo'[v] = todo[v]
    BY <1>3 DEF TypeOK, Pending, Goto
  <2> QED BY <2>1 DEF DoneInv, TodoCovers, CompletedHasResults
<1>4. ASSUME NEW w \in Worker, AppendResult(w) PROVE DoneInv'
  <2>1. /\ item[w] \in Item /\ outcome[w] # "none" /\ UNCHANGED status
        /\ \A v \in Worker : pc'[v] \in AtItem \cup {"items"} =>
             pc[v] \in AtItem \cup {"items"}
        /\ \A v \in Worker : todo[v] \ {item[w]} \subseteq todo'[v]
    BY <1>4 DEF TypeOK, Outcomes, AppendResult, Goto, AtItem
  <2>2. \A i \in Item : result'[i] = "none" => result[i] = "none" /\ i # item[w]
    BY <1>4, <2>1 DEF TypeOK, AppendResult, KeepFirst
  <2> QED BY <2>1, <2>2 DEF DoneInv, TodoCovers, CompletedHasResults
<1>5. ASSUME NEW w \in Worker, Complete(w) PROVE DoneInv'
  <2>1. /\ UNCHANGED <<result, todo>>
        /\ \A v \in Worker : pc'[v] \in AtItem \cup {"items"} => pc'[v] = pc[v]
    BY <1>5 DEF TypeOK, Complete, Goto, AtItem
  <2>2. \A i \in Item : result[i] # "none"
    BY <1>5 DEF DoneInv, TodoCovers, Complete
  <2> QED BY <2>1, <2>2 DEF DoneInv, TodoCovers, CompletedHasResults
<1> QED BY <1>1, <1>2, <1>3, <1>4, <1>5, NextCases

-----------------------------------------------------------------------------

LEMMA InvAlways == Spec => []Inv
<1>1. Init => Inv
  BY TypeInit, KeyInit, DoneInit DEF Inv
<1>2. Inv /\ [Next]_vars => Inv'
  BY TypeNext, KeyNext, DoneNext DEF Inv
<1> QED BY <1>1, <1>2, PTL DEF Spec

(* The state of a job and its workers is well typed.                       *)
THEOREM TypeCorrect == Spec => []TypeOK
<1>1. Inv => TypeOK
  BY DEF Inv
<1> QED BY <1>1, InvAlways, PTL

(* No item is committed twice, however many workers believe they hold the  *)
(* job's lease: ItemKey makes every attempt at an item one request.        *)
THEOREM NoItemTwice == Spec => []CommittedOnce
<1>1. Inv => CommittedOnce
  BY DEF Inv, TypeOK, KeyInv, CommittedByKey, CommittedOnce
<1> QED BY <1>1, InvAlways, PTL

(* Whichever worker's result was recorded first, a SUCCEEDED result has    *)
(* its decision, and a refusal was settled without one, unless the item    *)
(* does not read back or the refusal could not be recorded (runItem).      *)
THEOREM ResultsTell == Spec => []ResultTellsOutcome
<1>1. ASSUME Inv, NEW i \in Item
      PROVE  /\ result[i] = "SUCCEEDED" => key[i] = "SUCCEEDED" /\ committed[i] = 1
             /\ result[i] = "refused" =>
                  \/ key[i] = "FAILED" /\ committed[i] = 0
                  \/ i \in Undecodable /\ key[i] = "none" /\ committed[i] = 0
                  \/ i \in unsettled
  <2>1. committed[i] = IF key[i] = "SUCCEEDED" THEN 1 ELSE 0
    BY <1>1 DEF Inv, KeyInv, CommittedByKey
  <2>2. i \in Undecodable => key[i] = "none"
    BY <1>1 DEF Inv, KeyInv, UndecodableUnclaimed
  <2>3. /\ result[i] = "SUCCEEDED" => key[i] = "SUCCEEDED"
        /\ result[i] = "refused" => RefusalTold(i)
    BY <1>1 DEF Inv, KeyInv, ResultTold
  <2> QED BY <2>1, <2>2, <2>3 DEF RefusalTold
<1>2. Inv => ResultTellsOutcome
  BY <1>1 DEF ResultTellsOutcome
<1> QED BY <1>2, InvAlways, PTL

(* A completed job has a result for every item, even when the worker that  *)
(* completed it had lost the lease.                                        *)
THEOREM CompletedIsWhole == Spec => []CompletedHasResults
<1>1. Inv => CompletedHasResults
  BY DEF Inv, DoneInv
<1> QED BY <1>1, InvAlways, PTL

-----------------------------------------------------------------------------
(* Migration                                                               *)

AnyException == UNION {Raised(s, m) : s \in Sources, m \in Mappings}
Run ==
  [call : {"run"}, source : Sources, mapping : Nat, createdAt : 1..MaxRuns,
   exceptions : SUBSET AnyException, open : SUBSET AnyException, passed : BOOLEAN]
Move == [call : {"cutover"}, to : CutoverState, run : Nat \cup {None}]

ProgramTypes ==
  /\ MaxRuns \in Nat
  /\ snapshots \subseteq Sources
  /\ mappings \in Seq(Mappings)
  /\ runs \in Seq(Run)
  /\ started \in 0..MaxRuns
  /\ tx \in [User -> Run \cup Move \cup {None}]

(* A run that was ready stays ready: its exceptions are only ever closed.  *)
Fit(m) ==
  /\ m.run \in DOMAIN runs /\ ~Blocked(m.run)
  /\ m.state = "ROUTING_SWITCH" => m.by # Creator
AsReadied(u) == [state |-> tx[u].to, by |-> u, run |-> tx[u].run]
Moving(u) == tx[u] # None /\ tx[u].call = "cutover" /\ tx[u].to \in Gated
SwitchInv ==
  /\ \A m \in readied : Fit(m)
  /\ \A u \in User : Moving(u) => Fit(AsReadied(u))

(* What a run says is what converting its snapshot under its mapping says. *)
Converts(run) ==
  /\ run.mapping \in DOMAIN mappings
  /\ run.exceptions = Raised(run.source, mappings[run.mapping])
  /\ run.passed = Passed(run.source, mappings[run.mapping])
ConvertInv ==
  /\ \A r \in DOMAIN runs : Converts(runs[r])
  /\ \A u \in User : (tx[u] # None /\ tx[u].call = "run") => Converts(tx[u])

ProgramInv == ProgramTypes /\ SwitchInv /\ ConvertInv

LEMMA ProgramInit == MigrationInit => ProgramInv
  BY BoundAssumption DEF CutoverState, MigrationInit,
         ProgramInv, ProgramTypes, SwitchInv, ConvertInv, Moving

(* Some run committed has the latest created_at: the lead it has over the  *)
(* bound is the smallest.                                                  *)
LEMMA LargestExists ==
  ASSUME NEW S, S # {}, NEW f \in [S -> Nat], NEW n \in Nat,
         \A x \in S : f[x] <= n
  PROVE  \E x \in S : \A y \in S : f[y] <= f[x]
<1> DEFINE Leads == {k \in Nat : \E x \in S : k = n - f[x]}
<1>1. \A x \in S : f[x] \in Nat /\ n - f[x] \in Leads
  OBVIOUS
<1>2. Leads # {} /\ Leads \subseteq Nat
  BY <1>1
<1>3. PICK k \in Leads : \A l \in Leads : ~(<<l, k>> \in OpToRel(<, Nat))
  <2> HIDE DEF Leads
  <2> QED  BY <1>2, NatLessThanWellFounded, WFMin
<1>4. ASSUME NEW l \in Leads PROVE l \in Nat /\ k <= l
  <2>1. l \in Nat /\ k \in Nat
    BY <1>2
  <2>2. <<l, k>> \notin OpToRel(<, Nat)
    BY <1>3
  <2>3. l < k => <<l, k>> \in OpToRel(<, Nat)
    BY <2>1 DEF OpToRel
  <2>4. ~(l < k)
    BY <2>2, <2>3, Zenon
  <2> QED  BY <2>1, <2>4
<1>5. PICK x \in S : k = n - f[x]
  OBVIOUS
<1>6. \A y \in S : f[y] <= f[x]
  <2> TAKE y \in S
  <2>1. n - f[x] <= n - f[y]
    BY <1>1, <1>4, <1>5
  <2> QED  BY <1>1, <2>1
<1> QED  BY <1>6

LEMMA RunTypes ==
  ASSUME ProgramTypes
  PROVE  \A r \in DOMAIN runs : r \in Nat /\ runs[r] \in Run
  BY DEF ProgramTypes

LEMMA LatestIsCommitted ==
  ASSUME ProgramTypes, runs # <<>>
  PROVE  Latest \in DOMAIN runs
<1> DEFINE createdAt == [r \in DOMAIN runs |-> runs[r].createdAt]
<1>1. MaxRuns \in Nat
  BY DEF ProgramTypes
<1>2. \A r \in DOMAIN runs : runs[r].createdAt \in 1..MaxRuns
  BY RunTypes DEF Run
<1>3. createdAt \in [DOMAIN runs -> Nat]
  BY <1>1, <1>2
<1>4. \A r \in DOMAIN runs : createdAt[r] <= MaxRuns
  BY <1>1, <1>2
<1>5. DOMAIN runs # {}
  <2> HIDE DEF createdAt
  <2>1. runs \in Seq(Run)
    BY DEF ProgramTypes
  <2>2. Len(runs) \in Nat /\ DOMAIN runs = 1..Len(runs)
    BY <2>1
  <2>3. Len(runs) # 0
    BY <2>1, EmptySeq
  <2>4. 1 \in 1..Len(runs)
    BY <2>2, <2>3
  <2> QED  BY <2>2, <2>4
<1>6. PICK r \in DOMAIN runs : \A q \in DOMAIN runs : createdAt[q] <= createdAt[r]
  <2> HIDE DEF createdAt
  <2> QED  BY <1>1, <1>3, <1>4, <1>5, LargestExists
<1>7. \A q \in DOMAIN runs : runs[q].createdAt <= runs[r].createdAt
  BY <1>6
<1> QED  BY <1>7 DEF Latest

(* A step leaves a run as it is or closes an exception of it, and leaves   *)
(* the mappings there are: what was fit stays fit, and what converts still *)
(* converts.                                                               *)
Keeps(now, then) ==
  /\ then.open \subseteq now.open /\ then.passed = now.passed
  /\ then.source = now.source /\ then.mapping = now.mapping
  /\ then.exceptions = now.exceptions
Continues ==
  /\ \A r \in DOMAIN runs : r \in DOMAIN runs' /\ Keeps(runs[r], runs'[r])
  /\ \A v \in DOMAIN mappings : v \in DOMAIN mappings' /\ mappings'[v] = mappings[v]

LEMMA RunsKeep ==
  ASSUME Continues
  PROVE  /\ \A m : Fit(m) => Fit(m)'
         /\ \A r \in DOMAIN runs : Converts(runs[r]) => Converts(runs[r])'
         /\ \A run : Converts(run) => Converts(run)'
  BY DEF Continues, Keeps, Fit, Blocked, Converts

(* What else a step may do: add a run that converts, begin a call, or end  *)
(* one that may have readied the cutover.                                  *)
LEMMA InvKept ==
  ASSUME ProgramInv, ProgramTypes', Continues,
         \A r \in DOMAIN runs' \ DOMAIN runs : Converts(runs[r])',
         \A m \in readied' \ readied : Fit(m),
         \A u \in User : \/ tx'[u] = tx[u]
                         \/ tx'[u] = None
                         \/ tx'[u].call = "run" /\ Converts(tx'[u])
                         \/ /\ tx'[u].call = "cutover"
                            /\ Moving(u)' => Fit([state |-> tx'[u].to, by |-> u,
                                                  run |-> tx'[u].run])
  PROVE  ProgramInv'
<1>1. /\ \A m : Fit(m) => Fit(m)'
      /\ \A r \in DOMAIN runs : Converts(runs[r]) => Converts(runs[r])'
      /\ \A run : Converts(run) => Converts(run)'
  BY RunsKeep
<1>2. \A m \in readied' : Fit(m)'
  BY <1>1 DEF ProgramInv, SwitchInv
<1>3. \A r \in DOMAIN runs' : Converts(runs[r])'
  BY <1>1 DEF ProgramInv, ConvertInv
<1>4. ASSUME NEW u \in User, Moving(u)'
      PROVE  Fit(AsReadied(u))'
  BY <1>1, <1>4 DEF ProgramInv, SwitchInv, Moving, AsReadied
<1>5. ASSUME NEW u \in User, tx'[u] # None, tx'[u].call = "run"
      PROVE  Converts(tx[u])'
  BY <1>1, <1>5 DEF ProgramInv, ConvertInv
<1> QED  BY <1>2, <1>3, <1>4, <1>5 DEF ProgramInv, SwitchInv, ConvertInv

LEMMA ProgramStep == ProgramInv /\ [MigrationNext]_migrationVars => ProgramInv'
<1> SUFFICES ASSUME ProgramInv, [MigrationNext]_migrationVars PROVE ProgramInv'
  OBVIOUS
<1>0. ProgramTypes
  BY DEF ProgramInv
<1>1. CASE RegisterSnapshot
  <2>1. ProgramTypes' /\ UNCHANGED <<mappings, runs, tx, readied>>
    BY <1>0, <1>1 DEF RegisterSnapshot, ProgramTypes
  <2>2. Continues
    BY <2>1 DEF Continues, Keeps
  <2> QED  BY <2>1, <2>2, InvKept
<1>2. CASE CreateMapping
  <2>1. PICK m \in Mappings : mappings' = Append(mappings, m)
    BY <1>2 DEF CreateMapping
  <2>2. UNCHANGED <<snapshots, runs, started, tx, readied>>
    BY <1>2 DEF CreateMapping
  <2>3. ProgramTypes'
    BY <1>0, <2>1, <2>2 DEF ProgramTypes
  <2>4. Continues
    BY <1>0, <2>1, <2>2 DEF Continues, Keeps, ProgramTypes
  <2> QED  BY <2>2, <2>3, <2>4, InvKept
<1>3. CASE DecideException
  <2>1. PICK r \in DOMAIN runs : \E e \in runs[r].open :
          runs' = [runs EXCEPT ![r].open = @ \ {e}]
    BY <1>3 DEF DecideException
  <2>2. PICK e \in runs[r].open : runs' = [runs EXCEPT ![r].open = @ \ {e}]
    BY <2>1
  <2>3. UNCHANGED <<snapshots, mappings, started, tx, readied>>
    BY <1>3 DEF DecideException
  <2>4. runs[r] \in Run
    BY <1>0, RunTypes
  <2> DEFINE closed == [runs[r] EXCEPT !.open = @ \ {e}]
  <2>5. closed \in Run /\ Keeps(runs[r], closed)
    BY <2>4 DEF Run, Keeps
  <2>6. runs' = [runs EXCEPT ![r] = closed]
    BY <2>2
  <2> HIDE DEF closed
  <2>7. /\ DOMAIN runs' = DOMAIN runs
        /\ \A q \in DOMAIN runs : Keeps(runs[q], runs'[q])
    BY <2>5, <2>6 DEF Keeps
  <2>8. runs' \in Seq(Run)
    BY <1>0, <2>5, <2>6 DEF ProgramTypes
  <2>9. ProgramTypes'
    BY <1>0, <2>3, <2>8 DEF ProgramTypes
  <2>10. Continues
    BY <2>3, <2>7 DEF Continues
  <2> QED  BY <2>3, <2>7, <2>9, <2>10, InvKept
<1>4. ASSUME NEW u \in User, ExecuteRun(u) PROVE ProgramInv'
  <2>1. PICK s \in snapshots, v \in DOMAIN mappings :
          tx' = [tx EXCEPT ![u] =
            [call |-> "run", source |-> s, mapping |-> v, createdAt |-> started + 1,
             exceptions |-> Raised(s, mappings[v]),
             open |-> Raised(s, mappings[v]),
             passed |-> Passed(s, mappings[v])]]
    BY <1>4 DEF ExecuteRun
  <2>2. started < MaxRuns /\ started' = started + 1
        /\ UNCHANGED <<snapshots, mappings, runs, readied>>
    BY <1>4 DEF ExecuteRun
  <2>3. s \in Sources /\ v \in Nat /\ mappings[v] \in Mappings
    BY <1>0 DEF ProgramTypes
  <2>4. Raised(s, mappings[v]) \in SUBSET AnyException
    BY <2>3 DEF AnyException
  <2>5. Passed(s, mappings[v]) \in BOOLEAN
    BY DEF Passed
  <2> DEFINE run ==
        [call |-> "run", source |-> s, mapping |-> v, createdAt |-> started + 1,
         exceptions |-> Raised(s, mappings[v]),
         open |-> Raised(s, mappings[v]),
         passed |-> Passed(s, mappings[v])]
  <2>6. started \in 0..MaxRuns /\ started + 1 \in 1..MaxRuns /\ started' \in 0..MaxRuns
    BY <1>0, <2>2 DEF ProgramTypes
  <2>7. run \in Run
    BY <2>3, <2>4, <2>5, <2>6 DEF Run
  <2>8. run.call = "run" /\ Converts(run)
    BY DEF Converts
  <2>9. tx' = [tx EXCEPT ![u] = run]
    BY <2>1
  <2> HIDE DEF run
  <2>10. tx'[u] \in Run /\ tx'[u].call = "run" /\ Converts(tx'[u])
    BY <1>0, <2>7, <2>8, <2>9 DEF ProgramTypes
  <2>11. \A w \in User : w # u => tx'[w] = tx[w]
    BY <1>0, <2>1 DEF ProgramTypes
  <2>12. tx' \in [User -> Run \cup Move \cup {None}]
    BY <1>0, <2>1, <2>10, <2>11 DEF ProgramTypes
  <2>13. ProgramTypes'
    BY <1>0, <2>2, <2>12, <2>6 DEF ProgramTypes
  <2>14. Continues
    BY <2>2 DEF Continues, Keeps
  <2> QED  BY <2>2, <2>10, <2>11, <2>13, <2>14, InvKept
<1>5. ASSUME NEW u \in User, CreateRun(u) PROVE ProgramInv'
  <2>1. /\ tx[u] # None /\ tx[u].call = "run"
        /\ runs' = Append(runs, tx[u]) /\ tx' = [tx EXCEPT ![u] = None]
        /\ UNCHANGED <<snapshots, mappings, started, readied>>
    BY <1>5 DEF CreateRun
  <2>2. tx[u] \in Run
    BY <1>0, <2>1 DEF ProgramTypes, Move
  <2>3. ProgramTypes'
    BY <1>0, <2>1, <2>2 DEF ProgramTypes
  <2>4. /\ \A r \in DOMAIN runs : r \in DOMAIN runs' /\ runs'[r] = runs[r]
        /\ \A r \in DOMAIN runs' \ DOMAIN runs : runs'[r] = tx[u]
    BY <1>0, <2>1, <2>2 DEF ProgramTypes
  <2>5. Continues
    BY <2>1, <2>4 DEF Continues, Keeps
  <2>6. \A r \in DOMAIN runs' \ DOMAIN runs : Converts(runs[r])'
    <3>1. Converts(tx[u])
      BY <2>1 DEF ProgramInv, ConvertInv
    <3> QED  BY <2>1, <2>4, <3>1 DEF Converts
  <2>7. \A w \in User : tx'[w] = tx[w] \/ tx'[w] = None
    BY <1>0, <2>1 DEF ProgramTypes
  <2> QED  BY <2>1, <2>3, <2>5, <2>6, <2>7, InvKept
<1>6. ASSUME NEW u \in User, NEW to \in CutoverState, MoveCutover(u, to)
      PROVE  ProgramInv'
  <2>1. /\ Permits(u, to)
        /\ tx' = [tx EXCEPT ![u] =
             [call |-> "cutover", to |-> to,
              run |-> IF runs = <<>> THEN None ELSE Latest]]
        /\ UNCHANGED <<snapshots, mappings, runs, started, readied>>
    BY <1>6 DEF MoveCutover
  <2>2. runs # <<>> => Latest \in DOMAIN runs /\ Latest \in Nat
    BY <1>0, LatestIsCommitted DEF ProgramTypes
  <2>3. /\ tx'[u] = [call |-> "cutover", to |-> to,
                     run |-> IF runs = <<>> THEN None ELSE Latest]
        /\ tx'[u] \in Move
        /\ \A w \in User : w # u => tx'[w] = tx[w]
    BY <1>0, <2>1, <2>2 DEF ProgramTypes, Move
  <2>4. ProgramTypes'
    BY <1>0, <2>1, <2>3 DEF ProgramTypes
  <2>5. Moving(u)' => Fit([state |-> tx'[u].to, by |-> u, run |-> tx'[u].run])
    BY <2>1, <2>2, <2>3 DEF Moving, Fit, AsReadied, Permits
  <2>6. Continues
    BY <2>1 DEF Continues, Keeps
  <2>7. tx'[u].call = "cutover"
    BY <2>3
  <2> QED  BY <2>1, <2>3, <2>4, <2>5, <2>6, <2>7, InvKept
<1>7. ASSUME NEW u \in User, AppendCutoverEvent(u) PROVE ProgramInv'
  <2>1. /\ tx[u] # None /\ tx[u].call = "cutover"
        /\ tx' = [tx EXCEPT ![u] = None]
        /\ UNCHANGED <<snapshots, mappings, runs, started>>
        /\ readied' = IF tx[u].to \in Gated THEN readied \cup {AsReadied(u)}
                      ELSE readied
    BY <1>7 DEF AppendCutoverEvent, AsReadied
  <2>2. ProgramTypes'
    BY <1>0, <2>1 DEF ProgramTypes
  <2>3. \A m \in readied' \ readied : Fit(m)
    BY <2>1 DEF ProgramInv, SwitchInv, Moving
  <2>4. Continues
    BY <2>1 DEF Continues, Keeps
  <2>5. \A w \in User : tx'[w] = tx[w] \/ tx'[w] = None
    BY <1>0, <2>1 DEF ProgramTypes
  <2> QED  BY <2>1, <2>2, <2>3, <2>4, <2>5, InvKept
<1>8. ASSUME NEW u \in User, Fail(u) PROVE ProgramInv'
  <2>1. /\ tx' = [tx EXCEPT ![u] = None]
        /\ UNCHANGED <<snapshots, mappings, runs, started, readied>>
    BY <1>8 DEF Fail
  <2>2. ProgramTypes'
    BY <1>0, <2>1 DEF ProgramTypes
  <2>3. Continues
    BY <2>1 DEF Continues, Keeps
  <2>4. \A w \in User : tx'[w] = tx[w] \/ tx'[w] = None
    BY <1>0, <2>1 DEF ProgramTypes
  <2> QED  BY <2>1, <2>2, <2>3, <2>4, InvKept
<1>9. CASE UNCHANGED migrationVars
  <2>1. UNCHANGED <<snapshots, mappings, runs, started, tx, readied>>
    BY <1>9 DEF migrationVars
  <2>2. ProgramTypes' /\ Continues
    BY <1>0, <2>1 DEF ProgramTypes, Continues, Keeps
  <2> QED  BY <2>1, <2>2, InvKept
<1> QED
  BY <1>1, <1>2, <1>3, <1>4, <1>5, <1>6, <1>7, <1>8, <1>9 DEF MigrationNext

LEMMA ProgramAlways == MigrationSpec => []ProgramInv
  BY ProgramInit, ProgramStep, PTL DEF MigrationSpec

(* However runs and decisions commit around a cutover move, a switch rests *)
(* on a run that reconciles with nothing HIGH undecided, and was not made  *)
(* by the program's creator (MoveCutover, NextCutover).                    *)
THEOREM SwitchIsReady == MigrationSpec => []SwitchRestsOnReadyRun
<1>1. ProgramInv => SwitchRestsOnReadyRun
  BY DEF ProgramInv, SwitchInv, Fit, SwitchRestsOnReadyRun
<1> QED  BY <1>1, ProgramAlways, PTL

-----------------------------------------------------------------------------
(* Numbers of runs, and moves of the cutover                               *)

(* Each run has a number of its own, taken before it commits; one move at  *)
(* a time is under way, and the cutover stands where that move found it.   *)
Running(u) == tx[u] # None /\ tx[u].call = "run"
Cutting(u) == tx[u] # None /\ tx[u].call = "cutover"

Numbered ==
  /\ \A r \in DOMAIN runs : runs[r].createdAt <= started
  /\ \A q, r \in DOMAIN runs : q # r => runs[q].createdAt # runs[r].createdAt
  /\ \A u \in User : Running(u) =>
       /\ tx[u].createdAt <= started
       /\ \A r \in DOMAIN runs : runs[r].createdAt # tx[u].createdAt
  /\ \A u, v \in User : (Running(u) /\ Running(v) /\ u # v) =>
       tx[u].createdAt # tx[v].createdAt
OpenRaised ==
  /\ \A r \in DOMAIN runs : runs[r].open \subseteq runs[r].exceptions
  /\ \A u \in User : Running(u) => tx[u].open \subseteq tx[u].exceptions
Moves ==
  /\ cutover \in CutoverState
  /\ readied \subseteq [state : Gated, by : User, run : Nat \cup {None}]
  /\ \A u, v \in User : (Cutting(u) /\ Cutting(v)) => u = v
  /\ \A u \in User : Cutting(u) => tx[u].to \in Successors(cutover)

RunsInv == Numbered /\ OpenRaised /\ Moves

LEMMA RunsInvInit == MigrationInit => RunsInv
  BY DEF MigrationInit, RunsInv, Numbered, OpenRaised, Moves, Running, Cutting, CutoverState

(* A call is a run or a move and not both.                                 *)
LEMMA CallIs ==
  ASSUME ProgramTypes, NEW u \in User, tx[u] # None
  PROVE  \/ Running(u) /\ ~Cutting(u) /\ tx[u] \in Run
         \/ Cutting(u) /\ ~Running(u) /\ tx[u] \in Move
  BY DEF ProgramTypes, Running, Cutting, Run, Move

(* A step that adds no run and begins no call, whatever calls it ends.     *)
LEMMA RunsInvQuiet ==
  ASSUME RunsInv, UNCHANGED <<runs, started, cutover, readied>>,
         \A u \in User : tx'[u] = tx[u] \/ tx'[u] = None
  PROVE  RunsInv'
<1>1. \A u \in User : /\ Running(u)' => Running(u) /\ tx'[u] = tx[u]
                      /\ Cutting(u)' => Cutting(u) /\ tx'[u] = tx[u]
  BY DEF Running, Cutting
<1>2. Numbered'
  BY <1>1 DEF RunsInv, Numbered
<1>3. OpenRaised' /\ Moves'
  BY <1>1 DEF RunsInv, OpenRaised, Moves
<1> QED  BY <1>2, <1>3 DEF RunsInv

LEMMA RunsInvStep ==
  ProgramTypes /\ ProgramTypes' /\ RunsInv /\ [MigrationNext]_migrationVars => RunsInv'
<1> SUFFICES ASSUME ProgramTypes, ProgramTypes', RunsInv, [MigrationNext]_migrationVars
             PROVE  RunsInv'
  OBVIOUS
<1>1. CASE RegisterSnapshot \/ CreateMapping \/ UNCHANGED migrationVars
  <2>1. UNCHANGED <<runs, started, cutover, readied, tx>>
    BY <1>1 DEF RegisterSnapshot, CreateMapping, migrationVars
  <2> QED  BY <2>1, RunsInvQuiet
<1>2. CASE DecideException
  <2>1. PICK r \in DOMAIN runs : \E e \in runs[r].open :
          runs' = [runs EXCEPT ![r].open = @ \ {e}]
    BY <1>2 DEF DecideException
  <2>2. PICK e \in runs[r].open : runs' = [runs EXCEPT ![r].open = @ \ {e}]
    BY <2>1
  <2>3. UNCHANGED <<started, tx, cutover, readied>>
    BY <1>2 DEF DecideException
  <2>4. runs[r] \in Run
    BY RunTypes
  <2> DEFINE closed == [runs[r] EXCEPT !.open = @ \ {e}]
  <2>5. /\ closed.createdAt = runs[r].createdAt /\ closed.exceptions = runs[r].exceptions
        /\ closed.open \subseteq runs[r].open
    BY <2>4 DEF Run
  <2>6. runs' = [runs EXCEPT ![r] = closed]
    BY <2>2
  <2> HIDE DEF closed
  <2>7. /\ DOMAIN runs' = DOMAIN runs
        /\ \A q \in DOMAIN runs : /\ runs'[q].createdAt = runs[q].createdAt
                                  /\ runs'[q].exceptions = runs[q].exceptions
                                  /\ runs'[q].open \subseteq runs[q].open
    BY <2>5, <2>6
  <2>8. \A u : (Running(u)' <=> Running(u)) /\ (Cutting(u)' <=> Cutting(u))
    BY <2>3 DEF Running, Cutting
  <2>9. Numbered'
    BY <2>3, <2>7, <2>8 DEF RunsInv, Numbered
  <2>10. OpenRaised' /\ Moves'
    BY <2>3, <2>7, <2>8 DEF RunsInv, OpenRaised, Moves
  <2> QED  BY <2>9, <2>10 DEF RunsInv
<1>3. ASSUME NEW u \in User, ExecuteRun(u) PROVE RunsInv'
  <2>1. /\ started' = started + 1 /\ UNCHANGED <<runs, cutover, readied>>
        /\ tx'[u].createdAt = started + 1 /\ tx'[u].open = tx'[u].exceptions
        /\ tx'[u].call = "run"
        /\ \A v \in User : v # u => tx'[v] = tx[v]
    BY <1>3 DEF ExecuteRun, ProgramTypes
  <2>2. \A v \in User : v # u => (Running(v)' <=> Running(v)) /\ tx'[v] = tx[v]
    BY <2>1 DEF Running
  <2>3. \A v \in User : Cutting(v)' => Cutting(v) /\ tx'[v] = tx[v]
    BY <2>1 DEF Cutting
  <2>4. \A r \in DOMAIN runs : runs[r].createdAt \in Nat /\ runs[r].createdAt < started + 1
    BY RunTypes DEF RunsInv, Numbered, ProgramTypes, Run
  <2>5. \A v \in User : Running(v) => tx[v].createdAt \in Nat /\ tx[v].createdAt < started + 1
    BY CallIs DEF RunsInv, Numbered, ProgramTypes, Run, Running
  <2>6. \A k \in Nat : k < started + 1 => k <= started' /\ k # started + 1
    BY <2>1 DEF ProgramTypes
  <2>7. started' = started + 1 /\ started + 1 <= started'
    BY <2>1 DEF ProgramTypes
  <2>8. Numbered'
    <3>1. \A r \in DOMAIN runs' : runs'[r].createdAt <= started'
      BY <2>1, <2>4, <2>6
    <3>2. \A q, r \in DOMAIN runs' : q # r => runs'[q].createdAt # runs'[r].createdAt
      BY <2>1 DEF RunsInv, Numbered
    <3>3. ASSUME NEW v \in User, Running(v)'
          PROVE  /\ tx'[v].createdAt <= started'
                 /\ \A r \in DOMAIN runs' : runs'[r].createdAt # tx'[v].createdAt
      <4>1. CASE v = u
        BY <4>1, <2>1, <2>4, <2>6, <2>7
      <4>2. CASE v # u
        BY <4>2, <3>3, <2>1, <2>2, <2>5, <2>6 DEF RunsInv, Numbered
      <4> QED  BY <4>1, <4>2
    <3>4. ASSUME NEW v \in User, NEW w \in User, Running(v)', Running(w)', v # w
          PROVE  tx'[v].createdAt # tx'[w].createdAt
      <4>1. CASE v = u
        BY <4>1, <3>4, <2>1, <2>2, <2>5, <2>6
      <4>2. CASE w = u
        BY <4>2, <3>4, <2>1, <2>2, <2>5, <2>6
      <4>3. CASE v # u /\ w # u
        BY <4>3, <3>4, <2>2 DEF RunsInv, Numbered
      <4> QED  BY <4>1, <4>2, <4>3
    <3> QED  BY <3>1, <3>2, <3>3, <3>4 DEF Numbered
  <2>9. OpenRaised'
    BY <2>1, <2>2 DEF RunsInv, OpenRaised
  <2>10. Moves'
    BY <2>1, <2>3 DEF RunsInv, Moves
  <2> QED  BY <2>8, <2>9, <2>10 DEF RunsInv
<1>4. ASSUME NEW u \in User, CreateRun(u) PROVE RunsInv'
  <2>1. /\ Running(u) /\ runs' = Append(runs, tx[u]) /\ tx' = [tx EXCEPT ![u] = None]
        /\ UNCHANGED <<started, cutover, readied>>
    BY <1>4 DEF CreateRun, Running
  <2>2. tx[u] \in Run
    BY <2>1, CallIs DEF Running
  <2>3. /\ \A r \in DOMAIN runs' : \/ r \in DOMAIN runs /\ runs'[r] = runs[r]
                                   \/ r = Len(runs) + 1 /\ runs'[r] = tx[u]
    BY <2>1, <2>2 DEF ProgramTypes
  <2>4. \A v \in User : /\ Running(v)' => v # u /\ Running(v) /\ tx'[v] = tx[v]
                        /\ Cutting(v)' => Cutting(v) /\ tx'[v] = tx[v]
    BY <2>1 DEF Running, Cutting, ProgramTypes
  <2>5. Numbered'
    BY <2>1, <2>3, <2>4 DEF RunsInv, Numbered
  <2>6. OpenRaised' /\ Moves'
    BY <2>1, <2>3, <2>4 DEF RunsInv, OpenRaised, Moves
  <2> QED  BY <2>5, <2>6 DEF RunsInv
<1>5. ASSUME NEW u \in User, NEW to \in CutoverState, MoveCutover(u, to) PROVE RunsInv'
  <2>1. /\ \A v \in User : tx[v] # None => tx[v].call = "run"
        /\ to \in Successors(cutover) /\ UNCHANGED <<runs, started, cutover, readied>>
        /\ tx'[u].call = "cutover" /\ tx'[u].to = to
        /\ \A v \in User : v # u => tx'[v] = tx[v]
    BY <1>5 DEF MoveCutover, ProgramTypes
  <2>2. \A v \in User : /\ Running(v)' => Running(v) /\ tx'[v] = tx[v]
                        /\ Cutting(v)' => v = u
    BY <2>1 DEF Running, Cutting
  <2>3. Numbered' /\ OpenRaised'
    BY <2>1, <2>2 DEF RunsInv, Numbered, OpenRaised
  <2>4. Moves'
    BY <2>1, <2>2 DEF RunsInv, Moves
  <2> QED  BY <2>3, <2>4 DEF RunsInv
<1>6. ASSUME NEW u \in User, AppendCutoverEvent(u) PROVE RunsInv'
  <2>1. /\ Cutting(u) /\ cutover' = tx[u].to /\ UNCHANGED <<runs, started>>
        /\ tx' = [tx EXCEPT ![u] = None]
        /\ readied' \subseteq readied \cup
             IF tx[u].to \in Gated THEN {[state |-> tx[u].to, by |-> u, run |-> tx[u].run]}
             ELSE {}
    BY <1>6 DEF AppendCutoverEvent, Cutting
  <2>2. tx[u] \in Move
    BY <2>1, CallIs DEF Cutting
  <2>3. tx[u].to \in CutoverState /\ tx[u].run \in Nat \cup {None}
    BY <2>2 DEF Move
  <2>4. \A v \in User : /\ Running(v)' => Running(v) /\ tx'[v] = tx[v]
                        /\ ~Cutting(v)'
    BY <2>1 DEF RunsInv, Moves, Running, Cutting, ProgramTypes
  <2>5. Numbered' /\ OpenRaised'
    BY <2>1, <2>4 DEF RunsInv, Numbered, OpenRaised
  <2>6. readied' \subseteq [state : Gated, by : User, run : Nat \cup {None}]
    BY <2>1, <2>3 DEF RunsInv, Moves
  <2>7. Moves'
    BY <2>1, <2>3, <2>4, <2>6 DEF Moves
  <2> QED  BY <2>5, <2>7 DEF RunsInv
<1>7. ASSUME NEW u \in User, Fail(u) PROVE RunsInv'
  <2>1. /\ UNCHANGED <<runs, started, cutover, readied>>
        /\ \A v \in User : tx'[v] = tx[v] \/ tx'[v] = None
    BY <1>7 DEF Fail, ProgramTypes
  <2> QED  BY <2>1, RunsInvQuiet
<1> QED
  BY <1>1, <1>2, <1>3, <1>4, <1>5, <1>6, <1>7 DEF MigrationNext

LEMMA RunsAlways == MigrationSpec => []RunsInv
<1>1. ProgramInv => ProgramTypes
  BY DEF ProgramInv
<1> QED  BY <1>1, RunsInvInit, RunsInvStep, ProgramAlways, PTL DEF MigrationSpec

(* The numbers of the committed runs are among those taken.                *)
LEMMA NoMoreThanStarted ==
  ASSUME ProgramTypes, Numbered
  PROVE  Len(runs) <= started
<1> DEFINE number == [r \in DOMAIN runs |-> runs[r].createdAt]
<1>1. started \in Nat /\ Len(runs) \in Nat /\ DOMAIN runs = 1..Len(runs)
  BY DEF ProgramTypes
<1>2. \A r \in DOMAIN runs : runs[r].createdAt \in 1..started
  BY RunTypes DEF ProgramTypes, Run, Numbered
<1>3. number \in [1..Len(runs) -> 1..started]
  BY <1>1, <1>2
<1>4. number \in Injection(1..Len(runs), 1..started)
  BY <1>1, <1>3 DEF Numbered, Injection, IsInjective
<1>5. \A n \in Nat : IsFiniteSet(1..n) /\ Cardinality(1..n) = n
  <2> TAKE n \in Nat
  <2>1. IsFiniteSet(1..n) /\ Cardinality(1..n) = IF 1 > n THEN 0 ELSE n - 1 + 1
    BY FS_Interval, 1 \in Int, n \in Int
  <2> QED  BY <2>1
<1>6. Cardinality(1..Len(runs)) <= Cardinality(1..started)
  <2> HIDE DEF number
  <2> QED  BY <1>1, <1>4, <1>5, FS_Injection
<1> QED  BY <1>1, <1>5, <1>6

LEMMA RaisedSeverity ==
  ASSUME NEW s, NEW m, NEW e \in Raised(s, m)
  PROVE  e.severity \in Severity
  BY DEF Raised, SeverityOf, Severity

(* Snapshots, mappings, runs and the cutover are well typed: no more runs  *)
(* are committed than have begun, only what a run raised is open, and what *)
(* readied the cutover is a committed run (ExecuteRun, MoveCutover).       *)
THEOREM MigrationTypeCorrect == MigrationSpec => []MigrationTypeOK
<1>1. ASSUME ProgramInv, RunsInv PROVE MigrationTypeOK
  <2>1. ProgramTypes /\ SwitchInv /\ Numbered /\ OpenRaised /\ Moves
    BY <1>1 DEF ProgramInv, RunsInv
  <2>2. Len(runs) <= started
    BY <2>1, NoMoreThanStarted
  <2>3. \A r \in DOMAIN runs : \A e \in runs[r].exceptions : e.severity \in Severity
    BY <1>1, RaisedSeverity DEF ProgramInv, ConvertInv, Converts
  <2>4. readied \in SUBSET [state : Gated, by : User, run : DOMAIN runs]
    BY <2>1 DEF Moves, SwitchInv, Fit
  <2> QED  BY <2>1, <2>2, <2>3, <2>4 DEF ProgramTypes, OpenRaised, Moves, MigrationTypeOK
<1> QED  BY <1>1, ProgramAlways, RunsAlways, PTL

(* The cutover moves only where the table of moves permits from where it   *)
(* stands when the move commits, although the move was decided before      *)
(* (MoveCutover, NextCutover: the cutover's lock is held in between).      *)
CutoverFollows == [][cutover' # cutover => cutover' \in Successors(cutover)]_migrationVars

THEOREM MovesArePermitted == MigrationSpec => CutoverFollows
<1> DEFINE Follows == cutover' # cutover => cutover' \in Successors(cutover)
<1>1. ASSUME RunsInv, [MigrationNext]_migrationVars PROVE [Follows]_migrationVars
  <2>1. \/ UNCHANGED cutover
        \/ \E u \in User : AppendCutoverEvent(u)
    BY <1>1 DEF MigrationNext, migrationVars, RegisterSnapshot, CreateMapping,
                DecideException, ExecuteRun, CreateRun, Fail, MoveCutover
  <2>2. ASSUME NEW u \in User, AppendCutoverEvent(u) PROVE Follows
    BY <1>1, <2>2 DEF AppendCutoverEvent, RunsInv, Moves, Cutting
  <2> QED  BY <2>1, <2>2
<1>2. MigrationSpec => [][Follows]_migrationVars
  BY <1>1, RunsAlways, PTL DEF MigrationSpec
<1> QED  BY <1>2 DEF CutoverFollows

-----------------------------------------------------------------------------
(* Converting a snapshot                                                   *)

(* What the records of a set come to.                                      *)
TotalOf(s, S) == Sum(S, LAMBDA i : s.records[i].total)

(* A record is left out for the first thing that is wrong with it.         *)
LEMMA KindOfRecord ==
  ASSUME NEW s, NEW m, NEW i
  PROVE  LET kind == Kind(s.records, i, m)
             r == s.records[i]
             read == /\ r.source # None /\ ~Seen(s.records, i)
                     /\ r.currency # None /\ r.total # None
         IN  /\ kind = "CONVERTED" => read
             /\ Counted(kind) \/ (kind = "PRECISION_LOSS" /\ r.total # None)
                  <=> read
<1> DEFINE kind == Kind(s.records, i, m)
           r == s.records[i]
           seen == Seen(s.records, i)
<1>1. r.source = None => kind = "MISSING_SOURCE"
  BY DEF Kind
<1>2. r.source # None /\ seen => kind = "DUPLICATE_SOURCE"
  BY DEF Kind
<1>3. r.source # None /\ ~seen /\ r.currency = None => kind = "CURRENCY_CONFLICT"
  BY DEF Kind
<1>4. r.source # None /\ ~seen /\ r.currency # None /\ r.total = None
        => kind = "PRECISION_LOSS"
  BY DEF Kind
<1>5. r.source # None /\ ~seen /\ r.currency # None /\ r.total # None
        => kind \in {"DATE_CONFLICT", "UNMAPPED_CODE", "PRECISION_LOSS",
                     "INVALID_RELATION", "CONVERTED"}
  BY DEF Kind
<1> HIDE DEF kind, seen
<1>6. Counted(kind)
        <=> kind \in {"DATE_CONFLICT", "UNMAPPED_CODE", "INVALID_RELATION", "CONVERTED"}
  BY DEF Counted
<1>7. /\ kind = "CONVERTED" => r.source # None /\ ~seen /\ r.currency # None /\ r.total # None
      /\ Counted(kind) \/ (kind = "PRECISION_LOSS" /\ r.total # None)
           <=> r.source # None /\ ~seen /\ r.currency # None /\ r.total # None
  BY <1>1, <1>2, <1>3, <1>4, <1>5, <1>6
<1> QED  BY <1>7 DEF kind, seen

LEMMA RecordsAreNumbered ==
  ASSUME NEW s \in Sources
  PROVE  DOMAIN s.records \subseteq Nat
  BY SourceAssumption

(* The records an exception is raised of are those not converted: a        *)
(* currency is no record.                                                  *)
LEMMA LeftOut ==
  ASSUME NEW s \in Sources, NEW m
  PROVE  DOMAIN s.records \ {e.of : e \in Raised(s, m)} = Converted(s, m)
<1>1. Converted(s, m) \subseteq DOMAIN s.records
  BY DEF Converted
<1>2. ASSUME NEW i \in DOMAIN s.records \ Converted(s, m)
      PROVE  \E e \in Raised(s, m) : e.of = i
  <2> DEFINE e == [of |-> i, kind |-> Kind(s.records, i, m),
                   severity |-> SeverityOf(Kind(s.records, i, m))]
  <2>1. e \in Raised(s, m) /\ e.of = i
    BY DEF Raised
  <2> QED  BY <2>1
<1>3. ASSUME NEW e \in Raised(s, m), e.of \in DOMAIN s.records
      PROVE  e.of \notin Converted(s, m)
  <2>1. CASE e \in {[of |-> i, kind |-> Kind(s.records, i, m),
                     severity |-> SeverityOf(Kind(s.records, i, m))] :
                       i \in DOMAIN s.records \ Converted(s, m)}
    BY <2>1
  <2>2. CASE e.of \in Currency
    BY <1>3, <2>2, RecordsAreNumbered, CurrencyAssumption
  <2> QED  BY <2>1, <2>2 DEF Raised
<1> QED  BY <1>1, <1>2, <1>3

(* What the source holds of a currency is what can be read of it.          *)
LEMMA SourceIsReadable ==
  ASSUME NEW s \in Sources, NEW m, NEW c \in Currency
  PROVE  Source(s, m, c) = TotalOf(s, Readable(s, c))
<1> DEFINE Summed ==
      {i \in DOMAIN s.records :
         /\ s.records[i].currency = c
         /\ \/ Counted(Kind(s.records, i, m))
            \/ Kind(s.records, i, m) = "PRECISION_LOSS" /\ s.records[i].total # None}
<1>1. c # None
  BY CurrencyAssumption
<1>2. ASSUME NEW i \in DOMAIN s.records
      PROVE  i \in Summed <=> i \in Readable(s, c)
  <2>1. i \in Summed <=> /\ s.records[i].currency = c
                         /\ s.records[i].source # None /\ ~Seen(s.records, i)
                         /\ s.records[i].total # None
    BY <1>1, KindOfRecord
  <2>2. s.records[i].source # None =>
          (~Seen(s.records, i) <=>
             \A j \in 1..(i - 1) : s.records[j].source # s.records[i].source)
    BY DEF Seen
  <2> HIDE DEF Summed
  <2> QED  BY <2>1, <2>2 DEF Readable
<1>3. Summed = Readable(s, c)
  BY <1>2 DEF Readable
<1>4. Source(s, m, c) = TotalOf(s, Summed)
  BY DEF Source, TotalOf
<1> HIDE DEF Summed
<1> QED  BY <1>3, <1>4

LEMMA CarriedIsConverted ==
  ASSUME NEW s, NEW m, NEW c
  PROVE  Carried(s, m, c)
           = TotalOf(s, {i \in Converted(s, m) : s.records[i].currency = c})
  BY DEF Carried, TotalOf

(* What is converted can be read: its identifier had not been seen.        *)
LEMMA ConvertedIsReadable ==
  ASSUME NEW s \in Sources, NEW m, NEW c \in Currency, NEW i \in Converted(s, m),
         s.records[i].currency = c
  PROVE  i \in Readable(s, c)
<1>1. i \in DOMAIN s.records /\ Kind(s.records, i, m) = "CONVERTED"
  BY DEF Converted
<1>2. /\ s.records[i].source # None /\ s.records[i].total # None
      /\ ~Seen(s.records, i)
  BY <1>1, KindOfRecord
<1>3. \A j \in 1..(i - 1) : s.records[j].source # s.records[i].source
  BY <1>2 DEF Seen
<1> QED  BY <1>1, <1>2, <1>3 DEF Readable

(* A run carries readable records only, one with each identifier at most,  *)
(* and when it reconciles the readable records it left out cancel in each  *)
(* currency and the source declared what it carried (Convert, Passed).     *)
(* Reconciling is about totals, which have signs: that no readable record  *)
(* was left out does not follow.                                           *)
THEOREM RunsAccount == MigrationSpec => []RunsBalance
<1>1. ASSUME ProgramInv, NEW r \in DOMAIN runs, NEW c \in Currency
      PROVE  LET s == runs[r].source
                 carried == CarriedBy(runs[r], c)
             IN  /\ carried \subseteq Readable(s, c)
                 /\ runs[r].passed =>
                      /\ TotalOf(s, carried) = TotalOf(s, Readable(s, c))
                      /\ s.declared[c] \in {None, TotalOf(s, carried)}
  <2> DEFINE s == runs[r].source
             m == mappings[runs[r].mapping]
             carried == CarriedBy(runs[r], c)
  <2>1. s \in Sources
    BY <1>1, RunTypes DEF ProgramInv, Run
  <2>2. runs[r].exceptions = Raised(s, m) /\ runs[r].passed = Passed(s, m)
    BY <1>1 DEF ProgramInv, ConvertInv, Converts
  <2>3. carried = {i \in DOMAIN s.records \ {e.of : e \in Raised(s, m)} :
                     s.records[i].currency = c}
    BY <2>2 DEF CarriedBy
  <2> HIDE DEF s, m, carried
  <2>4. DOMAIN s.records \ {e.of : e \in Raised(s, m)} = Converted(s, m)
    BY <2>1, LeftOut
  <2>5. carried = {i \in Converted(s, m) : s.records[i].currency = c}
    BY <2>3, <2>4
  <2>6. carried \subseteq Readable(s, c)
    BY <2>1, <2>5, ConvertedIsReadable
  <2>7. ASSUME runs[r].passed
        PROVE  /\ TotalOf(s, carried) = TotalOf(s, Readable(s, c))
               /\ s.declared[c] \in {None, TotalOf(s, carried)}
    <3>1. Source(s, m, c) = Carried(s, m, c) /\ ~Disagrees(s, m, c)
      BY <2>2, <2>7 DEF Passed
    <3>2. Source(s, m, c) = TotalOf(s, Readable(s, c))
      BY <2>1, SourceIsReadable
    <3>3. Carried(s, m, c) = TotalOf(s, carried)
      BY <2>5, CarriedIsConverted
    <3> QED  BY <3>1, <3>2, <3>3 DEF Disagrees
  <2> QED  BY <2>6, <2>7 DEF s, carried
<1>2. ProgramInv => RunsBalance
  BY <1>1 DEF RunsBalance, TotalOf
<1> QED  BY <1>2, ProgramAlways, PTL
================================================================================
