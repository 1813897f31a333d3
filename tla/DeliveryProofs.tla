---------------------------- MODULE DeliveryProofs ----------------------------
(***************************************************************************)
(* An event's way to its receivers.  What holds of any number of           *)
(* deliveries, dispatchers and attempts: the types, that a delivery's      *)
(* count is that of its attempt rows, and that a settled delivery stays as *)
(* it is.  And of any number of events and relays: the types, that no      *)
(* event is marked that the broker did not accept, that the broker sees an *)
(* event again only after a rollback, and that its deliveries are          *)
(* scheduled by the step that marks it.                                    *)
(***************************************************************************)
EXTENDS WebhookDelivery, OutboxRelay, FiniteSetTheorems, TLAPS

Rows == (1..MaxAttempts) \X BOOLEAN
FreshRow(d, n) == n \notin {a[1] : a \in attempt[d]}

LEMMA RowsFinite == IsFiniteSet(Rows)
<1>1. IsFiniteSet(1..MaxAttempts)
  BY FS_Interval, BoundAssumption
<1>2. IsFiniteSet(BOOLEAN)
  <2>1. IsFiniteSet({TRUE})
    BY FS_Singleton
  <2>2. IsFiniteSet({TRUE} \cup {FALSE})
    BY <2>1, FS_AddElement
  <2>3. BOOLEAN = {TRUE} \cup {FALSE}
    OBVIOUS
  <2> QED  BY <2>2, <2>3
<1> QED  BY <1>1, <1>2, FS_Product DEF Rows

(* What is claimed of a delivery fits, and a claim has as many entries as  *)
(* deliveries.                                                             *)
LEMMA ClaimFits ==
  ASSUME TypeOK, NEW S \in SUBSET Delivery, Cardinality(S) <= BatchSize,
         \A d \in S : attempts[d] < MaxAttempts
  PROVE  LET held1 == {[delivery |-> d, attempts |-> attempts[d]] : d \in S}
         IN  /\ held1 \in SUBSET Claimed
             /\ Cardinality(held1) <= BatchSize /\ IsFiniteSet(held1)
<1> DEFINE held1 == {[delivery |-> d, attempts |-> attempts[d]] : d \in S}
           f == [d \in S |-> [delivery |-> d, attempts |-> attempts[d]]]
<1>1. held1 \in SUBSET Claimed
  BY BoundAssumption DEF TypeOK, Claimed
<1>2. IsFiniteSet(S)
  BY FS_Subset, DeliveryAssumption
<1>3. f \in Surjection(S, held1)
  BY DEF Surjection
<1>4. IsFiniteSet(held1) /\ Cardinality(held1) <= Cardinality(S)
  BY <1>2, <1>3, FS_Surjection
<1>5. Cardinality(held1) \in Nat /\ Cardinality(S) \in Nat
  BY <1>2, <1>4, FS_CardinalityType
<1> QED  BY <1>1, <1>4, <1>5, BoundAssumption

\* A delivery that is still to be sent has attempts left.
HasLeft == \A d \in Delivery : status[d] \in {"absent", "PENDING"} => attempts[d] < MaxAttempts

(* A dispatcher at work is at something it has claimed.                    *)
LEMMA AtItem ==
  ASSUME TypeOK, NEW r \in Dispatcher, step[r] # "idle"
  PROVE  /\ item[r] \in Claimed /\ item[r].delivery \in Delivery
         /\ item[r].attempts + 1 \in 1..MaxAttempts
<1>1. item[r] \in Claimed
  BY DEF TypeOK
<1> QED  BY <1>1, BoundAssumption DEF Claimed

\* What the transaction that ends an attempt may do to the rows.
Settled(d, n, ok) ==
  \/ UNCHANGED rows
  \/ /\ status[d] = "PENDING"
     /\ UNCHANGED <<attempts, attempt>>
     /\ status' = [status EXCEPT ![d] = "DEAD"] /\ wait' = [wait EXCEPT ![d] = 0]
  \/ /\ status[d] = "PENDING" /\ attempts[d] = n - 1 /\ FreshRow(d, n)
     /\ attempt' = [attempt EXCEPT ![d] = @ \cup {<<n, ok>>}]
     /\ attempts' = [attempts EXCEPT ![d] = n]
     /\ \E s \in {"DELIVERED", "DEAD", "PENDING"}, w \in Nat :
          /\ status' = [status EXCEPT ![d] = s] /\ wait' = [wait EXCEPT ![d] = w]
          /\ s = "PENDING" => n < MaxAttempts

LEMMA SettleCases ==
  ASSUME TypeOK, NEW r \in Dispatcher, Settle(r)
  PROVE  \E d \in Delivery, n \in 1..MaxAttempts, ok \in BOOLEAN : Settled(d, n, ok)
<1> DEFINE d == item[r].delivery
           n == item[r].attempts + 1
<1>1. d \in Delivery /\ n \in 1..MaxAttempts
  BY AtItem DEF Settle
<1>2. ASSUME NEW ok \in BOOLEAN, RecordAttempt(d, n, ok) PROVE Settled(d, n, ok)
  <2>1. CASE n \notin {a[1] : a \in attempt[d]} /\ Settles(d, n)
    <3> DEFINE s == IF ok THEN "DELIVERED" ELSE IF Exhausted(n) THEN "DEAD" ELSE "PENDING"
               w == IF ok \/ Exhausted(n) THEN 0 ELSE Backoff[n]
    <3>1. w \in Nat
      BY <1>1, BackoffAssumption, BoundAssumption DEF Exhausted
    <3>2. s \in {"DELIVERED", "DEAD", "PENDING"} /\ (s = "PENDING" => n < MaxAttempts)
      BY <1>1, BoundAssumption DEF Exhausted
    <3>3. /\ attempt' = [attempt EXCEPT ![d] = @ \cup {<<n, ok>>}]
          /\ attempts' = [attempts EXCEPT ![d] = n]
          /\ status' = [status EXCEPT ![d] = s] /\ wait' = [wait EXCEPT ![d] = w]
          /\ status[d] = "PENDING" /\ attempts[d] = n - 1 /\ FreshRow(d, n)
      BY <1>2, <2>1 DEF RecordAttempt, Settles, FreshRow
    <3> HIDE DEF s, w, d, n
    <3> QED  BY <3>1, <3>2, <3>3 DEF Settled
  <2>2. CASE ~(n \notin {a[1] : a \in attempt[d]} /\ Settles(d, n))
    BY <1>2, <2>2 DEF RecordAttempt, DropAttempt, Settled, rows
  <2> QED  BY <2>1, <2>2
<1>3. ASSUME Bury(d) PROVE Settled(d, n, TRUE)
  <2>1. CASE status[d] = "PENDING"
    BY <1>3, <2>1 DEF Bury, Settled
  <2>2. CASE status[d] # "PENDING"
    BY <1>1, <1>3, <2>2 DEF Bury, Settled, rows, TypeOK
  <2> QED  BY <2>1, <2>2
<1> HIDE DEF d, n
<1>4. RecordAttempt(d, n, TRUE) \/ RecordAttempt(d, n, FALSE) \/ Bury(d)
  BY DEF Settle, d, n
<1> QED  BY <1>1, <1>2, <1>3, <1>4

\* The row's part and the pass's part of the types, each of one kind of step.
RowsOK ==
  /\ status \in [Delivery -> {"absent", "PENDING", "DELIVERED", "DEAD"}]
  /\ attempts \in [Delivery -> 0..MaxAttempts]
  /\ wait \in [Delivery -> Nat]
  /\ attempt \in [Delivery -> SUBSET Rows]
  /\ HasLeft
PassOK ==
  /\ held \in [Dispatcher -> SUBSET Claimed]
  /\ step \in [Dispatcher -> Steps]
  /\ item \in [Dispatcher -> Claimed \cup {None}]
  /\ \A r \in Dispatcher :
       /\ step[r] = "idle" <=> item[r] = None
       /\ item[r] = None \/ item[r] \in held[r]
       /\ Cardinality(held[r]) <= BatchSize
       /\ IsFiniteSet(held[r])
CountsOK ==
  /\ webhook \in {"ACTIVE", "PAUSED", "DISABLED"}
  /\ faults \in 0..MaxFaults /\ moves \in 0..MaxMoves

Inv == RowsOK /\ PassOK /\ CountsOK

LEMMA InvType == Inv => TypeOK
BY DEF Inv, RowsOK, PassOK, CountsOK, TypeOK, Rows

LEMMA InvInit == Init => Inv
<1> SUFFICES ASSUME Init PROVE Inv
  OBVIOUS
<1>1. RowsOK
  BY BoundAssumption DEF Init, RowsOK, HasLeft
<1>2. PassOK
  BY FS_EmptySet, BoundAssumption DEF Init, PassOK, Steps
<1>3. CountsOK
  BY BoundAssumption DEF Init, CountsOK
<1> QED  BY <1>1, <1>2, <1>3 DEF Inv

(* Ending an attempt, with or without the rest of the batch.               *)
LEMMA PassEnds ==
  ASSUME PassOK, NEW r \in Dispatcher, Finish(r) \/ Abandon(r)
  PROVE  PassOK'
<1>1. PICK H \in SUBSET held[r] :
        /\ step' = [step EXCEPT ![r] = "idle"] /\ item' = [item EXCEPT ![r] = None]
        /\ held' = [held EXCEPT ![r] = H]
  BY DEF Finish, Abandon
<1>2. IsFiniteSet(H) /\ Cardinality(H) <= Cardinality(held[r])
  BY <1>1, FS_Subset DEF PassOK
<1>3. Cardinality(H) \in Nat /\ Cardinality(held[r]) \in Nat
  BY <1>2, FS_CardinalityType DEF PassOK
<1>4. Cardinality(H) <= BatchSize
  BY <1>2, <1>3, BoundAssumption DEF PassOK
<1> QED  BY <1>1, <1>2, <1>4, NoneAssumption DEF PassOK, Steps

LEMMA SettleRows ==
  ASSUME Inv, NEW r \in Dispatcher, Settle(r)
  PROVE  RowsOK'
<1>1. PICK d \in Delivery, n \in 1..MaxAttempts, ok \in BOOLEAN : Settled(d, n, ok)
  BY InvType, SettleCases
<1>2. CASE UNCHANGED rows
  BY <1>2 DEF rows, Inv, RowsOK, HasLeft
<1>3. CASE /\ UNCHANGED <<attempts, attempt>>
           /\ status' = [status EXCEPT ![d] = "DEAD"] /\ wait' = [wait EXCEPT ![d] = 0]
  BY <1>3 DEF Inv, RowsOK, HasLeft
<1>4. ASSUME NEW s \in {"DELIVERED", "DEAD", "PENDING"}, NEW w \in Nat,
             attempt' = [attempt EXCEPT ![d] = @ \cup {<<n, ok>>}],
             attempts' = [attempts EXCEPT ![d] = n],
             status' = [status EXCEPT ![d] = s], wait' = [wait EXCEPT ![d] = w],
             s = "PENDING" => n < MaxAttempts
      PROVE  RowsOK'
  <2>1. attempt' \in [Delivery -> SUBSET Rows]
    BY <1>4 DEF Inv, RowsOK, Rows
  <2>2. attempts' \in [Delivery -> 0..MaxAttempts] /\ HasLeft'
    BY <1>4 DEF Inv, RowsOK, HasLeft
  <2> QED  BY <1>4, <2>1, <2>2 DEF Inv, RowsOK
<1> QED  BY <1>1, <1>2, <1>3, <1>4 DEF Settled

LEMMA InvStep == Inv /\ [Next]_vars => Inv'
<1> SUFFICES ASSUME Inv, [Next]_vars PROVE Inv'
  OBVIOUS
<1> USE DEF Inv
<1>1. ASSUME NEW d \in Delivery, InsertDelivery(d) PROVE Inv'
  BY <1>1 DEF InsertDelivery, pass, RowsOK, HasLeft, PassOK, CountsOK
<1>2. CASE SetStatus
  <2>1. UNCHANGED rows /\ UNCHANGED pass /\ UNCHANGED faults
    BY <1>2 DEF SetStatus
  <2>2. CountsOK'
    BY <1>2, BoundAssumption DEF SetStatus, CountsOK
  <2> QED  BY <2>1, <2>2 DEF rows, pass, RowsOK, HasLeft, PassOK
<1>3. CASE Tick
  <2>1. wait' \in [Delivery -> Nat]
    BY <1>3 DEF Tick, RowsOK
  <2> QED  BY <1>3, <2>1 DEF Tick, pass, RowsOK, HasLeft, PassOK, CountsOK
<1>4. ASSUME NEW r \in Dispatcher, ClaimDue(r) PROVE Inv'
  <2>1. PICK S \in SUBSET Due :
          /\ Cardinality(S) <= BatchSize
          /\ held' = [held EXCEPT ![r] =
                        {[delivery |-> d, attempts |-> attempts[d]] : d \in S}]
          /\ wait' = [d \in Delivery |-> IF d \in S THEN Lease ELSE wait[d]]
    BY <1>4 DEF ClaimDue
  <2>2. S \in SUBSET Delivery /\ \A d \in S : attempts[d] < MaxAttempts
    BY DEF Due, RowsOK, HasLeft
  <2> DEFINE H == {[delivery |-> d, attempts |-> attempts[d]] : d \in S}
  <2>3. H \in SUBSET Claimed /\ Cardinality(H) <= BatchSize /\ IsFiniteSet(H)
    BY <2>1, <2>2, InvType, ClaimFits
  <2>4. wait' \in [Delivery -> Nat]
    BY <2>1, BoundAssumption DEF RowsOK
  <2>5. UNCHANGED <<status, attempts, attempt, webhook, step, item, faults, moves>>
    BY <1>4 DEF ClaimDue
  <2>6. held[r] = {} /\ held' = [held EXCEPT ![r] = H]
    BY <1>4, <2>1 DEF ClaimDue
  <2>7. item[r] = None
    BY <2>6 DEF PassOK
  <2> HIDE DEF H
  <2>8. PassOK'
    BY <2>3, <2>5, <2>6, <2>7 DEF PassOK
  <2> QED  BY <2>4, <2>5, <2>8 DEF RowsOK, HasLeft, CountsOK
<1>5. ASSUME NEW r \in Dispatcher, Attempt(r) PROVE Inv'
  <2>1. PICK h \in held[r] :
          /\ item' = [item EXCEPT ![r] = h]
          /\ step' = [step EXCEPT ![r] = IF webhook = "ACTIVE" THEN "sending" ELSE "burying"]
          /\ UNCHANGED <<rows, webhook, held, faults, moves>>
    BY <1>5 DEF Attempt
  <2>2. h \in Claimed /\ h # None
    BY NoneAssumption DEF PassOK
  <2>3. PassOK'
    BY <2>1, <2>2 DEF PassOK, Steps
  <2> QED  BY <2>1, <2>3 DEF rows, RowsOK, HasLeft, CountsOK
<1>6. ASSUME NEW r \in Dispatcher, Send(r) PROVE Inv'
  <2>1. PassOK'
    BY <1>6 DEF Send, PassOK, Steps
  <2> QED  BY <1>6, <2>1 DEF Send, rows, RowsOK, HasLeft, CountsOK
<1>7. ASSUME NEW r \in Dispatcher, Record(r) PROVE Inv'
  BY <1>7, SettleRows, PassEnds DEF Record, CountsOK
<1>8. ASSUME NEW r \in Dispatcher, RecordUncertain(r) PROVE Inv'
  BY <1>8, SettleRows, PassEnds, BoundAssumption DEF RecordUncertain, Fault, CountsOK
<1>9. ASSUME NEW r \in Dispatcher, PassFails(r) PROVE Inv'
  <2>1. PassOK' /\ CountsOK' /\ UNCHANGED rows
    BY <1>9, PassEnds, BoundAssumption DEF PassFails, Fault, CountsOK
  <2> QED  BY <2>1 DEF rows, RowsOK, HasLeft
<1>10. CASE UNCHANGED vars
  BY <1>10 DEF vars, rows, pass, RowsOK, HasLeft, PassOK, CountsOK
<1> QED
  BY <1>1, <1>2, <1>3, <1>4, <1>5, <1>6, <1>7, <1>8, <1>9, <1>10 DEF Next, Dispatch

LEMMA AlwaysInv == Spec => []Inv
BY InvInit, InvStep, PTL DEF Spec

(* Every variable of the deliveries keeps its type (WebhookDelivery.       *)
(* TypeOK): no delivery is attempted more often than its policy allows, and *)
(* no claim takes more than a batch.                                       *)
THEOREM TypeCorrect == Spec => []TypeOK
BY AlwaysInv, InvType, PTL

(* A delivery that was settled stays as it is, however late a dispatcher   *)
(* records its attempt (sqlDeliverySettle moves PENDING rows only).        *)
THEOREM SettledStays == Spec => SettledIsFinal
<1>1. Inv /\ [Next]_vars =>
        [\A d \in Delivery : status[d] \in {"DELIVERED", "DEAD"} =>
           /\ status'[d] = status[d] /\ attempts'[d] = attempts[d]
           /\ attempt'[d] = attempt[d]]_vars
  <2> SUFFICES ASSUME Inv, Next, NEW d \in Delivery, status[d] \in {"DELIVERED", "DEAD"}
               PROVE  /\ status'[d] = status[d] /\ attempts'[d] = attempts[d]
                      /\ attempt'[d] = attempt[d]
    OBVIOUS
  <2>1. ASSUME NEW c \in Delivery, InsertDelivery(c) PROVE UNCHANGED <<attempts, attempt>>
                                                           /\ status'[d] = status[d]
    BY <2>1 DEF InsertDelivery, Inv, RowsOK
  <2>2. ASSUME NEW r \in Dispatcher, Settle(r)
        PROVE  status'[d] = status[d] /\ attempts'[d] = attempts[d] /\ attempt'[d] = attempt[d]
    <3>1. PICK c \in Delivery, n \in 1..MaxAttempts, ok \in BOOLEAN : Settled(c, n, ok)
      BY <2>2, InvType, SettleCases
    <3> QED  BY <3>1 DEF Settled, rows, Inv, RowsOK
  <2> QED
    BY <2>1, <2>2
       DEF Next, Dispatch, SetStatus, Tick, ClaimDue, Attempt, Send, Record, RecordUncertain,
           PassFails, rows
<1> QED  BY <1>1, AlwaysInv, PTL DEF Spec, SettledIsFinal

LEMMA CountStep == Inv /\ AttemptsCounted /\ [Next]_vars => AttemptsCounted'
<1> SUFFICES ASSUME Inv, AttemptsCounted, [Next]_vars PROVE AttemptsCounted'
  OBVIOUS
<1>1. CASE UNCHANGED <<attempts, attempt>>
  BY <1>1 DEF AttemptsCounted
<1>2. ASSUME NEW r \in Dispatcher, Settle(r) PROVE AttemptsCounted'
  <2>1. PICK d \in Delivery, n \in 1..MaxAttempts, ok \in BOOLEAN : Settled(d, n, ok)
    BY <1>2, InvType, SettleCases
  <2>2. CASE /\ attempts[d] = n - 1 /\ FreshRow(d, n)
             /\ attempt' = [attempt EXCEPT ![d] = @ \cup {<<n, ok>>}]
             /\ attempts' = [attempts EXCEPT ![d] = n]
    <3>1. attempt[d] \in SUBSET Rows /\ IsFiniteSet(attempt[d])
      BY RowsFinite, FS_Subset DEF Inv, RowsOK
    <3>2. <<n, ok>> \notin attempt[d]
      BY <2>2 DEF FreshRow
    <3>3. attempt'[d] = attempt[d] \cup {<<n, ok>>} /\ attempts'[d] = n
      BY <2>2 DEF Inv, RowsOK
    <3>4. Cardinality(attempt'[d]) = n
      <4>1. Cardinality(attempt[d]) = n - 1
        BY <2>2 DEF AttemptsCounted
      <4>2. Cardinality(attempt[d] \cup {<<n, ok>>}) = Cardinality(attempt[d]) + 1
        BY <3>1, <3>2, FS_AddElement
      <4> QED  BY <3>3, <4>1, <4>2
    <3>5. {a[1] : a \in attempt'[d]} = {a[1] : a \in attempt[d]} \cup {n}
      <4> DEFINE t == <<n, ok>>
      <4>1. t[1] = n /\ attempt'[d] = attempt[d] \cup {t}
        BY <3>3
      <4> HIDE DEF t
      <4>2. {a[1] : a \in attempt[d] \cup {t}} = {a[1] : a \in attempt[d]} \cup {t[1]}
        OBVIOUS
      <4> QED  BY <4>1, <4>2
    <3>6. {a[1] : a \in attempt'[d]} = 1..n
      BY <2>2, <3>5 DEF AttemptsCounted
    <3>7. \A c \in Delivery : c # d => attempt'[c] = attempt[c] /\ attempts'[c] = attempts[c]
      BY <2>2 DEF Inv, RowsOK
    <3> QED  BY <3>3, <3>4, <3>6, <3>7 DEF AttemptsCounted
  <2> QED  BY <1>1, <2>1, <2>2 DEF Settled, rows
<1> QED
  BY <1>1, <1>2
     DEF Next, InsertDelivery, Dispatch, SetStatus, Tick, ClaimDue, Attempt, Send, Record,
         RecordUncertain, PassFails, rows, vars

(* A delivery's count is the number of its attempt rows, which are numbered *)
(* without a gap, whichever dispatchers race for the next number            *)
(* (RecordAttempt: the rows' unique key and the delivery's old count).      *)
THEOREM CountsAgree == Spec => []AttemptsCounted
<1>1. Init => AttemptsCounted
  <2> SUFFICES ASSUME Init, NEW d \in Delivery
               PROVE  {a[1] : a \in attempt[d]} = 1..attempts[d]
                      /\ Cardinality(attempt[d]) = attempts[d]
    BY DEF AttemptsCounted
  <2>1. attempt[d] = {} /\ attempts[d] = 0
    BY DEF Init
  <2> QED  BY <2>1, FS_EmptySet
<1> QED  BY <1>1, CountStep, AlwaysInv, PTL DEF Spec

-----------------------------------------------------------------------------
(* The relay                                                               *)
(*                                                                         *)
(* None of the bounds of OutboxRelay is needed, but for its types.         *)

RelayTypes ==
  /\ row \in [Event -> {"absent", "unpublished", "published"}]
  /\ {batch, turn, marked} \subseteq [Relay -> SUBSET Event]
  /\ inserted \in [Relay -> SUBSET (Webhook \X Event)]
  /\ {published, lost} \subseteq [Event -> Nat]

(* A relay's transaction holds rows that are unpublished and that no other *)
(* holds, and inserts deliveries of events it has marked.                  *)
Batches ==
  /\ \A r \in Relay : turn[r] \cup marked[r] \subseteq batch[r]
  /\ \A r \in Relay : turn[r] \cap marked[r] = {}
  /\ \A r \in Relay : \A e \in batch[r] : row[e] = "unpublished"
  /\ \A q, r \in Relay : q # r => batch[q] \cap batch[r] = {}
InsertsMarked == \A r \in Relay : inserted[r] \subseteq Webhook \X marked[r]

(* What the broker has accepted is marked for good, marked by a            *)
(* transaction still open, or was marked by one that rolled back.          *)
InFlight(e) == \E r \in Relay : e \in marked[r]
Accounted ==
  \A e \in Event :
    published[e] = lost[e] + IF row[e] = "published" \/ InFlight(e) THEN 1 ELSE 0

RelayInv == RelayTypes /\ Batches /\ InsertsMarked /\ Accounted

LEMMA RelayInit == OutboxInit => RelayInv
  BY DEF OutboxInit, RelayInv, RelayTypes, Batches, InsertsMarked, Accounted, InFlight

LEMMA RelayStep == RelayInv /\ [OutboxNext]_outboxVars => RelayInv'
<1> SUFFICES ASSUME RelayInv, [OutboxNext]_outboxVars PROVE RelayInv'
  OBVIOUS
<1> USE DEF RelayInv, tx, history
<1>1. ASSUME NEW e \in Event, Append(e) PROVE RelayInv'
  <2>1. /\ row[e] = "absent" /\ row' = [row EXCEPT ![e] = "unpublished"]
        /\ UNCHANGED <<batch, turn, marked, inserted, published, lost>>
    BY <1>1 DEF Append
  <2>2. RelayTypes' /\ InsertsMarked'
    BY <2>1 DEF RelayTypes, InsertsMarked
  <2>3. Batches'
    BY <2>1 DEF RelayTypes, Batches
  <2>4. Accounted'
    BY <2>1 DEF RelayTypes, Accounted, InFlight
  <2> QED  BY <2>2, <2>3, <2>4
<1>2. ASSUME NEW w \in Webhook, SetSubscription(w) PROVE RelayInv'
  BY <1>2 DEF SetSubscription, RelayTypes, Batches, InsertsMarked, Accounted, InFlight
<1>3. ASSUME NEW r \in Relay, Claim(r) PROVE RelayInv'
  <2>1. PICK S \in SUBSET Event :
          /\ batch[r] = {}
          /\ \A e \in S : row[e] = "unpublished" /\ \A q \in Relay : e \notin batch[q]
          /\ batch' = [batch EXCEPT ![r] = S]
          /\ turn' = [turn EXCEPT ![r] = S]
    BY <1>3 DEF Claim, Unlocked
  <2>2. UNCHANGED <<row, marked, inserted, published, lost>>
    BY <1>3 DEF Claim
  <2>3. RelayTypes' /\ InsertsMarked' /\ Accounted'
    BY <2>1, <2>2 DEF RelayTypes, InsertsMarked, Accounted, InFlight
  <2>4. marked[r] = {}
    BY <2>1 DEF Batches
  <2>5. Batches'
    BY <2>1, <2>2, <2>4 DEF RelayTypes, Batches
  <2> QED  BY <2>3, <2>5
<1>4. ASSUME NEW r \in Relay, Publish(r) PROVE RelayInv'
  <2>1. PICK e \in turn[r] :
          /\ published' = [published EXCEPT ![e] = @ + 1]
          /\ inserted' = [inserted EXCEPT ![r] = @ \cup
                            {we \in Active \X {e} : we \notin scheduled}]
          /\ turn' = [turn EXCEPT ![r] = @ \ {e}]
          /\ marked' = [marked EXCEPT ![r] = @ \cup {e}]
          /\ UNCHANGED <<row, batch, lost>>
    BY <1>4 DEF Publish, FanOut
  <2>2. e \in Event /\ e \in batch[r] /\ row[e] = "unpublished"
    BY <2>1 DEF RelayTypes, Batches
  <2>3. ~InFlight(e)
    BY <2>1, <2>2 DEF Batches, InFlight
  <2>4. Active \subseteq Webhook
    BY DEF Active
  <2>5. RelayTypes'
    BY <2>1, <2>2, <2>4 DEF RelayTypes
  <2>6. Batches'
    BY <2>1, <2>2 DEF RelayTypes, Batches
  <2>7. InsertsMarked'
    BY <2>1, <2>4 DEF RelayTypes, InsertsMarked
  <2>8. \A f \in Event : InFlight(f)' <=> InFlight(f) \/ f = e
    BY <2>1 DEF RelayTypes, InFlight
  <2>9. Accounted'
    BY <2>1, <2>2, <2>3, <2>8 DEF RelayTypes, Accounted
  <2> QED  BY <2>5, <2>6, <2>7, <2>9
<1>5. ASSUME NEW r \in Relay, PublishFails(r) PROVE RelayInv'
  <2>1. PICK e \in turn[r] : turn' = [turn EXCEPT ![r] = @ \ {e}]
    BY <1>5 DEF PublishFails
  <2>2. UNCHANGED <<row, batch, marked, inserted, published, lost>>
    BY <1>5 DEF PublishFails, RecordFailure
  <2> QED
    BY <2>1, <2>2 DEF RelayTypes, Batches, InsertsMarked, Accounted, InFlight
<1>6. ASSUME NEW r \in Relay, End(r)
      PROVE  /\ {batch, turn, marked}' \subseteq [Relay -> SUBSET Event]
             /\ inserted' \in [Relay -> SUBSET (Webhook \X Event)]
             /\ \A q \in Relay : q # r => /\ batch'[q] = batch[q] /\ turn'[q] = turn[q]
                                          /\ marked'[q] = marked[q]
                                          /\ inserted'[q] = inserted[q]
             /\ batch'[r] = {} /\ turn'[r] = {} /\ marked'[r] = {} /\ inserted'[r] = {}
  BY <1>6 DEF End, RelayTypes
<1>7. ASSUME NEW r \in Relay, End(r)
      PROVE  /\ InsertsMarked'
             /\ \A e \in Event : InFlight(e) <=> InFlight(e)' \/ e \in marked[r]
             /\ \A e \in Event : e \in marked[r] => ~InFlight(e)' /\ row[e] = "unpublished"
  <2>1. InsertsMarked'
    BY <1>6, <1>7 DEF InsertsMarked
  <2>2. \A e \in Event : InFlight(e) <=> InFlight(e)' \/ e \in marked[r]
    BY <1>6, <1>7 DEF InFlight
  <2>3. \A e \in Event : e \in marked[r] => ~InFlight(e)' /\ row[e] = "unpublished"
    BY <1>6, <1>7 DEF InFlight, Batches
  <2> QED  BY <2>1, <2>2, <2>3
<1>8. ASSUME NEW r \in Relay, Commit(r) PROVE RelayInv'
  <2>1. /\ End(r) /\ UNCHANGED <<published, lost>>
        /\ row' = [e \in Event |-> IF e \in marked[r] THEN "published" ELSE row[e]]
    BY <1>8 DEF Commit
  <2>2. RelayTypes'
    BY <1>6, <2>1 DEF RelayTypes
  <2>3. Batches'
    <3>1. \A q \in Relay : /\ turn'[q] \cup marked'[q] \subseteq batch'[q]
                          /\ turn'[q] \cap marked'[q] = {}
      BY <1>6, <2>1 DEF Batches
    <3>2. \A p, q \in Relay : p # q => batch'[p] \cap batch'[q] = {}
      BY <1>6, <2>1 DEF Batches
    <3>3. ASSUME NEW q \in Relay, NEW e \in batch'[q]
          PROVE  row'[e] = "unpublished"
      <4>1. q # r /\ e \in batch[q] /\ row[e] = "unpublished"
        BY <1>6, <2>1, <3>3 DEF Batches
      <4>2. e \in Event
        BY <4>1 DEF RelayTypes
      <4>3. e \notin marked[r]
        BY <4>1 DEF Batches
      <4> QED  BY <2>1, <4>1, <4>2, <4>3
    <3> QED  BY <3>1, <3>2, <3>3 DEF Batches
  <2>4. ASSUME NEW e \in Event
        PROVE  row'[e] = "published" \/ InFlight(e)' <=> row[e] = "published" \/ InFlight(e)
    BY <1>7, <2>1
  <2>5. Accounted'
    BY <2>1, <2>4 DEF Accounted
  <2> QED  BY <1>7, <2>1, <2>2, <2>3, <2>5
<1>9. ASSUME NEW r \in Relay, Rollback(r) PROVE RelayInv'
  <2>1. /\ End(r) /\ UNCHANGED <<row, published>>
        /\ lost' = [e \in Event |-> IF e \in marked[r] THEN lost[e] + 1 ELSE lost[e]]
    BY <1>9 DEF Rollback
  <2>2. RelayTypes'
    BY <1>6, <2>1 DEF RelayTypes
  <2>3. Batches'
    BY <1>6, <2>1 DEF Batches
  <2>4. Accounted'
    BY <1>7, <2>1 DEF RelayTypes, Accounted
  <2> QED  BY <1>7, <2>1, <2>2, <2>3, <2>4
<1>10. CASE UNCHANGED outboxVars
  BY <1>10 DEF outboxVars, RelayTypes, Batches, InsertsMarked, Accounted, InFlight
<1> QED
  BY <1>1, <1>2, <1>3, <1>4, <1>5, <1>8, <1>9, <1>10 DEF OutboxNext, Drain

LEMMA RelayAlways == OutboxSpec => []RelayInv
  BY RelayInit, RelayStep, PTL DEF OutboxSpec

(* What only the types of OutboxRelay speak of, bounds included.           *)
RelayBounds ==
  /\ subscription \in [Webhook -> {"ACTIVE", "PAUSED", "DISABLED"}]
  /\ scheduled \subseteq Webhook \X Event
  /\ \A r \in Relay : Cardinality(batch[r]) <= RelayBatch
  /\ rollbacks \in 0..MaxRollbacks /\ changes \in 0..MaxChanges

LEMMA BoundsInit == OutboxInit => RelayBounds
<1>1. Cardinality({}) = 0
  BY FS_EmptySet
<1> QED  BY <1>1, RelayBoundAssumption DEF OutboxInit, RelayBounds

LEMMA BoundsStep == RelayInv /\ RelayBounds /\ [OutboxNext]_outboxVars => RelayBounds'
<1> SUFFICES ASSUME RelayInv, RelayBounds, [OutboxNext]_outboxVars PROVE RelayBounds'
  OBVIOUS
<1> USE RelayBoundAssumption DEF tx, history
<1>1. ASSUME NEW e \in Event, Append(e) PROVE RelayBounds'
  BY <1>1 DEF Append, RelayBounds
<1>2. ASSUME NEW w \in Webhook, SetSubscription(w) PROVE RelayBounds'
  BY <1>2 DEF SetSubscription, RelayBounds
<1>3. ASSUME NEW r \in Relay, Claim(r) PROVE RelayBounds'
  <2>1. PICK S : Cardinality(S) <= RelayBatch /\ batch' = [batch EXCEPT ![r] = S]
    BY <1>3 DEF Claim, Limit
  <2>2. UNCHANGED <<subscription, scheduled, rollbacks, changes>>
    BY <1>3 DEF Claim
  <2> QED  BY <2>1, <2>2 DEF RelayBounds, RelayInv, RelayTypes
<1>4. ASSUME NEW r \in Relay, Publish(r) \/ PublishFails(r) PROVE RelayBounds'
  BY <1>4 DEF Publish, ScheduleLater, PublishFails, RelayBounds
<1>5. ASSUME NEW r \in Relay, End(r)
      PROVE  \A q \in Relay : Cardinality(batch'[q]) <= RelayBatch
  <2>1. Cardinality({}) = 0
    BY FS_EmptySet
  <2> QED  BY <1>5, <2>1 DEF End, RelayBounds, RelayInv, RelayTypes
<1>6. ASSUME NEW r \in Relay, Commit(r) PROVE RelayBounds'
  <2>1. /\ End(r) /\ scheduled' = scheduled \cup inserted[r]
        /\ UNCHANGED <<subscription, rollbacks, changes>>
    BY <1>6 DEF Commit
  <2>2. inserted[r] \subseteq Webhook \X Event
    BY DEF RelayInv, RelayTypes
  <2> QED  BY <1>5, <2>1, <2>2 DEF RelayBounds
<1>7. ASSUME NEW r \in Relay, Rollback(r) PROVE RelayBounds'
  <2>1. /\ End(r) /\ UNCHANGED <<subscription, scheduled, changes>>
        /\ rollbacks < MaxRollbacks /\ rollbacks' = rollbacks + 1
    BY <1>7 DEF Rollback
  <2> QED  BY <1>5, <2>1 DEF RelayBounds
<1>8. CASE UNCHANGED outboxVars
  BY <1>8 DEF outboxVars, RelayBounds
<1> QED
  BY <1>1, <1>2, <1>3, <1>4, <1>6, <1>7, <1>8 DEF OutboxNext, Drain

(* Whatever the relays do, rows, subscriptions, deliveries and the rows of *)
(* each open transaction are well typed, and no claim exceeds RelayBatch.  *)
THEOREM RelayTypeCorrect == OutboxSpec => []OutboxTypeOK
<1>1. RelayInv /\ RelayBounds => OutboxTypeOK
  BY DEF RelayInv, RelayBounds, RelayTypes, Batches, InsertsMarked, OutboxTypeOK
<1>2. OutboxSpec => []RelayBounds
  BY BoundsInit, BoundsStep, RelayAlways, PTL DEF OutboxSpec
<1> QED  BY <1>1, <1>2, RelayAlways, PTL

(* A row is marked only when its event has left: the broker has accepted   *)
(* it once, and once more for every relay that rolled back after it had    *)
(* (drain: MarkPublished in the transaction that published).               *)
MarkedHasLeft ==
  \A e \in Event : row[e] = "published" => published[e] = 1 + lost[e]

THEOREM NoEventIsLost == OutboxSpec => []MarkedHasLeft
<1>1. RelayInv => MarkedHasLeft
  BY DEF RelayInv, RelayTypes, Accounted, MarkedHasLeft
<1> QED  BY <1>1, RelayAlways, PTL

(* Concurrent relays add no duplicates of their own: the broker accepts an *)
(* event a second time only after a relay that had published it rolled     *)
(* back (drain: FOR UPDATE SKIP LOCKED, and one transaction a pass).       *)
THEOREM RepublishedAfterRollback == OutboxSpec => []DuplicatesNeedRollback
<1>1. RelayInv => DuplicatesNeedRollback
  BY DEF RelayInv, RelayTypes, Accounted, DuplicatesNeedRollback
<1> QED  BY <1>1, RelayAlways, PTL

(* "scheduled for delivery exactly when it leaves": an event's deliveries  *)
(* are committed by the step that marks its row, and by no later one.      *)
THEOREM ScheduledAsItLeaves == OutboxSpec => FannedOutOnce
<1> DEFINE New == \A w \in Webhook, e \in Event :
             <<w, e>> \in scheduled' \ scheduled =>
               row[e] = "unpublished" /\ row'[e] = "published"
<1>1. ASSUME RelayInv, [OutboxNext]_outboxVars PROVE [New]_outboxVars
  <2>1. UNCHANGED scheduled \/ \E r \in Relay : Commit(r)
    BY <1>1
    DEF OutboxNext, tx, history, Append, SetSubscription, Drain, Claim,
        Publish, ScheduleLater, PublishFails, Rollback,
        outboxVars
  <2>2. ASSUME NEW r \in Relay, Commit(r) PROVE New
    <3>1. /\ scheduled' = scheduled \cup inserted[r]
          /\ row' = [e \in Event |-> IF e \in marked[r] THEN "published" ELSE row[e]]
      BY <2>2 DEF Commit
    <3> QED
      BY <1>1, <3>1 DEF RelayInv, RelayTypes, Batches, InsertsMarked
  <2> QED  BY <2>1, <2>2
<1>2. OutboxSpec => [][New]_outboxVars
  BY <1>1, RelayAlways, PTL DEF OutboxSpec
<1> QED  BY <1>2 DEF FannedOutOnce
================================================================================
