-------------------------- MODULE PeriodCloseProofs --------------------------
(***************************************************************************)
(* Theorems about period close, for any number of periods, journals,       *)
(* postings and people.                                                    *)
(*                                                                         *)
(* The argument is the locks': a period locked exclusive is locked by one  *)
(* person and no posting (LocksExclude), a posting's journals lie in       *)
(* periods it has locked, and those are not closed (PostsIntoOpen), so the *)
(* journals a close has sealed are still the period's when its event       *)
(* commits (DraftHolds), and stay so as long as the period is closed       *)
(* (Exact).                                                                *)
(* The rest follows a period's whole history on the same locks: who asked  *)
(* for a reopening and who approved it (ReopenInv), which manifest a close *)
(* names (ChainInv), and what was posted since a close (LateInv).          *)
(* Last, that what is in progress never all waits (HoldsToPost).           *)
(***************************************************************************)
EXTENDS PeriodClose, WellFoundedInduction, TLAPS

Closed == {"HARD_CLOSE", "SEALED"}

(* A request that is being approved was made, for that period.             *)
AskedFor ==
  \A u \in User : (step[u] # "idle" /\ act[u].request # None) =>
    request[act[u].request] # None

(* The closes of a period have a last one.                                 *)
HasLast ==
  \A p \in Period : Closes(p) # {} =>
    \E n \in Closes(p) : \A k \in Closes(p) : k <= n

TypeInv == TypeOK /\ AskedFor /\ HasLast

LocksExclude ==
  \A p \in Period, u \in User : Exclusive(p, u) =>
    /\ \A t \in Posting : p \notin shared[t]
    /\ \A v \in User : Exclusive(p, v) => u = v

PostsIntoOpen ==
  \A t \in Posting :
    /\ \A p \in shared[t] : State(p) \notin Closed
    /\ \A j \in pending[t] : PeriodOf[j] \in shared[t]

DraftHolds ==
  \A u \in User : step[u] = "written" =>
    /\ written[u] # None
    /\ State(act[u].period) # "SEALED"
    /\ written[u].state = "HARD_CLOSE" =>
         written[u].manifest = In(act[u].period, posted)
    /\ written[u].state = "SEALED" => State(act[u].period) = "HARD_CLOSE"

Exact ==
  \A p \in Period :
    LET n == Len(history[p]) IN
    /\ State(p) = "HARD_CLOSE" => history[p][n].manifest = In(p, posted)
    /\ State(p) = "SEALED" =>
         /\ n > 1 /\ history[p][n - 1].state = "HARD_CLOSE"
         /\ history[p][n - 1].manifest = In(p, posted)

LockInv == LocksExclude /\ PostsIntoOpen /\ DraftHolds /\ Exact

Inv == TypeInv /\ LockInv

LEMMA NextCases ==
  ASSUME TypeOK, [Next]_vars
  PROVE  \/ \E t \in Posting : \/ Post(t) \/ Refuse(t) \/ CommitPosting(t)
                               \/ RollBackPosting(t)
         \/ \E u \in User :
              \/ \E a \in Act : Begin(u, a) /\ (a.request # None => request[a.request] # None)
              \/ LockForTransition(u) \/ Write(u) \/ CommitEvent(u)
              \/ RefuseAct(u) \/ RollBackAct(u)
         \/ \E u \in User, q \in Request, p \in Period : RequestReopen(u, q, p)
         \/ UNCHANGED vars
<1>1. ASSUME NEW u \in User, Transition(u)
      PROVE  \E a \in Act : Begin(u, a) /\ a.request = None
  <2>1. PICK p \in Period : \E to \in Tried[p] :
          Begin(u, [period |-> p, to |-> to, request |-> None])
    BY <1>1 DEF Transition
  <2>2. Tried[p] \subseteq States
    BY TriedAssumption
  <2> QED
    BY <2>1, <2>2 DEF Act
<1>2. ASSUME NEW u \in User, ApproveReopen(u)
      PROVE  \E a \in Act : Begin(u, a) /\ request[a.request] # None
  <2>1. PICK q \in Request :
          /\ request[q] # None
          /\ Begin(u, [period |-> request[q].period, to |-> "REOPENED",
                       request |-> q])
    BY <1>2 DEF ApproveReopen
  <2>2. request[q].period \in Period
    BY <2>1 DEF TypeOK, Asked
  <2> QED
    BY <2>1, <2>2 DEF Act, States
<1> QED
  BY <1>1, <1>2 DEF Next, Work, Proceed

(* What appending an event does to a period.                               *)
LEMMA Appended ==
  ASSUME NEW s \in Seq(Event), NEW e \in Event
  PROVE  /\ Append(s, e) \in Seq(Event) /\ Append(s, e) # <<>>
         /\ Len(Append(s, e)) = Len(s) + 1 /\ Len(s) \in Nat
         /\ DOMAIN Append(s, e) = 1..(Len(s) + 1) /\ DOMAIN s = 1..Len(s)
         /\ \A n \in 1..Len(s) : Append(s, e)[n] = s[n] /\ s[n] \in Event
         /\ Append(s, e)[Len(s) + 1] = e
  OBVIOUS

LEMMA LastManifestType ==
  ASSUME TypeOK, HasLast, NEW p \in Period
  PROVE  LastManifest(p) \in Nat
<1>1. CASE Closes(p) = {}
  BY <1>1 DEF LastManifest
<1>2. CASE Closes(p) # {}
  <2>1. LastManifest(p) \in Closes(p)
    BY <1>2 DEF HasLast, LastManifest
  <2>2. Closes(p) \subseteq Nat
    BY DEF Closes, TypeOK
  <2> QED
    BY <2>1, <2>2
<1> QED
  BY <1>1, <1>2

LEMMA EventType ==
  ASSUME TypeInv, NEW u \in User, step[u] # "idle"
  PROVE  act[u] \in Act /\ EventOf(u, act[u]) \in Event
<1>1. act[u] \in Act
  BY DEF TypeInv, TypeOK
<1>2. act[u].period \in Period /\ act[u].to \in States
        /\ act[u].request \in Request \cup {None}
  BY <1>1 DEF Act
<1>3. LastManifest(act[u].period) \in Nat
  BY <1>2, LastManifestType DEF TypeInv
<1>4. In(act[u].period, posted) \subseteq Journal
  BY DEF In, TypeInv, TypeOK
<1>5. act[u].request # None => request[act[u].request].by \in User
  BY <1>2 DEF TypeInv, TypeOK, AskedFor, Asked
<1>6. (IF act[u].to = "HARD_CLOSE" THEN In(act[u].period, posted) ELSE {}) \subseteq Journal
  BY <1>4
<1>7. (IF act[u].to = "HARD_CLOSE" THEN LastManifest(act[u].period) ELSE 0) \in Nat
  BY <1>3
<1>8. (IF act[u].request = None THEN None ELSE request[act[u].request].by)
        \in User \cup {None}
  BY <1>5
<1>9. (IF act[u].request = None THEN None ELSE u) \in User \cup {None}
  OBVIOUS
<1> QED
  BY <1>1, <1>2, <1>6, <1>7, <1>8, <1>9 DEF EventOf, Event

-----------------------------------------------------------------------------
(* Type correctness                                                        *)

LEMMA InitType == Init => TypeInv
<1> SUFFICES ASSUME Init PROVE TypeInv
  OBVIOUS
<1>1. TypeOK
  BY BoundAssumption DEF Init, TypeOK
<1>2. AskedFor /\ HasLast
  BY DEF Init, AskedFor, HasLast, Closes
<1> QED
  BY <1>1, <1>2 DEF TypeInv

LEMMA PostingType ==
  ASSUME TypeInv, NEW t \in Posting,
         Post(t) \/ Refuse(t) \/ CommitPosting(t) \/ RollBackPosting(t)
  PROVE  TypeInv'
<1> USE DEF TypeInv
<1>1. UNCHANGED <<history, request, acting>>
  BY DEF Post, Refuse, CommitPosting, RollBackPosting, acting
<1>2. AskedFor' /\ HasLast'
  BY <1>1 DEF AskedFor, HasLast, Closes, acting
<1>3. CASE Post(t)
  <2>1. PICK j \in Journal :
          /\ shared' = [shared EXCEPT ![t] = @ \cup {PeriodOf[j]}]
          /\ pending' = [pending EXCEPT ![t] = @ \cup {j}]
          /\ marked' = [marked EXCEPT ![t] =
                          IF Marks(State(PeriodOf[j])) THEN @ \cup {j} ELSE @]
          /\ UNCHANGED <<posted, amended, faults>>
    BY <1>3 DEF Post
  <2>2. PeriodOf[j] \in Period
    BY PeriodAssumption
  <2>3. /\ shared' \in [Posting -> SUBSET Period]
        /\ pending' \in [Posting -> SUBSET Journal]
        /\ marked' \in [Posting -> SUBSET Journal]
    BY <2>1, <2>2 DEF TypeOK
  <2>4. \A v \in Posting : marked'[v] \subseteq pending'[v]
    BY <2>1 DEF TypeOK
  <2> QED
    BY <1>1, <1>2, <2>1, <2>3, <2>4 DEF TypeOK, acting
<1>4. CASE Refuse(t) \/ CommitPosting(t) \/ RollBackPosting(t)
  <2>1. Release(t)
    BY <1>4 DEF Refuse, CommitPosting, RollBackPosting
  <2>2. /\ shared' \in [Posting -> SUBSET Period]
        /\ pending' \in [Posting -> SUBSET Journal]
        /\ marked' \in [Posting -> SUBSET Journal]
        /\ \A v \in Posting : marked'[v] \subseteq pending'[v]
    BY <2>1 DEF Release, TypeOK
  <2>3. posted' \subseteq Journal /\ amended' \subseteq posted'
    BY <1>4 DEF Refuse, CommitPosting, RollBackPosting, DropAppended, TypeOK
  <2>4. faults' \in 0..MaxFaults
    BY <1>4, BoundAssumption
       DEF Refuse, CommitPosting, RollBackPosting, Fault, TypeOK
  <2> QED
    BY <1>1, <1>2, <2>2, <2>3, <2>4 DEF TypeOK, acting
<1> QED
  BY <1>3, <1>4

LEMMA ActType ==
  ASSUME TypeInv, NEW u \in User,
         \/ \E a \in Act : Begin(u, a) /\ (a.request # None => request[a.request] # None)
         \/ LockForTransition(u) \/ Write(u) \/ RefuseAct(u)
         \/ RollBackAct(u)
  PROVE  TypeInv'
<1> USE DEF TypeInv
<1>1. UNCHANGED <<history, posted, amended, request, posting>>
  BY DEF Begin, LockForTransition, Write, RefuseAct, RollBackAct
<1>2. HasLast'
  BY <1>1 DEF HasLast, Closes
<1>3. CASE \E a \in Act : Begin(u, a) /\ (a.request # None => request[a.request] # None)
  <2>1. PICK a \in Act : Begin(u, a) /\ (a.request # None => request[a.request] # None)
    BY <1>3
  <2>2. a # None
    BY NoneAssumption
  <2>3. TypeOK'
    BY <1>1, <2>1, <2>2 DEF Begin, TypeOK, posting
  <2>4. AskedFor'
    BY <1>1, <2>1 DEF Begin, AskedFor, TypeOK
  <2> QED
    BY <1>2, <2>3, <2>4
<1>4. CASE LockForTransition(u)
  <2>1. TypeOK'
    BY <1>1, <1>4 DEF LockForTransition, TypeOK, posting
  <2>2. AskedFor'
    BY <1>1, <1>4 DEF LockForTransition, AskedFor, TypeOK
  <2> QED
    BY <1>2, <2>1, <2>2
<1>5. CASE Write(u)
  <2>1. EventOf(u, act[u]) \in Event
    BY <1>5, EventType DEF Write
  <2>2. TypeOK'
    BY <1>1, <1>5, <2>1 DEF Write, TypeOK, posting
  <2>3. AskedFor'
    BY <1>1, <1>5 DEF Write, AskedFor, TypeOK
  <2> QED
    BY <1>2, <2>2, <2>3
<1>6. CASE RefuseAct(u) \/ RollBackAct(u)
  <2>1. End(u) /\ faults' \in 0..MaxFaults
    BY <1>6, BoundAssumption DEF RefuseAct, RollBackAct, Fault, TypeOK
  <2>2. TypeOK'
    BY <1>1, <2>1 DEF End, TypeOK, posting
  <2>3. AskedFor'
    BY <1>1, <2>1 DEF End, AskedFor, TypeOK
  <2> QED
    BY <1>2, <2>2, <2>3
<1> QED
  BY <1>3, <1>4, <1>5, <1>6

(* An event that commits is its period's last.                             *)
LEMMA Committed ==
  ASSUME TypeInv, NEW u \in User, CommitEvent(u), written[u] # None,
         NEW p \in Period
  PROVE  /\ act[u] \in Act /\ act[u].period \in Period
         /\ written[u] \in Event
         /\ p # act[u].period => history'[p] = history[p]
         /\ p = act[u].period => history'[p] = Append(history[p], written[u])
<1>1. act[u] \in Act /\ act[u].period \in Period
  BY DEF TypeInv, TypeOK, CommitEvent, Act
<1> QED
  BY <1>1 DEF TypeInv, TypeOK, CommitEvent

LEMMA CommitType ==
  ASSUME TypeInv, NEW u \in User, CommitEvent(u), written[u] # None
  PROVE  TypeInv'
<1> USE DEF TypeInv
<1>1. End(u) /\ UNCHANGED <<posted, amended, request, posting, faults>>
  BY DEF CommitEvent
<1>2. act[u].period \in Period /\ written[u] \in Event
  BY DEF CommitEvent, TypeOK, Act
<1>3. history' \in [Period -> Seq(Event)]
  <2>1. Append(history[act[u].period], written[u]) \in Seq(Event)
    BY <1>2, Appended DEF TypeOK
  <2> QED
    BY <1>2, <2>1 DEF CommitEvent, TypeOK
<1>4. TypeOK'
  BY <1>1, <1>3 DEF End, TypeOK, posting
<1>5. AskedFor'
  BY <1>1 DEF End, AskedFor, TypeOK
<1>6. HasLast'
  <2> SUFFICES ASSUME NEW p \in Period, Closes(p)' # {}
               PROVE  \E n \in Closes(p)' : \A k \in Closes(p)' : k <= n
    BY DEF HasLast
  <2>1. CASE p # act[u].period
    <3>1. Closes(p)' = Closes(p)
      BY <2>1, Committed DEF Closes
    <3> QED
      BY <3>1 DEF HasLast
  <2>2. CASE p = act[u].period
    <3> DEFINE s == history[p]  e == written[u]  n == Len(s) + 1
    <3>1. /\ history'[p] = Append(s, e) /\ s \in Seq(Event)
      BY <2>2, Committed DEF TypeOK
    <3>2. /\ DOMAIN history'[p] = 1..n /\ DOMAIN s = 1..Len(s)
          /\ Len(s) \in Nat /\ history'[p][n] = e
          /\ \A k \in 1..Len(s) : history'[p][k] = s[k]
      BY <1>2, <3>1, Appended
    <3>3. CASE e.state = "HARD_CLOSE"
      <4>1. n \in Closes(p)' /\ \A k \in Closes(p)' : k <= n
        BY <3>2, <3>3 DEF Closes
      <4> QED
        BY <4>1
    <3>4. CASE e.state # "HARD_CLOSE"
      <4>1. Closes(p)' = Closes(p)
        BY <3>2, <3>4 DEF Closes
      <4> QED
        BY <4>1 DEF HasLast
    <3> QED
      BY <3>3, <3>4
  <2> QED
    BY <2>1, <2>2
<1> QED
  BY <1>4, <1>5, <1>6

LEMMA RequestType ==
  ASSUME TypeInv, NEW u \in User, NEW q \in Request, NEW p \in Period,
         RequestReopen(u, q, p)
  PROVE  TypeInv'
<1> USE DEF TypeInv
<1>1. [by |-> u, period |-> p] \in Asked /\ [by |-> u, period |-> p] # None
  BY NoneAssumption DEF Asked
<1>2. TypeOK'
  BY <1>1 DEF RequestReopen, TypeOK, posting, acting
<1>3. AskedFor'
  BY <1>1 DEF RequestReopen, AskedFor, TypeOK, acting, Act
<1>4. HasLast'
  BY DEF RequestReopen, HasLast, Closes
<1> QED
  BY <1>2, <1>3, <1>4

-----------------------------------------------------------------------------
(* The locks                                                               *)

LEMMA InitLocks == Init => LockInv
<1> SUFFICES ASSUME Init PROVE LockInv
  OBVIOUS
<1>1. LocksExclude /\ PostsIntoOpen /\ DraftHolds
  BY DEF Init, LocksExclude, Exclusive, PostsIntoOpen, DraftHolds
<1>2. Exact
  BY DEF Init, Exact, State
<1> QED
  BY <1>1, <1>2 DEF LockInv

LEMMA PostingLocks ==
  ASSUME Inv, NEW t \in Posting,
         Post(t) \/ Refuse(t) \/ CommitPosting(t) \/ RollBackPosting(t)
  PROVE  LockInv'
<1> USE DEF Inv, LockInv, TypeInv
<1>1. UNCHANGED <<history, acting>>
  BY DEF Post, Refuse, CommitPosting, RollBackPosting, acting
<1>2. \A p \in Period : State(p)' = State(p)
  BY <1>1 DEF State
<1>3. \A p, u : Exclusive(p, u)' = Exclusive(p, u)
  BY <1>1 DEF Exclusive, acting
<1>4. CASE Post(t)
  <2>1. PICK j \in Journal :
          /\ LockForPosting(t, PeriodOf[j])
          /\ CheckPostable(j, State(PeriodOf[j]))
          /\ shared' = [shared EXCEPT ![t] = @ \cup {PeriodOf[j]}]
          /\ pending' = [pending EXCEPT ![t] = @ \cup {j}]
          /\ UNCHANGED posted
    BY <1>4 DEF Post
  <2>2. PeriodOf[j] \in Period
    BY PeriodAssumption
  <2>3. \A u \in User : ~Exclusive(PeriodOf[j], u)
    BY <2>1, <2>2 DEF LockForPosting, LocksExclude
  <2>4. LocksExclude'
    BY <1>3, <2>1, <2>3 DEF LocksExclude, TypeOK
  <2>5. State(PeriodOf[j]) \notin Closed
    BY <2>1 DEF CheckPostable, Closed
  <2>6. \A v \in Posting : \A p \in shared[v] : p \in Period
    BY DEF TypeOK
  <2>7. PostsIntoOpen'
    BY <1>2, <2>1, <2>2, <2>5, <2>6 DEF PostsIntoOpen, TypeOK
  <2>8. DraftHolds' /\ Exact'
    BY <1>1, <2>1 DEF DraftHolds, Exact, acting, State, In
  <2> QED
    BY <2>4, <2>7, <2>8
<1>5. CASE Refuse(t) \/ CommitPosting(t) \/ RollBackPosting(t)
  <2>1. /\ shared' = [shared EXCEPT ![t] = {}]
        /\ pending' = [pending EXCEPT ![t] = {}]
        /\ posted' = posted \/ posted' = posted \cup pending[t]
    BY <1>5 DEF Refuse, CommitPosting, RollBackPosting, Release, DropAppended
  <2>2. LocksExclude'
    BY <1>3, <2>1 DEF LocksExclude, TypeOK
  <2>3. PostsIntoOpen'
    BY <1>2, <2>1 DEF PostsIntoOpen, TypeOK
  <2>4. \A p \in Period : p \notin shared[t] => In(p, posted)' = In(p, posted)
    BY <2>1 DEF In, PostsIntoOpen
  <2>5. \A p \in Period : State(p) \in Closed => In(p, posted)' = In(p, posted)
    BY <2>4 DEF PostsIntoOpen
  <2>6. ASSUME NEW u \in User, step[u] = "written"
        PROVE  In(act[u].period, posted)' = In(act[u].period, posted)
    <3>1. act[u].period \in Period
      BY <2>6 DEF TypeOK, Act
    <3>2. Exclusive(act[u].period, u)
      BY <2>6 DEF Exclusive
    <3> QED
      BY <1>1, <2>4, <3>1, <3>2 DEF LocksExclude, acting
  <2>7. \A u \in User : step[u] = "written" => State(act[u].period)' = State(act[u].period)
    BY <1>1 DEF State, acting
  <2>8. DraftHolds'
    BY <1>1, <2>6, <2>7 DEF DraftHolds, acting
  <2>9. Exact'
    BY <1>1, <1>2, <2>5 DEF Exact, Closed
  <2> QED
    BY <2>2, <2>3, <2>8, <2>9
<1> QED
  BY <1>4, <1>5

LEMMA ActLocks ==
  ASSUME Inv, NEW u \in User,
         \/ \E a \in Act : Begin(u, a)
         \/ LockForTransition(u) \/ Write(u) \/ RefuseAct(u)
         \/ RollBackAct(u)
  PROVE  LockInv'
<1> USE DEF Inv, LockInv, TypeInv
<1>1. UNCHANGED <<history, posted, posting>>
  BY DEF Begin, LockForTransition, Write, RefuseAct, RollBackAct
<1>2. PostsIntoOpen' /\ Exact'
  BY <1>1 DEF PostsIntoOpen, Exact, State, In, posting
<1>3. \A p : State(p)' = State(p) /\ In(p, posted)' = In(p, posted)
  BY <1>1 DEF State, In
<1>4. CASE \E a \in Act : Begin(u, a)
  <2>1. /\ step' = [step EXCEPT ![u] = "waiting"] /\ step[u] = "idle"
        /\ \A v \in User : v # u => act'[v] = act[v]
        /\ UNCHANGED written
    BY <1>4 DEF Begin, TypeOK
  <2>2. \A p \in Period, v \in User : Exclusive(p, v)' => Exclusive(p, v)
    BY <2>1 DEF Exclusive, TypeOK
  <2>3. LocksExclude'
    BY <1>1, <2>2 DEF LocksExclude, posting
  <2>4. \A v \in User : step'[v] = "written" => v # u /\ step[v] = "written"
    BY <2>1 DEF TypeOK
  <2>5. DraftHolds'
    BY <1>3, <2>1, <2>4 DEF DraftHolds
  <2> QED
    BY <1>2, <2>3, <2>5
<1>5. CASE LockForTransition(u)
  <2>1. /\ step' = [step EXCEPT ![u] = "locked"]
        /\ \A v \in User : ~Exclusive(act[u].period, v)
        /\ \A t \in Posting : act[u].period \notin shared[t]
        /\ UNCHANGED <<act, written>>
    BY <1>5 DEF LockForTransition
  <2>2. \A p \in Period, v \in User : Exclusive(p, v)' =>
          (v # u /\ Exclusive(p, v)) \/ (v = u /\ p = act[u].period)
    BY <2>1 DEF Exclusive, TypeOK
  <2>3. LocksExclude'
    BY <1>1, <2>1, <2>2 DEF LocksExclude, posting
  <2>4. \A v \in User : step'[v] = "written" => step[v] = "written"
    BY <2>1 DEF TypeOK
  <2>5. DraftHolds'
    BY <1>3, <2>1, <2>4 DEF DraftHolds
  <2> QED
    BY <1>2, <2>3, <2>5
<1>6. CASE Write(u)
  <2>1. /\ step' = [step EXCEPT ![u] = "written"] /\ step[u] = "locked"
        /\ written' = [written EXCEPT ![u] = EventOf(u, act[u])]
        /\ Allowed(act[u]) /\ UNCHANGED act
    BY <1>6 DEF Write
  <2>2. \A p \in Period, v \in User : Exclusive(p, v)' = Exclusive(p, v)
    BY <2>1 DEF Exclusive, TypeOK
  <2>3. LocksExclude'
    BY <1>1, <2>2 DEF LocksExclude, posting
  <2>4. EventOf(u, act[u]) \in Event /\ act[u] \in Act
    BY <2>1, EventType
  <2>5. EventOf(u, act[u]) # None
    BY <2>4, NoneAssumption
  <2>6. /\ EventOf(u, act[u]).state = act[u].to
        /\ act[u].to = "HARD_CLOSE" =>
             EventOf(u, act[u]).manifest = In(act[u].period, posted)
    BY DEF EventOf
  <2>7. /\ State(act[u].period) # "SEALED"
        /\ act[u].to = "SEALED" => State(act[u].period) = "HARD_CLOSE"
    BY <2>1 DEF Allowed, CanReopen, CanMoveTo
  <2>8. ASSUME NEW v \in User, step'[v] = "written", v # u
        PROVE  step[v] = "written" /\ written'[v] = written[v]
    BY <2>1, <2>8 DEF TypeOK
  <2>9. written'[u] = EventOf(u, act[u])
    BY <2>1 DEF TypeOK
  <2>10. DraftHolds'
    BY <1>3, <2>1, <2>5, <2>6, <2>7, <2>8, <2>9 DEF DraftHolds
  <2> QED
    BY <1>2, <2>3, <2>10
<1>7. CASE RefuseAct(u) \/ RollBackAct(u)
  <2>1. End(u)
    BY <1>7 DEF RefuseAct, RollBackAct
  <2>2. \A v \in User : step'[v] # "idle" =>
          v # u /\ step'[v] = step[v] /\ act'[v] = act[v] /\ written'[v] = written[v]
    BY <2>1 DEF End, TypeOK
  <2>3. \A p \in Period, v \in User : Exclusive(p, v)' => Exclusive(p, v)
    BY <2>2 DEF Exclusive
  <2>4. LocksExclude'
    BY <1>1, <2>3 DEF LocksExclude, posting
  <2>5. DraftHolds'
    BY <1>3, <2>2 DEF DraftHolds
  <2> QED
    BY <1>2, <2>4, <2>5
<1> QED
  BY <1>4, <1>5, <1>6, <1>7

LEMMA CommitLocks ==
  ASSUME Inv, NEW u \in User, CommitEvent(u)
  PROVE  written[u] # None /\ LockInv'
<1> USE DEF Inv, LockInv, TypeInv
<1>1. step[u] = "written" /\ End(u) /\ UNCHANGED <<posted, posting>>
  BY DEF CommitEvent
<1>2. act[u].period \in Period /\ written[u] \in Event /\ written[u] # None
  BY <1>1 DEF TypeOK, Act, DraftHolds
<1>3. PICK o \in Period, e \in Event : o = act[u].period /\ e = written[u]
  BY <1>2
<1>4. /\ State(o) # "SEALED"
      /\ e.state = "HARD_CLOSE" => e.manifest = In(o, posted)
      /\ e.state = "SEALED" => State(o) = "HARD_CLOSE"
  BY <1>1, <1>3 DEF DraftHolds
<1>5. /\ history'[o] = Append(history[o], e)
      /\ \A p \in Period : p # o => history'[p] = history[p]
  BY <1>2, <1>3, Committed
<1>6. \A p \in Period : p # o => State(p)' = State(p)
  BY <1>5 DEF State
<1>7. \A v \in User : step'[v] # "idle" =>
        v # u /\ step'[v] = step[v] /\ act'[v] = act[v] /\ written'[v] = written[v]
  BY <1>1 DEF End, TypeOK
<1>8. Exclusive(o, u)
  BY <1>1, <1>3 DEF Exclusive
<1>9. LocksExclude'
  <2>1. \A p \in Period, v \in User : Exclusive(p, v)' => Exclusive(p, v)
    BY <1>7 DEF Exclusive
  <2> QED
    BY <1>1, <2>1 DEF LocksExclude, posting
<1>10. PostsIntoOpen'
  <2>1. \A t \in Posting : \A p \in shared[t] : p \in Period /\ p # o
    BY <1>5, <1>8 DEF LocksExclude, TypeOK
  <2> QED
    BY <1>1, <1>6, <2>1 DEF PostsIntoOpen, posting
<1>11. DraftHolds'
  <2>1. ASSUME NEW v \in User, step'[v] = "written"
        PROVE  /\ step[v] = "written" /\ act'[v] = act[v] /\ written'[v] = written[v]
               /\ State(act[v].period)' = State(act[v].period)
    <3>1. step[v] = "written" /\ v # u /\ act'[v] = act[v] /\ written'[v] = written[v]
      BY <1>7, <2>1
    <3>2. act[v].period \in Period
      BY <3>1 DEF TypeOK, Act
    <3>3. Exclusive(act[v].period, v)
      BY <3>1 DEF Exclusive
    <3>4. act[v].period # o
      BY <1>5, <1>8, <3>1, <3>2, <3>3 DEF LocksExclude
    <3> QED
      BY <1>6, <3>1, <3>2, <3>4
  <2>2. \A p : In(p, posted)' = In(p, posted)
    BY <1>1 DEF In
  <2> QED
    BY <2>1, <2>2 DEF DraftHolds
<1>12. Exact'
  <2>1. ASSUME NEW p \in Period, p # o
        PROVE  /\ history'[p] = history[p] /\ State(p)' = State(p)
               /\ In(p, posted)' = In(p, posted)
    BY <1>1, <1>5, <1>6, <2>1 DEF In
  <2>2. PICK s \in Seq(Event) : s = history[o]
    BY DEF TypeOK
  <2>3. PICK n \in Nat : n = Len(s) + 1
    OBVIOUS
  <2>4. /\ history'[o] # <<>> /\ Len(history'[o]) = n /\ n - 1 = Len(s)
        /\ history'[o][n] = e /\ Len(s) \in Nat
        /\ \A k \in 1..Len(s) : history'[o][k] = s[k]
        /\ s # <<>> => Len(s) \in 1..Len(s)
    BY <1>5, <2>2, <2>3, Appended
  <2>5. State(o)' = e.state /\ In(o, posted)' = In(o, posted)
    BY <1>1, <2>4 DEF State, In
  <2>6. CASE e.state = "SEALED"
    <3>1. s # <<>> /\ s[Len(s)].state = "HARD_CLOSE" /\ s[Len(s)].manifest = In(o, posted)
      BY <1>4, <2>6, <2>2 DEF State, Exact
    <3>2. n > 1 /\ history'[o][n - 1] = s[Len(s)]
      BY <2>4, <3>1
    <3> QED
      BY <2>1, <2>4, <2>5, <2>6, <3>1, <3>2 DEF Exact
  <2>7. CASE e.state # "SEALED"
    BY <1>4, <2>1, <2>4, <2>5, <2>7 DEF Exact
  <2> QED
    BY <2>6, <2>7
<1> QED
  BY <1>2, <1>9, <1>10, <1>11, <1>12

LEMMA RequestLocks ==
  ASSUME LockInv, UNCHANGED <<history, posted, posting, acting>>
  PROVE  LockInv'
<1>1. \A p : State(p)' = State(p) /\ In(p, posted)' = In(p, posted)
  BY DEF State, In
<1>2. \A p, u : Exclusive(p, u)' = Exclusive(p, u)
  BY DEF Exclusive, acting
<1>3. LocksExclude' /\ PostsIntoOpen'
  BY <1>1, <1>2 DEF LockInv, LocksExclude, PostsIntoOpen, posting
<1>4. DraftHolds' /\ Exact'
  BY <1>1 DEF LockInv, DraftHolds, Exact, acting
<1> QED
  BY <1>3, <1>4 DEF LockInv

-----------------------------------------------------------------------------
(* The theorems                                                            *)

LEMMA Inductive == Inv /\ [Next]_vars => Inv'
<1> SUFFICES ASSUME Inv, [Next]_vars PROVE Inv'
  OBVIOUS
<1>1. CASE \E t \in Posting : \/ Post(t) \/ Refuse(t) \/ CommitPosting(t)
                              \/ RollBackPosting(t)
  BY <1>1, PostingType, PostingLocks DEF Inv
<1>2. ASSUME NEW u \in User,
             \/ \E a \in Act : Begin(u, a) /\ (a.request # None => request[a.request] # None)
             \/ LockForTransition(u) \/ Write(u) \/ RefuseAct(u)
             \/ RollBackAct(u)
      PROVE  Inv'
  <2>1. TypeInv'
    BY <1>2, ActType DEF Inv
  <2>2. LockInv'
    BY <1>2, ActLocks
  <2> QED
    BY <2>1, <2>2 DEF Inv
<1>3. ASSUME NEW u \in User, CommitEvent(u)
      PROVE  Inv'
  BY <1>3, CommitType, CommitLocks DEF Inv
<1>4. ASSUME NEW u \in User, NEW q \in Request, NEW p \in Period,
             RequestReopen(u, q, p)
      PROVE  Inv'
  <2>1. UNCHANGED <<history, posted, posting, acting>>
    BY <1>4 DEF RequestReopen
  <2> QED
    BY <1>4, <2>1, RequestType, RequestLocks DEF Inv
<1>5. CASE UNCHANGED vars
  <2>1. UNCHANGED <<history, posted, posting, acting>>
    BY <1>5 DEF vars
  <2>2. TypeInv'
    BY <1>5 DEF vars, posting, acting, Inv, TypeInv, TypeOK, AskedFor, HasLast, Closes
  <2> QED
    BY <2>1, <2>2, RequestLocks DEF Inv
<1> QED
  BY <1>1, <1>2, <1>3, <1>4, <1>5, NextCases DEF Inv, TypeInv

LEMMA AlwaysInv == Spec => []Inv
<1>1. Init => Inv
  BY InitType, InitLocks DEF Inv
<1> QED
  BY <1>1, Inductive, PTL DEF Spec

(* Every state of period close is well-typed.                              *)
THEOREM TypeCorrect == Spec => []TypeOK
<1>1. Inv => TypeOK
  BY DEF Inv, TypeInv
<1> QED
  BY <1>1, AlwaysInv, PTL

LEMMA LastIs ==
  ASSUME TypeOK, NEW p \in Period, NEW n \in Closes(p),
         \A k \in Closes(p) : k <= n
  PROVE  LastManifest(p) = n
<1>1. Closes(p) \subseteq Nat
  BY DEF Closes, TypeOK
<1>2. LastManifest(p) \in Closes(p) /\ n <= LastManifest(p)
  BY DEF LastManifest
<1> QED
  BY <1>1, <1>2

(* While a period is closed, its last manifest is exactly what is posted   *)
(* in it, whoever posts, closes, amends or fails (guardPosting and         *)
(* Transition of periods.go).                                              *)
THEOREM CloseIsExact == Spec => []ManifestHolds
<1>1. ASSUME Inv PROVE ManifestHolds
  <2> SUFFICES ASSUME NEW p \in Period, State(p) \in {"HARD_CLOSE", "SEALED"}
               PROVE  /\ LastManifest(p) > 0
                      /\ history[p][LastManifest(p)].manifest = In(p, posted)
    BY DEF ManifestHolds
  <2> DEFINE n == Len(history[p])
  <2>1. TypeOK /\ Exact /\ history[p] \in Seq(Event)
    BY <1>1 DEF Inv, TypeInv, LockInv, TypeOK
  <2>2. history[p] # <<>> /\ State(p) = history[p][n].state
    BY DEF State
  <2>3. n \in Nat /\ n > 0 /\ DOMAIN history[p] = 1..n /\ n \in DOMAIN history[p]
    BY <2>1, <2>2
  <2>4. CASE State(p) = "HARD_CLOSE"
    <3>1. n \in Closes(p)
      BY <2>2, <2>3, <2>4 DEF Closes
    <3>2. \A k \in Closes(p) : k \in 1..n
      BY <2>3 DEF Closes
    <3>3. \A k \in Closes(p) : k <= n
      BY <2>3, <3>2
    <3>4. LastManifest(p) = n
      BY <2>1, <3>1, <3>3, LastIs
    <3> QED
      BY <2>1, <2>3, <2>4, <3>4 DEF Exact
  <2>5. CASE State(p) = "SEALED"
    <3>1. /\ n > 1 /\ history[p][n - 1].state = "HARD_CLOSE"
          /\ history[p][n - 1].manifest = In(p, posted)
      BY <2>1, <2>5 DEF Exact
    <3>2. n - 1 \in Closes(p)
      BY <2>3, <3>1 DEF Closes
    <3>3. \A k \in Closes(p) : k \in 1..n /\ k # n
      BY <2>2, <2>3, <2>5 DEF Closes
    <3>4. \A k \in Closes(p) : k <= n - 1
      BY <2>3, <3>3
    <3>5. LastManifest(p) = n - 1
      BY <2>1, <3>2, <3>4, LastIs
    <3> QED
      BY <2>3, <3>1, <3>5
  <2> QED
    BY <2>4, <2>5
<1> QED
  BY <1>1, AlwaysInv, PTL

(* A sealed period is final: whatever was under way when it was sealed, no *)
(* event and no journal comes after it (CanReopen and CanMoveTo of         *)
(* period.go, guardPosting of periods.go).                                 *)
THEOREM SealedStays == Spec => SealedIsFinal
<1> DEFINE Kept == \A p \in Period : State(p) = "SEALED" =>
                     history'[p] = history[p] /\ In(p, posted') = In(p, posted)
<1>1. ASSUME Inv, [Next]_vars PROVE Kept \/ UNCHANGED vars
  <2> USE DEF Inv, LockInv, TypeInv
  <2>1. ASSUME NEW t \in Posting,
               \/ Post(t) \/ Refuse(t) \/ CommitPosting(t) \/ RollBackPosting(t)
        PROVE  Kept
    <3>1. /\ UNCHANGED history
          /\ posted' = posted \/ posted' = posted \cup pending[t]
      BY <2>1 DEF Post, Refuse, DropAppended, CommitPosting, RollBackPosting
    <3>2. ASSUME NEW p \in Period, State(p) = "SEALED"
          PROVE  In(p, posted') = In(p, posted)
      <4>1. p \notin shared[t]
        BY <1>1, <3>2 DEF PostsIntoOpen, Closed
      <4>2. \A j \in pending[t] : PeriodOf[j] # p
        BY <1>1, <4>1 DEF PostsIntoOpen
      <4> QED
        BY <3>1, <4>2 DEF In
    <3> QED
      BY <3>1, <3>2
  <2>2. ASSUME NEW u \in User, CommitEvent(u)
        PROVE  Kept
    <3>1. UNCHANGED posted /\ written[u] # None /\ State(act[u].period) # "SEALED"
      BY <1>1, <2>2 DEF CommitEvent, DraftHolds
    <3>2. \A p \in Period : p # act[u].period => history'[p] = history[p]
      BY <1>1, <2>2, <3>1, Committed
    <3> QED
      BY <3>1, <3>2
  <2>3. ASSUME UNCHANGED <<history, posted>>
        PROVE  Kept
    BY <2>3
  <2>4. ASSUME NEW u \in User,
               \/ \E a \in Act : Begin(u, a)
               \/ LockForTransition(u) \/ Write(u) \/ RefuseAct(u)
               \/ RollBackAct(u)
        PROVE  UNCHANGED <<history, posted>>
    BY <2>4 DEF Begin, LockForTransition, Write, RefuseAct, RollBackAct
  <2>5. ASSUME NEW u \in User, NEW q \in Request, NEW p \in Period,
               RequestReopen(u, q, p)
        PROVE  UNCHANGED <<history, posted>>
    BY <2>5 DEF RequestReopen
  <2> QED
    BY <1>1, <2>1, <2>2, <2>3, <2>4, <2>5, NextCases
<1>2. Inv /\ [Next]_vars => [Kept]_vars
  BY <1>1
<1> QED
  BY <1>2, AlwaysInv, PTL DEF Spec, SealedIsFinal

(* What each posting appends is its own, and it is all posted or not at    *)
(* all.                                                                    *)
Mine(t) == {JournalsOf[t][i] : i \in DOMAIN JournalsOf[t]}

Whole ==
  \A t \in Posting :
    /\ pending[t] \subseteq Mine(t)
    /\ pending[t] # {} => Mine(t) \cap posted = {}
    /\ Mine(t) \subseteq posted \/ Mine(t) \cap posted = {}

LEMMA WholeStep == TypeOK /\ Whole /\ [Next]_vars => Whole'
<1> SUFFICES ASSUME TypeOK, Whole, [Next]_vars PROVE Whole'
  OBVIOUS
<1>1. ASSUME NEW t \in Posting, Post(t)
      PROVE  Whole'
  <2>1. PICK j \in Journal :
          /\ ~Done(t) /\ ComesNext(t, j)
          /\ pending' = [pending EXCEPT ![t] = @ \cup {j}]
          /\ UNCHANGED posted
    BY <1>1 DEF Post
  <2>2. j \in Mine(t)
    BY <2>1 DEF ComesNext, Left, Mine
  <2>3. Mine(t) \cap posted = {}
    BY <2>1 DEF Done, Whole, Mine
  <2>4. pending'[t] = pending[t] \cup {j}
        /\ \A v \in Posting : v # t => pending'[v] = pending[v]
    BY <2>1 DEF TypeOK
  <2>5. \A v \in Posting : Mine(v)' = Mine(v)
    BY DEF Mine
  <2> QED
    BY <2>1, <2>2, <2>3, <2>4, <2>5 DEF Whole
<1>2. ASSUME NEW t \in Posting,
             Refuse(t) \/ CommitPosting(t) \/ RollBackPosting(t)
      PROVE  Whole'
  <2>1. pending' = [pending EXCEPT ![t] = {}]
    BY <1>2 DEF Refuse, CommitPosting, RollBackPosting, Release
  <2>2. pending'[t] = {} /\ \A v \in Posting : v # t => pending'[v] = pending[v]
    BY <2>1 DEF TypeOK
  <2>3. \A v \in Posting : Mine(v)' = Mine(v)
    BY DEF Mine
  <2>4. CASE CommitPosting(t)
    <3>1. posted' = posted \cup pending[t] /\ Left(t) = {}
      BY <2>4 DEF CommitPosting
    <3>2. pending[t] = Mine(t)
      BY <3>1 DEF Left, Mine, Whole
    <3>3. \A v \in Posting : v # t => Mine(v) \cap Mine(t) = {}
      BY PostingAssumption DEF Mine
    <3> QED
      BY <2>2, <2>3, <3>1, <3>2, <3>3 DEF Whole
  <2>5. CASE Refuse(t) \/ RollBackPosting(t)
    <3>1. UNCHANGED posted
      BY <2>5 DEF Refuse, RollBackPosting, DropAppended
    <3> QED
      BY <2>2, <2>3, <3>1 DEF Whole
  <2> QED
    BY <1>2, <2>4, <2>5
<1>3. ASSUME UNCHANGED <<posted, pending>>
      PROVE  Whole'
  BY <1>3 DEF Whole, Mine
<1>4. ASSUME NEW u \in User,
             \/ \E a \in Act : Begin(u, a)
             \/ LockForTransition(u) \/ Write(u) \/ CommitEvent(u)
             \/ RefuseAct(u) \/ RollBackAct(u)
      PROVE  UNCHANGED <<posted, pending>>
  BY <1>4 DEF Begin, LockForTransition, Write, CommitEvent, RefuseAct,
              RollBackAct, posting
<1>5. ASSUME NEW u \in User, NEW q \in Request, NEW p \in Period,
             RequestReopen(u, q, p)
      PROVE  UNCHANGED <<posted, pending>>
  BY <1>5 DEF RequestReopen, posting
<1>6. ASSUME UNCHANGED vars
      PROVE  UNCHANGED <<posted, pending>>
  BY <1>6 DEF vars, posting
<1> QED
  BY <1>1, <1>2, <1>3, <1>4, <1>5, <1>6, NextCases

(* The journals of one transaction are posted together or not at all,      *)
(* whichever of their periods refuses (reversePosting of fiscal.go).       *)
THEOREM PostsAllOrNone == Spec => []PostsWhole
<1>1. Init => Whole
  BY DEF Init, Whole
<1>2. Whole => PostsWhole
  BY DEF Whole, PostsWhole, Mine
<1> QED
  BY <1>1, <1>2, WholeStep, TypeCorrect, PTL DEF Spec

-----------------------------------------------------------------------------
(* What a commit appends, for the properties of a period's whole history   *)

LEMMA CommitShape ==
  ASSUME Inv, NEW u \in User, CommitEvent(u), NEW p \in Period
  PROVE  /\ act[u].period \in Period /\ written[u] \in Event
         /\ p # act[u].period => history'[p] = history[p] /\ State(p)' = State(p)
         /\ Len(history[p]) \in Nat /\ DOMAIN history[p] = 1..Len(history[p])
         /\ p = act[u].period =>
              /\ DOMAIN history'[p] = 1..(Len(history[p]) + 1)
              /\ \A n \in 1..Len(history[p]) : history'[p][n] = history[p][n]
              /\ history'[p][Len(history[p]) + 1] = written[u]
              /\ State(p)' = written[u].state
<1>1. written[u] # None /\ history[p] \in Seq(Event)
  BY CommitLocks DEF Inv, TypeInv, TypeOK
<1>2. /\ act[u].period \in Period /\ written[u] \in Event
      /\ p # act[u].period => history'[p] = history[p]
      /\ p = act[u].period => history'[p] = Append(history[p], written[u])
  BY <1>1, Committed DEF Inv
<1>3. Len(history[p]) \in Nat /\ DOMAIN history[p] = 1..Len(history[p])
  BY <1>1
<1>4. CASE p = act[u].period
  <2>1. /\ history'[p] # <<>> /\ Len(history'[p]) = Len(history[p]) + 1
        /\ DOMAIN history'[p] = 1..(Len(history[p]) + 1)
        /\ \A n \in 1..Len(history[p]) : history'[p][n] = history[p][n]
        /\ history'[p][Len(history[p]) + 1] = written[u]
    BY <1>1, <1>2, <1>4, Appended
  <2> QED  BY <1>2, <1>3, <1>4, <2>1 DEF State
<1> QED  BY <1>2, <1>3, <1>4 DEF State

(* Whoever else has written an event has written it of another period.     *)
LEMMA OthersElsewhere ==
  ASSUME Inv, NEW u \in User, CommitEvent(u), NEW v \in User, step'[v] # "idle"
  PROVE  /\ v # u /\ step'[v] = step[v] /\ act'[v] = act[v] /\ written'[v] = written[v]
         /\ step[v] = "written" =>
              act[v].period \in Period /\ act[v].period # act[u].period
<1>1. v # u /\ step'[v] = step[v] /\ act'[v] = act[v] /\ written'[v] = written[v]
  BY DEF CommitEvent, End, Inv, TypeInv, TypeOK
<1>2. ASSUME step[v] = "written"
      PROVE  act[v].period \in Period /\ act[v].period # act[u].period
  <2>1. act[v].period \in Period
    BY <1>2 DEF Inv, TypeInv, TypeOK, Act
  <2>2. Exclusive(act[v].period, v) /\ step[u] = "written"
    BY <1>2 DEF Exclusive, CommitEvent
  <2>3. act[v].period = act[u].period => Exclusive(act[v].period, u)
    BY <2>2 DEF Exclusive
  <2> QED  BY <1>1, <2>1, <2>2, <2>3 DEF Inv, LockInv, LocksExclude
<1> QED  BY <1>1, <1>2

\* A user's transaction goes on and nothing else does.
ActStep(u) ==
  /\ UNCHANGED <<history, posted, amended, request, posting>>
  /\ \/ Transition(u) \/ ApproveReopen(u) \/ LockForTransition(u) \/ Write(u)
     \/ RefuseAct(u) \/ RollBackAct(u)

LEMMA StepCases ==
  ASSUME [Next]_vars
  PROVE  \/ UNCHANGED <<history, step, act, written>>
         \/ \E u \in User : ActStep(u) \/ CommitEvent(u)
<1>1. ASSUME NEW t \in Posting, Work(t) \/ RollBackPosting(t)
      PROVE  UNCHANGED <<history, step, act, written>>
  BY <1>1 DEF Work, Post, Refuse, CommitPosting, RollBackPosting, acting
<1>2. ASSUME NEW u \in User,
             \/ Transition(u) \/ ApproveReopen(u) \/ LockForTransition(u) \/ Write(u)
             \/ RefuseAct(u) \/ RollBackAct(u)
      PROVE  ActStep(u)
  BY <1>2 DEF Transition, ApproveReopen, Begin, LockForTransition, Write, RefuseAct,
              RollBackAct, ActStep
<1>3. ASSUME NEW u \in User, NEW q \in Request, NEW p \in Period, RequestReopen(u, q, p)
      PROVE  UNCHANGED <<history, step, act, written>>
  BY <1>3 DEF RequestReopen, acting
<1> QED  BY <1>1, <1>2, <1>3 DEF Next, Proceed, vars, acting

(* A request that was made stays as it was made.                           *)
LEMMA RequestsStay ==
  ASSUME TypeOK, [Next]_vars, NEW q \in Request, request[q] # None
  PROVE  request'[q] = request[q]
<1>1. ASSUME NEW t \in Posting, Work(t) \/ RollBackPosting(t) PROVE UNCHANGED request
  BY <1>1 DEF Work, Post, Refuse, CommitPosting, RollBackPosting
<1>2. ASSUME NEW u \in User, CommitEvent(u) \/ ActStep(u) PROVE UNCHANGED request
  BY <1>2 DEF CommitEvent, ActStep
<1>3. ASSUME NEW u \in User, NEW r \in Request, NEW p \in Period, RequestReopen(u, r, p)
      PROVE  request'[q] = request[q]
  BY <1>3 DEF RequestReopen, TypeOK
<1>4. ASSUME NEW u \in User,
             \/ Transition(u) \/ ApproveReopen(u) \/ LockForTransition(u) \/ Write(u)
             \/ RefuseAct(u) \/ RollBackAct(u)
      PROVE  UNCHANGED request
  BY <1>4 DEF Transition, ApproveReopen, Begin, LockForTransition, Write, RefuseAct,
              RollBackAct
<1> QED  BY <1>1, <1>2, <1>3, <1>4 DEF Next, Proceed, vars

-----------------------------------------------------------------------------
(* Reopening                                                               *)

\* An act that reopens names a request of its period, made by another.
AskedByOther(u) ==
  LET q == act[u].request IN
  /\ act[u].to = "REOPENED" <=> q # None
  /\ q # None => /\ request[q] # None /\ request[q].period = act[u].period
                 /\ request[q].by # u

\* Its event, once written, says so, and no committed one names the request.
DraftNames(u) ==
  LET q == act[u].request  e == written[u] IN
  /\ e.state = act[u].to /\ e.request = q
  /\ q # None => /\ ~Approved(q) /\ State(act[u].period) = "HARD_CLOSE"
                 /\ e.by = request[q].by /\ e.approvedBy = u

Drafts ==
  \A u \in User : /\ step[u] # "idle" => AskedByOther(u)
                  /\ step[u] = "written" => DraftNames(u)

\* What ReopenedByTwo says of one event, of any event that names a request.
Reopens(p, n) ==
  LET e == history[p][n] IN
  /\ e.state = "REOPENED" => e.request # None
  /\ e.request # None =>
       /\ n > 1 /\ history[p][n - 1].state = "HARD_CLOSE"
       /\ request[e.request] # None
       /\ request[e.request] = [by |-> e.by, period |-> p]
       /\ e.by # e.approvedBy
NamesAlone(p, n) ==
  \A o \in Period : \A k \in DOMAIN history[o] :
    history[p][n].request # None /\ history[o][k].request = history[p][n].request
      => o = p /\ k = n

ReopenInv ==
  /\ Drafts
  /\ \A p \in Period : \A n \in DOMAIN history[p] : Reopens(p, n) /\ NamesAlone(p, n)

LEMMA RequestOf ==
  ASSUME TypeOK, NEW u \in User, step[u] # "idle"
  PROVE  act[u] \in Act /\ act[u].period \in Period /\ act[u].request \in Request \cup {None}
BY DEF TypeOK, Act

LEMMA DraftsAct ==
  ASSUME Inv, Drafts, NEW u \in User, ActStep(u)
  PROVE  Drafts'
<1> USE DEF Inv, TypeInv
<1>1. UNCHANGED <<history, request>> /\ \A p : State(p)' = State(p)
      /\ \A q : Approved(q)' <=> Approved(q)
  BY DEF ActStep, State, Approved
<1>2. ASSUME NEW v \in User, v # u
      PROVE  /\ step'[v] = step[v] /\ act'[v] = act[v] /\ written'[v] = written[v]
  BY <1>2 DEF ActStep, Transition, ApproveReopen, Begin, LockForTransition, Write, RefuseAct,
              RollBackAct, End, TypeOK
<1>3. ASSUME NEW v \in User, v # u
      PROVE  /\ step'[v] # "idle" => AskedByOther(v)'
             /\ step'[v] = "written" => DraftNames(v)'
  BY <1>1, <1>2, <1>3 DEF Drafts, AskedByOther, DraftNames
<1>4. /\ step'[u] # "idle" => AskedByOther(u)'
      /\ step'[u] = "written" => DraftNames(u)'
  <2>1. CASE Transition(u)
    <3>1. PICK p \in Period :
            \E to \in Tried[p] : Begin(u, [period |-> p, to |-> to, request |-> None])
      BY <2>1 DEF Transition
    <3>2. PICK to \in Tried[p] : Begin(u, [period |-> p, to |-> to, request |-> None])
      BY <3>1
    <3>3. to # "REOPENED"
      BY TriedAssumption
    <3> QED  BY <3>2, <3>3 DEF Begin, AskedByOther, TypeOK
  <2>2. CASE ApproveReopen(u)
    <3>1. PICK q \in Request :
            /\ request[q] # None /\ request[q].by # u
            /\ Begin(u, [period |-> request[q].period, to |-> "REOPENED", request |-> q])
      BY <2>2 DEF ApproveReopen, SomeoneElse
    <3>2. q # None
      BY NoneAssumption
    <3> QED  BY <1>1, <3>1, <3>2 DEF Begin, AskedByOther, TypeOK
  <2>3. CASE LockForTransition(u)
    BY <1>1, <2>3 DEF LockForTransition, Drafts, AskedByOther, TypeOK
  <2>4. CASE Write(u)
    <3>1. /\ AskedByOther(u) /\ Allowed(act[u]) /\ act'[u] = act[u]
          /\ written'[u] = EventOf(u, act[u])
      BY <2>4 DEF Write, Drafts, TypeOK
    <3>2. AskedByOther(u)'
      BY <1>1, <3>1 DEF AskedByOther
    <3>3. /\ written'[u].state = act[u].to /\ written'[u].request = act[u].request
          /\ act[u].request # None =>
               written'[u].by = request[act[u].request].by /\ written'[u].approvedBy = u
      BY <3>1 DEF EventOf
    <3>4. act[u].request # None =>
            ~Approved(act[u].request) /\ State(act[u].period) = "HARD_CLOSE"
      BY <3>1 DEF AskedByOther, Allowed, CanReopen
    <3> QED  BY <1>1, <3>1, <3>2, <3>3, <3>4 DEF DraftNames
  <2>5. CASE RefuseAct(u) \/ RollBackAct(u)
    BY <2>5 DEF RefuseAct, RollBackAct, End, TypeOK
  <2> QED  BY <2>1, <2>2, <2>3, <2>4, <2>5 DEF ActStep
<1> QED  BY <1>3, <1>4 DEF Drafts

LEMMA DraftsCommit ==
  ASSUME Inv, Drafts, NEW u \in User, CommitEvent(u)
  PROVE  Drafts'
<1> USE DEF Inv, TypeInv
<1>1. request' = request /\ AskedByOther(u) /\ DraftNames(u)
  BY DEF CommitEvent, Drafts
<1> SUFFICES ASSUME NEW v \in User, step'[v] # "idle"
             PROVE  AskedByOther(v)' /\ (step'[v] = "written" => DraftNames(v)')
  BY DEF Drafts
<1>2. /\ v # u /\ step'[v] = step[v] /\ act'[v] = act[v] /\ written'[v] = written[v]
      /\ AskedByOther(v)
  BY OthersElsewhere DEF Drafts
<1>3. AskedByOther(v)'
  BY <1>1, <1>2 DEF AskedByOther
<1>4. ASSUME step'[v] = "written" PROVE DraftNames(v)'
  <2>1. /\ DraftNames(v) /\ act[v].period \in Period /\ act[v].period # act[u].period
    BY <1>2, <1>4, OthersElsewhere DEF Drafts
  <2>2. State(act[v].period)' = State(act[v].period)
    <3>1. history'[act[v].period] = history[act[v].period]
      BY <2>1, CommitShape
    <3> QED  BY <1>2, <3>1 DEF State
  <2>3. ASSUME act[v].request # None PROVE ~Approved(act[v].request)'
    <3>1. act[u].request # act[v].request
      BY <1>1, <1>2, <2>1, <2>3 DEF AskedByOther
    <3>2. ASSUME NEW p \in Period, NEW n \in DOMAIN history'[p]
          PROVE  history'[p][n].request # act[v].request
      <4>1. CASE p # act[u].period
        BY <2>1, <2>3, <4>1, CommitShape DEF DraftNames, Approved
      <4>2. CASE p = act[u].period
        <5>1. CASE n = Len(history[p]) + 1
          BY <1>1, <3>1, <4>2, <5>1, CommitShape DEF DraftNames
        <5>2. CASE n # Len(history[p]) + 1
          <6>1. n \in DOMAIN history[p] /\ history'[p][n] = history[p][n]
            BY <4>2, <5>2, CommitShape
          <6> QED  BY <2>1, <2>3, <6>1 DEF DraftNames, Approved
        <5> QED  BY <5>1, <5>2
      <4> QED  BY <4>1, <4>2
    <3> QED  BY <1>2, <3>2 DEF Approved
  <2> QED  BY <1>1, <1>2, <2>1, <2>2, <2>3 DEF DraftNames
<1> QED  BY <1>3, <1>4

LEMMA ReopensCommit ==
  ASSUME Inv, ReopenInv, NEW u \in User, CommitEvent(u),
         NEW p \in Period, NEW n \in DOMAIN history'[p]
  PROVE  Reopens(p, n)' /\ NamesAlone(p, n)'
<1> USE DEF Inv, TypeInv, ReopenInv
<1> DEFINE o == act[u].period
           e == written[u]
           q == act[u].request
           New(r, k) == r = o /\ k = Len(history[r]) + 1
<1>1. request' = request /\ AskedByOther(u) /\ DraftNames(u) /\ o \in Period
  BY CommitShape DEF CommitEvent, Drafts
<1>2. ASSUME NEW r \in Period, NEW k \in DOMAIN history'[r]
      PROVE  /\ New(r, k) => history'[r][k] = e
             /\ ~New(r, k) => k \in DOMAIN history[r] /\ history'[r][k] = history[r][k]
  <2>1. CASE r # o
    BY <2>1, CommitShape
  <2>2. CASE r = o
    BY <2>2, CommitShape
  <2> QED  BY <2>1, <2>2
<1>3. CASE New(p, n)
  <2>1. history'[p][n] = e /\ e.request = q /\ e.state = act[u].to
    BY <1>1, <1>2, <1>3 DEF DraftNames
  <2>2. ASSUME q # None
        PROVE  n > 1 /\ history'[p][n - 1].state = "HARD_CLOSE"
    <3>1. State(p) = "HARD_CLOSE"
      BY <1>1, <1>3, <2>2 DEF DraftNames
    <3>2. history[p] # <<>> /\ history[p][Len(history[p])].state = "HARD_CLOSE"
      BY <3>1 DEF State
    <3>3. Len(history[p]) \in Nat /\ Len(history[p]) # 0
      BY <3>2 DEF TypeOK
    <3>4. n - 1 = Len(history[p]) /\ n - 1 \in 1..Len(history[p])
      BY <1>3, <3>3
    <3> QED  BY <1>3, <3>2, <3>3, <3>4, CommitShape
  <2>3. ASSUME q # None
        PROVE  /\ request[q] # None /\ request[q] = [by |-> e.by, period |-> p]
               /\ e.by # e.approvedBy
    <3>1. request[q] # None /\ q \in Request
      BY <1>1, <2>3, RequestOf DEF CommitEvent, AskedByOther
    <3>2. request[q] \in Asked
      BY <3>1 DEF TypeOK
    <3> QED  BY <1>1, <1>3, <2>3, <3>1, <3>2 DEF AskedByOther, DraftNames, Asked
  <2>4. Reopens(p, n)'
    BY <1>1, <2>1, <2>2, <2>3 DEF Reopens, AskedByOther
  <2>5. NamesAlone(p, n)'
    <3> SUFFICES ASSUME NEW r \in Period, NEW k \in DOMAIN history'[r],
                        q # None, history'[r][k].request = q
                 PROVE  r = p /\ k = n
      BY <2>1 DEF NamesAlone
    <3>1. New(r, k)
      BY <1>1, <1>2 DEF DraftNames, Approved
    <3> QED  BY <1>3, <3>1
  <2> QED  BY <2>4, <2>5
<1>4. CASE ~New(p, n)
  <2>1. n \in DOMAIN history[p] /\ history'[p][n] = history[p][n]
        /\ Reopens(p, n) /\ NamesAlone(p, n)
    BY <1>2, <1>4
  <2>2. n > 1 => n - 1 \in DOMAIN history[p] /\ history'[p][n - 1] = history[p][n - 1]
    <3>1. n > 1 => n - 1 \in 1..Len(history[p])
      BY <2>1, CommitShape
    <3> QED  BY <3>1, CommitShape
  <2>3. Reopens(p, n)'
    BY <1>1, <2>1, <2>2 DEF Reopens
  <2>4. NamesAlone(p, n)'
    <3> SUFFICES ASSUME NEW r \in Period, NEW k \in DOMAIN history'[r],
                        history[p][n].request # None,
                        history'[r][k].request = history[p][n].request
                 PROVE  r = p /\ k = n
      BY <2>1 DEF NamesAlone
    <3>1. ~New(r, k)
      BY <1>1, <1>2, <2>1 DEF DraftNames, Approved
    <3> QED  BY <1>2, <2>1, <3>1 DEF NamesAlone
  <2> QED  BY <2>3, <2>4
<1> QED  BY <1>3, <1>4

LEMMA ReopenStep == Inv /\ ReopenInv /\ [Next]_vars => ReopenInv'
<1> SUFFICES ASSUME Inv, ReopenInv, [Next]_vars PROVE ReopenInv'
  OBVIOUS
<1> USE DEF Inv, TypeInv
<1>1. ASSUME UNCHANGED history
      PROVE  \A p \in Period : \A n \in DOMAIN history'[p] :
               Reopens(p, n)' /\ NamesAlone(p, n)'
  <2> SUFFICES ASSUME NEW p \in Period, NEW n \in DOMAIN history[p]
               PROVE  Reopens(p, n)' /\ NamesAlone(p, n)'
    BY <1>1
  <2>1. Reopens(p, n) /\ NamesAlone(p, n)
    BY DEF ReopenInv
  <2>2. history[p][n].request \in Request \cup {None}
    <3>1. history[p] \in Seq(Event)
      BY DEF TypeOK
    <3>2. history[p][n] \in Event
      BY <3>1
    <3> QED  BY <3>2 DEF Event
  <2> QED  BY <1>1, <2>1, <2>2, RequestsStay DEF Reopens, NamesAlone
<1>2. CASE UNCHANGED <<history, step, act, written>>
  <2>1. (\A p : State(p)' = State(p)) /\ (\A q : Approved(q)' <=> Approved(q))
    BY <1>2 DEF State, Approved
  <2>2. ASSUME NEW u \in User, step[u] # "idle"
        PROVE  AskedByOther(u)' /\ (step[u] = "written" => DraftNames(u)')
    <3>1. AskedByOther(u) /\ (step[u] = "written" => DraftNames(u))
      BY <2>2 DEF ReopenInv, Drafts
    <3>2. act[u].request # None => request'[act[u].request] = request[act[u].request]
      BY <2>2, <3>1, RequestOf, RequestsStay DEF AskedByOther
    <3> QED  BY <1>2, <2>1, <3>1, <3>2 DEF AskedByOther, DraftNames
  <2>3. Drafts'
    BY <1>2, <2>2 DEF Drafts
  <2> QED  BY <1>1, <1>2, <2>3 DEF ReopenInv
<1>3. ASSUME NEW u \in User, ActStep(u) PROVE ReopenInv'
  BY <1>1, <1>3, DraftsAct DEF ReopenInv, ActStep
<1>4. ASSUME NEW u \in User, CommitEvent(u) PROVE ReopenInv'
  <2>1. Drafts'
    BY <1>4, DraftsCommit DEF ReopenInv
  <2>2. \A p \in Period : \A n \in DOMAIN history'[p] : Reopens(p, n)' /\ NamesAlone(p, n)'
    BY <1>4, ReopensCommit
  <2> QED  BY <2>1, <2>2 DEF ReopenInv
<1> QED  BY <1>2, <1>3, <1>4, StepCases

(* A period is reopened after a hard close, on the request of one person   *)
(* and the approval of another, and no request reopens twice, however      *)
(* approvals race (RequestReopen and ApproveReopen of periods.go).         *)
THEOREM ReopeningTakesTwo == Spec => []ReopenedByTwo
<1>1. Init => ReopenInv
  BY DEF Init, ReopenInv, Drafts
<1>2. ReopenInv => ReopenedByTwo
  BY DEF ReopenInv, Reopens, NamesAlone, ReopenedByTwo
<1> QED  BY <1>1, <1>2, ReopenStep, AlwaysInv, PTL DEF Spec

-----------------------------------------------------------------------------
(* Chains of manifests                                                     *)

LEMMA OnlyGrow ==
  ASSUME [Next]_vars
  PROVE  posted \subseteq posted' /\ amended \subseteq amended'
<1>1. ASSUME NEW t \in Posting, Work(t) \/ RollBackPosting(t)
      PROVE  posted \subseteq posted' /\ amended \subseteq amended'
  BY <1>1 DEF Work, Post, Refuse, CommitPosting, RollBackPosting, DropAppended
<1>2. ASSUME NEW u \in User, ActStep(u) \/ CommitEvent(u)
      PROVE  UNCHANGED <<posted, amended>>
  BY <1>2 DEF ActStep, CommitEvent
<1>3. ASSUME NEW u \in User, NEW q \in Request, NEW p \in Period, RequestReopen(u, q, p)
      PROVE  UNCHANGED <<posted, amended>>
  BY <1>3 DEF RequestReopen
<1>4. ASSUME NEW u \in User,
             \/ Transition(u) \/ ApproveReopen(u) \/ LockForTransition(u) \/ Write(u)
             \/ RefuseAct(u) \/ RollBackAct(u)
      PROVE  UNCHANGED <<posted, amended>>
  BY <1>4 DEF Transition, ApproveReopen, Begin, LockForTransition, Write, RefuseAct,
              RollBackAct
<1> QED  BY <1>1, <1>2, <1>3, <1>4 DEF Next, Proceed, vars

LEMMA SameLast ==
  ASSUME NEW p \in Period, history'[p] = history[p]
  PROVE  Closes(p)' = Closes(p) /\ LastManifest(p)' = LastManifest(p)
<1>1. Closes(p)' = Closes(p)
  BY DEF Closes
<1> QED  BY <1>1 DEF LastManifest

(* The last manifest is that of a close, and of none only when there is none. *)
LEMMA LastCloses ==
  ASSUME TypeInv, NEW p \in Period
  PROVE  /\ Closes(p) \subseteq Nat \ {0}
         /\ LastManifest(p) = 0 => Closes(p) = {}
         /\ LastManifest(p) > 0 =>
              LastManifest(p) \in Closes(p) /\ \A i \in Closes(p) : i <= LastManifest(p)
<1>1. Closes(p) \subseteq Nat \ {0}
  <2>1. history[p] \in Seq(Event)
    BY DEF TypeInv, TypeOK
  <2>2. DOMAIN history[p] = 1..Len(history[p]) /\ Len(history[p]) \in Nat
    BY <2>1
  <2> QED  BY <2>2 DEF Closes
<1>2. CASE Closes(p) = {}
  BY <1>1, <1>2 DEF LastManifest
<1>3. CASE Closes(p) # {}
  <2>1. PICK n \in Closes(p) : \A k \in Closes(p) : k <= n
    BY <1>3 DEF TypeInv, HasLast
  <2>2. LastManifest(p) = n
    BY <2>1, LastIs DEF TypeInv
  <2> QED  BY <1>1, <1>3, <2>1, <2>2
<1> QED  BY <1>2, <1>3

\* The event a close has written names the last manifest.
NamesLast ==
  \A u \in User : step[u] = "written" /\ written[u].state = "HARD_CLOSE" =>
    written[u].supersedes = LastManifest(act[u].period)

\* What ManifestsChain says of one manifest, and that no journal leaves it.
Linked(p, k) ==
  LET n == history[p][k].supersedes IN
  /\ n = 0 => \A i \in Closes(p) : k <= i
  /\ n > 0 => /\ n \in Closes(p) /\ n < k
              /\ \A i \in Closes(p) : i <= n \/ k <= i
              /\ history[p][n].manifest \subseteq history[p][k].manifest
Kept(p, k) == history[p][k].manifest \subseteq In(p, posted)

ChainInv ==
  /\ NamesLast
  /\ \A p \in Period : \A k \in Closes(p) : Linked(p, k) /\ Kept(p, k)

LEMMA NamesLastStep == Inv /\ NamesLast /\ [Next]_vars => NamesLast'
<1> SUFFICES ASSUME Inv, NamesLast, [Next]_vars,
                    NEW v \in User, step'[v] = "written", written'[v].state = "HARD_CLOSE"
             PROVE  written'[v].supersedes = LastManifest(act[v].period)'
  BY DEF NamesLast
<1> USE DEF Inv, TypeInv
<1>0. ASSUME step[v] = "written", act'[v] = act[v], written'[v] = written[v],
             history'[act[v].period] = history[act[v].period]
      PROVE  written'[v].supersedes = LastManifest(act[v].period)'
  <2>1. Closes(act[v].period)' = Closes(act[v].period)
    BY <1>0 DEF Closes
  <2>2. LastManifest(act[v].period)' = LastManifest(act[v].period)
    BY <2>1 DEF LastManifest
  <2> QED  BY <1>0, <2>2 DEF NamesLast
<1>1. CASE UNCHANGED <<history, step, act, written>>
  BY <1>0, <1>1
<1>2. ASSUME NEW u \in User, ActStep(u)
      PROVE  written'[v].supersedes = LastManifest(act[v].period)'
  <2>1. UNCHANGED history
    BY <1>2 DEF ActStep
  <2>2. CASE v = u /\ Write(u)
    <3>1. /\ act'[u] = act[u] /\ written'[u] = EventOf(u, act[u])
      BY <2>2 DEF Write, TypeOK
    <3>2. written'[v].supersedes = LastManifest(act[v].period)
      BY <2>2, <3>1 DEF EventOf
    <3>3. Closes(act[v].period)' = Closes(act[v].period)
      BY <2>1, <2>2, <3>1 DEF Closes
    <3>4. LastManifest(act[v].period)' = LastManifest(act[v].period)
      BY <3>3 DEF LastManifest
    <3> QED  BY <2>2, <3>1, <3>2, <3>4
  <2>3. CASE ~(v = u /\ Write(u))
    <3>1. step[v] = "written" /\ act'[v] = act[v] /\ written'[v] = written[v]
      BY <1>2, <2>3 DEF ActStep, Transition, ApproveReopen, Begin, LockForTransition, Write,
                        RefuseAct, RollBackAct, End, TypeOK
    <3> QED  BY <1>0, <2>1, <3>1
  <2> QED  BY <2>2, <2>3
<1>3. ASSUME NEW u \in User, CommitEvent(u)
      PROVE  written'[v].supersedes = LastManifest(act[v].period)'
  <2>1. /\ step[v] = "written" /\ act'[v] = act[v] /\ written'[v] = written[v]
        /\ act[v].period \in Period /\ act[v].period # act[u].period
    BY <1>3, OthersElsewhere
  <2>2. history'[act[v].period] = history[act[v].period]
    BY <1>3, <2>1, CommitShape
  <2> QED  BY <1>0, <2>1, <2>2
<1> QED  BY <1>1, <1>2, <1>3, StepCases

LEMMA ChainStep == Inv /\ ChainInv /\ [Next]_vars => ChainInv'
<1> SUFFICES ASSUME Inv, ChainInv, [Next]_vars PROVE ChainInv'
  OBVIOUS
<1> USE DEF Inv, TypeInv
<1>1. NamesLast'
  BY NamesLastStep DEF ChainInv
<1>2. \A p \in Period : In(p, posted) \subseteq In(p, posted')
  BY OnlyGrow DEF In
<1>3. ASSUME UNCHANGED history PROVE ChainInv'
  BY <1>1, <1>2, <1>3 DEF ChainInv, Linked, Kept, Closes
<1>4. ASSUME NEW u \in User, CommitEvent(u) PROVE ChainInv'
  <2> DEFINE o == act[u].period
             e == written[u]
  <2> SUFFICES ASSUME NEW p \in Period, NEW k \in Closes(p)'
               PROVE  Linked(p, k)' /\ Kept(p, k)'
    BY <1>1 DEF ChainInv
  <2> DEFINE L == Len(history[p])
  <2>1. /\ p # o => history'[p] = history[p]
        /\ L \in Nat /\ DOMAIN history[p] = 1..L
        /\ p = o => /\ DOMAIN history'[p] = 1..(L + 1)
                    /\ \A n \in 1..L : history'[p][n] = history[p][n]
                    /\ history'[p][L + 1] = e
    BY <1>4, CommitShape
  <2>2. CASE p # o
    BY <1>2, <2>1, <2>2 DEF ChainInv, Linked, Kept, Closes
  <2>3. CASE p = o
    <3>1. /\ Closes(p) \subseteq 1..L
          /\ \A i \in Closes(p)' : i \in Closes(p) \/ i = L + 1
          /\ \A i \in Closes(p) : i \in Closes(p)' /\ history'[p][i] = history[p][i]
      BY <2>1, <2>3 DEF Closes
    <3>2. CASE k \in Closes(p)
      <4>1. Linked(p, k) /\ Kept(p, k)
        BY <3>2 DEF ChainInv
      <4>2. k \in 1..L /\ history'[p][k] = history[p][k]
        BY <3>1, <3>2
      <4>3. \A i \in Closes(p)' : i \in Closes(p) \/ k <= i
        BY <2>1, <3>1, <4>2
      <4>4. Linked(p, k)'
        BY <3>1, <4>1, <4>2, <4>3 DEF Linked
      <4>5. Kept(p, k)'
        BY <1>2, <4>1, <4>2 DEF Kept
      <4> QED  BY <4>4, <4>5
    <3>3. CASE k \notin Closes(p)
      <4>1. k = L + 1 /\ history'[p][k] = e /\ e.state = "HARD_CLOSE"
        BY <2>1, <2>3, <3>1, <3>3 DEF Closes
      <4>2. step[u] = "written" /\ e.supersedes = LastManifest(p) /\ e.manifest = In(p, posted)
        BY <1>4, <2>3, <4>1 DEF CommitEvent, ChainInv, NamesLast, LockInv, DraftHolds
      <4> DEFINE n == e.supersedes
      <4>3. n = 0 => \A i \in Closes(p)' : k <= i
        <5> SUFFICES ASSUME n = 0, NEW i \in Closes(p)' PROVE k <= i
          OBVIOUS
        <5>1. Closes(p) = {}
          BY <4>2, LastCloses
        <5>2. i = L + 1
          BY <3>1, <5>1
        <5> QED  BY <2>1, <4>1, <5>2
      <4>4. ASSUME n > 0
            PROVE  /\ n \in Closes(p)' /\ n < k
                   /\ \A i \in Closes(p)' : i <= n \/ k <= i
                   /\ history'[p][n].manifest \subseteq history'[p][k].manifest
        <5>1. n \in Closes(p) /\ \A i \in Closes(p) : i <= n
          BY <4>2, <4>4, LastCloses
        <5>2. n \in 1..L /\ history'[p][n] = history[p][n] /\ Kept(p, n)
          BY <3>1, <5>1 DEF ChainInv
        <5> QED  BY <2>1, <3>1, <4>1, <4>2, <5>1, <5>2 DEF Kept
      <4>5. Linked(p, k)'
        BY <4>1, <4>3, <4>4 DEF Linked
      <4>6. Kept(p, k)'
        BY <1>2, <4>1, <4>2 DEF Kept
      <4> QED  BY <4>5, <4>6
    <3> QED  BY <3>2, <3>3
  <2> QED  BY <2>2, <2>3
<1>5. UNCHANGED history \/ \E u \in User : CommitEvent(u)
  BY StepCases DEF ActStep
<1> QED  BY <1>3, <1>4, <1>5

(* Each manifest names that of the close before it and has all of its      *)
(* journals, however often the period was amended or reopened between      *)
(* (sealing in Transition of periods.go).                                  *)
THEOREM ManifestsAreChained == Spec => []ManifestsChain
<1>1. Init => ChainInv
  BY DEF Init, ChainInv, NamesLast, Closes
<1>2. ChainInv => ManifestsChain
  BY DEF ChainInv, Linked, ManifestsChain
<1> QED  BY <1>1, <1>2, ChainStep, AlwaysInv, PTL DEF Spec

-----------------------------------------------------------------------------
(* Late journals                                                           *)

\* A posting has marked what it has appended to a period that is amended.
MarksLate ==
  \A t \in Posting : \A j \in pending[t] :
    State(PeriodOf[j]) = "AMENDMENT_ACTIVE" => j \in marked[t]

\* A written event is one the period may come to.
MovesOn ==
  \A u \in User : step[u] = "written" =>
    \/ written[u].state = "REOPENED"
    \/ CanMoveTo(State(act[u].period), written[u].state)

\* No reopening from the n-th event of a period to the k-th.
Unopened(p, n, k) == \A i \in n..k : history[p][i].state # "REOPENED"

\* What is posted since a close that no reopening followed is marked.
LateSoFar(p, n) ==
  Unopened(p, n, Len(history[p])) =>
    /\ State(p) \in {"HARD_CLOSE", "AMENDMENT_ACTIVE", "SEALED"}
    /\ In(p, posted) \ history[p][n].manifest \subseteq amended
LateBetween(p, n, k) ==
  n < k /\ Unopened(p, n, k) =>
    history[p][k].manifest \ history[p][n].manifest \subseteq amended

LateInv ==
  /\ MarksLate /\ MovesOn
  /\ \A p \in Period : \A n \in Closes(p) :
       LateSoFar(p, n) /\ \A k \in Closes(p) : LateBetween(p, n, k)

LEMMA MovesOnStep == Inv /\ MovesOn /\ [Next]_vars => MovesOn'
<1> SUFFICES ASSUME Inv, MovesOn, [Next]_vars, NEW v \in User, step'[v] = "written"
             PROVE  \/ written'[v].state = "REOPENED"
                    \/ CanMoveTo(State(act[v].period), written[v].state)'
  BY DEF MovesOn
<1> USE DEF Inv, TypeInv
<1>1. ASSUME step[v] = "written", act'[v] = act[v], written'[v] = written[v],
             history'[act[v].period] = history[act[v].period]
      PROVE  \/ written'[v].state = "REOPENED"
             \/ CanMoveTo(State(act[v].period), written[v].state)'
  BY <1>1 DEF MovesOn, CanMoveTo, State
<1>2. CASE UNCHANGED <<history, step, act, written>>
  BY <1>1, <1>2
<1>3. ASSUME NEW u \in User, ActStep(u)
      PROVE  \/ written'[v].state = "REOPENED"
             \/ CanMoveTo(State(act[v].period), written[v].state)'
  <2>1. UNCHANGED history
    BY <1>3 DEF ActStep
  <2>2. CASE v = u /\ Write(u)
    <3>1. act'[v] = act[v] /\ written'[v] = EventOf(v, act[v]) /\ Allowed(act[v])
      BY <2>2 DEF Write, TypeOK
    <3>2. written'[v].state = act[v].to
      BY <3>1 DEF EventOf
    <3> QED  BY <2>1, <3>1, <3>2 DEF Allowed, CanMoveTo, State
  <2>3. CASE ~(v = u /\ Write(u))
    <3>1. step[v] = "written" /\ act'[v] = act[v] /\ written'[v] = written[v]
      BY <1>3, <2>3 DEF ActStep, Transition, ApproveReopen, Begin, LockForTransition, Write,
                        RefuseAct, RollBackAct, End, TypeOK
    <3> QED  BY <1>1, <2>1, <3>1
  <2> QED  BY <2>2, <2>3
<1>4. ASSUME NEW u \in User, CommitEvent(u)
      PROVE  \/ written'[v].state = "REOPENED"
             \/ CanMoveTo(State(act[v].period), written[v].state)'
  <2>1. /\ step[v] = "written" /\ act'[v] = act[v] /\ written'[v] = written[v]
        /\ act[v].period \in Period /\ act[v].period # act[u].period
    BY <1>4, OthersElsewhere
  <2>2. history'[act[v].period] = history[act[v].period]
    BY <1>4, <2>1, CommitShape
  <2> QED  BY <1>1, <2>1, <2>2
<1> QED  BY <1>2, <1>3, <1>4, StepCases

LEMMA MarksLateStep == Inv /\ MarksLate /\ [Next]_vars => MarksLate'
<1> SUFFICES ASSUME Inv, MarksLate, [Next]_vars PROVE MarksLate'
  OBVIOUS
<1> USE DEF Inv, TypeInv
<1>1. ASSUME UNCHANGED <<history, pending, marked>> PROVE MarksLate'
  BY <1>1 DEF MarksLate, State
<1>2. ASSUME NEW t \in Posting, Post(t) PROVE MarksLate'
  <2>1. PICK j \in Journal :
          /\ pending' = [pending EXCEPT ![t] = @ \cup {j}]
          /\ marked' = [marked EXCEPT ![t] =
                          IF Marks(State(PeriodOf[j])) THEN @ \cup {j} ELSE @]
          /\ UNCHANGED history
    BY <1>2 DEF Post
  <2>2. /\ pending'[t] = pending[t] \cup {j}
        /\ State(PeriodOf[j]) = "AMENDMENT_ACTIVE" => j \in marked'[t]
        /\ marked[t] \subseteq marked'[t]
        /\ \A v \in Posting : v # t => pending'[v] = pending[v] /\ marked'[v] = marked[v]
    BY <2>1 DEF Marks, TypeOK
  <2>3. \A p : State(p)' = State(p)
    BY <2>1 DEF State
  <2> QED  BY <2>2, <2>3 DEF MarksLate
<1>3. ASSUME NEW t \in Posting, Refuse(t) \/ CommitPosting(t) \/ RollBackPosting(t)
      PROVE  MarksLate'
  <2>1. /\ pending'[t] = {} /\ UNCHANGED history
        /\ \A v \in Posting : v # t => pending'[v] = pending[v] /\ marked'[v] = marked[v]
    BY <1>3 DEF Refuse, CommitPosting, RollBackPosting, Release, TypeOK
  <2> QED  BY <2>1 DEF MarksLate, State
<1>4. ASSUME NEW u \in User, CommitEvent(u) PROVE MarksLate'
  <2>1. UNCHANGED <<pending, marked>>
    BY <1>4 DEF CommitEvent, posting
  <2>2. ASSUME NEW t \in Posting, NEW j \in pending[t]
        PROVE  State(PeriodOf[j])' = State(PeriodOf[j])
    <3>1. PeriodOf[j] \in Period /\ PeriodOf[j] \in shared[t]
      BY <2>2, PeriodAssumption DEF LockInv, PostsIntoOpen, TypeOK
    <3>2. act[u].period \in Period /\ Exclusive(act[u].period, u)
      BY <1>4, <3>1, CommitShape DEF CommitEvent, Exclusive
    <3>3. PeriodOf[j] # act[u].period
      BY <3>1, <3>2 DEF LockInv, LocksExclude
    <3> QED  BY <1>4, <3>1, <3>3, CommitShape
  <2> QED  BY <2>1, <2>2 DEF MarksLate
<1>5. ASSUME NEW u \in User, NEW q \in Request, NEW p \in Period, RequestReopen(u, q, p)
      PROVE  MarksLate'
  BY <1>1, <1>5 DEF RequestReopen, posting
<1>6. ASSUME NEW u \in User, Transition(u) \/ ApproveReopen(u) \/ Proceed(u) \/ RollBackAct(u)
      PROVE  CommitEvent(u) \/ UNCHANGED <<history, pending, marked>>
  BY <1>6 DEF Transition, ApproveReopen, Begin, Proceed, LockForTransition, Write, RefuseAct,
              RollBackAct, posting
<1>7. UNCHANGED vars => UNCHANGED <<history, pending, marked>>
  BY DEF vars, posting
<1> QED  BY <1>1, <1>2, <1>3, <1>4, <1>5, <1>6, <1>7 DEF Next, Work

(* What a posting commits to a period closed since is marked.              *)
LEMMA LatePosted ==
  ASSUME Inv, LateInv, [Next]_vars, UNCHANGED history,
         NEW p \in Period, NEW n \in Closes(p), LateSoFar(p, n)
  PROVE  LateSoFar(p, n)'
<1> USE DEF Inv, TypeInv
<1> SUFFICES ASSUME Unopened(p, n, Len(history[p]))
             PROVE  /\ State(p)' \in {"HARD_CLOSE", "AMENDMENT_ACTIVE", "SEALED"}
                    /\ In(p, posted') \ history[p][n].manifest \subseteq amended'
  BY DEF LateSoFar, Unopened
<1>1. /\ State(p)' = State(p)
      /\ State(p) \in {"HARD_CLOSE", "AMENDMENT_ACTIVE", "SEALED"}
      /\ In(p, posted) \ history[p][n].manifest \subseteq amended
      /\ amended \subseteq amended'
  BY OnlyGrow DEF LateSoFar, State
<1>2. ASSUME NEW t \in Posting, CommitPosting(t)
      PROVE  In(p, posted') \ history[p][n].manifest \subseteq amended'
  <2>1. posted' = posted \cup pending[t] /\ amended' = amended \cup marked[t]
    BY <1>2 DEF CommitPosting
  <2>2. ASSUME NEW j \in pending[t], PeriodOf[j] = p
        PROVE  j \in marked[t]
    <3>1. State(p) \notin Closed
      BY <2>2 DEF LockInv, PostsIntoOpen
    <3>2. State(p) = "AMENDMENT_ACTIVE"
      BY <1>1, <3>1 DEF Closed
    <3> QED  BY <2>2, <3>2 DEF LateInv, MarksLate
  <2> QED  BY <1>1, <2>1, <2>2 DEF In
<1>3. CASE posted' = posted
  BY <1>1, <1>3
<1>4. posted' = posted \/ \E t \in Posting : CommitPosting(t)
  <2>1. ASSUME NEW t \in Posting, Post(t) \/ Refuse(t) \/ RollBackPosting(t)
        PROVE  posted' = posted
    BY <2>1 DEF Post, Refuse, RollBackPosting, DropAppended
  <2>2. ASSUME NEW u \in User, Transition(u) \/ ApproveReopen(u) \/ Proceed(u) \/ RollBackAct(u)
        PROVE  posted' = posted
    BY <2>2 DEF Transition, ApproveReopen, Begin, Proceed, LockForTransition, Write,
                CommitEvent, RefuseAct, RollBackAct
  <2>3. ASSUME NEW u \in User, NEW q \in Request, NEW r \in Period, RequestReopen(u, q, r)
        PROVE  posted' = posted
    BY <2>3 DEF RequestReopen
  <2> QED  BY <2>1, <2>2, <2>3 DEF Next, Work, vars
<1> QED  BY <1>1, <1>2, <1>3, <1>4

LEMMA LateCommitted ==
  ASSUME Inv, LateInv, NEW u \in User, CommitEvent(u),
         NEW p \in Period, NEW n \in Closes(p)'
  PROVE  LateSoFar(p, n)' /\ \A k \in Closes(p)' : LateBetween(p, n, k)'
<1> USE DEF Inv, TypeInv
<1> DEFINE o == act[u].period
           e == written[u]
<1> PICK L \in Nat : L = Len(history[p])
  BY CommitShape
<1>1. /\ UNCHANGED <<posted, amended>> /\ step[u] = "written"
      /\ e.state = "REOPENED" \/ CanMoveTo(State(o), e.state)
      /\ e.state = "HARD_CLOSE" => e.manifest = In(o, posted)
  BY DEF CommitEvent, LateInv, MovesOn, LockInv, DraftHolds
<1>2. /\ p # o => history'[p] = history[p] /\ State(p)' = State(p)
      /\ DOMAIN history[p] = 1..L
      /\ p = o => /\ DOMAIN history'[p] = 1..(L + 1)
                  /\ \A i \in 1..L : history'[p][i] = history[p][i]
                  /\ history'[p][L + 1] = e
                  /\ State(p)' = e.state
  BY CommitShape
<1>3. CASE p # o
  <2>1. Closes(p)' = Closes(p)
    BY <1>2, <1>3 DEF Closes
  <2>2. LateSoFar(p, n) /\ \A k \in Closes(p) : LateBetween(p, n, k)
    BY <2>1 DEF LateInv
  <2>3. LateSoFar(p, n)'
    BY <1>1, <1>2, <1>3, <2>2 DEF LateSoFar, Unopened
  <2>4. \A k \in Closes(p)' : LateBetween(p, n, k)'
    BY <1>1, <1>2, <1>3, <2>1, <2>2 DEF LateBetween, Unopened
  <2> QED  BY <2>3, <2>4
<1>4. CASE p = o
  <2>1. /\ Closes(p) \subseteq 1..L
        /\ \A i \in Closes(p)' : i \in Closes(p) \/ (i = L + 1 /\ e.state = "HARD_CLOSE")
        /\ \A i \in Closes(p) : history'[p][i] = history[p][i]
    <3>1. DOMAIN history'[p] = 1..(L + 1) /\ \A i \in 1..L : history'[p][i] = history[p][i]
      BY <1>2, <1>4
    <3>2. \A i \in 1..(L + 1) : i \in 1..L \/ i = L + 1
      OBVIOUS
    <3> QED  BY <1>2, <1>4, <3>1, <3>2 DEF Closes
  <2>2. Len(history'[p]) = L + 1
    <3>1. history'[p] = Append(history[p], e) /\ history[p] \in Seq(Event)
      BY <1>4, CommitShape DEF CommitEvent, TypeOK
    <3> QED  BY <3>1
  <2>3. CASE n \in Closes(p)
    <3>1. n \in 1..L /\ history'[p][n] = history[p][n]
          /\ LateSoFar(p, n) /\ \A k \in Closes(p) : LateBetween(p, n, k)
      BY <2>1, <2>3 DEF LateInv
    <3>2. ASSUME Unopened(p, n, L + 1)'
          PROVE  Unopened(p, n, L) /\ e.state # "REOPENED"
      <4>1. \A i \in n..(L + 1) : history'[p][i].state # "REOPENED"
        BY <3>2 DEF Unopened
      <4>2. e.state # "REOPENED"
        BY <1>2, <1>4, <3>1, <4>1
      <4>3. ASSUME NEW i \in n..L PROVE history[p][i].state # "REOPENED"
        <5>1. i \in 1..L /\ i \in n..(L + 1)
          BY <1>2, <3>1, <4>3
        <5> QED  BY <1>2, <1>4, <4>1, <5>1
      <4> QED  BY <4>2, <4>3 DEF Unopened
    <3>3. ASSUME Unopened(p, n, L + 1)'
          PROVE  /\ e.state \in {"HARD_CLOSE", "AMENDMENT_ACTIVE", "SEALED"}
                 /\ In(p, posted) \ history[p][n].manifest \subseteq amended
      BY <1>1, <1>4, <3>1, <3>2, <3>3 DEF LateSoFar, CanMoveTo
    <3>4. LateSoFar(p, n)'
      BY <1>1, <1>2, <1>4, <2>2, <3>1, <3>3 DEF LateSoFar
    <3>5. ASSUME NEW k \in Closes(p)' PROVE LateBetween(p, n, k)'
      <4>1. CASE k \in Closes(p)
        <5>1. k \in 1..L /\ history'[p][k] = history[p][k] /\ LateBetween(p, n, k)
          BY <2>1, <3>1, <4>1
        <5>2. \A i \in n..k : i \in 1..L
          BY <1>2, <3>1, <5>1
        <5>3. Unopened(p, n, k)' => Unopened(p, n, k)
          BY <1>2, <1>4, <5>2 DEF Unopened
        <5> QED  BY <1>1, <3>1, <5>1, <5>3 DEF LateBetween
      <4>2. CASE k \notin Closes(p)
        <5>1. k = L + 1 /\ history'[p][k] = e /\ e.manifest = In(p, posted)
          BY <1>1, <1>2, <1>4, <2>1, <3>5, <4>2
        <5> QED  BY <1>1, <3>1, <3>3, <5>1 DEF LateBetween
      <4> QED  BY <4>1, <4>2
    <3> QED  BY <3>4, <3>5
  <2>4. CASE n \notin Closes(p)
    <3>1. n = L + 1 /\ history'[p][n] = e /\ e.state = "HARD_CLOSE"
          /\ e.manifest = In(p, posted)
      BY <1>1, <1>2, <1>4, <2>1, <2>4
    <3>2. LateSoFar(p, n)'
      BY <1>1, <1>2, <1>4, <3>1 DEF LateSoFar
    <3>3. ASSUME NEW k \in Closes(p)' PROVE ~(n < k)
      <4>1. k \in 1..(L + 1)
        BY <1>2, <2>1
      <4> QED  BY <3>1, <4>1
    <3> QED  BY <3>2, <3>3 DEF LateBetween
  <2> QED  BY <2>3, <2>4
<1> QED  BY <1>3, <1>4

LEMMA LateStep == Inv /\ LateInv /\ [Next]_vars => LateInv'
<1> SUFFICES ASSUME Inv, LateInv, [Next]_vars PROVE LateInv'
  OBVIOUS
<1>1. MarksLate' /\ MovesOn'
  BY MarksLateStep, MovesOnStep DEF LateInv
<1>2. ASSUME NEW u \in User, CommitEvent(u) PROVE LateInv'
  BY <1>1, <1>2, LateCommitted DEF LateInv
<1>3. CASE UNCHANGED history
  <2>1. \A p \in Period : Closes(p)' = Closes(p)
    BY <1>3 DEF Closes
  <2>2. ASSUME NEW p \in Period, NEW n \in Closes(p)
        PROVE  LateSoFar(p, n)' /\ \A k \in Closes(p) : LateBetween(p, n, k)'
    <3>1. LateSoFar(p, n) /\ \A k \in Closes(p) : LateBetween(p, n, k)
      BY DEF LateInv
    <3>2. \A k \in Closes(p) : LateBetween(p, n, k)'
      BY <1>3, <3>1, OnlyGrow DEF LateBetween, Unopened
    <3> QED  BY <1>3, <3>1, <3>2, LatePosted
  <2> QED  BY <1>1, <2>1, <2>2 DEF LateInv
<1>4. UNCHANGED history \/ \E u \in User : CommitEvent(u)
  BY StepCases DEF ActStep
<1> QED  BY <1>2, <1>3, <1>4

(* A late journal posts only as an amendment: what one manifest has and an *)
(* earlier one has not is marked, unless the period was reopened between   *)
(* (PostableAs of period.go).                                              *)
THEOREM LateOnlyAsAmendment == Spec => []LateIsMarked
<1>1. Init => LateInv
  BY DEF Init, LateInv, MarksLate, MovesOn, Closes
<1>2. LateInv => LateIsMarked
  BY DEF LateInv, LateBetween, Unopened, LateIsMarked
<1> QED  BY <1>1, <1>2, LateStep, AlwaysInv, PTL DEF Spec

-----------------------------------------------------------------------------
(* No deadlock                                                             *)
(*                                                                         *)
(* A transition waits for postings alone and holds nothing while it waits, *)
(* so a circle of waiting transactions has a posting behind each of its    *)
(* transitions: it is one that the queue closes, and the detector lets its *)
(* postings pass.                                                          *)

(* A posting that has appended may commit, or append its next journal or   *)
(* be refused it; a transition has its lock or may have it.                *)
CanWork(t) ==
  \/ Left(t) = {}
  \/ ~Done(t) /\ \E j \in Journal : ComesNext(t, j) /\ LockForPosting(t, PeriodOf[j])
CanProceed(u) ==
  \/ step[u] \in {"locked", "written"}
  \/ /\ step[u] = "waiting"
     /\ \A v \in User : ~Exclusive(act[u].period, v)
     /\ \A t \in Posting : act[u].period \notin shared[t]

Working == {t \in Posting : pending[t] # {}}
Moving == {u \in User : step[u] # "idle"}
NoDeadlock ==
  Working # {} \/ Moving # {} =>
    (\E t \in Working : CanWork(t)) \/ (\E u \in Moving : CanProceed(u))

(* A posting that holds a lock has appended.                               *)
HoldsToPost == \A t \in Posting : shared[t] # {} => pending[t] # {}

LEMMA HoldsStep == TypeOK /\ HoldsToPost /\ [Next]_vars => HoldsToPost'
<1> SUFFICES ASSUME TypeOK, HoldsToPost, [Next]_vars PROVE HoldsToPost'
  OBVIOUS
<1>1. ASSUME NEW t \in Posting, Post(t) PROVE HoldsToPost'
  <2>1. /\ pending'[t] # {}
        /\ \A v \in Posting : v # t => pending'[v] = pending[v] /\ shared'[v] = shared[v]
    BY <1>1 DEF Post, TypeOK
  <2> QED  BY <2>1 DEF HoldsToPost
<1>2. ASSUME NEW t \in Posting, Release(t) PROVE HoldsToPost'
  <2>1. /\ shared'[t] = {}
        /\ \A v \in Posting : v # t => pending'[v] = pending[v] /\ shared'[v] = shared[v]
    BY <1>2 DEF Release, TypeOK
  <2> QED  BY <2>1 DEF HoldsToPost
<1>3. ASSUME NEW t \in Posting, Refuse(t) \/ CommitPosting(t) \/ RollBackPosting(t)
      PROVE  Release(t)
  BY <1>3 DEF Refuse, CommitPosting, RollBackPosting
<1>4. ASSUME NEW u \in User,
             \/ \E a \in Act : Begin(u, a)
             \/ LockForTransition(u) \/ Write(u) \/ CommitEvent(u)
             \/ RefuseAct(u) \/ RollBackAct(u)
      PROVE  UNCHANGED posting
  BY <1>4 DEF Begin, LockForTransition, Write, CommitEvent, RefuseAct, RollBackAct
<1>5. ASSUME NEW u \in User, NEW q \in Request, NEW p \in Period, RequestReopen(u, q, p)
      PROVE  UNCHANGED posting
  BY <1>5 DEF RequestReopen
<1>6. CASE UNCHANGED posting
  BY <1>6 DEF HoldsToPost, posting
<1>7. UNCHANGED vars => UNCHANGED posting
  BY DEF vars
<1> QED  BY <1>1, <1>2, <1>3, <1>4, <1>5, <1>6, <1>7, NextCases

LEMMA LeastExists ==
  ASSUME NEW S, S \subseteq Nat, S # {}
  PROVE  \E n \in S : \A m \in S : n <= m
<1>1. PICK n \in S : \A m \in S : ~(<<m, n>> \in OpToRel(<, Nat))
  BY NatLessThanWellFounded, WFMin
<1>2. ASSUME NEW m \in S PROVE n <= m
  <2>1. m \in Nat /\ n \in Nat
    OBVIOUS
  <2>2. m < n => <<m, n>> \in OpToRel(<, Nat)
    BY <2>1 DEF OpToRel
  <2>3. ~(m < n)
    BY <1>1, <2>2, Zenon
  <2> QED  BY <2>1, <2>3
<1> QED  BY <1>2

LEMMA SomeJournalNext ==
  ASSUME NEW t \in Posting, Left(t) # {}
  PROVE  \E j \in Journal : ComesNext(t, j)
<1>1. JournalsOf[t] \in Seq(Journal)
  BY PostingAssumption
<1>2. Left(t) \subseteq DOMAIN JournalsOf[t] /\ DOMAIN JournalsOf[t] \subseteq Nat
  BY <1>1 DEF Left
<1>3. PICK i \in Left(t) : \A k \in Left(t) : i <= k
  BY <1>2, LeastExists
<1>4. JournalsOf[t][i] \in Journal
  BY <1>1, <1>2
<1> QED  BY <1>3, <1>4 DEF ComesNext

(* However postings that take the locks of several periods in any order    *)
(* meet transitions that queue for them, some transaction can go on        *)
(* (guardPosting, Transition): a circle that closes is one the queue       *)
(* closes, and its postings pass (PassesQueue).                            *)
THEOREM SomeoneProceeds == Spec => []NoDeadlock
<1>1. ASSUME Inv, Whole, HoldsToPost, Working # {} \/ Moving # {},
             \A t \in Working : ~CanWork(t), \A u \in Moving : ~CanProceed(u)
      PROVE  FALSE
  <2>1. \A u \in Moving : step[u] = "waiting"
    BY <1>1 DEF CanProceed, Moving, Inv, TypeInv, TypeOK
  <2>2. \A p, u : u \in User => ~Exclusive(p, u)
    BY <2>1 DEF Exclusive, Moving
  <2>3. ASSUME NEW u \in User, step[u] = "waiting"
        PROVE  \E w \in Working : act[u].period \in shared[w]
    <3>1. PICK w \in Posting : act[u].period \in shared[w]
      BY <1>1, <2>2, <2>3 DEF CanProceed, Moving
    <3> QED  BY <1>1, <3>1 DEF HoldsToPost, Working
  <2>4. ASSUME NEW t \in Working
        PROVE  \E j \in Journal :
                 /\ ComesNext(t, j) /\ ~PassesQueue(t)
                 /\ \E u \in User : Queued(PeriodOf[j], u)
    <3>1. Left(t) # {} /\ t \in Posting
      BY <1>1, <2>4 DEF CanWork, Working
    <3>2. ~Done(t)
      <4>1. Mine(t) \cap posted = {}
        BY <1>1, <2>4 DEF Whole, Working
      <4> QED  BY <3>1, <4>1 DEF Done, Left, Mine
    <3>3. PICK j \in Journal : ComesNext(t, j)
      BY <3>1, SomeJournalNext
    <3>4. ~LockForPosting(t, PeriodOf[j])
      BY <1>1, <2>4, <3>2, <3>3 DEF CanWork
    <3> QED  BY <2>2, <3>3, <3>4 DEF LockForPosting
  <2>5. Working # {}
    BY <1>1, <2>1, <2>3 DEF Moving
  <2>6. ASSUME NEW v \in Working
        PROVE  \E j \in Journal : ComesNext(v, j) /\
                 \E u \in User, w \in Working :
                   Queued(PeriodOf[j], u) /\ PeriodOf[j] \in shared[w]
    BY <2>3, <2>4, <2>6 DEF Queued
  <2>7. PICK t \in Working : ~PassesQueue(t)
    BY <2>4, <2>5
  <2>8. Working \in SUBSET Posting
    BY DEF Working
  <2> HIDE DEF Working
  <2> QED  BY <2>6, <2>7, <2>8 DEF PassesQueue
<1>2. Inv /\ Whole /\ HoldsToPost => NoDeadlock
  BY <1>1 DEF NoDeadlock
<1>3. Init => Whole /\ HoldsToPost
  BY DEF Init, Whole, HoldsToPost
<1>4. Inv => TypeOK
  BY DEF Inv, TypeInv
<1> QED  BY <1>2, <1>3, <1>4, AlwaysInv, WholeStep, HoldsStep, PTL DEF Spec
=============================================================================
