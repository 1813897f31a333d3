----------------------------- MODULE PeriodClose -----------------------------
(***************************************************************************)
(* The close of the tax subledger's legal periods (internal/app/periods.go *)
(* and internal/domain/subledger/period.go), against the journals that     *)
(* post into them.                                                         *)
(*                                                                         *)
(* A transaction that posts takes the lock of each journal's period        *)
(* shared, a transition takes it exclusive, and both keep it until they    *)
(* commit or roll back.  A period's state is its last event; a hard close  *)
(* seals the period's journals in a manifest.                              *)
(***************************************************************************)
EXTENDS Naturals, Sequences, FiniteSets

CONSTANTS
  Period,
  Journal, PeriodOf,
  Adjusting,          \* journals of type adjustment or rounding
  Posting,            \* transactions that post
  JournalsOf,         \* the journals each appends, in that order
  User, Request, None,
  Tried,              \* bound: the states people move each period to
  MaxEvents,          \* bound: events of each period
  MaxFaults           \* bound: transactions that fail

ASSUME PeriodAssumption == PeriodOf \in [Journal -> Period]
ASSUME AdjustingAssumption == Adjusting \subseteq Journal
ASSUME PostingAssumption ==
  /\ JournalsOf \in [Posting -> Seq(Journal)]
  /\ \A t, u \in Posting :
       \A i \in DOMAIN JournalsOf[t], k \in DOMAIN JournalsOf[u] :
         JournalsOf[t][i] = JournalsOf[u][k] => t = u /\ i = k
ASSUME BoundAssumption == MaxEvents \in [Period -> Nat] /\ MaxFaults \in Nat

States == {"OPEN", "SOFT_CLOSE", "HARD_CLOSE", "REOPENED",
           "AMENDMENT_ACTIVE", "SEALED"}

(* supersedes is the seq of the close whose manifest a manifest names.     *)
Event == [state : States, manifest : SUBSET Journal, supersedes : Nat,
          request : Request \cup {None},
          by : User \cup {None},
          approvedBy : User \cup {None}]
Asked == [by : User, period : Period]
Act == [period : Period, to : States, request : Request \cup {None}]

ASSUME TriedAssumption == Tried \in [Period -> SUBSET (States \ {"REOPENED"})]
ASSUME NoneAssumption ==
  None \notin Request \cup User \cup Event \cup Asked \cup Act

VARIABLES
  history,     \* each period's events, as committed
  posted,      \* journals committed
  amended,     \* those marked as amendments
  request,     \* the reopen requests
  shared,      \* the period locks each posting holds
  pending,     \* the journals its transaction has appended
  marked,      \* those of them it has marked
  step, act,   \* where each user's transaction is, and what it does
  written,     \* the event it has appended
  faults

posting == <<shared, pending, marked>>
acting == <<step, act, written>>
vars == <<history, posted, amended, request, posting, acting, faults>>

TypeOK ==
  /\ history \in [Period -> Seq(Event)]
  /\ posted \subseteq Journal /\ amended \subseteq posted
  /\ request \in [Request -> Asked \cup {None}]
  /\ shared \in [Posting -> SUBSET Period]
  /\ pending \in [Posting -> SUBSET Journal]
  /\ marked \in [Posting -> SUBSET Journal]
  /\ \A t \in Posting : marked[t] \subseteq pending[t]
  /\ step \in [User -> {"idle", "waiting", "locked", "written"}]
  /\ act \in [User -> Act \cup {None}]
  /\ written \in [User -> Event \cup {None}]
  /\ \A u \in User : step[u] # "idle" => act[u] # None
  /\ faults \in 0..MaxFaults

Init ==
  /\ history = [p \in Period |-> <<>>]
  /\ posted = {} /\ amended = {}
  /\ request = [q \in Request |-> None]
  /\ shared = [t \in Posting |-> {}]
  /\ pending = [t \in Posting |-> {}] /\ marked = [t \in Posting |-> {}]
  /\ step = [u \in User |-> "idle"] /\ act = [u \in User |-> None]
  /\ written = [u \in User |-> None]
  /\ faults = 0

State(p) ==
  IF history[p] = <<>> THEN "OPEN" ELSE history[p][Len(history[p])].state

CanMoveTo(from, to) ==
  \/ from \in {"OPEN", "REOPENED"} /\ to \in {"SOFT_CLOSE", "HARD_CLOSE"}
  \/ from = "SOFT_CLOSE" /\ to \in {"OPEN", "HARD_CLOSE"}
  \/ from = "HARD_CLOSE" /\ to \in {"AMENDMENT_ACTIVE", "SEALED"}
  \/ from = "AMENDMENT_ACTIVE" /\ to = "HARD_CLOSE"

CanReopen(s) == s = "HARD_CLOSE"

In(p, J) == {j \in J : PeriodOf[j] = p}

-----------------------------------------------------------------------------
(* The period locks                                                        *)

Exclusive(p, u) == step[u] \in {"locked", "written"} /\ act[u].period = p
Queued(p, u) == step[u] = "waiting" /\ act[u].period = p

(* The journal a posting comes to next.                                    *)
Left(t) == {i \in DOMAIN JournalsOf[t] : JournalsOf[t][i] \notin pending[t]}
ComesNext(t, j) ==
  \E i \in Left(t) : JournalsOf[t][i] = j /\ \A k \in Left(t) : i <= k

Done(t) == \A i \in DOMAIN JournalsOf[t] : JournalsOf[t][i] \in posted

(* A shared lock queues behind an exclusive request, which waits for the   *)
(* shared locks held.  The database lets a posting pass the queue when     *)
(* every posting of a circle waits for a request that waits for another.   *)
PassesQueue(t) ==
  \E S \in SUBSET Posting :
    /\ t \in S
    /\ \A v \in S : \E j \in Journal : ComesNext(v, j) /\
         \E u \in User, w \in S :
           Queued(PeriodOf[j], u) /\ PeriodOf[j] \in shared[w]

(* Mutated, a posting takes no lock.                                       *)
LocksNothing(t, p) == TRUE
LockForPosting(t, p) ==
  \/ p \in shared[t]
  \/ /\ \A u \in User : ~Exclusive(p, u)
     /\ (\A u \in User : ~Queued(p, u)) \/ PassesQueue(t)

LockForTransition(u) ==
  /\ step[u] = "waiting"
  /\ \A v \in User : ~Exclusive(act[u].period, v)
  /\ \A t \in Posting : act[u].period \notin shared[t]
  /\ step' = [step EXCEPT ![u] = "locked"]
  /\ UNCHANGED <<history, posted, amended, request, posting, act, written, faults>>

-----------------------------------------------------------------------------
(* Posting                                                                 *)

CheckPostable(j, s) ==
  \/ s \in {"OPEN", "REOPENED", "AMENDMENT_ACTIVE"}
  \/ s = "SOFT_CLOSE" /\ j \in Adjusting

(* PostableAs marks what posts in an amendment window.                     *)
MarksNothing(s) == FALSE
Marks(s) == s = "AMENDMENT_ACTIVE"

(* guardPosting admits the next journal, and it is appended.               *)
Post(t) ==
  \E j \in Journal :
    LET p == PeriodOf[j] IN
    /\ ~Done(t) /\ ComesNext(t, j) /\ LockForPosting(t, p)
    /\ CheckPostable(j, State(p))
    /\ shared' = [shared EXCEPT ![t] = @ \cup {p}]
    /\ pending' = [pending EXCEPT ![t] = @ \cup {j}]
    /\ marked' = [marked EXCEPT ![t] = IF Marks(State(p)) THEN @ \cup {j} ELSE @]
    /\ UNCHANGED <<history, posted, amended, request, acting, faults>>

Release(t) ==
  /\ shared' = [shared EXCEPT ![t] = {}]
  /\ pending' = [pending EXCEPT ![t] = {}]
  /\ marked' = [marked EXCEPT ![t] = {}]

(* guardPosting refuses it: the transaction rolls back.                    *)
DropAppended(t) == UNCHANGED posted

Refuse(t) ==
  \E j \in Journal :
    /\ ~Done(t) /\ ComesNext(t, j) /\ LockForPosting(t, PeriodOf[j])
    /\ ~CheckPostable(j, State(PeriodOf[j]))
    /\ pending[t] # {}
    /\ DropAppended(t) /\ Release(t)
    /\ UNCHANGED <<history, amended, request, acting, faults>>

CommitPosting(t) ==
  /\ pending[t] # {} /\ Left(t) = {}
  /\ posted' = posted \cup pending[t]
  /\ amended' = amended \cup marked[t]
  /\ Release(t)
  /\ UNCHANGED <<history, request, acting, faults>>

Fault == faults < MaxFaults /\ faults' = faults + 1

(* Anything else of the transaction fails.                                 *)
RollBackPosting(t) ==
  /\ Fault /\ pending[t] # {} /\ Release(t)
  /\ UNCHANGED <<history, posted, amended, request, acting>>

-----------------------------------------------------------------------------
(* Transitions and reopening                                               *)

Begin(u, a) ==
  /\ step[u] = "idle"
  /\ Len(history[a.period])
       + Cardinality({v \in User : step[v] # "idle" /\ act[v].period = a.period})
     < MaxEvents[a.period]
  /\ step' = [step EXCEPT ![u] = "waiting"]
  /\ act' = [act EXCEPT ![u] = a]
  /\ UNCHANGED <<history, posted, amended, request, posting, written, faults>>

Transition(u) ==
  \E p \in Period : \E to \in Tried[p] :
    Begin(u, [period |-> p, to |-> to, request |-> None])

(* RequestReopen reads the state and then inserts; nothing reads the       *)
(* request between.                                                        *)
RequestReopen(u, q, p) ==
  /\ request[q] = None /\ CanReopen(State(p))
  /\ request' = [request EXCEPT ![q] = [by |-> u, period |-> p]]
  /\ UNCHANGED <<history, posted, amended, posting, acting, faults>>

(* Mutated, anyone approves.                                               *)
AnyoneMay(u, q) == TRUE
SomeoneElse(u, q) == request[q].by # u

ApproveReopen(u) ==
  \E q \in Request :
    /\ request[q] # None /\ SomeoneElse(u, q)
    /\ Begin(u, [period |-> request[q].period, to |-> "REOPENED",
                 request |-> q])

(* No event of the period names the request yet.                           *)
Approved(q) ==
  \E p \in Period : \E n \in DOMAIN history[p] : history[p][n].request = q

Allowed(a) ==
  IF a.to = "REOPENED"
  THEN CanReopen(State(a.period)) /\ ~Approved(a.request)
  ELSE CanMoveTo(State(a.period), a.to)

(* The last manifest of the period's events; 0 if it has none.  Mutated,   *)
(* that of its last event alone.                                           *)
Closes(p) == {n \in DOMAIN history[p] : history[p][n].state = "HARD_CLOSE"}
ManifestOfLastEvent(p) ==
  IF State(p) = "HARD_CLOSE" THEN Len(history[p]) ELSE 0
LastManifest(p) ==
  IF Closes(p) = {} THEN 0
  ELSE CHOOSE n \in Closes(p) : \A k \in Closes(p) : k <= n

(* The event of an act; a hard close seals the period's journals.          *)
EventOf(u, a) ==
  LET closes == a.to = "HARD_CLOSE" IN
  [state |-> a.to,
   manifest |-> IF closes THEN In(a.period, posted) ELSE {},
   supersedes |-> IF closes THEN LastManifest(a.period) ELSE 0,
   request |-> a.request,
   by |-> IF a.request = None THEN None ELSE request[a.request].by,
   approvedBy |-> IF a.request = None THEN None ELSE u]

Write(u) ==
  /\ step[u] = "locked" /\ Allowed(act[u])
  /\ written' = [written EXCEPT ![u] = EventOf(u, act[u])]
  /\ step' = [step EXCEPT ![u] = "written"]
  /\ UNCHANGED <<history, posted, amended, request, posting, act, faults>>

(* The locks are the transaction's.  Mutated, they are the session's and   *)
(* outlive it.                                                             *)
KeepLock(u) ==
  /\ step' = [step EXCEPT ![u] = "locked"]
  /\ UNCHANGED <<act, written>>
End(u) ==
  /\ step' = [step EXCEPT ![u] = "idle"]
  /\ act' = [act EXCEPT ![u] = None]
  /\ written' = [written EXCEPT ![u] = None]

CommitEvent(u) ==
  /\ step[u] = "written"
  /\ history' = [history EXCEPT ![act[u].period] = Append(@, written[u])]
  /\ End(u)
  /\ UNCHANGED <<posted, amended, request, posting, faults>>

(* The act is refused, or its transaction fails.                           *)
RefuseAct(u) ==
  /\ step[u] = "locked" /\ ~Allowed(act[u]) /\ End(u)
  /\ UNCHANGED <<history, posted, amended, request, posting, faults>>

RollBackAct(u) ==
  /\ Fault /\ step[u] # "idle" /\ End(u)
  /\ UNCHANGED <<history, posted, amended, request, posting>>

Work(t) == Post(t) \/ Refuse(t) \/ CommitPosting(t)
Proceed(u) == LockForTransition(u) \/ Write(u) \/ CommitEvent(u) \/ RefuseAct(u)

Next ==
  \/ \E t \in Posting : Work(t) \/ RollBackPosting(t)
  \/ \E u \in User : Transition(u) \/ ApproveReopen(u) \/ Proceed(u)
                       \/ RollBackAct(u)
  \/ \E u \in User, q \in Request, p \in Period : RequestReopen(u, q, p)

Spec == Init /\ [][Next]_vars

(* A transaction that has begun goes on, and the database serves those who *)
(* wait for a lock in turn.                                                *)
FairSpec ==
  /\ Spec
  /\ \A t \in Posting : SF_vars(pending[t] # {} /\ Work(t))
  /\ \A u \in User : WF_vars(Proceed(u)) /\ SF_vars(LockForTransition(u))

-----------------------------------------------------------------------------
(* Properties                                                              *)

(* "a close waits for the postings in flight and no posting slips in       *)
(* behind it" (periods.go): while a period is closed, the manifest of its  *)
(* last close is exactly what is posted in it (PeriodView.Intact).         *)
ManifestHolds ==
  \A p \in Period : State(p) \in {"HARD_CLOSE", "SEALED"} =>
    /\ LastManifest(p) > 0
    /\ history[p][LastManifest(p)].manifest = In(p, posted)

(* A late journal posts only as an amendment (ZTAX-FIN-REQ-0090): what one *)
(* manifest has and an earlier one has not is marked, unless the period    *)
(* was reopened between the two.                                           *)
LateIsMarked ==
  \A p \in Period : \A n, k \in Closes(p) :
    (n < k /\ \A i \in n..k : history[p][i].state # "REOPENED") =>
      history[p][k].manifest \ history[p][n].manifest \subseteq amended

(* "leaves every earlier manifest in place" (period.go): each manifest     *)
(* names that of the close before it, and has all of its journals.         *)
ManifestsChain ==
  \A p \in Period : \A k \in Closes(p) :
    LET n == history[p][k].supersedes IN
    /\ n = 0 => \A i \in Closes(p) : k <= i
    /\ n > 0 => /\ n \in Closes(p) /\ n < k
                /\ \A i \in Closes(p) : i <= n \/ k <= i
                /\ history[p][n].manifest \subseteq history[p][k].manifest

(* A reopening takes the request of one person and the approval of         *)
(* another, each request at most one, and it follows a hard close          *)
(* (ZTAX-FIN-REQ-0091).                                                    *)
ReopenedByTwo ==
  \A p \in Period : \A n \in DOMAIN history[p] :
    LET e == history[p][n] IN
    e.state = "REOPENED" =>
      /\ n > 1 /\ history[p][n - 1].state = "HARD_CLOSE"
      /\ request[e.request] = [by |-> e.by, period |-> p]
      /\ e.by # e.approvedBy
      /\ \A o \in Period : \A k \in DOMAIN history[o] :
           history[o][k].request = e.request => o = p /\ k = n

(* "A sealed period is final" (CanReopen): no event and no journal comes   *)
(* after it, whatever was under way when it was sealed.                    *)
SealedIsFinal ==
  [][\A p \in Period : State(p) = "SEALED" =>
       history'[p] = history[p] /\ In(p, posted') = In(p, posted)]_vars

(* A correction reverses in one period and posts in another: both commit,  *)
(* or, if either period refuses, neither.                                  *)
PostsWhole ==
  \A t \in Posting :
    LET mine == {JournalsOf[t][i] : i \in DOMAIN JournalsOf[t]} IN
    mine \subseteq posted \/ mine \cap posted = {}

(* A close waits for the postings in flight and then goes through,         *)
(* although postings in two periods and closes of both wait in a circle.   *)
CloseGoesThrough ==
  \A u \in User : step[u] = "waiting" ~> step[u] # "waiting"
=============================================================================
