------------------------------ MODULE Obligation ------------------------------
(***************************************************************************)
(* One filing obligation (internal/domain/obligation, internal/app/        *)
(* obligations.go): the figure assessed into it by committed decisions,    *)
(* its current row, and the moves that commits, users and the filing and   *)
(* payment boundaries make.  Every move takes the obligation's lock for    *)
(* its whole transaction, so each is one step.                             *)
(***************************************************************************)
EXTENDS Naturals

CONSTANTS
  User,      \* the people of the tenant
  Operator,  \* those who may move the obligation
  Figure,    \* what decisions can assess
  None

ASSUME OperatorAssumption == Operator \subseteq User

Status == {"OPEN", "DATA_REQUIRED", "READY", "FILED", "ACCEPTED", "REJECTED",
           "UNCERTAIN", "PAYMENT_DUE", "PAID", "AMENDMENT_REQUIRED",
           "SUSPENDED", "CLOSED"}

ASSUME NoneAssumption == None \notin User /\ None \notin Figure /\ None \notin Status

\* The state machine, as the table has it.
Successors(s) ==
  CASE s = "OPEN"               -> {"DATA_REQUIRED", "READY", "CLOSED", "SUSPENDED"}
    [] s = "DATA_REQUIRED"      -> {"OPEN", "READY", "SUSPENDED"}
    [] s = "READY"              -> {"FILED", "OPEN", "DATA_REQUIRED", "CLOSED", "SUSPENDED"}
    [] s = "FILED"              -> {"ACCEPTED", "REJECTED", "UNCERTAIN"}
    [] s = "REJECTED"           -> {"READY", "CLOSED"}
    [] s = "ACCEPTED"           -> {"PAYMENT_DUE", "CLOSED", "AMENDMENT_REQUIRED"}
    [] s = "PAYMENT_DUE"        -> {"PAID", "AMENDMENT_REQUIRED"}
    [] s = "PAID"               -> {"CLOSED", "AMENDMENT_REQUIRED"}
    [] s = "UNCERTAIN"          -> {"ACCEPTED", "REJECTED", "CLOSED"}
    [] s = "AMENDMENT_REQUIRED" -> {"READY"}
    [] s = "SUSPENDED"          -> {"OPEN", "DATA_REQUIRED", "READY"}
    [] s = "CLOSED"             -> {}

ManualTargets == {"OPEN", "DATA_REQUIRED", "READY", "SUSPENDED", "CLOSED"}
FilingStatuses == {"READY", "FILED", "ACCEPTED", "REJECTED", "UNCERTAIN"}
PaymentStatuses == {"ACCEPTED", "PAYMENT_DUE", "PAID"}

\* Four rounds reach whatever runs of permitted moves reach: no boundary has
\* more than five statuses.
OneMore(S, allowed) ==
  S \cup {t \in allowed : \E s \in S : t \in Successors(s)}
Reached(from, allowed) ==
  OneMore(OneMore(OneMore(OneMore({from}, allowed), allowed), allowed), allowed)

VARIABLES
  sum,       \* the live assessment: None until a decision assesses something
  status,    \* of the current row; None until the first assessment
  figure,    \* the assessment the current row was written with
  seen       \* the live figure each operator saw on the row that is still current

obligation == <<sum, status, figure, seen>>

ObligationTypeOK ==
  /\ sum \in Figure \cup {None}
  /\ status \in Status \cup {None}
  /\ figure \in Figure \cup {None}
  /\ seen \in [Operator -> Figure \cup {None}]

ObligationInit ==
  /\ sum = None
  /\ status = None
  /\ figure = None
  /\ seen = [u \in Operator |-> None]

\* A new row supersedes the one users have read.
AppendRow(s, f) ==
  /\ status' = s
  /\ figure' = f
  /\ seen' = [u \in Operator |-> None]

\* Mutant: a decision changes the figure of a row marked READY.
AssessKeepsReady(f) ==
  /\ status \notin {"FILED", "UNCERTAIN", "CLOSED"}
  /\ sum' = f
  /\ CASE status = None -> AppendRow("OPEN", f)
       [] status \in {"ACCEPTED", "PAYMENT_DUE", "PAID"} ->
            AppendRow("AMENDMENT_REQUIRED", f)
       [] OTHER -> UNCHANGED <<status, figure, seen>>

(***************************************************************************)
(* A commit or a correction assesses into the obligation.  Rows somebody   *)
(* acted on are moved; a return with the authority refuses the decision.   *)
(***************************************************************************)
Assess(f) ==
  /\ status \notin {"FILED", "UNCERTAIN", "CLOSED"}
  /\ sum' = f
  /\ CASE status \in {None, "READY"} -> AppendRow("OPEN", f)
       [] status \in {"ACCEPTED", "PAYMENT_DUE", "PAID"} ->
            AppendRow("AMENDMENT_REQUIRED", f)
       [] OTHER -> UNCHANGED <<status, figure, seen>>

\* A user reads the current row with its live figure.
View(u) ==
  /\ status # None
  /\ seen' = [seen EXCEPT ![u] = sum]
  /\ UNCHANGED <<sum, status, figure>>

(***************************************************************************)
(* A user moves the row they read.  The row must still be current; the new *)
(* one records the live figure, and is what the user has seen.             *)
(***************************************************************************)
Move(u, to) ==
  /\ seen[u] # None
  /\ to \in ManualTargets \cap Successors(status)
  /\ status' = to
  /\ figure' = sum
  /\ seen' = [v \in Operator |-> IF v = u THEN sum ELSE None]
  /\ UNCHANGED sum

\* The outcome `to` can be recorded: a receipt leaves an uncertain obligation.
Takes(to, allowed) ==
  status \in allowed /\ to \in Reached(status, allowed)

\* Mutant: a receipt for an uncertain obligation walks it to FILED.
StaysNever(to) == status = to

Stays(to) == status = to \/ (status = "UNCERTAIN" /\ to = "FILED")

\* What a boundary's outcome does to the row, inside the caller's transaction.
Advance(to, allowed) ==
  /\ Takes(to, allowed)
  /\ IF Stays(to) THEN UNCHANGED <<status, figure, seen>> ELSE AppendRow(to, sum)
  /\ UNCHANGED sum

AdvanceFiling(to) == Advance(to, FilingStatuses)
AdvancePayment(to) == Advance(to, PaymentStatuses)

ObligationNext ==
  \/ \E f \in Figure : Assess(f)
  \/ \E u \in Operator : View(u)
  \/ \E u \in Operator, to \in ManualTargets : Move(u, to)
===============================================================================
