-------------------------------- MODULE Filing --------------------------------
(***************************************************************************)
(* The compliance package of one obligation (internal/app/compliance.go,   *)
(* internal/domain/compliance), run beside the obligation it files and the *)
(* authority that receives it.                                             *)
(*                                                                         *)
(* A step is applied to the package under the package's lock, which is not *)
(* the obligation's: Prepare and Submit read the obligation in statements  *)
(* of their own, and decisions and moves come between them.                *)
(***************************************************************************)
EXTENDS Obligation, Sequences, FiniteSets

CONSTANT MaxAttempts  \* bound: submission attempts

ASSUME AttemptsAssumption == MaxAttempts \in Nat

PackageStatus == {"READY", "IN_REVIEW", "APPROVED", "TRANSMITTING",
                  "UNCERTAIN_SUBMISSION", "FILED", "ACCEPTED", "REJECTED",
                  "CANCELLED"}
\* Mutant: a package may be prepared again while its attempt is in transit.
PreparedInTransit(s) ==
  CASE s = "READY"                -> {"IN_REVIEW", "CANCELLED"}
    [] s = "IN_REVIEW"            -> {"IN_REVIEW", "READY", "APPROVED", "CANCELLED"}
    [] s = "APPROVED"             -> {"IN_REVIEW", "TRANSMITTING", "CANCELLED"}
    [] s = "TRANSMITTING"         -> {"IN_REVIEW", "FILED", "ACCEPTED", "REJECTED",
                                     "UNCERTAIN_SUBMISSION"}
    [] s = "UNCERTAIN_SUBMISSION" -> {"UNCERTAIN_SUBMISSION", "FILED", "APPROVED"}
    [] s = "FILED"                -> {"FILED", "ACCEPTED", "REJECTED"}
    [] s = "REJECTED"             -> {"IN_REVIEW"}
    [] OTHER                      -> {}
PackageSuccessors(s) ==
  CASE s = "READY"                -> {"IN_REVIEW", "CANCELLED"}
    [] s = "IN_REVIEW"            -> {"IN_REVIEW", "READY", "APPROVED", "CANCELLED"}
    [] s = "APPROVED"             -> {"IN_REVIEW", "TRANSMITTING", "CANCELLED"}
    [] s = "TRANSMITTING"         -> {"FILED", "ACCEPTED", "REJECTED", "UNCERTAIN_SUBMISSION"}
    [] s = "UNCERTAIN_SUBMISSION" -> {"UNCERTAIN_SUBMISSION", "FILED", "APPROVED"}
    [] s = "FILED"                -> {"FILED", "ACCEPTED", "REJECTED"}
    [] s = "REJECTED"             -> {"IN_REVIEW"}
    [] OTHER                      -> {}
Submitted == {"TRANSMITTING", "UNCERTAIN_SUBMISSION", "FILED", "ACCEPTED", "REJECTED"}

\* Where an attempt really is.  In transit it may still arrive.
Whereabouts == {"transit", "lost", "received", "accepted", "rejected"}
Over == {"lost", "rejected"}

VARIABLES
  package,      \* the package's status; None before it is created
  preparation,  \* the current version: who prepared it, its control total
  review,       \* the version the last accepting review of this one read
  approval,     \* the approval of the current version, or None
  attempts,     \* the submissions, in order, and where each is
  tx            \* the act that holds the package's lock, between statements

pkg == <<package, preparation, review, approval>>
vars == <<obligation, pkg, attempts, tx>>

Version == [by : User, total : Figure]
Verdict == [by : User, of : Version]
Act == [op : {"Prepare", "Submit"}, by : Operator, total : Figure \cup {None}]

ASSUME PackageAssumption ==
  None \notin PackageStatus /\ None \notin Version /\ None \notin Verdict /\ None \notin Act

TypeOK ==
  /\ ObligationTypeOK
  /\ package \in PackageStatus \cup {None}
  /\ preparation \in Version \cup {None}
  /\ review \in Verdict \cup {None}
  /\ approval \in Verdict \cup {None}
  /\ attempts \in Seq([total : Figure, at : Whereabouts])
  /\ Len(attempts) <= MaxAttempts
  /\ tx \in Act \cup {None}

Init ==
  /\ ObligationInit
  /\ package = None
  /\ preparation = None
  /\ review = None
  /\ approval = None
  /\ attempts = <<>>
  /\ tx = None

Latest == Len(attempts)

(***************************************************************************)
(* The acts.  Each needs the lock; those that read nothing outside the     *)
(* package are one step.                                                   *)
(***************************************************************************)
CreatePackage ==
  /\ tx = None /\ package = None
  /\ status \notin {None, "CLOSED"}
  /\ package' = "READY"
  /\ UNCHANGED <<obligation, preparation, review, approval, attempts, tx>>

\* Prepare reads the obligation's row; it must be ready, or in remediation.
PrepareBegin(u) ==
  /\ tx = None
  /\ package # None /\ "IN_REVIEW" \in PackageSuccessors(package)
  /\ status \in {"READY", "REJECTED"}
  /\ tx' = [op |-> "Prepare", by |-> u, total |-> None]
  /\ UNCHANGED <<obligation, pkg, attempts>>

\* Submit starts from an approval; an uncertain obligation may be submitted
\* again, since only a resolution brought its package back here.
SubmitBegin(u) ==
  /\ tx = None
  /\ package = "APPROVED" /\ approval # None
  /\ Len(attempts) < MaxAttempts
  /\ status \in FilingStatuses \ {"FILED", "ACCEPTED"}
  /\ tx' = [op |-> "Submit", by |-> u, total |-> None]
  /\ UNCHANGED <<obligation, pkg, attempts>>

\* The second statement reads the live figure.  Submit compares it with what
\* was prepared; the legal gate is asked afterwards.
ReadFigure ==
  /\ tx # None /\ tx.total = None
  /\ tx.op = "Submit" => sum = preparation.total
  /\ tx' = [tx EXCEPT !.total = sum]
  /\ UNCHANGED <<obligation, pkg, attempts>>

\* The figure differs, the gate is closed, or a statement fails.
GiveUp ==
  /\ tx # None
  /\ tx' = None
  /\ UNCHANGED <<obligation, pkg, attempts>>

\* Mutant: the accepting review of an earlier version still counts.
PrepareKeepsReview ==
  /\ tx # None /\ tx.op = "Prepare" /\ tx.total # None
  /\ package' = "IN_REVIEW"
  /\ preparation' = [by |-> tx.by, total |-> tx.total]
  /\ approval' = None
  /\ tx' = None
  /\ UNCHANGED <<obligation, review, attempts>>

\* A new version: what was decided of the last one no longer counts.
Prepare ==
  /\ tx # None /\ tx.op = "Prepare" /\ tx.total # None
  /\ package' = "IN_REVIEW"
  /\ preparation' = [by |-> tx.by, total |-> tx.total]
  /\ review' = None /\ approval' = None
  /\ tx' = None
  /\ UNCHANGED <<obligation, attempts>>

Submit ==
  /\ tx # None /\ tx.op = "Submit" /\ tx.total # None
  /\ package' = "TRANSMITTING"
  /\ attempts' = Append(attempts, [total |-> approval.of.total, at |-> "transit"])
  /\ tx' = None
  /\ UNCHANGED <<obligation, preparation, review, approval>>

\* A reviewer who did not prepare the version: ESCALATE leaves it in review,
\* and like REJECT and RETURN_FOR_CHANGE it takes an earlier ACCEPT back.
Review(u, decision) ==
  /\ tx = None
  /\ package = "IN_REVIEW" /\ preparation.by # u
  /\ review' = IF decision = "ACCEPT" THEN [by |-> u, of |-> preparation] ELSE None
  /\ package' = IF decision \in {"REJECT", "RETURN_FOR_CHANGE"} THEN "READY" ELSE "IN_REVIEW"
  /\ UNCHANGED <<obligation, preparation, approval, attempts, tx>>

Approve(u) ==
  /\ tx = None
  /\ package = "IN_REVIEW" /\ review # None /\ preparation.by # u
  /\ package' = "APPROVED"
  /\ approval' = [by |-> u, of |-> preparation]
  /\ UNCHANGED <<obligation, preparation, review, attempts, tx>>

Cancel ==
  /\ tx = None
  /\ package \notin Submitted \cup {None, "CANCELLED"}
  /\ package' = "CANCELLED"
  /\ UNCHANGED <<obligation, preparation, review, approval, attempts, tx>>

\* What the operator may truthfully record of an attempt that is at w.
Answers(w) ==
  {"UNCERTAIN_SUBMISSION"}
    \cup (IF w \in {"received", "accepted", "rejected"} THEN {"FILED"} ELSE {})
    \cup (IF w = "accepted" THEN {"ACCEPTED"} ELSE {})
    \cup (IF w = "rejected" THEN {"REJECTED"} ELSE {})

\* Mutant: an unknown outcome is recorded as a filing.
TargetFiled(to) == IF to = "UNCERTAIN_SUBMISSION" THEN "FILED" ELSE to

\* The obligation status that the package's new one establishes.
Target(to) == IF to = "UNCERTAIN_SUBMISSION" THEN "UNCERTAIN" ELSE to

\* The answer and the obligation's move are one transaction: an obligation
\* that cannot take the outcome refuses the answer.
Acknowledge(to) ==
  /\ tx = None
  /\ package \in {"TRANSMITTING", "FILED"}
  /\ to \in PackageSuccessors(package) \cap Answers(attempts[Latest].at)
  /\ AdvanceFiling(Target(to))
  /\ package' = to
  /\ UNCHANGED <<preparation, review, approval, attempts, tx>>

\* CONFIRMED_FILED and DUPLICATE_DETECTED: the authority has the return.
ResolveFiled ==
  /\ tx = None
  /\ package = "UNCERTAIN_SUBMISSION"
  /\ attempts[Latest].at \in {"received", "accepted", "rejected"}
  /\ AdvanceFiling("FILED")
  /\ package' = "FILED"
  /\ UNCHANGED <<preparation, review, approval, attempts, tx>>

\* CONFIRMED_NOT_FILED: the approved version may be submitted again.  The
\* obligation stays as it is.
ResolveNotFiled ==
  /\ tx = None
  /\ package = "UNCERTAIN_SUBMISSION"
  /\ attempts[Latest].at = "lost"
  /\ package' = "APPROVED"
  /\ UNCHANGED <<obligation, preparation, review, approval, attempts, tx>>

(***************************************************************************)
(* The authority, and the payment boundary that moves an accepted return.  *)
(***************************************************************************)
Authority(to) ==
  /\ attempts # <<>>
  /\ \/ attempts[Latest].at = "transit" /\ to \in {"lost", "received"}
     \/ attempts[Latest].at = "received" /\ to \in {"accepted", "rejected"}
  /\ attempts' = [attempts EXCEPT ![Latest].at = to]
  /\ UNCHANGED <<obligation, pkg, tx>>

Others ==
  /\ ObligationNext \/ \E to \in {"PAYMENT_DUE", "PAID"} : AdvancePayment(to)
  /\ UNCHANGED <<pkg, attempts, tx>>

Next ==
  \/ CreatePackage \/ Cancel
  \/ \E u \in Operator : PrepareBegin(u) \/ SubmitBegin(u)
  \/ ReadFigure \/ GiveUp \/ Prepare \/ Submit
  \/ \E u \in User, d \in {"ACCEPT", "REJECT", "RETURN_FOR_CHANGE", "ESCALATE"} :
       Review(u, d)
  \/ \E u \in User : Approve(u)
  \/ \E to \in PackageStatus : Acknowledge(to)
  \/ ResolveFiled \/ ResolveNotFiled
  \/ \E to \in Whereabouts : Authority(to)
  \/ Others

Spec == Init /\ [][Next]_vars

(***************************************************************************)
(* Properties                                                              *)
(***************************************************************************)

\* Whatever answers are lost, late or unknown, the authority never holds two
\* returns of one obligation: a second attempt leaves only when every earlier
\* one was rejected or established not to have been filed.  (The acts of
\* Acknowledge, Resolve and Submit together, and the package's lock.)
NoSecondFiling ==
  Cardinality({i \in DOMAIN attempts : attempts[i].at \notin Over}) <= 1

\* What left is what was prepared last, after somebody else accepted exactly
\* that version in review and somebody other than its preparer approved it
\* (a newer preparation undoes both; Submit sends the approved version).
SubmittedAsApproved ==
  package \in Submitted =>
    /\ review # None /\ review.of = preparation /\ review.by # preparation.by
    /\ approval # None /\ approval.of = preparation /\ approval.by # preparation.by
    /\ attempts[Latest].total = preparation.total

\* A row somebody acted on holds the live assessment: a decision either moves
\* the row, to be prepared or amended again, or is refused (settleObligation).
ActedOnFigureIsLive ==
  status \in {"READY", "FILED", "UNCERTAIN", "ACCEPTED", "PAYMENT_DUE", "PAID"} =>
    figure = sum

\* The obligation moves only on evidence the package records, and the evidence
\* is the authority's: FILED on a receipt, ACCEPTED and the payment states on
\* an acceptance, UNCERTAIN on an attempt whose outcome was unknown (follow).
EvidenceBehindStatus ==
  /\ status = "FILED" => package = "FILED" /\ attempts[Latest].at # "transit"
  /\ status \in PaymentStatuses =>
       package = "ACCEPTED" /\ attempts[Latest].at = "accepted"
  /\ status = "UNCERTAIN" =>
       package \notin {None, "READY", "IN_REVIEW", "ACCEPTED", "REJECTED"}
  /\ package = "UNCERTAIN_SUBMISSION" => status \in {"UNCERTAIN", "CLOSED"}

\* Nothing leads from UNCERTAIN back to READY or FILED: not a receipt, a
\* second submission, a decision or a user (advanceFiling, transitions).
UncertainLeavesForOutcome ==
  [][status = "UNCERTAIN" => status' \in {"UNCERTAIN", "ACCEPTED", "REJECTED", "CLOSED"}]_vars

===============================================================================
