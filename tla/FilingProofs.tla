----------------------------- MODULE FilingProofs -----------------------------
(***************************************************************************)
(* What holds of a filing for any people, figures and number of attempts:  *)
(* the types, that the authority never holds two returns, that what left   *)
(* is what two people agreed to, that rows acted on hold the live figure,  *)
(* and that the obligation moves on the package's evidence alone.          *)
(***************************************************************************)
EXTENDS Filing, FiniteSetTheorems, TLAPS

Attempt == [total : Figure, at : Whereabouts]

\* Whoever holds the package's lock finds the package as the act began.
ActInv ==
  tx # None =>
    /\ tx.op = "Submit" => package = "APPROVED" /\ Len(attempts) < MaxAttempts
    /\ tx.op = "Prepare" => package \in {"READY", "IN_REVIEW", "APPROVED", "REJECTED"}

\* What is decided of a package is decided of its current version.
VersionInv ==
  /\ package \in {None, "READY", "IN_REVIEW"} => approval = None
  /\ package \in Submitted \cup {"APPROVED"} => approval # None
  /\ package \notin {None, "READY", "CANCELLED"} => preparation # None
  /\ review # None =>
       preparation # None /\ review.of = preparation /\ review.by # preparation.by
  /\ approval # None =>
       review # None /\ approval.of = preparation /\ approval.by # preparation.by

\* Only a package that is with the authority has an attempt that is not over.
AttemptInv ==
  /\ \A i \in DOMAIN attempts : i # Len(attempts) => attempts[i].at \in Over
  /\ package \notin Submitted \ {"REJECTED"} /\ attempts # <<>> =>
       attempts[Len(attempts)].at \in Over
  /\ package \in Submitted =>
       attempts # <<>> /\ attempts[Len(attempts)].total = preparation.total

PackageInv == TypeOK /\ ActInv /\ VersionInv /\ AttemptInv

(* What a move, a decision or a boundary may do to the obligation.         *)
LEMMA Moves ==
  ASSUME TypeOK, Others
  PROVE  ObligationTypeOK' /\ UNCHANGED <<pkg, attempts, tx>>
<1>1. CASE \E f \in Figure : Assess(f)
  BY <1>1 DEF Assess, AppendRow, TypeOK, ObligationTypeOK, Status, Others
<1>2. CASE \E u \in Operator : View(u)
  BY <1>2 DEF View, TypeOK, ObligationTypeOK, Others
<1>3. CASE \E u \in Operator, to \in ManualTargets : Move(u, to)
  BY <1>3 DEF Move, TypeOK, ObligationTypeOK, ManualTargets, Status, Others
<1>4. CASE \E to \in {"PAYMENT_DUE", "PAID"} : AdvancePayment(to)
  BY <1>4 DEF AdvancePayment, Advance, AppendRow, TypeOK, ObligationTypeOK, Status, Others
<1> QED  BY <1>1, <1>2, <1>3, <1>4 DEF Others, ObligationNext

LEMMA Advances ==
  ASSUME ObligationTypeOK, NEW to \in Status, AdvanceFiling(to)
  PROVE  ObligationTypeOK'
BY DEF AdvanceFiling, Advance, AppendRow, ObligationTypeOK

(* The authority changes where the last attempt is, and nothing else.      *)
LEMMA AuthorityMoves ==
  ASSUME attempts \in Seq(Attempt), NEW to \in Whereabouts, Authority(to)
  PROVE  /\ attempts' \in Seq(Attempt) /\ Len(attempts') = Len(attempts)
         /\ DOMAIN attempts' = DOMAIN attempts
         /\ Len(attempts) \in DOMAIN attempts
         /\ \A i \in DOMAIN attempts : i # Len(attempts) => attempts'[i] = attempts[i]
         /\ attempts'[Len(attempts)].total = attempts[Len(attempts)].total
         /\ attempts'[Len(attempts)].at = to
<1>1. Len(attempts) \in DOMAIN attempts
  BY DEF Authority
<1>2. attempts[Len(attempts)] \in Attempt
  BY <1>1
<1>3. attempts' = [attempts EXCEPT ![Len(attempts)] = [attempts[Len(attempts)] EXCEPT !.at = to]]
  BY DEF Authority, Latest
<1>4. [attempts[Len(attempts)] EXCEPT !.at = to] \in Attempt
  BY <1>2 DEF Attempt
<1>5. attempts' \in Seq(Attempt)
  BY <1>1, <1>3, <1>4
<1> QED  BY <1>1, <1>2, <1>3, <1>5 DEF Attempt

LEMMA TypeInit == Init => PackageInv
<1> SUFFICES ASSUME Init PROVE PackageInv
  OBVIOUS
<1>1. TypeOK
  BY AttemptsAssumption DEF Init, ObligationInit, TypeOK, ObligationTypeOK
<1> QED
  BY <1>1, PackageAssumption
     DEF Init, PackageInv, ActInv, VersionInv, AttemptInv, Submitted, PackageStatus

LEMMA TypeStep == PackageInv /\ [Next]_vars => TypeOK'
<1> SUFFICES ASSUME PackageInv, [Next]_vars PROVE TypeOK'
  OBVIOUS
<1> USE DEF PackageInv
<1>1. CASE CreatePackage \/ Cancel
  BY <1>1 DEF CreatePackage, Cancel, TypeOK, ObligationTypeOK, obligation, PackageStatus
<1>2. ASSUME NEW u \in Operator, PrepareBegin(u) \/ SubmitBegin(u) PROVE TypeOK'
  BY <1>2 DEF PrepareBegin, SubmitBegin, TypeOK, ObligationTypeOK, obligation, pkg, Act
<1>3. CASE ReadFigure \/ GiveUp
  BY <1>3 DEF ReadFigure, GiveUp, TypeOK, ObligationTypeOK, obligation, pkg, Act
<1>4. CASE Prepare
  BY <1>4, OperatorAssumption
     DEF Prepare, TypeOK, ObligationTypeOK, obligation, Act, Version, PackageStatus
<1>5. CASE Submit
  <2>1. approval \in Verdict
    <3>1. package = "APPROVED"
      BY <1>5 DEF Submit, ActInv
    <3> QED  BY <3>1 DEF TypeOK, VersionInv
  <2>2. approval.of.total \in Figure
    BY <2>1 DEF Verdict, Version
  <2>3. attempts' \in Seq(Attempt) /\ Len(attempts') = Len(attempts) + 1
    <3>1. [total |-> approval.of.total, at |-> "transit"] \in Attempt
      BY <2>2 DEF Attempt, Whereabouts
    <3>2. attempts \in Seq(Attempt)
      BY DEF TypeOK, Attempt
    <3> QED  BY <1>5, <3>1, <3>2 DEF Submit
  <2>4. Len(attempts') <= MaxAttempts
    BY <1>5, <2>3, AttemptsAssumption DEF Submit, ActInv, TypeOK
  <2>5. package' \in PackageStatus /\ tx' = None
        /\ UNCHANGED <<obligation, preparation, review, approval>>
    BY <1>5 DEF Submit, PackageStatus
  <2>6. ObligationTypeOK'
    BY <2>5 DEF TypeOK, ObligationTypeOK, obligation
  <2>7. attempts' \in Seq([total : Figure, at : Whereabouts])
    BY <2>3 DEF Attempt
  <2> QED  BY <2>4, <2>5, <2>6, <2>7 DEF TypeOK
<1>6. ASSUME NEW u \in User, NEW d, Review(u, d) PROVE TypeOK'
  <2>1. preparation \in Version
    BY <1>6, PackageAssumption DEF Review, TypeOK, VersionInv, PackageStatus
  <2>2. [by |-> u, of |-> preparation] \in Verdict
    BY <2>1 DEF Verdict
  <2>3. review' \in Verdict \cup {None} /\ package' \in PackageStatus
    BY <1>6, <2>2 DEF Review, PackageStatus
  <2> QED  BY <1>6, <2>3 DEF Review, TypeOK, ObligationTypeOK, obligation
<1>7. ASSUME NEW u \in User, Approve(u) PROVE TypeOK'
  <2>1. preparation \in Version
    BY <1>7, PackageAssumption DEF Approve, TypeOK, VersionInv, PackageStatus
  <2>2. [by |-> u, of |-> preparation] \in Verdict
    BY <2>1 DEF Verdict
  <2> QED  BY <1>7, <2>2 DEF Approve, TypeOK, ObligationTypeOK, obligation, PackageStatus
<1>8. ASSUME NEW to \in PackageStatus, Acknowledge(to) PROVE TypeOK'
  <2>1. Target(to) \in Status
    BY <1>8 DEF Acknowledge, Target, PackageSuccessors, Answers, Status
  <2> QED  BY <1>8, <2>1, Advances DEF Acknowledge, TypeOK
<1>9. CASE ResolveFiled \/ ResolveNotFiled
  <2>1. "FILED" \in Status /\ {"FILED", "APPROVED"} \subseteq PackageStatus
    BY DEF Status, PackageStatus
  <2>2. CASE ResolveFiled
    BY <2>1, <2>2, Advances DEF ResolveFiled, TypeOK
  <2>3. CASE ResolveNotFiled
    BY <2>1, <2>3 DEF ResolveNotFiled, TypeOK, ObligationTypeOK, obligation
  <2> QED  BY <1>9, <2>2, <2>3
<1>10. ASSUME NEW to \in Whereabouts, Authority(to) PROVE TypeOK'
  <2>1. attempts' \in Seq(Attempt) /\ Len(attempts') = Len(attempts)
    BY <1>10, AuthorityMoves DEF TypeOK, Attempt
  <2> QED
    BY <1>10, <2>1 DEF Authority, TypeOK, ObligationTypeOK, obligation, pkg, Attempt
<1>11. CASE Others
  BY <1>11, Moves DEF TypeOK, pkg
<1>12. CASE UNCHANGED vars
  BY <1>12 DEF vars, pkg, obligation, TypeOK, ObligationTypeOK
<1> QED
  BY <1>1, <1>2, <1>3, <1>4, <1>5, <1>6, <1>7, <1>8, <1>9, <1>10, <1>11, <1>12 DEF Next

LEMMA ActStep == PackageInv /\ [Next]_vars => ActInv'
<1> SUFFICES ASSUME PackageInv, [Next]_vars PROVE ActInv'
  OBVIOUS
<1> USE DEF PackageInv
<1>1. ASSUME NEW u \in Operator, PrepareBegin(u) \/ SubmitBegin(u) PROVE ActInv'
  <2>1. CASE PrepareBegin(u)
    <3>1. package \in {"READY", "IN_REVIEW", "APPROVED", "REJECTED"}
      <4>1. package \in PackageStatus /\ "IN_REVIEW" \in PackageSuccessors(package)
        BY <2>1 DEF PrepareBegin, TypeOK
      <4> QED  BY <4>1 DEF PackageSuccessors, PackageStatus
    <3>2. tx'.op = "Prepare" /\ package' = package
      BY <2>1 DEF PrepareBegin, pkg
    <3> QED  BY <3>1, <3>2 DEF ActInv
  <2>2. CASE SubmitBegin(u)
    <3>1. tx'.op = "Submit" /\ package' = package /\ attempts' = attempts
      BY <2>2 DEF SubmitBegin, pkg
    <3>2. package = "APPROVED" /\ Len(attempts) < MaxAttempts
      BY <2>2 DEF SubmitBegin
    <3> QED  BY <3>1, <3>2 DEF ActInv
  <2> QED  BY <1>1, <2>1, <2>2
<1>2. CASE ReadFigure
  BY <1>2 DEF ReadFigure, ActInv, TypeOK, Act, pkg
<1>3. CASE tx' = None
  BY <1>3 DEF ActInv
<1>4. ASSUME NEW to \in Whereabouts, Authority(to) PROVE ActInv'
  <2>1. Len(attempts') = Len(attempts)
    BY <1>4, AuthorityMoves DEF TypeOK, Attempt
  <2> QED  BY <1>4, <2>1 DEF Authority, ActInv, pkg
<1>5. CASE Others
  BY <1>5, Moves DEF ActInv, pkg
<1>6. CASE UNCHANGED vars
  BY <1>6 DEF vars, pkg, ActInv
<1> QED
  BY <1>1, <1>2, <1>3, <1>4, <1>5, <1>6
     DEF Next, CreatePackage, Cancel, GiveUp, Prepare, Submit, Review, Approve, Acknowledge,
         ResolveFiled, ResolveNotFiled

LEMMA VersionStep == PackageInv /\ [Next]_vars => VersionInv'
<1> SUFFICES ASSUME PackageInv, [Next]_vars PROVE VersionInv'
  OBVIOUS
<1> USE DEF PackageInv
<1>1. CASE CreatePackage \/ Cancel
  BY <1>1, PackageAssumption DEF CreatePackage, Cancel, VersionInv, Submitted, PackageStatus
<1>2. CASE Prepare
  <2>1. [by |-> tx.by, total |-> tx.total] \in Version
    BY <1>2, OperatorAssumption DEF Prepare, TypeOK, Act, Version
  <2> QED
    BY <1>2, <2>1, PackageAssumption DEF Prepare, VersionInv, Submitted, PackageStatus
<1>3. CASE Submit
  BY <1>3, PackageAssumption DEF Submit, ActInv, VersionInv, Submitted, PackageStatus
<1>4. ASSUME NEW u \in User, NEW d, Review(u, d) PROVE VersionInv'
  BY <1>4, PackageAssumption DEF Review, VersionInv, Submitted, PackageStatus
<1>5. ASSUME NEW u \in User, Approve(u) PROVE VersionInv'
  <2>1. preparation # None /\ preparation \in Version
    BY <1>5, PackageAssumption DEF Approve, VersionInv, PackageStatus, TypeOK
  <2>2. [by |-> u, of |-> preparation] \in Verdict
    BY <2>1 DEF Verdict
  <2> QED
    BY <1>5, <2>1, <2>2, PackageAssumption DEF Approve, VersionInv, Submitted, PackageStatus
<1>6. ASSUME NEW to \in PackageStatus, Acknowledge(to) PROVE VersionInv'
  BY <1>6, PackageAssumption
     DEF Acknowledge, Answers, VersionInv, Submitted, PackageStatus
<1>7. CASE ResolveFiled \/ ResolveNotFiled
  BY <1>7, PackageAssumption
     DEF ResolveFiled, ResolveNotFiled, VersionInv, Submitted, PackageStatus
<1>8. CASE UNCHANGED pkg
  BY <1>8 DEF pkg, VersionInv
<1>9. CASE Others
  BY <1>8, <1>9 DEF Others
<1> QED
  BY <1>1, <1>2, <1>3, <1>4, <1>5, <1>6, <1>7, <1>8, <1>9
     DEF Next, PrepareBegin, SubmitBegin, ReadFigure, GiveUp, Authority, vars

(* Whoever leaves APPROVED for the authority leaves every earlier attempt  *)
(* over, and nothing else adds one.                                        *)
LEMMA AttemptStep == PackageInv /\ [Next]_vars => AttemptInv'
<1> SUFFICES ASSUME PackageInv, [Next]_vars PROVE AttemptInv'
  OBVIOUS
<1> USE DEF PackageInv
<1>1. CASE CreatePackage \/ Cancel
  BY <1>1, PackageAssumption
     DEF CreatePackage, Cancel, AttemptInv, Submitted, PackageStatus
<1>2. CASE Prepare
  <2>1. package \notin Submitted \ {"REJECTED"}
    BY <1>2 DEF Prepare, ActInv, Submitted
  <2>2. package' = "IN_REVIEW" /\ attempts' = attempts
    BY <1>2 DEF Prepare
  <2> QED  BY <2>1, <2>2 DEF AttemptInv, Submitted
<1>3. CASE Submit
  <2>1. package = "APPROVED" /\ approval.of = preparation
    BY <1>3 DEF Submit, ActInv, VersionInv, Submitted
  <2>2. \A i \in DOMAIN attempts : attempts[i].at \in Over
    BY <2>1 DEF AttemptInv, TypeOK, Submitted
  <2> DEFINE sent == [total |-> approval.of.total, at |-> "transit"]
  <2>3. attempts' = Append(attempts, sent) /\ preparation' = preparation
    BY <1>3 DEF Submit
  <2>4. /\ Len(attempts') = Len(attempts) + 1
        /\ DOMAIN attempts' = 1 .. Len(attempts) + 1
        /\ attempts'[Len(attempts')] = sent
        /\ \A i \in DOMAIN attempts : attempts'[i] = attempts[i]
    BY <2>3 DEF TypeOK
  <2>5. package' = "TRANSMITTING"
    BY <1>3 DEF Submit
  <2>6. attempts'[Len(attempts')].total = preparation'.total
    BY <2>1, <2>3, <2>4
  <2>7. \A i \in DOMAIN attempts' : i # Len(attempts') => attempts'[i].at \in Over
    BY <2>2, <2>4 DEF TypeOK
  <2>8. attempts' # <<>>
    BY <2>4 DEF TypeOK
  <2> QED  BY <2>5, <2>6, <2>7, <2>8 DEF AttemptInv, Submitted
<1>4. ASSUME NEW u \in User, NEW d, Review(u, d) PROVE AttemptInv'
  BY <1>4 DEF Review, AttemptInv, Submitted
<1>5. ASSUME NEW u \in User, Approve(u) PROVE AttemptInv'
  BY <1>5 DEF Approve, AttemptInv, Submitted
<1>6. ASSUME NEW to \in PackageStatus, Acknowledge(to) PROVE AttemptInv'
  <2>1. package \in Submitted /\ to \in Submitted
    BY <1>6 DEF Acknowledge, Answers, Submitted, PackageSuccessors
  <2>2. package' = to /\ UNCHANGED <<attempts, preparation>>
    BY <1>6 DEF Acknowledge
  <2>3. to = "REJECTED" => attempts[Len(attempts)].at \in Over
    BY <1>6 DEF Acknowledge, Answers, Latest, Over
  <2> QED  BY <2>1, <2>2, <2>3 DEF AttemptInv
<1>7. CASE ResolveFiled
  BY <1>7 DEF ResolveFiled, AttemptInv, Submitted
<1>8. CASE ResolveNotFiled
  BY <1>8 DEF ResolveNotFiled, AttemptInv, Submitted, Latest, Over
<1>9. ASSUME NEW to \in Whereabouts, Authority(to) PROVE AttemptInv'
  <2>1. /\ Len(attempts') = Len(attempts)
        /\ DOMAIN attempts' = DOMAIN attempts
        /\ \A i \in DOMAIN attempts : i # Len(attempts) => attempts'[i] = attempts[i]
        /\ attempts'[Len(attempts)].total = attempts[Len(attempts)].total
    BY <1>9, AuthorityMoves DEF TypeOK, Attempt
  <2>2. attempts[Len(attempts)].at \notin Over
    BY <1>9 DEF Authority, Latest, Over
  <2>3. attempts # <<>> /\ UNCHANGED <<package, preparation>>
    BY <1>9 DEF Authority, pkg
  <2>4. package \in Submitted \ {"REJECTED"}
    BY <2>2, <2>3 DEF AttemptInv
  <2>5. attempts' # <<>>
    BY <2>1, <2>3 DEF TypeOK
  <2> QED  BY <2>1, <2>3, <2>4, <2>5 DEF AttemptInv
<1>10. CASE UNCHANGED <<pkg, attempts>>
  BY <1>10 DEF pkg, AttemptInv
<1>11. CASE Others
  BY <1>10, <1>11 DEF Others
<1> QED
  BY <1>1, <1>2, <1>3, <1>4, <1>5, <1>6, <1>7, <1>8, <1>9, <1>10, <1>11
     DEF Next, PrepareBegin, SubmitBegin, ReadFigure, GiveUp, vars

LEMMA PackageAlways == Spec => []PackageInv
<1>1. PackageInv /\ [Next]_vars => PackageInv'
  BY TypeStep, ActStep, VersionStep, AttemptStep DEF PackageInv
<1> QED  BY <1>1, TypeInit, PTL DEF Spec

(* Every variable of a filing keeps its type (Filing.TypeOK): the sequence *)
(* of attempts never outgrows its bound, a verdict names a version.        *)
THEOREM TypeCorrect == Spec => []TypeOK
BY PackageAlways, PTL DEF PackageInv

(* The authority never holds two returns of one obligation, however many   *)
(* attempts are made (Submit, Acknowledge and Resolve of compliance.go).   *)
THEOREM OneReturn == Spec => []NoSecondFiling
<1>1. PackageInv => NoSecondFiling
  <2> SUFFICES ASSUME PackageInv PROVE NoSecondFiling
    OBVIOUS
  <2> DEFINE Held == {i \in DOMAIN attempts : attempts[i].at \notin Over}
  <2>1. Held \subseteq {Len(attempts)}
    BY DEF PackageInv, AttemptInv
  <2>2. IsFiniteSet({Len(attempts)}) /\ Cardinality({Len(attempts)}) = 1
    BY FS_Singleton
  <2>3. Cardinality(Held) <= Cardinality({Len(attempts)})
    BY <2>1, <2>2, FS_Subset
  <2> QED  BY <2>2, <2>3 DEF NoSecondFiling
<1> QED  BY <1>1, PackageAlways, PTL

(* What left is the version that was prepared last, accepted by a reviewer *)
(* and approved by somebody other than its preparer (Prepare, Review,      *)
(* Approve and Submit of domain/compliance).                               *)
THEOREM AgreedByTwo == Spec => []SubmittedAsApproved
<1>1. PackageInv => SubmittedAsApproved
  BY DEF PackageInv, VersionInv, AttemptInv, SubmittedAsApproved, Latest
<1> QED  BY <1>1, PackageAlways, PTL

(* What every move leaves of the row: a boundary's row has its outcome and *)
(* the live figure, or is left as it is.                                   *)
LEMMA AdvanceLeaves ==
  ASSUME NEW to, NEW allowed, Advance(to, allowed)
  PROVE  /\ sum' = sum /\ status \in allowed
         /\ \/ status' = status /\ figure' = figure /\ Stays(to)
            \/ status' = to /\ figure' = sum
BY DEF Advance, Takes, AppendRow

(* Decisions and users write neither FILED, UNCERTAIN nor a payment status. *)
Left ==
  /\ status = "UNCERTAIN" => status' \in {"UNCERTAIN", "CLOSED"}
  /\ status = "CLOSED" => status' = "CLOSED"
  /\ \/ status' = status /\ figure' = figure /\ sum' = sum
     \/ /\ status' = status
        /\ status \notin {"READY", "FILED", "UNCERTAIN", "ACCEPTED", "PAYMENT_DUE", "PAID"}
     \/ status' \in ManualTargets \cup {"AMENDMENT_REQUIRED"} /\ figure' = sum'

LEMMA ObligationLeaves ==
  ASSUME TypeOK, ObligationNext
  PROVE  Left
<1> None # "READY" /\ None # "UNCERTAIN" /\ None # "CLOSED"
  BY NoneAssumption DEF Status
<1>1. ASSUME NEW f \in Figure, Assess(f) PROVE Left
  <2>1. CASE status \in {None, "READY"}
    BY <1>1, <2>1 DEF Assess, AppendRow, Left, ManualTargets
  <2>2. CASE status \in {"ACCEPTED", "PAYMENT_DUE", "PAID"}
    BY <1>1, <2>2, NoneAssumption DEF Assess, AppendRow, Left, ManualTargets, Status
  <2>3. CASE status \notin {None, "READY", "ACCEPTED", "PAYMENT_DUE", "PAID"}
    BY <1>1, <2>3 DEF Assess, Left
  <2> QED  BY <2>1, <2>2, <2>3
<1>2. ASSUME NEW u \in Operator, View(u) PROVE Left
  BY <1>2 DEF View, Left
<1>3. ASSUME NEW u \in Operator, NEW to \in ManualTargets, Move(u, to) PROVE Left
  <2>1. to \in Successors(status) /\ status' = to /\ figure' = sum'
    BY <1>3 DEF Move
  <2>2. status = "UNCERTAIN" => to = "CLOSED"
    BY <2>1 DEF Successors, ManualTargets
  <2>3. status # "CLOSED"
    BY <2>1 DEF Successors
  <2> QED  BY <2>1, <2>2, <2>3 DEF Left
<1> QED  BY <1>1, <1>2, <1>3 DEF ObligationNext

(* A row somebody acted on holds the live assessment (settleObligation and *)
(* advance of app/obligations.go write each row with the figure they find; *)
(* a decision moves such a row or is refused).                             *)
THEOREM LiveFigures == Spec => []ActedOnFigureIsLive
<1>1. Init => ActedOnFigureIsLive
  BY NoneAssumption DEF Init, ObligationInit, ActedOnFigureIsLive, Status
<1>2. PackageInv /\ ActedOnFigureIsLive /\ [Next]_vars => ActedOnFigureIsLive'
  <2> SUFFICES ASSUME PackageInv, ActedOnFigureIsLive, [Next]_vars
               PROVE  ActedOnFigureIsLive'
    OBVIOUS
  <2>1. ASSUME NEW to, NEW allowed, Advance(to, allowed) PROVE ActedOnFigureIsLive'
    BY <2>1, AdvanceLeaves DEF ActedOnFigureIsLive
  <2>2. CASE ObligationNext
    BY <2>2, ObligationLeaves DEF PackageInv, Left, ActedOnFigureIsLive, ManualTargets
  <2>3. CASE UNCHANGED obligation
    BY <2>3 DEF obligation, ActedOnFigureIsLive
  <2> QED
    BY <2>1, <2>2, <2>3
       DEF Next, CreatePackage, Cancel, PrepareBegin, SubmitBegin, ReadFigure, GiveUp,
           Prepare, Submit, Review, Approve, Acknowledge, ResolveFiled, ResolveNotFiled,
           Authority, Others, AdvanceFiling, AdvancePayment, vars
<1> QED  BY <1>1, <1>2, PackageAlways, PTL DEF Spec

(* Nothing leads from UNCERTAIN back to READY or FILED (Transition and     *)
(* advanceFiling of app/obligations.go).                                   *)
THEOREM UncertainKept == Spec => UncertainLeavesForOutcome
<1>1. PackageInv /\ [Next]_vars /\ status = "UNCERTAIN" =>
        status' \in {"UNCERTAIN", "ACCEPTED", "REJECTED", "CLOSED"}
  <2> SUFFICES ASSUME PackageInv, [Next]_vars, status = "UNCERTAIN"
               PROVE  status' \in {"UNCERTAIN", "ACCEPTED", "REJECTED", "CLOSED"}
    OBVIOUS
  <2>1. ASSUME NEW to \in {"UNCERTAIN", "FILED", "ACCEPTED", "REJECTED"}, AdvanceFiling(to)
        PROVE  status' \in {"UNCERTAIN", "ACCEPTED", "REJECTED", "CLOSED"}
    BY <2>1 DEF AdvanceFiling, Advance, Stays, AppendRow
  <2>2. ASSUME NEW to, Acknowledge(to)
        PROVE  status' \in {"UNCERTAIN", "ACCEPTED", "REJECTED", "CLOSED"}
    <3>1. Target(to) \in {"UNCERTAIN", "FILED", "ACCEPTED", "REJECTED"}
      BY <2>2 DEF Acknowledge, Answers, Target
    <3> QED  BY <2>1, <2>2, <3>1 DEF Acknowledge
  <2>3. CASE ResolveFiled
    BY <2>1, <2>3 DEF ResolveFiled
  <2>4. CASE Others
    <3>1. ASSUME NEW to, AdvancePayment(to) PROVE FALSE
      BY <3>1 DEF AdvancePayment, Advance, Takes, PaymentStatuses
    <3> QED  BY <2>4, <3>1, ObligationLeaves DEF Others, PackageInv, Left
  <2>5. CASE UNCHANGED obligation
    BY <2>5 DEF obligation
  <2> QED
    BY <2>2, <2>3, <2>4, <2>5
       DEF Next, CreatePackage, Cancel, PrepareBegin, SubmitBegin, ReadFigure, GiveUp,
           Prepare, Submit, Review, Approve, ResolveNotFiled, Authority, vars
<1>2. PackageInv /\ [Next]_vars =>
        [status = "UNCERTAIN" =>
           status' \in {"UNCERTAIN", "ACCEPTED", "REJECTED", "CLOSED"}]_vars
  BY <1>1
<1> QED  BY <1>2, PackageAlways, PTL DEF Spec, UncertainLeavesForOutcome

\* Nobody prepares a version of a return whose outcome is unknown.
EvidenceInv ==
  /\ EvidenceBehindStatus
  /\ tx # None /\ tx.op = "Prepare" => status # "UNCERTAIN"

LEMMA EvidenceStep == PackageInv /\ EvidenceInv /\ [Next]_vars => EvidenceInv'
<1> SUFFICES ASSUME PackageInv, EvidenceInv, [Next]_vars PROVE EvidenceInv'
  OBVIOUS
<1> USE DEF EvidenceInv
<1>1. CASE CreatePackage
  BY <1>1, PackageAssumption
     DEF CreatePackage, obligation, EvidenceBehindStatus, PaymentStatuses, PackageStatus
<1>2. CASE Cancel
  BY <1>2, PackageAssumption
     DEF Cancel, obligation, EvidenceBehindStatus, PaymentStatuses, PackageStatus, Submitted
<1>3. ASSUME NEW u \in Operator, PrepareBegin(u) \/ SubmitBegin(u) PROVE EvidenceInv'
  BY <1>3 DEF PrepareBegin, SubmitBegin, obligation, pkg, EvidenceBehindStatus, Latest
<1>4. CASE ReadFigure
  <2>1. tx'.op = tx.op
    BY <1>4 DEF ReadFigure, PackageInv, TypeOK, Act
  <2> QED  BY <1>4, <2>1 DEF ReadFigure, obligation, pkg, EvidenceBehindStatus, Latest
<1>5. CASE GiveUp
  BY <1>5 DEF GiveUp, obligation, pkg, EvidenceBehindStatus, Latest
<1>6. CASE Prepare
  <2>1. package \in {"READY", "IN_REVIEW", "APPROVED", "REJECTED"} /\ status # "UNCERTAIN"
    BY <1>6 DEF Prepare, PackageInv, ActInv
  <2>2. status \notin {"FILED", "UNCERTAIN"} \cup PaymentStatuses
    BY <2>1 DEF EvidenceBehindStatus
  <2> QED
    BY <1>6, <2>2 DEF Prepare, obligation, EvidenceBehindStatus
<1>7. CASE Submit
  <2>1. package = "APPROVED"
    BY <1>7 DEF Submit, PackageInv, ActInv
  <2>2. status # "FILED" /\ status \notin PaymentStatuses
    BY <2>1 DEF EvidenceBehindStatus
  <2> QED  BY <1>7, <2>2, PackageAssumption
              DEF Submit, obligation, EvidenceBehindStatus, PackageStatus
<1>8. ASSUME NEW u \in User, NEW d, Review(u, d) PROVE EvidenceInv'
  BY <1>8 DEF Review, obligation, EvidenceBehindStatus
<1>9. ASSUME NEW u \in User, Approve(u) PROVE EvidenceInv'
  BY <1>9, PackageAssumption
     DEF Approve, obligation, EvidenceBehindStatus, PackageStatus
<1>10. ASSUME NEW to \in PackageStatus, Acknowledge(to) PROVE EvidenceInv'
  <2>1. to \in Answers(attempts[Latest].at) /\ AdvanceFiling(Target(to))
        /\ package' = to /\ attempts' = attempts /\ Latest' = Latest /\ tx' = None
    BY <1>10 DEF Acknowledge, Latest
  <2>2. CASE to = "UNCERTAIN_SUBMISSION"
    <3>1. status' = "UNCERTAIN"
      BY <2>1, <2>2 DEF AdvanceFiling, Target, Advance, Stays, AppendRow
    <3> QED  BY <2>1, <2>2, <3>1, PackageAssumption
                DEF EvidenceBehindStatus, PaymentStatuses, PackageStatus
  <2>3. CASE to = "FILED"
    <3>1. status' \in {"FILED", "UNCERTAIN"}
      BY <2>1, <2>3 DEF AdvanceFiling, Target, Advance, Stays, AppendRow
    <3>2. attempts[Latest].at # "transit"
      BY <2>1, <2>3 DEF Answers
    <3> QED  BY <2>1, <2>3, <3>1, <3>2, PackageAssumption
                DEF EvidenceBehindStatus, PaymentStatuses, PackageStatus
  <2>4. CASE to = "ACCEPTED"
    <3>1. status' = "ACCEPTED"
      BY <2>1, <2>4 DEF AdvanceFiling, Target, Advance, Stays, AppendRow
    <3>2. attempts[Latest].at = "accepted"
      BY <2>1, <2>4 DEF Answers
    <3> QED  BY <2>1, <2>4, <3>1, <3>2 DEF EvidenceBehindStatus
  <2>5. CASE to = "REJECTED"
    <3>1. status' = "REJECTED"
      BY <2>1, <2>5 DEF AdvanceFiling, Target, Advance, Stays, AppendRow
    <3> QED  BY <2>1, <2>5, <3>1 DEF EvidenceBehindStatus, PaymentStatuses
  <2> QED  BY <2>1, <2>2, <2>3, <2>4, <2>5 DEF Answers
<1>11. CASE ResolveFiled
  <2>1. package' = "FILED" /\ attempts' = attempts /\ Latest' = Latest /\ tx' = None
        /\ attempts[Latest].at # "transit"
    BY <1>11 DEF ResolveFiled, Latest
  <2>2. status' \in {"FILED", "UNCERTAIN"}
    BY <1>11 DEF ResolveFiled, AdvanceFiling, Advance, Stays, AppendRow
  <2> QED  BY <2>1, <2>2, PackageAssumption
              DEF EvidenceBehindStatus, PaymentStatuses, PackageStatus
<1>12. CASE ResolveNotFiled
  BY <1>12, PackageAssumption
     DEF ResolveNotFiled, obligation, EvidenceBehindStatus, PackageStatus
<1>13. ASSUME NEW to \in Whereabouts, Authority(to) PROVE EvidenceInv'
  <2>1. attempts[Latest].at \in {"transit", "received"} /\ to # "transit"
    BY <1>13 DEF Authority
  <2>2. attempts'[Latest].at = to /\ Latest' = Latest
    BY <1>13, AuthorityMoves DEF PackageInv, TypeOK, Attempt, Latest
  <2>3. UNCHANGED <<status, package, tx>>
    BY <1>13 DEF Authority, obligation, pkg
  <2>4. status \notin PaymentStatuses
    BY <2>1 DEF EvidenceBehindStatus
  <2> QED  BY <2>1, <2>2, <2>3, <2>4 DEF EvidenceBehindStatus
<1>14. CASE Others
  <2>1. UNCHANGED <<package, attempts, tx>> /\ Latest' = Latest
    BY <1>14 DEF Others, pkg, Latest
  <2>2. CASE ObligationNext
    <3>1. Left
      BY <2>2, ObligationLeaves DEF PackageInv
    <3>2. status' = status \/ status' \in ManualTargets \cup {"AMENDMENT_REQUIRED"}
      BY <3>1 DEF Left
    <3>3. status \in {"UNCERTAIN", "CLOSED"} => status' \in {"UNCERTAIN", "CLOSED"}
      BY <3>1 DEF Left
    <3> QED  BY <2>1, <3>2, <3>3 DEF EvidenceBehindStatus, PaymentStatuses, ManualTargets
  <2>3. ASSUME NEW to \in {"PAYMENT_DUE", "PAID"}, AdvancePayment(to) PROVE EvidenceInv'
    <3>1. status \in PaymentStatuses /\ status' \in {"PAYMENT_DUE", "PAID"}
      BY <2>3 DEF AdvancePayment, Advance, Takes, Stays, AppendRow, PaymentStatuses
    <3> QED  BY <2>1, <3>1 DEF EvidenceBehindStatus, PaymentStatuses
  <2> QED  BY <1>14, <2>2, <2>3 DEF Others
<1>15. CASE UNCHANGED vars
  BY <1>15 DEF vars, pkg, obligation, EvidenceBehindStatus, Latest
<1> QED
  BY <1>1, <1>2, <1>3, <1>4, <1>5, <1>6, <1>7, <1>8, <1>9, <1>10, <1>11, <1>12, <1>13,
     <1>14, <1>15 DEF Next

(* The obligation moves only on what the package records of the authority  *)
(* (follow of app/compliance.go, advance of app/obligations.go).           *)
THEOREM EvidenceFirst == Spec => []EvidenceBehindStatus
<1>1. Init => EvidenceInv
  BY NoneAssumption, PackageAssumption
     DEF Init, ObligationInit, EvidenceInv, EvidenceBehindStatus, PaymentStatuses, Status,
         PackageStatus
<1>2. EvidenceInv => EvidenceBehindStatus
  BY DEF EvidenceInv
<1> QED  BY <1>1, <1>2, EvidenceStep, PackageAlways, PTL DEF Spec
================================================================================
