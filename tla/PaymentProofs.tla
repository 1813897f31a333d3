----------------------------- MODULE PaymentProofs -----------------------------
(***************************************************************************)
(* What holds of the payment of an obligation for any people, payees,      *)
(* figures and numbers of instructions and submissions: the types, that    *)
(* money is never on its way twice, that three acts of people stand behind *)
(* it, and that an obligation is PAID by settlement alone.                 *)
(***************************************************************************)
EXTENDS Payment, FiniteSetTheorems, TLAPS

Submission == [of : 1..MaxInstructions, at : Whereabouts]

\* Who entered a version is known of all, who verified it of the payable ones.
PayeeInv ==
  \A p \in Payee : payee[p] # None =>
    /\ payee[p].verifier # payee[p].by
    /\ payee[p].state = "VERIFIED" => payee[p].verifier # None
    /\ payee[p].supersedes # None => payee[payee[p].supersedes] # None

Verified(p) == payee[p] # None /\ payee[p].verifier \notin {None, payee[p].by}

\* The approver is neither the maker nor the one who entered the payee.
ApprovedByOther(r) == r.approver \notin {None, r.maker, payee[r.payee].by}

\* Whoever holds the payment lock finds the instructions as the act began.
ActInv ==
  tx # None =>
    /\ tx.op = "Create" =>
         /\ Len(chain) < MaxInstructions
         /\ chain # <<>> => chain[Last].status \in Terminal
         /\ tx.by \in Operator /\ tx.amount \in Positive \cup {None}
    /\ tx.op = "Approve" =>
         /\ chain # <<>> /\ chain[Last].status = "APPROVAL_REQUIRED"
         /\ Verified(chain[Last].payee)
         /\ tx.by \notin {chain[Last].maker, payee[chain[Last].payee].by}
    /\ tx.op = "Submit" =>
         /\ chain # <<>> /\ chain[Last].status = "APPROVED"
         /\ Verified(chain[Last].payee)
         /\ Len(payments) < MaxPayments

\* Instructions name recorded payees; what went out was approved by another.
ChainInv ==
  \A i \in DOMAIN chain :
    /\ payee[chain[i].payee] # None
    /\ chain[i].status \in Sent \cup {"APPROVED", "REJECTED"} => ApprovedByOther(chain[i])

\* Only the last submission can be under way, and then its instruction says so.
MoneyInv ==
  /\ \A k \in DOMAIN payments : payments[k].of \in DOMAIN chain
  /\ \A k \in DOMAIN payments : Verified(chain[payments[k].of].payee)
  /\ \A k \in DOMAIN payments : k # Len(payments) => payments[k].at \notin InFlight
  /\ payments # <<>> /\ Money \in InFlight =>
       chain # <<>> /\ chain[Last].status \in Sent \ {"RETURNED"}
  /\ chain # <<>> /\ chain[Last].status \in Sent =>
       payments # <<>> /\ payments[Len(payments)].of = Last

PaymentInv == TypeOK /\ PayeeInv /\ ActInv /\ ChainInv /\ MoneyInv

(* What a move, a decision or a boundary may do to the obligation.         *)
LEMMA Advances ==
  ASSUME ObligationTypeOK, NEW to \in Status, NEW allowed, Advance(to, allowed)
  PROVE  ObligationTypeOK'
BY DEF Advance, AppendRow, ObligationTypeOK

LEMMA Moves ==
  ASSUME ObligationTypeOK, Others
  PROVE  ObligationTypeOK' /\ UNCHANGED <<payee, chain, payments, tx>>
<1>1. CASE \E f \in Figure : Assess(f)
  BY <1>1 DEF Assess, AppendRow, ObligationTypeOK, Status, Others
<1>2. CASE \E u \in Operator : View(u)
  BY <1>2 DEF View, ObligationTypeOK, Others
<1>3. CASE \E u \in Operator, to \in ManualTargets : Move(u, to)
  BY <1>3 DEF Move, ObligationTypeOK, ManualTargets, Status, Others
<1>4. CASE \E to \in FilingStatuses \ {"READY"} : AdvanceFiling(to)
  BY <1>4, Advances DEF AdvanceFiling, FilingStatuses, Status, Others
<1> QED  BY <1>1, <1>2, <1>3, <1>4 DEF Others, ObligationNext

LEMMA Settles ==
  ASSUME ObligationTypeOK, NEW to, Settle(to)
  PROVE  ObligationTypeOK'
<1>1. CASE Pays(to)
  BY <1>1, Advances DEF Settle, AdvancePayment, Status
<1>2. CASE ~Pays(to)
  BY <1>2 DEF Settle, obligation, ObligationTypeOK
<1> QED  BY <1>1, <1>2

(* An act that rewrites the last instruction leaves the others alone.      *)
LEMMA Replaces ==
  ASSUME NEW S, NEW q \in Seq(S), NEW i \in DOMAIN q, NEW r \in S
  PROVE  LET new == [q EXCEPT ![i] = r] IN
         /\ new \in Seq(S) /\ new # <<>> /\ Len(new) = Len(q) /\ DOMAIN new = DOMAIN q
         /\ new[i] = r
         /\ \A k \in DOMAIN q : k # i => new[k] = q[k]
OBVIOUS

LEMMA Rewrites ==
  ASSUME chain \in Seq(Instruction), chain # <<>>,
         NEW r, r \in Instruction,
         r.maker = chain[Last].maker, r.payee = chain[Last].payee,
         chain' = [chain EXCEPT ![Last] = r]
  PROVE  /\ chain' \in Seq(Instruction) /\ chain' # <<>>
         /\ Len(chain') = Len(chain) /\ Last' = Last
         /\ DOMAIN chain' = DOMAIN chain /\ Last \in DOMAIN chain
         /\ \A i \in DOMAIN chain : /\ i # Last => chain'[i] = chain[i]
                                    /\ chain'[i].maker = chain[i].maker
                                    /\ chain'[i].payee = chain[i].payee
         /\ chain'[Last] = r
<1>1. Last \in DOMAIN chain
  BY DEF Last
<1>2. /\ chain' \in Seq(Instruction) /\ chain' # <<>> /\ Len(chain') = Len(chain)
      /\ DOMAIN chain' = DOMAIN chain /\ chain'[Last] = r
      /\ \A k \in DOMAIN chain : k # Last => chain'[k] = chain[k]
  <2>1. [chain EXCEPT ![Last] = r] \in Seq(Instruction)
    BY <1>1, Replaces
  <2>2. chain' # <<>> /\ Len(chain') = Len(chain)
    BY <1>1, Replaces
  <2>3. /\ DOMAIN chain' = DOMAIN chain /\ chain'[Last] = r
        /\ \A k \in DOMAIN chain : k # Last => chain'[k] = chain[k]
    BY <1>1
  <2> QED  BY <2>1, <2>2, <2>3
<1> QED  BY <1>1, <1>2 DEF Last

\* The last instruction comes to have status s and approver a, and stays
\* otherwise what it was.
Rewritten(s, a) ==
  /\ chain # <<>> /\ Last \in DOMAIN chain
  /\ chain' \in Seq(Instruction) /\ chain' # <<>>
  /\ Len(chain') = Len(chain) /\ Last' = Last /\ DOMAIN chain' = DOMAIN chain
  /\ \A i \in DOMAIN chain : /\ i # Last => chain'[i] = chain[i]
                             /\ chain'[i].maker = chain[i].maker
                             /\ chain'[i].payee = chain[i].payee
  /\ chain'[Last].status = s /\ chain'[Last].approver = a

LEMMA Both ==
  ASSUME TypeOK, chain # <<>>, NEW s \in RemittanceStatus, NEW a \in User \cup {None},
         chain' = [chain EXCEPT ![Last].status = s, ![Last].approver = a]
  PROVE  Rewritten(s, a)
<1>1. chain \in Seq(Instruction) /\ Last \in DOMAIN chain /\ chain[Last] \in Instruction
  BY DEF TypeOK, Last
<1> DEFINE r == [chain[Last] EXCEPT !.status = s, !.approver = a]
<1>2. /\ r \in Instruction /\ r.status = s /\ r.approver = a
      /\ r.maker = chain[Last].maker /\ r.payee = chain[Last].payee
  BY <1>1 DEF Instruction
<1> HIDE DEF Last
<1>3. chain' = [chain EXCEPT ![Last] = r]
  BY <1>1
<1> HIDE DEF r
<1> QED  BY <1>1, <1>2, <1>3, Rewrites DEF Rewritten

LEMMA StatusOnly ==
  ASSUME TypeOK, chain # <<>>, NEW s \in RemittanceStatus,
         chain' = [chain EXCEPT ![Last].status = s]
  PROVE  Rewritten(s, chain[Last].approver)
<1>1. chain \in Seq(Instruction) /\ chain[Last] \in Instruction
  BY DEF TypeOK, Last
<1> DEFINE r == [chain[Last] EXCEPT !.status = s]
<1>2. /\ r \in Instruction /\ r.status = s /\ r.approver = chain[Last].approver
      /\ r.maker = chain[Last].maker /\ r.payee = chain[Last].payee
  BY <1>1 DEF Instruction
<1>3. chain' = [chain EXCEPT ![Last] = r]
  OBVIOUS
<1> HIDE DEF r
<1> QED  BY <1>1, <1>2, <1>3, Rewrites DEF Rewritten

LEMMA CreateAppends ==
  ASSUME PaymentInv, Create
  PROVE  /\ chain' \in Seq(Instruction) /\ Len(chain') = Len(chain) + 1
         /\ Len(chain) < MaxInstructions
         /\ DOMAIN chain' = 1..(Len(chain) + 1) /\ DOMAIN chain = 1..Len(chain)
         /\ \A i \in DOMAIN chain : chain'[i] = chain[i]
         /\ chain'[Last'].status = "APPROVAL_REQUIRED"
         /\ chain'[Last'].payee = tx.payee /\ payee[tx.payee] # None
<1> DEFINE r == [maker |-> tx.by, payee |-> tx.payee, amount |-> tx.amount,
                 status |-> "APPROVAL_REQUIRED", approver |-> None]
<1>1. r \in Instruction
  <2>1. tx \in Act /\ tx.by \in Operator /\ tx.amount \in Positive
    BY NoneAssumption, PositiveAssumption DEF PaymentInv, TypeOK, ActInv, Create
  <2> QED  BY <2>1 DEF Instruction, Act, RemittanceStatus
<1>2. chain' = Append(chain, r) /\ payee[tx.payee] # None /\ Len(chain) < MaxInstructions
  BY DEF Create, PaymentInv, ActInv
<1>3. r.status = "APPROVAL_REQUIRED" /\ r.payee = tx.payee
  OBVIOUS
<1> HIDE DEF r
<1> QED  BY <1>1, <1>2, <1>3 DEF PaymentInv, TypeOK, Last

LEMMA SubmitAppends ==
  ASSUME PaymentInv, Submit
  PROVE  /\ Rewritten("SUBMITTED", chain[Last].approver)
         /\ payments' \in Seq(Submission) /\ Len(payments') = Len(payments) + 1
         /\ Len(payments) < MaxPayments
         /\ DOMAIN payments' = 1..(Len(payments) + 1) /\ DOMAIN payments = 1..Len(payments)
         /\ \A k \in DOMAIN payments : payments'[k] = payments[k]
         /\ payments'[Len(payments')] = [of |-> Last, at |-> "transit"]
<1>1. chain # <<>> /\ Len(payments) < MaxPayments
  BY DEF Submit, PaymentInv, ActInv
<1>2. Rewritten("SUBMITTED", chain[Last].approver)
  BY <1>1, StatusOnly DEF Submit, PaymentInv, RemittanceStatus
<1> DEFINE r == [of |-> Last, at |-> "transit"]
<1>3. r \in Submission
  BY <1>1, BoundAssumption DEF PaymentInv, TypeOK, Submission, Whereabouts, Last
<1>4. payments' = Append(payments, r) /\ payments \in Seq(Submission)
  BY DEF Submit, PaymentInv, TypeOK, Submission
<1> HIDE DEF r
<1>5. /\ payments' \in Seq(Submission) /\ Len(payments') = Len(payments) + 1
      /\ DOMAIN payments' = 1..(Len(payments) + 1) /\ DOMAIN payments = 1..Len(payments)
      /\ \A k \in DOMAIN payments : payments'[k] = payments[k]
      /\ payments'[Len(payments')] = r
  BY <1>3, <1>4
<1> QED  BY <1>1, <1>2, <1>5 DEF r

(* The provider changes where the last submission's money is, nothing else. *)
LEMMA ProviderMoves ==
  ASSUME TypeOK, NEW to \in Whereabouts, Provider(to)
  PROVE  /\ payments' \in Seq(Submission) /\ Len(payments') = Len(payments)
         /\ DOMAIN payments' = DOMAIN payments /\ Len(payments) \in DOMAIN payments
         /\ \A k \in DOMAIN payments : /\ k # Len(payments) => payments'[k] = payments[k]
                                       /\ payments'[k].of = payments[k].of
         /\ payments'[Len(payments)].at = to
<1>1. payments \in Seq(Submission)
  BY DEF TypeOK, Submission
<1>2. Len(payments) \in DOMAIN payments
  BY <1>1 DEF Provider
<1> DEFINE r == [payments[Len(payments)] EXCEPT !.at = to]
<1>3. payments[Len(payments)] \in Submission
  BY <1>1, <1>2
<1>4. r \in Submission /\ r.at = to /\ r.of = payments[Len(payments)].of
  BY <1>3 DEF Submission
<1>5. payments' = [payments EXCEPT ![Len(payments)] = r]
  BY DEF Provider
<1> HIDE DEF r
<1>6. payments' \in Seq(Submission) /\ Len(payments') = Len(payments)
  BY <1>1, <1>2, <1>4, <1>5
<1>7. DOMAIN payments' = DOMAIN payments
      /\ \A k \in DOMAIN payments : payments'[k] = IF k = Len(payments) THEN r ELSE payments[k]
  BY <1>5
<1> QED  BY <1>2, <1>4, <1>6, <1>7

\* The acts that touch neither instructions nor submissions nor the act under way.
PayeeAct ==
  \/ \E p \in Payee, u \in User, old \in Payee \cup {None} : CreateBeneficiary(p, u, old)
  \/ \E p \in Payee, u \in User : VerifyBeneficiary(p, u)
  \/ \E p \in Payee : SuspendBeneficiary(p)

\* The steps that end in a rewritten last instruction and keep the submissions.
Restated(s, a) ==
  /\ tx' = None /\ UNCHANGED <<payee, payments>>
  /\ Rewritten(s, a)

LEMMA ApproveRestates ==
  ASSUME PaymentInv, Approve
  PROVE  Restated("APPROVED", tx.by)
<1>1. chain # <<>> /\ tx.by \in User
  BY DEF PaymentInv, TypeOK, ActInv, Approve, Act
<1>2. Rewritten("APPROVED", tx.by)
  BY <1>1, Both DEF Approve, PaymentInv, RemittanceStatus
<1> QED  BY <1>2 DEF Approve, Restated

LEMMA RecordRestates ==
  ASSUME PaymentInv, NEW to \in RemittanceStatus, RecordStatus(to)
  PROVE  Restated(to, chain[Last].approver)
BY StatusOnly DEF RecordStatus, PaymentInv, Restated

LEMMA ResolveRestates ==
  ASSUME PaymentInv, NEW to \in RemittanceStatus, ResolveRemittance(to)
  PROVE  Restated(to, IF to = "APPROVAL_REQUIRED" THEN None ELSE chain[Last].approver)
<1> DEFINE a == IF to = "APPROVAL_REQUIRED" THEN None ELSE chain[Last].approver
<1>1. chain # <<>> /\ chain \in Seq(Instruction)
  BY DEF ResolveRemittance, PaymentInv, TypeOK
<1>2. chain[Last] \in Instruction
  BY <1>1 DEF Last
<1>3. a \in User \cup {None}
  BY <1>2 DEF Instruction
<1>4. chain' = [chain EXCEPT ![Last].status = to, ![Last].approver = a]
  <2> HIDE DEF Last
  <2>1. [[chain EXCEPT ![Last].status = to] EXCEPT ![Last].approver =
           IF to = "APPROVAL_REQUIRED" THEN None ELSE @] = chain'
    BY DEF ResolveRemittance
  <2> QED  BY <1>1, <1>2, <2>1 DEF ResolveRemittance, Instruction
<1> HIDE DEF a
<1>5. Rewritten(to, a)
  BY <1>1, <1>3, <1>4, Both DEF PaymentInv
<1> QED  BY <1>5 DEF ResolveRemittance, Restated, a

LEMMA ReturnRestates ==
  ASSUME PaymentInv, ReturnRemittance
  PROVE  Restated("RETURNED", chain[Last].approver)
BY StatusOnly DEF ReturnRemittance, PaymentInv, Restated, RemittanceStatus

LEMMA CancelRestates ==
  ASSUME PaymentInv, CancelRemittance
  PROVE  /\ Restated("CANCELLED", chain[Last].approver)
         /\ chain[Last].status \in {"APPROVAL_REQUIRED", "APPROVED"}
<1>1. Restated("CANCELLED", chain[Last].approver)
  BY StatusOnly DEF CancelRemittance, PaymentInv, Restated, RemittanceStatus
<1>2. chain[Last] \in Instruction
  BY DEF CancelRemittance, PaymentInv, TypeOK, Last
<1> QED
  BY <1>1, <1>2 DEF CancelRemittance, RemittanceSuccessors, Instruction, RemittanceStatus

LEMMA TypeInit == Init => PaymentInv
<1> SUFFICES ASSUME Init PROVE PaymentInv
  OBVIOUS
<1>1. TypeOK
  BY BoundAssumption DEF Init, ObligationInit, TypeOK, ObligationTypeOK
<1> QED  BY <1>1 DEF Init, PaymentInv, PayeeInv, ActInv, ChainInv, MoneyInv

LEMMA TypeStep == PaymentInv /\ [Next]_vars => TypeOK'
<1> SUFFICES ASSUME PaymentInv, [Next]_vars PROVE TypeOK'
  OBVIOUS
<1> USE DEF PaymentInv
<1>1. CASE PayeeAct
  <2>1. ASSUME NEW p \in Payee, NEW u \in User, NEW old \in Payee \cup {None},
               CreateBeneficiary(p, u, old)
        PROVE  TypeOK'
    BY <2>1 DEF CreateBeneficiary, TypeOK, ObligationTypeOK, obligation, PayeeRecord, PayeeState
  <2>2. ASSUME NEW p \in Payee, NEW u \in User, VerifyBeneficiary(p, u) PROVE TypeOK'
    <3>1. payee[p] \in PayeeRecord
      BY <2>2 DEF VerifyBeneficiary, TypeOK
    <3>2. ASSUME NEW q \in Payee PROVE payee'[q] \in PayeeRecord \cup {None}
      <4>1. CASE q = p
        <5>1. payee'[q] = [payee[p] EXCEPT !.state = "VERIFIED", !.verifier = u]
          BY <2>2, <4>1 DEF VerifyBeneficiary
        <5> QED  BY <3>1, <5>1 DEF PayeeRecord, PayeeState
      <4>2. CASE q # p /\ q = payee[p].supersedes
        <5>1. payee'[q] = [payee[q] EXCEPT !.state = "SUPERSEDED"]
          BY <2>2, <4>2 DEF VerifyBeneficiary
        <5>2. payee[q] \in PayeeRecord
          BY <2>2, <4>2, PayeeAssumption DEF VerifyBeneficiary, TypeOK, PayeeInv
        <5> QED  BY <5>1, <5>2 DEF PayeeRecord, PayeeState
      <4>3. CASE q # p /\ q # payee[p].supersedes
        BY <2>2, <4>3 DEF VerifyBeneficiary, TypeOK
      <4> QED  BY <4>1, <4>2, <4>3
    <3>3. payee' \in [Payee -> PayeeRecord \cup {None}]
      BY <2>2, <3>2 DEF VerifyBeneficiary
    <3> QED  BY <2>2, <3>3 DEF VerifyBeneficiary, TypeOK, ObligationTypeOK, obligation
  <2>3. ASSUME NEW p \in Payee, SuspendBeneficiary(p) PROVE TypeOK'
    BY <2>3 DEF SuspendBeneficiary, TypeOK, ObligationTypeOK, obligation, PayeeRecord, PayeeState
  <2> QED  BY <1>1, <2>1, <2>2, <2>3 DEF PayeeAct
<1>2. CASE \E u \in Operator, p \in Payee : CreateBegin(u, p)
  BY <1>2, OperatorAssumption
     DEF CreateBegin, TypeOK, ObligationTypeOK, obligation, Act
<1>3. ASSUME NEW u \in User, ApproveBegin(u) \/ SubmitBegin(u) PROVE TypeOK'
  <2>1. chain[Last] \in Instruction
    BY <1>3 DEF ApproveBegin, SubmitBegin, TypeOK, Last
  <2>2. chain[Last].payee \in Payee /\ chain[Last].amount \in Figure
    BY <2>1, PositiveAssumption DEF Instruction
  <2>3. tx' \in Act
    <3>1. CASE ApproveBegin(u)
      BY <2>2, <3>1 DEF ApproveBegin, Act
    <3>2. CASE SubmitBegin(u)
      BY <2>2, <3>2 DEF SubmitBegin, Act
    <3> QED  BY <1>3, <3>1, <3>2
  <2> QED
    BY <1>3, <2>3 DEF ApproveBegin, SubmitBegin, TypeOK, ObligationTypeOK, obligation
<1>4. CASE ReadDue \/ ReadLiability \/ GiveUp
  BY <1>4 DEF ReadDue, ReadLiability, GiveUp, TypeOK, ObligationTypeOK, obligation, Act
<1>5. CASE Create
  <2>1. ObligationTypeOK'
    BY <1>5, Advances DEF Create, AdvancePayment, Status, TypeOK, obligation, ObligationTypeOK
  <2>2. chain' \in Seq(Instruction) /\ Len(chain') <= MaxInstructions
    BY <1>5, CreateAppends, BoundAssumption DEF TypeOK
  <2> QED  BY <1>5, <2>1, <2>2 DEF Create, TypeOK
<1>6. CASE Submit
  <2>1. /\ payments' \in Seq(Submission) /\ Len(payments') <= MaxPayments
        /\ chain' \in Seq(Instruction) /\ Len(chain') = Len(chain)
    BY <1>6, SubmitAppends, BoundAssumption DEF TypeOK, Rewritten
  <2>2. UNCHANGED <<obligation, payee>> /\ tx' = None
    BY <1>6 DEF Submit
  <2> QED  BY <2>1, <2>2 DEF TypeOK, ObligationTypeOK, obligation, Submission
<1>7. ASSUME ObligationTypeOK', NEW s, NEW a, Restated(s, a) PROVE TypeOK'
  BY <1>7 DEF Restated, Rewritten, TypeOK
<1>8. ASSUME NEW to \in Whereabouts, Provider(to) PROVE TypeOK'
  <2>1. payments' \in Seq(Submission) /\ Len(payments') = Len(payments)
    BY <1>8, ProviderMoves
  <2> QED
    BY <1>8, <2>1 DEF Provider, TypeOK, ObligationTypeOK, obligation, Submission
<1>9. CASE Others
  BY <1>9, Moves DEF TypeOK
<1>10. CASE UNCHANGED vars
  BY <1>10 DEF vars, obligation, TypeOK, ObligationTypeOK
<1>11. CASE Approve
  BY <1>7, <1>11, ApproveRestates DEF Approve, TypeOK, ObligationTypeOK, obligation
<1>12. ASSUME NEW to \in RemittanceStatus, RecordStatus(to) \/ ResolveRemittance(to)
       PROVE  TypeOK'
  <2>1. ObligationTypeOK'
    BY <1>12, Settles DEF RecordStatus, ResolveRemittance, TypeOK
  <2> QED  BY <1>7, <1>12, <2>1, RecordRestates, ResolveRestates
<1>13. CASE ReturnRemittance
  BY <1>7, <1>13, ReturnRestates DEF ReturnRemittance, TypeOK, ObligationTypeOK, obligation
<1>14. CASE CancelRemittance
  BY <1>7, <1>14, CancelRestates DEF CancelRemittance, TypeOK, ObligationTypeOK, obligation
<1> QED
  BY <1>1, <1>2, <1>3, <1>4, <1>5, <1>6, <1>8, <1>9, <1>10, <1>11, <1>12, <1>13, <1>14,
     OperatorAssumption DEF Next, PayeeAct

\* What is known of the people behind a payee version stays known.
Kept ==
  \A p \in Payee :
    /\ payee[p] # None => payee'[p] # None /\ payee'[p].by = payee[p].by
    /\ Verified(p) => Verified(p)'

(* No act forgets who entered a version or that another verified it.       *)
LEMMA PayeeStep == PaymentInv /\ [Next]_vars => PayeeInv' /\ Kept
<1> SUFFICES ASSUME PaymentInv, [Next]_vars PROVE PayeeInv' /\ Kept
  OBVIOUS
<1> USE DEF PaymentInv
<1>1. ASSUME NEW p \in Payee, NEW u \in User, NEW old \in Payee \cup {None},
             CreateBeneficiary(p, u, old)
      PROVE  PayeeInv' /\ Kept
  <2>1. /\ payee[p] = None /\ payee'[p] # None /\ payee'[p].supersedes = old
        /\ payee'[p].verifier = None /\ payee'[p].by = u
        /\ payee'[p].state \in {"UNVERIFIED", "CHANGE_PENDING"}
        /\ old # None => payee[old] # None
        /\ \A q \in Payee : q # p => payee'[q] = payee[q]
    <3>1. [state |-> IF old = None THEN "UNVERIFIED" ELSE "CHANGE_PENDING",
           by |-> u, verifier |-> None, supersedes |-> old] \in PayeeRecord
      BY <1>1 DEF PayeeRecord, PayeeState
    <3> QED  BY <1>1, <3>1, PayeeAssumption DEF CreateBeneficiary, TypeOK
  <2>2. \A q \in Payee : payee[q] # None => payee'[q] = payee[q]
    BY <2>1
  <2>3. PayeeInv'
    <3> SUFFICES ASSUME NEW q \in Payee, payee'[q] # None
                 PROVE  /\ payee'[q].verifier # payee'[q].by
                        /\ payee'[q].state = "VERIFIED" => payee'[q].verifier # None
                        /\ payee'[q].supersedes # None => payee'[payee'[q].supersedes] # None
      BY DEF PayeeInv
    <3>1. CASE q = p
      BY <2>1, <2>2, <3>1, NoneAssumption
    <3>2. CASE q # p
      <4>1. payee'[q] = payee[q] /\ payee[q] # None
        BY <2>1, <3>2
      <4>2. payee[q].supersedes \in Payee \cup {None}
        BY <4>1 DEF TypeOK, PayeeRecord
      <4> QED  BY <2>2, <4>1, <4>2 DEF PayeeInv
    <3> QED  BY <3>1, <3>2
  <2>4. Kept
    BY <2>1 DEF Kept, Verified
  <2> QED  BY <2>3, <2>4
<1>2. ASSUME NEW p \in Payee, NEW u \in User, VerifyBeneficiary(p, u)
      PROVE  PayeeInv' /\ Kept
  <2>1. /\ payee[p] \in PayeeRecord /\ u # payee[p].by
        /\ payee'[p] = [payee[p] EXCEPT !.state = "VERIFIED", !.verifier = u]
    BY <1>2 DEF VerifyBeneficiary, TypeOK
  <2>2. /\ payee'[p].by = payee[p].by /\ payee'[p].verifier = u
        /\ payee'[p].supersedes = payee[p].supersedes /\ payee'[p] # None
    <3>1. payee'[p] \in PayeeRecord
      BY <2>1 DEF PayeeRecord, PayeeState
    <3>2. /\ payee'[p].by = payee[p].by /\ payee'[p].verifier = u
          /\ payee'[p].supersedes = payee[p].supersedes
      BY <2>1 DEF PayeeRecord
    <3> QED  BY <3>1, <3>2, PayeeAssumption
  <2>3. ASSUME NEW q \in Payee, q # p, payee[q] # None
        PROVE  /\ payee'[q].by = payee[q].by /\ payee'[q].verifier = payee[q].verifier
               /\ payee'[q].supersedes = payee[q].supersedes /\ payee'[q] # None
               /\ payee'[q].state \in {payee[q].state, "SUPERSEDED"}
    <3>1. payee[q] \in PayeeRecord
      BY <2>3 DEF TypeOK
    <3>2. CASE q = payee[p].supersedes
      <4>1. payee'[q] = [payee[q] EXCEPT !.state = "SUPERSEDED"]
        BY <1>2, <2>3, <3>2 DEF VerifyBeneficiary
      <4> QED  BY <3>1, <4>1, PayeeAssumption DEF PayeeRecord, PayeeState
    <3>3. CASE q # payee[p].supersedes
      BY <1>2, <2>3, <3>3 DEF VerifyBeneficiary
    <3> QED  BY <3>2, <3>3
  <2>4. \A q \in Payee : payee'[q] # None => payee[q] # None
    <3> SUFFICES ASSUME NEW q \in Payee, payee[q] = None PROVE payee'[q] = None
      OBVIOUS
    <3>1. q # p /\ q # payee[p].supersedes
      BY <1>2, PayeeAssumption DEF VerifyBeneficiary, PayeeInv
    <3> QED  BY <1>2, <3>1 DEF VerifyBeneficiary
  <2>5. PayeeInv'
    <3> SUFFICES ASSUME NEW q \in Payee, payee'[q] # None
                 PROVE  /\ payee'[q].verifier # payee'[q].by
                        /\ payee'[q].state = "VERIFIED" => payee'[q].verifier # None
                        /\ payee'[q].supersedes # None => payee'[payee'[q].supersedes] # None
      BY DEF PayeeInv
    <3>1. payee[q] # None /\ payee[q].supersedes \in Payee \cup {None}
      BY <2>4 DEF TypeOK, PayeeRecord
    <3>2. payee'[q].supersedes = payee[q].supersedes
      BY <2>2, <2>3, <3>1
    <3>3. payee'[q].supersedes # None => payee'[payee'[q].supersedes] # None
      BY <2>2, <2>3, <3>1, <3>2 DEF PayeeInv
    <3>4. CASE q = p
      BY <2>1, <2>2, <3>3, <3>4, NoneAssumption
    <3>5. CASE q # p
      BY <2>3, <3>1, <3>3, <3>5 DEF PayeeInv
    <3> QED  BY <3>4, <3>5
  <2>6. Kept
    BY <2>1, <2>2, <2>3, NoneAssumption DEF Kept, Verified
  <2> QED  BY <2>5, <2>6
<1>3. ASSUME NEW p \in Payee, SuspendBeneficiary(p) PROVE PayeeInv' /\ Kept
  <2>1. payee[p] \in PayeeRecord /\ payee'[p] = [payee[p] EXCEPT !.state = "SUSPENDED"]
        /\ \A q \in Payee : q # p => payee'[q] = payee[q]
    BY <1>3 DEF SuspendBeneficiary, TypeOK
  <2>2. /\ payee'[p].by = payee[p].by /\ payee'[p].verifier = payee[p].verifier
        /\ payee'[p].supersedes = payee[p].supersedes /\ payee'[p] # None
        /\ payee'[p].state = "SUSPENDED" /\ payee[p] # None
    BY <2>1, PayeeAssumption DEF PayeeRecord, PayeeState
  <2>3. \A q \in Payee : payee[q] # None => payee[q].supersedes \in Payee \cup {None}
    BY DEF TypeOK, PayeeRecord
  <2>4. PayeeInv'
    <3> SUFFICES ASSUME NEW q \in Payee, payee'[q] # None
                 PROVE  /\ payee'[q].verifier # payee'[q].by
                        /\ payee'[q].state = "VERIFIED" => payee'[q].verifier # None
                        /\ payee'[q].supersedes # None => payee'[payee'[q].supersedes] # None
      BY DEF PayeeInv
    <3>1. payee[q] # None /\ payee'[q].supersedes = payee[q].supersedes
          /\ payee'[q].by = payee[q].by /\ payee'[q].verifier = payee[q].verifier
          /\ payee'[q].state \in {payee[q].state, "SUSPENDED"}
      BY <2>1, <2>2
    <3>2. payee'[q].supersedes # None => payee'[payee'[q].supersedes] # None
      BY <2>1, <2>2, <2>3, <3>1 DEF PayeeInv
    <3> QED  BY <3>1, <3>2 DEF PayeeInv
  <2>5. Kept
    BY <2>1, <2>2 DEF Kept, Verified
  <2> QED  BY <2>4, <2>5
<1>4. CASE UNCHANGED payee
  BY <1>4 DEF PayeeInv, Kept, Verified
<1>5. CASE Others
  BY <1>4, <1>5, Moves DEF TypeOK
<1> QED
  BY <1>1, <1>2, <1>3, <1>4, <1>5
     DEF Next, CreateBegin, ApproveBegin, SubmitBegin, ReadDue, ReadLiability, GiveUp, Create,
         Approve, Submit, RecordStatus, ResolveRemittance, ReturnRemittance,
         CancelRemittance, Provider, vars

LEMMA Recorded ==
  ASSUME TypeOK, NEW i \in DOMAIN chain
  PROVE  chain[i] \in Instruction /\ chain[i].payee \in Payee
<1>1. chain[i] \in Instruction
  BY DEF TypeOK
<1> QED  BY <1>1 DEF Instruction

LEMMA LastThere ==
  ASSUME TypeOK, chain # <<>>
  PROVE  Last \in DOMAIN chain /\ chain[Last] \in Instruction /\ chain[Last].payee \in Payee
<1>1. Last \in DOMAIN chain
  BY DEF TypeOK, Last
<1> QED  BY <1>1, Recorded

LEMMA ActStep == PaymentInv /\ [Next]_vars => ActInv'
<1> SUFFICES ASSUME PaymentInv, [Next]_vars PROVE ActInv'
  OBVIOUS
<1>k. Kept
  BY PayeeStep
<1> USE DEF PaymentInv
<1>1. ASSUME UNCHANGED chain, Len(payments') = Len(payments), tx # None, tx' # None,
             tx'.op = tx.op, tx'.by = tx.by,
             tx.op = "Create" => tx'.amount \in {tx.amount} \cup Positive
      PROVE  ActInv'
  <2>1. Last' = Last
    BY <1>1 DEF Last
  <2>2. ASSUME chain # <<>>, Verified(chain[Last].payee)
        PROVE  /\ Verified(chain[Last].payee)'
               /\ payee'[chain[Last].payee].by = payee[chain[Last].payee].by
    <3>1. chain[Last].payee \in Payee /\ payee[chain[Last].payee] # None
      BY <2>2, LastThere DEF Verified
    <3>2. Verified(chain[Last].payee)' <=> payee'[chain[Last].payee] # None /\
            payee'[chain[Last].payee].verifier \notin {None, payee'[chain[Last].payee].by}
      BY <1>1, <2>1 DEF Verified
    <3> QED  BY <1>k, <2>2, <3>1, <3>2 DEF Kept, Verified
  <2>3. CASE tx.op = "Create"
    BY <1>1, <2>1, <2>3 DEF ActInv
  <2>4. CASE tx.op = "Approve"
    BY <1>1, <2>1, <2>2, <2>4 DEF ActInv
  <2>5. CASE tx.op = "Submit"
    BY <1>1, <2>1, <2>2, <2>5 DEF ActInv
  <2>6. tx.op \in {"Create", "Approve", "Submit"}
    BY <1>1 DEF TypeOK, Act
  <2> QED  BY <2>3, <2>4, <2>5, <2>6
<1>2. CASE tx' = None
  BY <1>2 DEF ActInv
<1>3. CASE tx = None /\ UNCHANGED <<chain, payments, payee>>
  <2>1. CASE tx' = None
    BY <1>2, <2>1
  <2>2. ASSUME NEW u \in Operator, NEW p \in Payee, CreateBegin(u, p) PROVE ActInv'
    <3>1. tx'.op = "Create" /\ tx'.by = u /\ tx'.amount = None
      BY <2>2 DEF CreateBegin
    <3> QED  BY <1>3, <2>2, <3>1 DEF CreateBegin, ActInv, Last
  <2>3. ASSUME NEW u \in User, ApproveBegin(u) PROVE ActInv'
    <3>1. tx'.op = "Approve" /\ tx'.by = u
      BY <2>3 DEF ApproveBegin
    <3>2. Verified(chain[Last].payee)
      BY <2>3, LastThere, NoneAssumption DEF ApproveBegin, Payable, Verified, PayeeInv
    <3> QED  BY <1>3, <2>3, <3>1, <3>2 DEF ApproveBegin, ActInv, Last, Verified
  <2>4. ASSUME NEW u \in Operator, SubmitBegin(u) PROVE ActInv'
    <3>1. tx'.op = "Submit"
      BY <2>4 DEF SubmitBegin
    <3>2. Verified(chain[Last].payee)
      BY <2>4, LastThere DEF SubmitBegin, Payable, Verified, PayeeInv
    <3> QED  BY <1>3, <2>4, <3>1, <3>2 DEF SubmitBegin, ActInv, Last, Verified
  <2>5. CASE Others
    BY <2>1, <2>5, <1>3, Moves DEF TypeOK
  <2> QED
    BY <1>3, <2>1, <2>2, <2>3, <2>4, <2>5
       DEF Next, CreateBeneficiary, VerifyBeneficiary, SuspendBeneficiary, ReadDue,
           ReadLiability, GiveUp, Create, Approve, Submit, RecordStatus, ResolveRemittance,
           ReturnRemittance, CancelRemittance, Provider, vars
<1>4. CASE tx # None /\ tx' # None /\ (ReadDue \/ ReadLiability)
  <2>1. tx \in Act
    BY <1>4 DEF TypeOK
  <2>2. tx'.op = tx.op /\ tx'.by = tx.by
    BY <1>4, <2>1 DEF ReadDue, ReadLiability, Act
  <2>3. tx.op = "Create" => tx'.amount \in {tx.amount} \cup Positive
    BY <1>4, <2>1 DEF ReadDue, ReadLiability, Act
  <2> QED  BY <1>1, <1>4, <2>2, <2>3 DEF ReadDue, ReadLiability
<1>5. CASE tx # None /\ UNCHANGED tx /\ (PayeeAct \/ Others \/ UNCHANGED vars)
  <2>1. UNCHANGED <<chain, payments>>
    BY <1>5, Moves
       DEF PayeeAct, CreateBeneficiary, VerifyBeneficiary, SuspendBeneficiary, TypeOK, vars
  <2> QED  BY <1>1, <1>5, <2>1
<1>6. ASSUME tx # None, NEW to \in Whereabouts, Provider(to) PROVE ActInv'
  BY <1>1, <1>6, ProviderMoves DEF Provider
<1>7. ASSUME tx = None, NEW to \in Whereabouts, Provider(to) PROVE ActInv'
  BY <1>2, <1>7 DEF Provider
<1>8. CASE UNCHANGED tx /\ tx = None
  BY <1>2, <1>8
<1>9. (PayeeAct \/ Others \/ UNCHANGED vars) => UNCHANGED tx
  BY Moves DEF PayeeAct, CreateBeneficiary, VerifyBeneficiary, SuspendBeneficiary, TypeOK, vars
<1> QED
  BY <1>2, <1>3, <1>4, <1>5, <1>6, <1>7, <1>8, <1>9, OperatorAssumption
     DEF Next, PayeeAct, CreateBegin, ApproveBegin, SubmitBegin, ReadDue, ReadLiability,
         GiveUp, Create, Approve, Submit, RecordStatus, ResolveRemittance,
         ReturnRemittance, CancelRemittance

LEMMA ChainStep == PaymentInv /\ [Next]_vars => ChainInv'
<1> SUFFICES ASSUME PaymentInv, [Next]_vars PROVE ChainInv'
  OBVIOUS
<1>k. Kept
  BY PayeeStep
<1> USE DEF PaymentInv
<1>1. CASE UNCHANGED chain
  <2> SUFFICES ASSUME NEW i \in DOMAIN chain
               PROVE  /\ payee'[chain[i].payee] # None
                      /\ chain[i].status \in Sent \cup {"APPROVED", "REJECTED"} =>
                           chain[i].approver \notin
                             {None, chain[i].maker, payee'[chain[i].payee].by}
    BY <1>1 DEF ChainInv, ApprovedByOther
  <2>1. chain[i].payee \in Payee
    BY Recorded
  <2> QED  BY <1>k, <2>1 DEF ChainInv, ApprovedByOther, Kept
<1>2. CASE Create
  <2> SUFFICES ASSUME NEW i \in DOMAIN chain'
               PROVE  /\ payee[chain'[i].payee] # None
                      /\ chain'[i].status \in Sent \cup {"APPROVED", "REJECTED"} =>
                           chain'[i].approver \notin
                             {None, chain'[i].maker, payee[chain'[i].payee].by}
    BY <1>2 DEF ChainInv, ApprovedByOther, Create
  <2>1. CASE i \in DOMAIN chain
    BY <1>2, <2>1, CreateAppends DEF ChainInv, ApprovedByOther
  <2>2. CASE i \notin DOMAIN chain
    <3>1. i = Last'
      BY <1>2, <2>2, CreateAppends DEF Last, TypeOK
    <3> QED  BY <1>2, <3>1, CreateAppends DEF Sent
  <2> QED  BY <2>1, <2>2
<1>3. ASSUME UNCHANGED payee, NEW s, NEW a, Rewritten(s, a),
             s \in Sent \cup {"APPROVED", "REJECTED"} =>
               a \notin {None, chain[Last].maker, payee[chain[Last].payee].by}
      PROVE  ChainInv'
  <2> SUFFICES ASSUME NEW i \in DOMAIN chain
               PROVE  /\ payee[chain'[i].payee] # None
                      /\ chain'[i].status \in Sent \cup {"APPROVED", "REJECTED"} =>
                           chain'[i].approver \notin
                             {None, chain'[i].maker, payee[chain'[i].payee].by}
    BY <1>3 DEF ChainInv, ApprovedByOther, Rewritten
  <2>1. chain'[i].payee = chain[i].payee /\ chain'[i].maker = chain[i].maker
    BY <1>3 DEF Rewritten
  <2>2. CASE i = Last
    BY <1>3, <2>1, <2>2 DEF Rewritten, ChainInv
  <2>3. CASE i # Last
    BY <1>3, <2>3 DEF Rewritten, ChainInv, ApprovedByOther
  <2> QED  BY <2>2, <2>3
<1>4. ASSUME chain # <<>>, chain[Last].status \in Sent \cup {"APPROVED"}
      PROVE  chain[Last].approver \notin {None, chain[Last].maker, payee[chain[Last].payee].by}
  BY <1>4, LastThere DEF ChainInv, ApprovedByOther
<1>5. CASE Approve
  <2>1. tx.by \notin {None, chain[Last].maker, payee[chain[Last].payee].by}
    BY <1>5, NoneAssumption DEF Approve, ActInv, TypeOK, Act
  <2> QED  BY <1>3, <1>5, <2>1, ApproveRestates DEF Restated
<1>6. CASE Submit
  <2>1. chain # <<>> /\ chain[Last].status = "APPROVED"
    BY <1>6 DEF Submit, ActInv
  <2> QED  BY <1>3, <1>4, <1>6, <2>1, SubmitAppends DEF Submit
<1>7. ASSUME NEW to \in RemittanceStatus, RecordStatus(to) PROVE ChainInv'
  <2>1. chain # <<>> /\ chain[Last].status \in Sent
    BY <1>7 DEF RecordStatus
  <2> QED  BY <1>3, <1>4, <1>7, <2>1, RecordRestates DEF Restated
<1>8. ASSUME NEW to \in RemittanceStatus, ResolveRemittance(to) PROVE ChainInv'
  <2>1. chain # <<>> /\ chain[Last].status \in Sent
    BY <1>8 DEF ResolveRemittance, Sent
  <2>2. CASE to = "APPROVAL_REQUIRED"
    <3>1. Restated(to, None)
      BY <1>8, <2>2, ResolveRestates
    <3> QED  BY <1>3, <2>2, <3>1 DEF Restated, Sent
  <2>3. CASE to # "APPROVAL_REQUIRED"
    <3>1. Restated(to, chain[Last].approver)
      BY <1>8, <2>3, ResolveRestates
    <3> QED  BY <1>3, <1>4, <2>1, <3>1 DEF Restated
  <2> QED  BY <2>2, <2>3
<1>9. CASE ReturnRemittance
  <2>1. chain # <<>> /\ chain[Last].status \in Sent
    BY <1>9 DEF ReturnRemittance, Sent
  <2> QED  BY <1>3, <1>4, <1>9, <2>1, ReturnRestates DEF Restated
<1>10. CASE CancelRemittance
  BY <1>3, <1>10, CancelRestates DEF Restated, Sent
<1>11. CASE Others
  BY <1>1, <1>11, Moves DEF TypeOK
<1> QED
  BY <1>1, <1>2, <1>5, <1>6, <1>7, <1>8, <1>9, <1>10, <1>11
     DEF Next, CreateBeneficiary, VerifyBeneficiary, SuspendBeneficiary, CreateBegin,
         ApproveBegin, SubmitBegin, ReadDue, ReadLiability, GiveUp, Provider, vars

LEMMA MoneyStep == PaymentInv /\ [Next]_vars => MoneyInv'
<1> SUFFICES ASSUME PaymentInv, [Next]_vars PROVE MoneyInv'
  OBVIOUS
<1>k. Kept
  BY PayeeStep
<1> USE DEF PaymentInv
<1>p. ASSUME NEW k \in DOMAIN payments
      PROVE  /\ payments[k].of \in DOMAIN chain
             /\ chain[payments[k].of].payee \in Payee
             /\ Verified(chain[payments[k].of].payee)
             /\ payee'[chain[payments[k].of].payee] # None
             /\ payee'[chain[payments[k].of].payee].verifier \notin
                  {None, payee'[chain[payments[k].of].payee].by}
  <2>1. payments[k].of \in DOMAIN chain /\ Verified(chain[payments[k].of].payee)
    BY DEF MoneyInv
  <2>2. chain[payments[k].of].payee \in Payee
    BY <2>1, Recorded
  <2> QED  BY <1>k, <2>1, <2>2 DEF Kept, Verified
<1>1. CASE UNCHANGED <<chain, payments>>
  BY <1>1, <1>p DEF MoneyInv, Verified, Last, Money
<1>2. CASE Create
  <2>1. ~(payments # <<>> /\ Money \in InFlight)
    BY <1>2 DEF Create, ActInv, MoneyInv, Terminal, Sent
  <2>2. /\ payments' = payments /\ Money' = Money /\ payee' = payee
        /\ DOMAIN chain \subseteq DOMAIN chain'
        /\ \A i \in DOMAIN chain : chain'[i] = chain[i]
        /\ chain'[Last'].status \notin Sent
    <3>1. payments' = payments /\ Money' = Money /\ payee' = payee
      BY <1>2 DEF Create, Money
    <3>2. Len(chain) \in Nat
      BY DEF TypeOK
    <3>3. DOMAIN chain \subseteq DOMAIN chain'
      BY <1>2, <3>2, CreateAppends
    <3>4. /\ \A i \in DOMAIN chain : chain'[i] = chain[i]
          /\ chain'[Last'].status = "APPROVAL_REQUIRED"
      BY <1>2, CreateAppends
    <3> QED  BY <3>1, <3>3, <3>4 DEF Sent
  <2> QED  BY <1>p, <2>1, <2>2 DEF MoneyInv, Verified
<1>3. CASE Submit
  <2>1. chain # <<>> /\ chain[Last].status = "APPROVED" /\ Verified(chain[Last].payee)
    BY <1>3 DEF Submit, ActInv
  <2>2. ~(payments # <<>> /\ Money \in InFlight)
    BY <2>1 DEF MoneyInv, Sent
  <2>3. payments \in Seq(Submission)
    BY DEF TypeOK, Submission
  <2>4. \A k \in DOMAIN payments : payments[k].at \notin InFlight
    BY <2>2, <2>3 DEF MoneyInv, Money
  <2>5. Rewritten("SUBMITTED", chain[Last].approver) /\ payee' = payee
    BY <1>3, SubmitAppends DEF Submit
  <2>6. \A k \in DOMAIN payments' :
          payments'[k] = IF k = Len(payments') THEN [of |-> Last, at |-> "transit"]
                                               ELSE payments[k]
    <3> SUFFICES ASSUME NEW k \in DOMAIN payments'
                 PROVE  payments'[k] = IF k = Len(payments') THEN [of |-> Last, at |-> "transit"]
                                                             ELSE payments[k]
      OBVIOUS
    <3>1. k # Len(payments') => k \in DOMAIN payments
      BY <1>3, <2>3, SubmitAppends
    <3> QED  BY <1>3, <3>1, SubmitAppends
  <2>7. \A k \in DOMAIN payments' : k # Len(payments') => k \in DOMAIN payments
    BY <1>3, <2>3, SubmitAppends
  <2>8. payments' # <<>> /\ Len(payments') \in DOMAIN payments'
    BY <1>3, <2>3, SubmitAppends
  <2>9. \A i \in DOMAIN chain : chain'[i].payee = chain[i].payee
    BY <2>5 DEF Rewritten
  <2>10. ASSUME NEW k \in DOMAIN payments'
        PROVE  payments'[k].of \in DOMAIN chain /\ Verified(chain[payments'[k].of].payee)
    <3>1. CASE k = Len(payments')
      BY <2>1, <2>5, <2>6, <3>1 DEF Rewritten
    <3>2. CASE k # Len(payments')
      BY <1>p, <2>6, <2>7, <3>2
    <3> QED  BY <3>1, <3>2
  <2>11. \A k \in DOMAIN payments' : payments'[k].of \in DOMAIN chain'
    BY <2>5, <2>10 DEF Rewritten
  <2>12. \A k \in DOMAIN payments' : Verified(chain[payments[k].of].payee)'
    BY <2>5, <2>9, <2>10 DEF Verified
  <2>13. \A k \in DOMAIN payments' : k # Len(payments') => payments'[k].at \notin InFlight
    BY <2>4, <2>6, <2>7
  <2>14. chain' # <<>> /\ chain'[Last'].status = "SUBMITTED"
         /\ payments'[Len(payments')].of = Last'
    BY <2>5, <2>6, <2>8 DEF Rewritten
  <2> QED  BY <2>8, <2>11, <2>12, <2>13, <2>14 DEF MoneyInv, Sent
<1>4. ASSUME UNCHANGED payments, UNCHANGED payee, NEW s, NEW a, Rewritten(s, a),
             payments # <<>> /\ Money \in InFlight => s \in Sent \ {"RETURNED"},
             s \in Sent => chain[Last].status \in Sent
      PROVE  MoneyInv'
  <2>1. /\ \A i \in DOMAIN chain : chain'[i].payee = chain[i].payee
        /\ DOMAIN chain' = DOMAIN chain /\ Last' = Last /\ Money' = Money
        /\ chain # <<>> /\ chain' # <<>> /\ chain'[Last'].status = s
    BY <1>4 DEF Rewritten, Money
  <2>2. \A k \in DOMAIN payments : Verified(chain[payments[k].of].payee)'
    BY <1>4, <1>p, <2>1 DEF Verified
  <2> QED  BY <1>4, <2>1, <2>2 DEF MoneyInv
<1>5. CASE Approve
  <2>1. chain # <<>> /\ chain[Last].status = "APPROVAL_REQUIRED"
    BY <1>5 DEF Approve, ActInv
  <2>2. ~(payments # <<>> /\ Money \in InFlight)
    BY <2>1 DEF MoneyInv, Sent
  <2> QED  BY <1>4, <1>5, <2>2, ApproveRestates DEF Restated, Sent
<1>6. ASSUME NEW to \in RemittanceStatus, RecordStatus(to) PROVE MoneyInv'
  <2>1. chain[Last].status \in Sent /\ to \in Reports(Money)
    BY <1>6 DEF RecordStatus
  <2>2. Money \in InFlight => to \in Sent \ {"RETURNED"}
    BY <2>1 DEF Reports, Sent, InFlight
  <2> QED  BY <1>4, <1>6, <2>1, <2>2, RecordRestates DEF Restated
<1>7. ASSUME NEW to \in RemittanceStatus, ResolveRemittance(to) PROVE MoneyInv'
  <2>1. chain[Last].status \in Sent /\ to \in Established(Money)
    BY <1>7 DEF ResolveRemittance, Sent
  <2>2. Money \in InFlight => to \in Sent \ {"RETURNED"}
    BY <2>1 DEF Established, Sent, InFlight
  <2> QED  BY <1>4, <1>7, <2>1, <2>2, ResolveRestates DEF Restated
<1>8. CASE ReturnRemittance
  <2>1. Money \notin InFlight /\ chain[Last].status \in Sent
    BY <1>8 DEF ReturnRemittance, InFlight, Sent
  <2> QED  BY <1>4, <1>8, <2>1, ReturnRestates DEF Restated
<1>9. CASE CancelRemittance
  <2>1. ~(payments # <<>> /\ Money \in InFlight)
    BY <1>9, CancelRestates DEF MoneyInv, Sent
  <2> QED  BY <1>4, <1>9, <2>1, CancelRestates DEF Restated, Sent
<1>10. ASSUME NEW to \in Whereabouts, Provider(to) PROVE MoneyInv'
  <2>1. UNCHANGED <<chain, payee>> /\ Last' = Last /\ payments # <<>> /\ payments' # <<>>
    BY <1>10, ProviderMoves DEF Provider, Last
  <2>2. /\ DOMAIN payments' = DOMAIN payments /\ Len(payments') = Len(payments)
        /\ Len(payments) \in DOMAIN payments
        /\ \A k \in DOMAIN payments : payments'[k].of = payments[k].of
        /\ \A k \in DOMAIN payments : k # Len(payments) => payments'[k] = payments[k]
        /\ Money' = to
    BY <1>10, ProviderMoves DEF Money
  <2>3. to \in InFlight => Money \in InFlight
    BY <1>10 DEF Provider, InFlight
  <2>4. \A k \in DOMAIN payments' : Verified(chain[payments[k].of].payee)'
    BY <1>p, <2>1, <2>2 DEF Verified
  <2> QED  BY <2>1, <2>2, <2>3, <2>4 DEF MoneyInv
<1>11. CASE Others
  BY <1>1, <1>11, Moves DEF TypeOK
<1> QED
  BY <1>1, <1>2, <1>3, <1>5, <1>6, <1>7, <1>8, <1>9, <1>10, <1>11
     DEF Next, CreateBeneficiary, VerifyBeneficiary, SuspendBeneficiary, CreateBegin,
         ApproveBegin, SubmitBegin, ReadDue, ReadLiability, GiveUp, vars

LEMMA PaymentAlways == Spec => []PaymentInv
<1>1. PaymentInv /\ [Next]_vars => PaymentInv'
  BY TypeStep, PayeeStep, ActStep, ChainStep, MoneyStep DEF PaymentInv
<1> QED  BY <1>1, TypeInit, PTL DEF Spec

(* Every variable of a payment keeps its type (Payment.TypeOK): neither    *)
(* instructions nor submissions outgrow their bounds, and an amount        *)
(* instructed is one that leaves something to pay.                         *)
THEOREM TypeCorrect == Spec => []TypeOK
BY PaymentAlways, PTL DEF PaymentInv

(* However often a payment is lost, refused, returned or resolved and made *)
(* again, its money is on the way once (CreateRemittance, ResolveRemittance *)
(* and the payment lock of app/remittance.go).                             *)
THEOREM OnePayment == Spec => []PaidOnce
<1>1. PaymentInv => PaidOnce
  <2> SUFFICES ASSUME PaymentInv PROVE PaidOnce
    OBVIOUS
  <2> DEFINE Moving == {k \in DOMAIN payments : payments[k].at \in InFlight}
  <2>1. Moving \subseteq {Len(payments)}
    BY DEF PaymentInv, MoneyInv
  <2>2. IsFiniteSet({Len(payments)}) /\ Cardinality({Len(payments)}) = 1
    BY FS_Singleton
  <2>3. Cardinality(Moving) <= Cardinality({Len(payments)})
    BY <2>1, <2>2, FS_Subset
  <2> QED  BY <2>2, <2>3 DEF PaidOnce
<1> QED  BY <1>1, PaymentAlways, PTL

(* Behind every payment that left stand a payee entered by one person and  *)
(* verified by another, and an approver who is neither maker nor the one   *)
(* who entered the payee, whatever became of the payee since               *)
(* (VerifyBeneficiary, ApproveRemittance and SubmitRemittance).            *)
THEOREM ThreeActs == Spec => []PaidByOthers
<1>1. PaymentInv => PaidByOthers
  <2> SUFFICES ASSUME PaymentInv, NEW k \in DOMAIN payments
               PROVE  LET r == chain[payments[k].of]
                          p == payee[r.payee]
                      IN  /\ p # None /\ p.verifier \notin {None, p.by}
                          /\ r.status \in Sent \cup {"REJECTED"} =>
                               r.approver \notin {None, r.maker, p.by}
    BY DEF PaidByOthers
  <2>1. payments[k].of \in DOMAIN chain /\ Verified(chain[payments[k].of].payee)
    BY DEF PaymentInv, MoneyInv
  <2> QED  BY <2>1 DEF PaymentInv, ChainInv, ApprovedByOther, Verified
<1> QED  BY <1>1, PaymentAlways, PTL

\* The submission k has settled, and its instruction records it.
SettledBy(k) ==
  /\ payments[k].at \in {"settled", "returned"}
  /\ chain[payments[k].of].status \in {"SETTLED", "RETURNED"}

LEMMA PaidStep == PaymentInv /\ PaidBySettlement /\ [Next]_vars => PaidBySettlement'
<1> SUFFICES ASSUME PaymentInv, PaidBySettlement, [Next]_vars, status' = "PAID"
             PROVE  \E k \in DOMAIN payments' : SettledBy(k)'
  BY DEF PaidBySettlement, SettledBy
<1> USE DEF PaymentInv
<1>1. ASSUME status = "PAID"
      PROVE  \E k \in DOMAIN payments : SettledBy(k) /\ payments[k].of \in DOMAIN chain
  BY <1>1 DEF PaidBySettlement, SettledBy, MoneyInv
<1>2. ASSUME status = "PAID", UNCHANGED payments, NEW s, NEW a, Rewritten(s, a),
             chain[Last].status \in {"SETTLED", "RETURNED"} => s \in {"SETTLED", "RETURNED"}
      PROVE  \E k \in DOMAIN payments' : SettledBy(k)'
  <2>1. PICK k \in DOMAIN payments : SettledBy(k) /\ payments[k].of \in DOMAIN chain
    BY <1>1, <1>2
  <2>2. chain'[payments[k].of].status \in {"SETTLED", "RETURNED"}
    BY <1>2, <2>1 DEF Rewritten, SettledBy
  <2> QED  BY <1>2, <2>1, <2>2 DEF SettledBy
<1>3. CASE status = "PAID" /\ UNCHANGED <<chain, payments>>
  BY <1>1, <1>3 DEF SettledBy
<1>4. CASE Create
  <2>1. status = "PAID"
    BY <1>4 DEF Create, AdvancePayment, Advance, AppendRow, Stays, obligation
  <2>2. PICK k \in DOMAIN payments : SettledBy(k) /\ payments[k].of \in DOMAIN chain
    BY <1>1, <2>1
  <2>3. chain'[payments[k].of] = chain[payments[k].of] /\ payments' = payments
    BY <1>4, <2>2, CreateAppends DEF Create
  <2> QED  BY <2>2, <2>3 DEF SettledBy
<1>5. CASE Approve
  <2>1. status = "PAID" /\ chain[Last].status = "APPROVAL_REQUIRED"
    BY <1>5 DEF Approve, ActInv, obligation
  <2> QED  BY <1>2, <1>5, <2>1, ApproveRestates DEF Restated
<1>6. CASE Submit
  <2>1. status = "PAID" /\ chain[Last].status = "APPROVED"
    BY <1>6 DEF Submit, ActInv, obligation
  <2>2. PICK k \in DOMAIN payments : SettledBy(k) /\ payments[k].of \in DOMAIN chain
    BY <1>1, <2>1
  <2>3. payments[k].of # Last
    BY <2>1, <2>2 DEF SettledBy
  <2>4. chain'[payments[k].of] = chain[payments[k].of]
    BY <1>6, <2>2, <2>3, SubmitAppends DEF Rewritten
  <2>5. k \in DOMAIN payments' /\ payments'[k] = payments[k]
    <3>1. Len(payments) \in Nat
      BY DEF TypeOK
    <3> QED  BY <1>6, <3>1, SubmitAppends
  <2> QED  BY <2>2, <2>4, <2>5 DEF SettledBy
<1>7. ASSUME NEW to \in RemittanceStatus, RecordStatus(to) \/ ResolveRemittance(to)
      PROVE  \E k \in DOMAIN payments' : SettledBy(k)'
  <2>1. PICK a : Restated(to, a)
    BY <1>7, RecordRestates, ResolveRestates
  <2>2. chain # <<>> /\ chain[Last].status \in Sent /\ Settle(to)
        /\ to \in Reports(Money) \cup Established(Money)
    BY <1>7 DEF RecordStatus, ResolveRemittance, Sent
  <2>3. CASE to = "SETTLED"
    <3>1. Money \in {"settled", "returned"}
      BY <2>2, <2>3 DEF Reports, Established
    <3>2. payments # <<>> /\ payments[Len(payments)].of = Last
      BY <2>2 DEF MoneyInv
    <3>3. Len(payments) \in DOMAIN payments
      BY <3>2 DEF TypeOK
    <3>4. chain'[Last].status = "SETTLED" /\ payments' = payments
      BY <2>1, <2>3 DEF Restated, Rewritten
    <3> QED  BY <3>1, <3>2, <3>3, <3>4 DEF SettledBy, Money
  <2>4. CASE to # "SETTLED"
    <3>1. status = "PAID"
      BY <2>2, <2>4 DEF Settle, Pays, obligation
    <3>2. chain[Last].status \notin {"SETTLED", "RETURNED"}
      BY <1>7, <2>4
         DEF RecordStatus, ResolveRemittance, RemittanceSuccessors, Reports, Sent
    <3> QED  BY <1>2, <2>1, <3>1, <3>2 DEF Restated
  <2> QED  BY <2>3, <2>4
<1>8. CASE ReturnRemittance
  <2>1. status = "PAID"
    BY <1>8 DEF ReturnRemittance, obligation
  <2> QED  BY <1>2, <1>8, <2>1, ReturnRestates DEF Restated
<1>9. CASE CancelRemittance
  <2>1. status = "PAID"
    BY <1>9 DEF CancelRemittance, obligation
  <2> QED  BY <1>2, <1>9, <2>1, CancelRestates DEF Restated
<1>10. ASSUME NEW to \in Whereabouts, Provider(to)
       PROVE  \E k \in DOMAIN payments' : SettledBy(k)'
  <2>1. status = "PAID" /\ chain' = chain
    BY <1>10 DEF Provider, obligation
  <2>2. PICK k \in DOMAIN payments : SettledBy(k)
    BY <1>1, <2>1
  <2>3. CASE k = Len(payments)
    <3>1. to \in {"settled", "returned"}
      BY <1>10, <2>2, <2>3 DEF Provider, Money, SettledBy
    <3> QED  BY <1>10, <2>1, <2>2, <2>3, <3>1, ProviderMoves DEF SettledBy
  <2>4. CASE k # Len(payments)
    BY <1>10, <2>1, <2>2, <2>4, ProviderMoves DEF SettledBy
  <2> QED  BY <2>3, <2>4
<1>11. CASE Others
  <2>1. UNCHANGED <<chain, payments>>
    BY <1>11, Moves DEF TypeOK
  <2>2. status = "PAID"
    BY <1>11 DEF Others, ObligationNext, Assess, View, Move, AppendRow, ManualTargets,
                 AdvanceFiling, Advance, Stays, FilingStatuses
  <2> QED  BY <1>3, <2>1, <2>2
<1> QED
  BY <1>3, <1>4, <1>5, <1>6, <1>7, <1>8, <1>9, <1>10, <1>11
     DEF Next, CreateBeneficiary, VerifyBeneficiary, SuspendBeneficiary, CreateBegin,
         ApproveBegin, SubmitBegin, ReadDue, ReadLiability, GiveUp, vars, obligation

(* Nothing but a settlement makes the obligation PAID (settle of           *)
(* app/remittance.go): not an acceptance, not a person, not a decision.    *)
THEOREM SettledFirst == Spec => []PaidBySettlement
<1>1. Init => PaidBySettlement
  BY NoneAssumption DEF Init, ObligationInit, PaidBySettlement, Status
<1> QED  BY <1>1, PaidStep, PaymentAlways, PTL DEF Spec
================================================================================
