-------------------------------- MODULE Payment --------------------------------
(***************************************************************************)
(* Payees and the payment of one accepted obligation                       *)
(* (internal/app/remittance.go, internal/domain/remittance), beside the    *)
(* obligation it pays and the provider that moves the money.               *)
(*                                                                         *)
(* Payment acts hold the obligation's payment lock, payee acts the         *)
(* "beneficiaries" lock, and obligation moves the obligation's own: a      *)
(* payment act reads payee and obligation in statements of their own, and  *)
(* both may change between them.                                           *)
(***************************************************************************)
EXTENDS Obligation, Sequences, FiniteSets

CONSTANTS
  Payee,            \* payee versions of one authority
  Positive,         \* the figures that leave something to pay
  MaxInstructions,  \* bound: instructions for the obligation
  MaxPayments       \* bound: submissions to the provider

ASSUME PositiveAssumption == Positive \subseteq Figure
ASSUME BoundAssumption == MaxInstructions \in Nat /\ MaxPayments \in Nat

PayeeState == {"UNVERIFIED", "CHANGE_PENDING", "VERIFIED", "SUSPENDED", "SUPERSEDED"}

RemittanceStatus == {"APPROVAL_REQUIRED", "APPROVED", "SUBMITTED",
  "ACCEPTED_BY_PROVIDER", "PROCESSING", "UNCERTAIN_PAYMENT", "SETTLED",
  "REJECTED", "RETURNED", "CANCELLED"}
RemittanceSuccessors(s) ==
  CASE s = "APPROVAL_REQUIRED"    -> {"APPROVED", "CANCELLED"}
    [] s = "APPROVED"             -> {"SUBMITTED", "CANCELLED"}
    [] s = "SUBMITTED"            -> {"ACCEPTED_BY_PROVIDER", "PROCESSING", "SETTLED",
                                      "REJECTED", "UNCERTAIN_PAYMENT"}
    [] s \in {"ACCEPTED_BY_PROVIDER", "PROCESSING"} ->
         {"PROCESSING", "SETTLED", "REJECTED", "UNCERTAIN_PAYMENT"}
    [] s = "UNCERTAIN_PAYMENT"    -> {"UNCERTAIN_PAYMENT", "SETTLED",
                                      "APPROVAL_REQUIRED", "REJECTED", "RETURNED"}
    [] s = "SETTLED"              -> {"RETURNED"}
    [] OTHER                      -> {}
\* Mutant: a payment of unknown outcome is over.
TerminalUncertain == {"REJECTED", "RETURNED", "CANCELLED", "UNCERTAIN_PAYMENT"}
Terminal == {"REJECTED", "RETURNED", "CANCELLED"}
Sent == {"SUBMITTED", "ACCEPTED_BY_PROVIDER", "PROCESSING", "UNCERTAIN_PAYMENT",
         "SETTLED", "RETURNED"}

\* Where the money of a submission really is.
Whereabouts == {"transit", "lost", "processing", "settled", "rejected", "returned"}
InFlight == {"transit", "processing", "settled"}

VARIABLES
  payee,     \* each payee version recorded: its state, who entered and verified
             \* it, and the version it replaces
  chain,     \* the obligation's instructions, in order
  payments,  \* the submissions, in order: whose, and where the money is
  tx         \* the payment act between its statements, or None

vars == <<obligation, payee, chain, payments, tx>>

PayeeRecord ==
  [state : PayeeState, by : User, verifier : User \cup {None},
   supersedes : Payee \cup {None}]
Instruction ==
  [maker : Operator, payee : Payee, amount : Positive, status : RemittanceStatus,
   approver : User \cup {None}]
Act == [op : {"Create", "Approve", "Submit"}, by : User, payee : Payee,
        due : BOOLEAN, amount : Figure \cup {None}]

ASSUME PayeeAssumption == None \notin Payee /\ None \notin PayeeRecord

TypeOK ==
  /\ ObligationTypeOK
  /\ payee \in [Payee -> PayeeRecord \cup {None}]
  /\ chain \in Seq(Instruction) /\ Len(chain) <= MaxInstructions
  /\ payments \in Seq([of : 1..MaxInstructions, at : Whereabouts])
  /\ Len(payments) <= MaxPayments
  /\ tx \in Act \cup {None}

Init ==
  /\ ObligationInit
  /\ payee = [p \in Payee |-> None]
  /\ chain = <<>>
  /\ payments = <<>>
  /\ tx = None

(***************************************************************************)
(* Payee versions.  All three acts take the beneficiaries lock.            *)
(***************************************************************************)
CreateBeneficiary(p, u, old) ==
  /\ payee[p] = None
  /\ old # None => payee[old] # None /\ payee[old].state # "SUPERSEDED"
  /\ payee' = [payee EXCEPT ![p] =
       [state |-> IF old = None THEN "UNVERIFIED" ELSE "CHANGE_PENDING",
        by |-> u, verifier |-> None, supersedes |-> old]]
  /\ UNCHANGED <<obligation, chain, payments, tx>>

\* The version it replaces is superseded in the same act.
VerifyBeneficiary(p, u) ==
  /\ payee[p] # None /\ payee[p].state \in {"UNVERIFIED", "CHANGE_PENDING"}
  /\ u # payee[p].by
  /\ payee' = [q \in Payee |->
       IF q = p THEN [payee[p] EXCEPT !.state = "VERIFIED", !.verifier = u]
       ELSE IF q = payee[p].supersedes THEN [payee[q] EXCEPT !.state = "SUPERSEDED"]
       ELSE payee[q]]
  /\ UNCHANGED <<obligation, chain, payments, tx>>

SuspendBeneficiary(p) ==
  /\ payee[p] # None /\ payee[p].state \notin {"SUSPENDED", "SUPERSEDED"}
  /\ payee' = [payee EXCEPT ![p].state = "SUSPENDED"]
  /\ UNCHANGED <<obligation, chain, payments, tx>>

\* Mutant: a payee nobody has verified is payable.
PayableUnverified(p) == payee[p] # None /\ payee[p].state \in {"UNVERIFIED", "VERIFIED"}

Payable(p) == payee[p] # None /\ payee[p].state = "VERIFIED"

(***************************************************************************)
(* Instructions.  An act begins by taking the payment lock and making its  *)
(* first reads; ReadLiability is its last read, and the third step writes. *)
(***************************************************************************)
Last == Len(chain)

\* A live instruction is returned instead of a new one being made.
CreateBegin(u, p) ==
  /\ tx = None
  /\ chain # <<>> => chain[Last].status \in Terminal
  /\ Len(chain) < MaxInstructions
  /\ status \in {"ACCEPTED", "PAYMENT_DUE"}
  /\ tx' = [op |-> "Create", by |-> u, payee |-> p, due |-> status = "PAYMENT_DUE",
            amount |-> None]
  /\ UNCHANGED <<obligation, payee, chain, payments>>

\* Someone who neither made the instruction nor entered the payee.
ApproveBegin(u) ==
  /\ tx = None
  /\ chain # <<>> /\ chain[Last].status = "APPROVAL_REQUIRED"
  /\ Payable(chain[Last].payee)
  /\ u \notin {chain[Last].maker, payee[chain[Last].payee].by}
  /\ tx' = [op |-> "Approve", by |-> u, payee |-> chain[Last].payee, due |-> FALSE,
            amount |-> chain[Last].amount]
  /\ UNCHANGED <<obligation, payee, chain, payments>>

\* Revalidation reads the payee first.
SubmitBegin(u) ==
  /\ tx = None
  /\ chain # <<>> /\ chain[Last].status = "APPROVED" /\ chain[Last].approver # None
  /\ Len(payments) < MaxPayments
  /\ Payable(chain[Last].payee)
  /\ tx' = [op |-> "Submit", by |-> u, payee |-> chain[Last].payee, due |-> FALSE,
            amount |-> None]
  /\ UNCHANGED <<obligation, payee, chain, payments>>

ReadDue ==
  /\ tx # None /\ tx.op = "Submit" /\ ~tx.due
  /\ status = "PAYMENT_DUE"
  /\ tx' = [tx EXCEPT !.due = TRUE]
  /\ UNCHANGED <<obligation, payee, chain, payments>>

ReadLiability ==
  /\ tx # None /\ tx.amount = None
  /\ \/ tx.op = "Create" /\ sum \in Positive
     \/ tx.op = "Submit" /\ tx.due /\ sum = chain[Last].amount
  /\ tx' = [tx EXCEPT !.amount = sum]
  /\ UNCHANGED <<obligation, payee, chain, payments>>

\* A check fails, or a statement does.
GiveUp ==
  /\ tx # None
  /\ tx' = None
  /\ UNCHANGED <<obligation, payee, chain, payments>>

\* An obligation read as ACCEPTED becomes payment-due in the same transaction,
\* which fails when a decision has moved it since.
Create ==
  /\ tx # None /\ tx.op = "Create" /\ tx.amount # None
  /\ payee[tx.payee] # None /\ payee[tx.payee].state # "SUPERSEDED"
  /\ chain' = Append(chain, [maker |-> tx.by, payee |-> tx.payee, amount |-> tx.amount,
                             status |-> "APPROVAL_REQUIRED", approver |-> None])
  /\ IF tx.due THEN UNCHANGED obligation ELSE AdvancePayment("PAYMENT_DUE")
  /\ tx' = None
  /\ UNCHANGED <<payee, payments>>

Approve ==
  /\ tx # None /\ tx.op = "Approve"
  /\ chain' = [chain EXCEPT ![Last].status = "APPROVED", ![Last].approver = tx.by]
  /\ tx' = None
  /\ UNCHANGED <<obligation, payee, payments>>

Submit ==
  /\ tx # None /\ tx.op = "Submit" /\ tx.amount # None
  /\ chain' = [chain EXCEPT ![Last].status = "SUBMITTED"]
  /\ payments' = Append(payments, [of |-> Last, at |-> "transit"])
  /\ tx' = None
  /\ UNCHANGED <<obligation, payee>>

\* Mutant: the provider's acceptance pays the obligation.
PaysOnAcceptance(to) == to \in {"ACCEPTED_BY_PROVIDER", "SETTLED"}

\* Only settlement pays the obligation.
Pays(to) == to = "SETTLED"

\* The step and the obligation's move are one transaction.
Settle(to) ==
  IF Pays(to) THEN AdvancePayment("PAID") ELSE UNCHANGED obligation

\* What the provider may truthfully report of money that is at w.
Reports(w) ==
  {"UNCERTAIN_PAYMENT"}
    \cup (IF w \in {"processing", "settled", "rejected", "returned"}
          THEN {"ACCEPTED_BY_PROVIDER", "PROCESSING"} ELSE {})
    \cup (IF w \in {"settled", "returned"} THEN {"SETTLED"} ELSE {})
    \cup (IF w = "rejected" THEN {"REJECTED"} ELSE {})

Money == payments[Len(payments)].at

RecordStatus(to) ==
  /\ tx = None
  /\ chain # <<>> /\ chain[Last].status \in Sent \ {"UNCERTAIN_PAYMENT"}
  /\ to \in RemittanceSuccessors(chain[Last].status) \cap Reports(Money)
  /\ chain' = [chain EXCEPT ![Last].status = to]
  /\ Settle(to)
  /\ UNCHANGED <<payee, payments, tx>>

\* What a person can have established of money that is at w.  A payment that
\* was not sent needs a new approval.
Established(w) ==
  (IF w \in {"settled", "returned"} THEN {"SETTLED"} ELSE {})
    \cup (IF w = "returned" THEN {"RETURNED"} ELSE {})
    \cup (IF w = "rejected" THEN {"REJECTED"} ELSE {})
    \cup (IF w = "lost" THEN {"APPROVAL_REQUIRED"} ELSE {})

ResolveRemittance(to) ==
  /\ tx = None
  /\ chain # <<>> /\ chain[Last].status = "UNCERTAIN_PAYMENT"
  /\ to \in Established(Money)
  /\ chain' = [chain EXCEPT ![Last].status = to,
                            ![Last].approver = IF to = "APPROVAL_REQUIRED" THEN None ELSE @]
  /\ Settle(to)
  /\ UNCHANGED <<payee, payments, tx>>

\* Value came back after settlement; the obligation is not un-paid by it.
ReturnRemittance ==
  /\ tx = None
  /\ chain # <<>> /\ chain[Last].status = "SETTLED"
  /\ Money = "returned"
  /\ chain' = [chain EXCEPT ![Last].status = "RETURNED"]
  /\ UNCHANGED <<obligation, payee, payments, tx>>

CancelRemittance ==
  /\ tx = None
  /\ chain # <<>> /\ "CANCELLED" \in RemittanceSuccessors(chain[Last].status)
  /\ chain' = [chain EXCEPT ![Last].status = "CANCELLED"]
  /\ UNCHANGED <<obligation, payee, payments, tx>>

(***************************************************************************)
(* The provider, and the filing boundary with the users and decisions that *)
(* move the obligation beside the payments.                                *)
(***************************************************************************)
Provider(to) ==
  /\ payments # <<>>
  /\ \/ Money = "transit" /\ to \in {"lost", "processing"}
     \/ Money = "processing" /\ to \in {"settled", "rejected"}
     \/ Money = "settled" /\ to = "returned"
  /\ payments' = [payments EXCEPT ![Len(payments)].at = to]
  /\ UNCHANGED <<obligation, payee, chain, tx>>

Others ==
  /\ ObligationNext \/ \E to \in FilingStatuses \ {"READY"} : AdvanceFiling(to)
  /\ UNCHANGED <<payee, chain, payments, tx>>

Next ==
  \/ \E p \in Payee, u \in User, old \in Payee \cup {None} : CreateBeneficiary(p, u, old)
  \/ \E p \in Payee, u \in User : VerifyBeneficiary(p, u)
  \/ \E p \in Payee : SuspendBeneficiary(p)
  \/ \E u \in Operator, p \in Payee : CreateBegin(u, p)
  \/ \E u \in User : ApproveBegin(u)
  \/ \E u \in Operator : SubmitBegin(u)
  \/ ReadDue \/ ReadLiability \/ GiveUp \/ Create \/ Approve \/ Submit
  \/ \E to \in RemittanceStatus : RecordStatus(to) \/ ResolveRemittance(to)
  \/ ReturnRemittance \/ CancelRemittance
  \/ \E to \in Whereabouts : Provider(to)
  \/ Others

Spec == Init /\ [][Next]_vars

(***************************************************************************)
(* Properties                                                              *)
(***************************************************************************)

\* Whatever is lost, late, uncertain, refused or sent back, there is never
\* money of one obligation on the way to, or with, the authority twice
\* (CreateRemittance's idempotence, the resolutions and the payment lock).
PaidOnce ==
  Cardinality({k \in DOMAIN payments : payments[k].at \in InFlight}) <= 1

\* A payment that left had three acts of people behind it that no one person
\* could all perform: the payee was entered by one and verified by another,
\* and the approver neither entered the payee nor made the instruction.
PaidByOthers ==
  \A k \in DOMAIN payments :
    LET r == chain[payments[k].of]
        p == payee[r.payee]
    IN  /\ p # None /\ p.verifier \notin {None, p.by}
        /\ r.status \in Sent \cup {"REJECTED"} => r.approver \notin {None, r.maker, p.by}

\* The obligation is PAID only by money that settled, under an instruction
\* that records it (settle; acceptance or a debit is not settlement).
PaidBySettlement ==
  status = "PAID" =>
    \E k \in DOMAIN payments :
      /\ payments[k].at \in {"settled", "returned"}
      /\ chain[payments[k].of].status \in {"SETTLED", "RETURNED"}

================================================================================
