------------------------------- MODULE Documents -------------------------------
(***************************************************************************)
(* Fiscal documents (internal/app/documents.go, internal/domain/document): *)
(* invoices that present what decisions decided, and the voids, credit     *)
(* notes and rebills that follow them.                                     *)
(*                                                                         *)
(* A document is never changed: a correction is appended, with a status    *)
(* event on the document it corrects.  A billing call locks each decision  *)
(* it bills, in the order of their ids; a correction first locks the chain *)
(* it corrects; a correction of the decision itself takes neither lock.    *)
(* Debit notes and adjustments are issued as invoices are.                 *)
(***************************************************************************)
EXTENDS Integers, SequencesExt

CONSTANTS
  Proc,        \* calls in flight
  Decision,    \* numbers, in the order of the decisions' ids
  DecisionTax, \* what each decision decided
  Draft,       \* what callers present: sequences of lines
  MaxDocs,     \* bound: documents
  Absent

ASSUME DecisionAssumption == Decision \subseteq Nat /\ DecisionTax \in [Decision -> Int]
ASSUME DraftAssumption ==
  \A d \in Draft : d # <<>> /\ d \in Seq([decision : Decision, amount : Int])
ASSUME BoundAssumption == MaxDocs \in Nat

Type == {"INVOICE", "VOID", "CREDIT_NOTE", "REBILL"}
Bills(type) == type \in {"INVOICE", "REBILL"}
DocStatus == {"COMMITTED", "PARTIALLY_CREDITED", "FULLY_CREDITED", "VOIDED"}

VARIABLES
  docs,        \* the documents committed: type, root of the chain, status
               \* events, and lines with the line of an earlier one each cancels
  superseded,  \* decisions a correction has replaced
  tx           \* each call: what it asks, and what its transaction has done

documentVars == <<docs, superseded, tx>>

Line == [decision : Decision, amount : Int, cancels : (Nat \X Nat) \cup {Absent}]
Document == [type : Type, root : Nat, history : Seq(DocStatus), lines : Seq(Line)]
Request == [type : Type, of : Nat \cup {Absent}, chosen : Seq(Nat), lines : Seq(Line),
            seq : Nat, checked : SUBSET Decision]

ASSUME AbsentAssumption == Absent \notin Nat \cup (Nat \X Nat) /\ Absent \notin Request

DocumentsTypeOK ==
  /\ docs \in Seq(Document) /\ Len(docs) <= MaxDocs
  /\ superseded \subseteq Decision
  /\ tx \in [Proc -> Request \cup {Absent}]

DocumentsInit ==
  /\ docs = <<>>
  /\ superseded = {}
  /\ tx = [p \in Proc |-> Absent]

(***************************************************************************)
(* What the store answers.                                                 *)
(***************************************************************************)
StatusOf(k) == Last(docs[k].history)

\* The lines of a document that voids and credit notes have cancelled.
CancelledLines(k) ==
  {i \in DOMAIN docs[k].lines :
     \E c \in DOMAIN docs : \E j \in DOMAIN docs[c].lines :
       docs[c].lines[j].cancels = <<k, i>>}

\* The document no longer charges: its decisions may be billed again.
Releases(status) == status \in {"VOIDED", "FULLY_CREDITED"}

LinesLeft(k) == DOMAIN docs[k].lines \ CancelledLines(k)

Cites(k, d) == \E i \in DOMAIN docs[k].lines : docs[k].lines[i].decision = d
CitedBy(d) == {k \in DOMAIN docs : Cites(k, d)}

(***************************************************************************)
(* Calls.                                                                  *)
(***************************************************************************)
Active == {p \in Proc : tx[p] # Absent}
Ask(p, type, k, chosen, lines) ==
  /\ tx[p] = Absent
  /\ Len(docs) + Cardinality(Active) < MaxDocs
  /\ tx' = [tx EXCEPT ![p] = [type |-> type, of |-> k, chosen |-> chosen,
                              lines |-> lines, seq |-> 0, checked |-> {}]]
  /\ UNCHANGED <<docs, superseded>>

buildLines(draft) ==
  [i \in DOMAIN draft |-> [decision |-> draft[i].decision, amount |-> draft[i].amount,
                           cancels |-> Absent]]

Issue(p) == \E d \in Draft : Ask(p, "INVOICE", Absent, <<>>, buildLines(d))

\* Some lines of a document, each once, in any order.
Orders(k) ==
  LET lines == docs[k].lines
  IN  UNION {Injection(1..n, DOMAIN lines) : n \in 1..Len(lines)}

\* A credit note names lines, in the order its own lines take, or none.
Correct(p) ==
  \E k \in DOMAIN docs :
    \/ Ask(p, "VOID", k, <<>>, <<>>)
    \/ \E chosen \in Orders(k) \cup {<<>>} : Ask(p, "CREDIT_NOTE", k, chosen, <<>>)
    \/ \E d \in Draft : Ask(p, "REBILL", k, <<>>, buildLines(d))

(***************************************************************************)
(* A correction takes its chain's lock and reads the original again.  seq  *)
(* is the number of status events it read, and 0 before the lock.          *)
(***************************************************************************)
AwaitsChain(p) == tx[p] # Absent /\ tx[p].of # Absent /\ tx[p].seq = 0
ChainFree(p) ==
  \A q \in Active \ {p} :
    (tx[q].of # Absent /\ tx[q].seq > 0) => docs[tx[q].of].root # docs[tx[p].of].root

\* A void or a credit cancels a charge that stands; a rebill replaces one that
\* has been cancelled.
CanCorrect(p) ==
  LET k == tx[p].of
  IN  /\ Bills(docs[k].type)
      /\ IF tx[p].type = "REBILL" THEN Releases(StatusOf(k))
         ELSE StatusOf(k) \in {"COMMITTED", "PARTIALLY_CREDITED"}

\* The lines to cancel: those named, or all that are left, as the document has
\* them.  What was cancelled is not cancelled again, and nothing of what is
\* voided has been.
Chosen(p) ==
  LET k == tx[p].of
  IN  {order \in Orders(k) :
         /\ Range(order) \cap CancelledLines(k) = {}
         /\ tx[p].type = "VOID" => CancelledLines(k) = {}
         /\ IF tx[p].chosen # <<>> THEN order = tx[p].chosen
            ELSE /\ Range(order) = LinesLeft(k)
                 /\ \A i, j \in DOMAIN order : i < j => order[i] < order[j]}

\* The lines of document k in that order, each negated exactly.
Negate(k, order) ==
  [j \in DOMAIN order |-> [decision |-> docs[k].lines[order[j]].decision,
                           amount |-> -docs[k].lines[order[j]].amount,
                           cancels |-> <<k, order[j]>>]]

\* The lines a correction may have; none, when it is refused.
LinesOf(p) ==
  IF ~CanCorrect(p) THEN {}
  ELSE IF tx[p].type = "REBILL" THEN {tx[p].lines}
  ELSE {Negate(tx[p].of, order) : order \in Chosen(p)}

LockChain(p) ==
  /\ AwaitsChain(p) /\ ChainFree(p)
  /\ \/ \E lines \in LinesOf(p) :
          tx' = [tx EXCEPT ![p] =
            [@ EXCEPT !.seq = Len(docs[tx[p].of].history), !.lines = lines]]
     \/ LinesOf(p) = {} /\ tx' = [tx EXCEPT ![p] = Absent]
  /\ UNCHANGED <<docs, superseded>>

(***************************************************************************)
(* A billing call locks the decisions its lines pin, one after another,    *)
(* and checks that each may be billed.                                     *)
(***************************************************************************)
Read(p) == tx[p] # Absent /\ (tx[p].of = Absent \/ tx[p].seq > 0)
Pinned(p) == {tx[p].lines[i].decision : i \in DOMAIN tx[p].lines}
Unbilled(p) == Pinned(p) \ tx[p].checked

\* Mutant: decisions are locked in the order the lines present them.
AsPresented(p) ==
  LET first == CHOOSE i \in DOMAIN tx[p].lines :
                 /\ tx[p].lines[i].decision \in Unbilled(p)
                 /\ \A j \in 1..(i - 1) : tx[p].lines[j].decision \notin Unbilled(p)
  IN  tx[p].lines[first].decision

NextDecision(p) == CHOOSE d \in Unbilled(p) : \A e \in Unbilled(p) : d <= e

\* Mutant: the billing lock is not taken.
NeverHeld(p, d) == TRUE

DecisionFree(p, d) == \A q \in Active \ {p} : d \notin tx[q].checked

Billable(d) ==
  /\ \A k \in CitedBy(d) : Bills(docs[k].type) => Releases(StatusOf(k))
  /\ d \notin superseded

LockDecision(p) ==
  /\ Read(p) /\ Bills(tx[p].type) /\ Unbilled(p) # {}
  /\ LET d == NextDecision(p)
     IN  /\ DecisionFree(p, d)
         /\ tx' = [tx EXCEPT ![p] =
              IF Billable(d) THEN [tx[p] EXCEPT !.checked = @ \cup {d}] ELSE Absent]
  /\ UNCHANGED <<docs, superseded>>

(***************************************************************************)
(* commit.  The lines must agree with what was decided: for a bill, each   *)
(* decision's tax; for a cancellation, what the cancelled lines charged,   *)
(* of which an entry replaces the one before it with the same decision.    *)
(***************************************************************************)
Total(amount, S) == MapThenSumSet(LAMBDA x : amount[x], S)

Presented(p, d) ==
  LET lines == tx[p].lines
  IN  Total([i \in DOMAIN lines |-> lines[i].amount],
            {i \in DOMAIN lines : lines[i].decision = d})

Decided(p, d) ==
  IF Bills(tx[p].type) THEN DecisionTax[d]
  ELSE LET last == Max({i \in DOMAIN tx[p].lines : tx[p].lines[i].decision = d})
       IN  tx[p].lines[last].amount

Agrees(p) == \A d \in Pinned(p) : Presented(p, d) = Decided(p, d)

\* Mutant: the lines cancelled before are not counted.
FullyByThis(k, lines) ==
  \A i \in DOMAIN docs[k].lines : \E j \in DOMAIN lines : lines[j].cancels = <<k, i>>

FullyCancelled(k, lines) ==
  \A i \in LinesLeft(k) : \E j \in DOMAIN lines : lines[j].cancels = <<k, i>>

\* The status the original moves to; a rebill does not move it.
After(p) ==
  CASE tx[p].type = "VOID" -> <<"VOIDED">>
    [] tx[p].type = "CREDIT_NOTE" ->
         IF FullyCancelled(tx[p].of, tx[p].lines) THEN <<"FULLY_CREDITED">>
         ELSE <<"PARTIALLY_CREDITED">>
    [] OTHER -> <<>>

\* The status event takes the number after the history that was read.
CommitDocument(p) ==
  /\ Read(p) /\ (Bills(tx[p].type) => Unbilled(p) = {})
  /\ Agrees(p)
  /\ After(p) # <<>> => Len(docs[tx[p].of].history) = tx[p].seq
  /\ docs' = Append(
       [k \in DOMAIN docs |->
          IF k = tx[p].of THEN [docs[k] EXCEPT !.history = @ \o After(p)] ELSE docs[k]],
       [type |-> tx[p].type, history |-> <<"COMMITTED">>, lines |-> tx[p].lines,
        root |-> IF tx[p].of = Absent THEN Len(docs) + 1 ELSE docs[tx[p].of].root])
  /\ tx' = [tx EXCEPT ![p] = Absent]
  /\ UNCHANGED superseded

\* The variances are refused, never committed.
RefuseVariance(p) ==
  /\ Read(p) /\ (Bills(tx[p].type) => Unbilled(p) = {})
  /\ ~Agrees(p)
  /\ tx' = [tx EXCEPT ![p] = Absent]
  /\ UNCHANGED <<docs, superseded>>

\* Any statement may fail, or the process; the transaction leaves nothing.
Abandon(p) ==
  /\ tx[p] # Absent
  /\ tx' = [tx EXCEPT ![p] = Absent]
  /\ UNCHANGED <<docs, superseded>>

\* A correction of the decision itself, in the determination service.
Supersede(d) ==
  /\ d \notin superseded
  /\ superseded' = superseded \cup {d}
  /\ UNCHANGED <<docs, tx>>

Step(p) == LockChain(p) \/ LockDecision(p) \/ CommitDocument(p) \/ RefuseVariance(p)

DocumentsNext ==
  \/ \E p \in Proc : Issue(p) \/ Correct(p) \/ Step(p) \/ Abandon(p)
  \/ \E d \in Decision : Supersede(d)

\* A lock's waiters are served in the order they came.
DocumentsSpec ==
  /\ DocumentsInit /\ [][DocumentsNext]_documentVars
  /\ \A p \in Proc : SF_documentVars(Step(p))

(***************************************************************************)
(* Properties                                                              *)
(***************************************************************************)
Refs == UNION {{k} \X (DOMAIN docs[k].lines) : k \in DOMAIN docs}
LineAt(r) == docs[r[1]].lines[r[2]]
Amounts == [r \in Refs |-> LineAt(r).amount]

\* What all the documents of a decision charge, and what is left of the ones that
\* bill it and have not been cancelled.
Documented(d) == Total(Amounts, {r \in Refs : LineAt(r).decision = d})
StandsFor(d) ==
  {k \in CitedBy(d) : Bills(docs[k].type) /\ ~Releases(StatusOf(k))}
Left(d) ==
  Total(Amounts, {r \in Refs : /\ r[1] \in StandsFor(d) /\ r[2] \in LinesLeft(r[1])
                               /\ LineAt(r).decision = d})

\* Whatever is issued, voided, credited and rebilled at once, one document at
\* most bills a decision, and all its documents together charge what is left of
\* that one: exactly what was decided until a line of it is credited, and nothing
\* when none does (the billing lock, the citations and the cancelled lines).
ChargedAsDecided ==
  \A d \in Decision :
    /\ \A j, k \in StandsFor(d) : j = k
    /\ Documented(d) = Left(d)
    /\ \A k \in StandsFor(d) : StatusOf(k) = "COMMITTED" => Documented(d) = DecisionTax[d]

\* A billing document's status says what its chain has cancelled of it: all of
\* it, some of it, or nothing (After, decided under the chain's lock).
StatusTellsCancelled ==
  \A k \in DOMAIN docs :
    Bills(docs[k].type) =>
      /\ Releases(StatusOf(k)) <=> LinesLeft(k) = {}
      /\ StatusOf(k) = "COMMITTED" <=> CancelledLines(k) = {}

\* Every call ends by itself: none waits for a lock held by one that waits for
\* it (decisionsOf sorts the decisions, and the chain is locked first).
BillingEnds == \A p \in Proc : tx[p] # Absent ~> tx[p] = Absent

\* The package comment of documents.go: a void or a credit note cancels exactly
\* what a predecessor charged.  Then its lines agree with what they cancel.
CancellationAgrees ==
  \A p \in Proc : (Read(p) /\ ~Bills(tx[p].type)) => Agrees(p)
================================================================================
