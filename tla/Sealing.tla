-------------------------------- MODULE Sealing --------------------------------
(***************************************************************************)
(* Evidence seals (internal/app/seal.go, internal/domain/evidence/seal.go):*)
(* signed statements of exactly which decisions were recorded in a period. *)
(*                                                                         *)
(* A decision takes its recorded_at from the clock before its transaction  *)
(* commits; a sealer waits out the settle window, and holds the tenant's   *)
(* sealing lock from its overlap check to its commit.  All clocks are one; *)
(* what they may differ by belongs to Longest.                             *)
(***************************************************************************)
EXTENDS Merkle, FiniteSets

CONSTANTS
  Decision,  \* numbers, in the order of the decisions' ids
  Sealer,    \* sealing calls
  Settle,    \* the settle window
  Longest,   \* how long after its recorded_at a decision may still commit
  MaxTime,   \* bound: the clock
  None

ASSUME DecisionAssumption == Decision \subseteq Nat /\ IsFiniteSet(Decision)
ASSUME WindowAssumption == Settle \in Nat /\ Longest \in 0..Settle
ASSUME BoundAssumption == MaxTime \in Nat
ASSUME NoneAssumption == None \notin Nat

Time == 0..MaxTime

VARIABLES
  clock,
  recordedAt,  \* of each decision in hand or recorded; None before and after a failure
  objects,     \* decisions whose result object is in the evidence store
  recorded,    \* decisions whose row is committed
  seals,       \* the seals committed, in order
  tx           \* what each sealing call has read, or None

vars == <<clock, recordedAt, objects, recorded, seals, tx>>

Step == {"lock", "check", "read", "append"}

TypeOK ==
  /\ clock \in Time
  /\ recordedAt \in [Decision -> Time \cup {None}]
  /\ recorded \subseteq objects /\ objects \subseteq Decision
  /\ \A k \in DOMAIN seals :
       /\ seals[k].start \in Time /\ seals[k].end \in Time /\ seals[k].sealedAt \in Time
       /\ seals[k].start < seals[k].end /\ seals[k].end <= seals[k].sealedAt
       /\ seals[k].leafCount \in 0..Cardinality(Decision)
  /\ \A s \in Sealer : tx[s] # None => tx[s].step \in Step

Init ==
  /\ clock = 0
  /\ recordedAt = [d \in Decision |-> None]
  /\ objects = {}
  /\ recorded = {}
  /\ seals = <<>>
  /\ tx = [s \in Sealer |-> None]

(***************************************************************************)
(* Determination: the instant, then the result object, then the row.       *)
(***************************************************************************)
InHand(d) == recordedAt[d] # None /\ d \notin recorded

Tick ==
  /\ clock < MaxTime
  /\ \A d \in Decision : InHand(d) => clock < recordedAt[d] + Longest
  /\ clock' = clock + 1
  /\ UNCHANGED <<recordedAt, objects, recorded, seals, tx>>

Determine(d) ==
  /\ recordedAt[d] = None
  /\ recordedAt' = [recordedAt EXCEPT ![d] = clock]
  /\ UNCHANGED <<clock, objects, recorded, seals, tx>>

\* An object published before a failure is found again.
Put(d) ==
  /\ InHand(d) /\ d \notin objects
  /\ objects' = objects \cup {d}
  /\ UNCHANGED <<clock, recordedAt, recorded, seals, tx>>

Record(d) ==
  /\ InHand(d) /\ d \in objects
  /\ recorded' = recorded \cup {d}
  /\ UNCHANGED <<clock, recordedAt, objects, seals, tx>>

\* The call fails or its process dies: its object stays, named by no row.
Drop(d) ==
  /\ InHand(d)
  /\ recordedAt' = [recordedAt EXCEPT ![d] = None]
  /\ UNCHANGED <<clock, objects, recorded, seals, tx>>

(***************************************************************************)
(* The leaves of a period, in LeafOrder.                                   *)
(***************************************************************************)
\* Mutant: the period includes the instant it ends.
InClosed(t, start, end) == start <= t /\ t <= end

In(t, start, end) == start <= t /\ t < end

LeafOrder(a, b) ==
  a.recordedAt < b.recordedAt \/ (a.recordedAt = b.recordedAt /\ a.decision < b.decision)

OrderLeaves(S) ==
  CHOOSE s \in [1..Cardinality(S) -> S] :
    \A i, j \in DOMAIN s : i < j => LeafOrder(s[i], s[j])

Leaves(start, end) ==
  {[decision |-> d, recordedAt |-> recordedAt[d]] :
     d \in {e \in recorded : In(recordedAt[e], start, end)}}

SealLeaves(start, end) == OrderLeaves(Leaves(start, end))

(***************************************************************************)
(* SealPeriod                                                              *)
(***************************************************************************)
\* Mutant: a period may be sealed as soon as it ends.
SettledAtOnce(end) == end <= clock

Settled(end) == end + Settle <= clock

SealPeriod(s) ==
  /\ tx[s] = None
  /\ \E start \in Time, end \in Time :
       /\ start < end /\ Settled(end)
       /\ tx' = [tx EXCEPT ![s] =
            [step |-> "lock", start |-> start, end |-> end, now |-> clock, leaves |-> <<>>]]
  /\ UNCHANGED <<clock, recordedAt, objects, recorded, seals>>

\* Mutant: the sealing lock is not taken.
NoLock(s) == TRUE

LockFree(s) == \A q \in Sealer \ {s} : tx[q] # None => tx[q].step = "lock"

LockSealing(s) ==
  /\ tx[s] # None /\ tx[s].step = "lock"
  /\ LockFree(s)
  /\ tx' = [tx EXCEPT ![s].step = "check"]
  /\ UNCHANGED <<clock, recordedAt, objects, recorded, seals>>

Overlapping(from, to) == {k \in DOMAIN seals : seals[k].start < to /\ seals[k].end > from}

CheckOverlap(s) ==
  /\ tx[s] # None /\ tx[s].step = "check"
  /\ tx' = [tx EXCEPT ![s] =
       IF Overlapping(tx[s].start, tx[s].end) = {} THEN [tx[s] EXCEPT !.step = "read"] ELSE None]
  /\ UNCHANGED <<clock, recordedAt, objects, recorded, seals>>

\* The payload is signed and put in the evidence store on the way.
ReadLeaves(s) ==
  /\ tx[s] # None /\ tx[s].step = "read"
  /\ tx' = [tx EXCEPT ![s].step = "append", ![s].leaves = SealLeaves(tx[s].start, tx[s].end)]
  /\ UNCHANGED <<clock, recordedAt, objects, recorded, seals>>

\* No two rows share a period_start.
AppendSeal(s) ==
  /\ tx[s] # None /\ tx[s].step = "append"
  /\ \A k \in DOMAIN seals : seals[k].start # tx[s].start
  /\ seals' = Append(seals,
       [start |-> tx[s].start, end |-> tx[s].end, leafCount |-> Len(tx[s].leaves),
        merkleRoot |-> MerkleRoot(tx[s].leaves), sealedAt |-> tx[s].now])
  /\ tx' = [tx EXCEPT ![s] = None]
  /\ UNCHANGED <<clock, recordedAt, objects, recorded>>

\* Any statement may fail, or the process; nothing is sealed.
Fail(s) ==
  /\ tx[s] # None
  /\ tx' = [tx EXCEPT ![s] = None]
  /\ UNCHANGED <<clock, recordedAt, objects, recorded, seals>>

Next ==
  \/ Tick
  \/ \E d \in Decision : Determine(d) \/ Put(d) \/ Record(d) \/ Drop(d)
  \/ \E s \in Sealer : SealPeriod(s) \/ LockSealing(s) \/ CheckOverlap(s) \/ ReadLeaves(s)
                         \/ AppendSeal(s) \/ Fail(s)

Spec == Init /\ [][Next]_vars

(***************************************************************************)
(* VerifySeal and Inclusion                                                *)
(***************************************************************************)
VerifySeal(k) ==
  LET leaves == SealLeaves(seals[k].start, seals[k].end)
  IN  IF Len(leaves) # seals[k].leafCount \/ MerkleRoot(leaves) # seals[k].merkleRoot
      THEN "ROOT_MISMATCH"
      ELSE IF \E l \in Leaves(seals[k].start, seals[k].end) : l.decision \notin objects
      THEN "EVIDENCE_MISSING"
      ELSE "VALID"

Position(leaves, d) == SelectInSeq(leaves, LAMBDA l : l.decision = d) - 1

\* The proof for decision d, checked against seal k, with the leaf of x in it.
Included(k, d, x) ==
  LET leaves == SealLeaves(seals[k].start, seals[k].end)
      index == Position(leaves, d)
  IN  /\ d \in recorded /\ In(recordedAt[d], seals[k].start, seals[k].end)
      /\ Len(leaves) = seals[k].leafCount
      /\ VerifyInclusion([decision |-> x, recordedAt |-> recordedAt[x]], index, Len(leaves),
                         InclusionProof(leaves, index), seals[k].merkleRoot)

(***************************************************************************)
(* Properties                                                              *)
(***************************************************************************)
\* Whatever was in hand when a period was sealed, every seal verifies ever
\* after (DefaultSettleWindow; the objects are written before the row).
SealsStayValid == \A k \in DOMAIN seals : VerifySeal(k) = "VALID"

\* However calls interleave, no decision is in two seals (LockSealing and
\* Overlapping, the half-open period).
InOneSeal ==
  \A d \in recorded : \A k, l \in DOMAIN seals :
    /\ In(recordedAt[d], seals[k].start, seals[k].end)
    /\ In(recordedAt[d], seals[l].start, seals[l].end)
    => k = l

\* Inclusion proves a decision whose instant a seal covers, and its path proves
\* no other decision in its place.
InclusionProves ==
  \A k \in DOMAIN seals : \A d \in recorded :
    In(recordedAt[d], seals[k].start, seals[k].end) =>
      \A x \in recorded : Included(k, d, x) <=> x = d

(***************************************************************************)
(* A sealing call is a transaction of four statements among others, and    *)
(* takes effect at once, at its commit.                                    *)
(***************************************************************************)
Says(S) == <<Cardinality(S), MTH(OrderLeaves(S))>>

AtOnce == INSTANCE SealAtOnce WITH
  Instant <- Time, Digest <- Says,
  table <- {[decision |-> d, recordedAt |-> recordedAt[d]] : d \in recorded},
  statements <- [k \in DOMAIN seals |->
    [start |-> seals[k].start, end |-> seals[k].end,
     says |-> <<seals[k].leafCount, seals[k].merkleRoot>>]]

\* Every seal says, of the RFC's tree, what the table had and still has in its
\* period when it was committed (SealPeriod, AppendSeal).
SealsAtOnce == AtOnce!Spec
================================================================================
