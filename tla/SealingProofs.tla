----------------------------- MODULE SealingProofs -----------------------------
(***************************************************************************)
(* What holds of evidence seals for any decisions, sealers, clock and      *)
(* settle window: every seal verifies for ever, no decision is in two,     *)
(* what is sealed has a proof of inclusion, roots are RFC 6962's, and      *)
(* sealing behaves as if each seal were made at once (SealAtOnce).         *)
(*                                                                         *)
(* The argument is that a settled period is frozen.  A decision still in   *)
(* hand is at most Longest old, so none of them is in a period that ended  *)
(* Settle ago, and no step changes the leaves of such a period.            *)
(*                                                                         *)
(* A tree is built level by level.  The invariant over levels says which   *)
(* leaves each node stands for (OverTrees); what a recursive function is   *)
(* for every number of leaves follows from that it exists, and by          *)
(* induction on the level through subsets of Nat (EveryNatural).           *)
(***************************************************************************)
EXTENDS Sealing, FiniteSetTheorems, WellFoundedInduction, TLAPS

Typed ==
  /\ clock \in Nat
  /\ recordedAt \in [Decision -> Nat \cup {None}]
  /\ recorded \subseteq objects /\ objects \subseteq Decision
  /\ \E S : seals \in Seq(S)
  /\ tx = [s \in Sealer |-> tx[s]]
  /\ \A s \in Sealer : tx[s] # None =>
       \E l : tx[s] \in [step : Step, start : Nat, end : Nat, now : Nat, leaves : {l}]

\* A decision in hand is young, and one in the table has an instant.
Young ==
  \A d \in Decision :
    /\ d \in recorded => recordedAt[d] # None
    /\ InHand(d) => clock <= recordedAt[d] + Longest

Over(start, end) == start \in Nat /\ end \in Nat /\ start < end /\ end + Settle <= clock

\* What a sealer has read, and what a seal says, is what the table has.
ReadRight ==
  \A s \in Sealer : tx[s] # None =>
    /\ Over(tx[s].start, tx[s].end)
    /\ tx[s].step = "append" => tx[s].leaves = SealLeaves(tx[s].start, tx[s].end)

SealedRight ==
  \A k \in DOMAIN seals :
    /\ Over(seals[k].start, seals[k].end)
    /\ seals[k].leafCount = Len(SealLeaves(seals[k].start, seals[k].end))
    /\ seals[k].merkleRoot = MerkleRoot(SealLeaves(seals[k].start, seals[k].end))

IInv == Typed /\ Young /\ ReadRight /\ SealedRight

(* A step leaves the leaves of a settled period as they are.               *)
LEMMA Frozen ==
  ASSUME Typed, Young, [Next]_vars, NEW start \in Nat, NEW end \in Nat, end + Settle <= clock
  PROVE  SealLeaves(start, end)' = SealLeaves(start, end)
<1> DEFINE of == {e \in recorded : In(recordedAt[e], start, end)}
<1>1. SUFFICES of' = of /\ \A d \in of : recordedAt'[d] = recordedAt[d]
  BY DEF SealLeaves, Leaves
<1>2. CASE recorded' = recorded /\ \A d \in recorded : recordedAt'[d] = recordedAt[d]
  BY <1>2 DEF In
<1>3. ASSUME NEW d \in Decision, Record(d) PROVE of' = of /\ recordedAt' = recordedAt
  <2>1. recordedAt[d] \in Nat /\ recordedAt[d] >= end
    BY <1>3, WindowAssumption DEF Record, InHand, Typed, Young
  <2>2. ~In(recordedAt[d], start, end)
    BY <2>1 DEF In
  <2> QED  BY <1>3, <2>2 DEF Record, In
<1>4. ASSUME NEW d \in Decision, Determine(d) \/ Drop(d)
      PROVE  recorded' = recorded /\ \A e \in recorded : recordedAt'[e] = recordedAt[e]
  BY <1>4 DEF Determine, Drop, InHand, Typed, Young
<1> QED
  BY <1>2, <1>3, <1>4 DEF Next, vars, Tick, Put, SealPeriod, LockSealing, CheckOverlap,
     ReadLeaves, AppendSeal, Fail

(* Time only grows, so what is over stays over.                            *)
LEMMA OverStays ==
  ASSUME Typed, [Next]_vars, NEW start, NEW end, Over(start, end)
  PROVE  Over(start, end)'
<1>1. clock' = clock \/ clock' = clock + 1
  BY DEF Next, vars, Tick, Determine, Put, Record, Drop, SealPeriod, LockSealing,
     CheckOverlap, ReadLeaves, AppendSeal, Fail
<1> QED  BY <1>1, WindowAssumption DEF Over, Typed

LEMMA TypedInit == Init => Typed /\ Young /\ ReadRight /\ SealedRight
<1> SUFFICES ASSUME Init PROVE Typed /\ Young /\ ReadRight /\ SealedRight
  OBVIOUS
<1>1. seals \in Seq({}) /\ DOMAIN seals = {}
  BY DEF Init
<1> QED  BY <1>1, NoneAssumption DEF Init, Typed, Young, InHand, ReadRight, SealedRight

LEMMA TypedStep == Typed /\ [Next]_vars => Typed'
<1> SUFFICES ASSUME Typed, [Next]_vars PROVE Typed'
  OBVIOUS
<1>1. ASSUME NEW s \in Sealer, SealPeriod(s) PROVE Typed'
  <2>1. PICK a, b \in Time : tx' = [tx EXCEPT ![s] =
          [step |-> "lock", start |-> a, end |-> b, now |-> clock, leaves |-> <<>>]]
    BY <1>1 DEF SealPeriod
  <2>2. tx' = [q \in Sealer |-> tx'[q]]
    BY <2>1 DEF Typed
  <2>3. a \in Nat /\ b \in Nat /\ clock \in Nat
    BY DEF Time, Typed
  <2>4. tx'[s] \in [step : Step, start : Nat, end : Nat, now : Nat, leaves : {<<>>}]
    BY <2>1, <2>3 DEF Typed, Step
  <2>5. \A q \in Sealer \ {s} : tx'[q] = tx[q]
    BY <2>1 DEF Typed
  <2> QED  BY <1>1, <2>2, <2>4, <2>5 DEF SealPeriod, Typed
<1>2. ASSUME NEW s \in Sealer, LockSealing(s) PROVE Typed'
  BY <1>2 DEF LockSealing, Typed, Step
<1>3. ASSUME NEW s \in Sealer, CheckOverlap(s) PROVE Typed'
  BY <1>3 DEF CheckOverlap, Typed, Step
<1>4. ASSUME NEW s \in Sealer, ReadLeaves(s) PROVE Typed'
  BY <1>4 DEF ReadLeaves, Typed, Step
<1>5. ASSUME NEW s \in Sealer, AppendSeal(s) PROVE Typed'
  <2>1. PICK S : seals \in Seq(S)
    BY DEF Typed
  <2>2. PICK e : seals' = Append(seals, e)
    BY <1>5 DEF AppendSeal
  <2>3. seals' \in Seq(S \cup {e})
    BY <2>1, <2>2
  <2>4. tx' = [q \in Sealer |-> tx'[q]] /\ \A q \in Sealer : tx'[q] # None => tx'[q] = tx[q]
    BY <1>5 DEF AppendSeal, Typed
  <2> QED  BY <1>5, <2>3, <2>4 DEF AppendSeal, Typed
<1>6. ASSUME NEW s \in Sealer, Fail(s) PROVE Typed'
  BY <1>6 DEF Fail, Typed
<1>7. ASSUME NEW d \in Decision, Determine(d) \/ Put(d) \/ Record(d) \/ Drop(d) PROVE Typed'
  BY <1>7 DEF Determine, Put, Record, Drop, Typed
<1>8. ASSUME Tick PROVE Typed'
  BY <1>8 DEF Tick, Typed
<1>9. ASSUME UNCHANGED vars PROVE Typed'
  BY <1>9 DEF vars, Typed
<1> QED  BY <1>1, <1>2, <1>3, <1>4, <1>5, <1>6, <1>7, <1>8, <1>9 DEF Next

LEMMA YoungStep == Typed /\ Young /\ [Next]_vars => Young'
<1> SUFFICES ASSUME Typed, Young, [Next]_vars PROVE Young'
  OBVIOUS
<1>1. CASE Tick
  BY <1>1, WindowAssumption DEF Tick, Typed, Young, InHand
<1>2. ASSUME NEW d \in Decision, Determine(d) \/ Put(d) \/ Record(d) \/ Drop(d) PROVE Young'
  BY <1>2, WindowAssumption, NoneAssumption DEF Determine, Put, Record, Drop, Typed, Young, InHand
<1> QED
  BY <1>1, <1>2 DEF Next, vars, SealPeriod, LockSealing, CheckOverlap, ReadLeaves, AppendSeal,
     Fail, Young, InHand

(***************************************************************************)
(* What was read stays right                                               *)
(***************************************************************************)
LEMMA ReadStep == Typed /\ Young /\ ReadRight /\ [Next]_vars => ReadRight'
<1> SUFFICES ASSUME Typed, Young, ReadRight, [Next]_vars,
                    NEW s \in Sealer, tx'[s] # None
             PROVE  /\ Over(tx[s].start, tx[s].end)'
                    /\ tx'[s].step = "append" =>
                         tx'[s].leaves = SealLeaves(tx[s].start, tx[s].end)'
  BY DEF ReadRight
<1>1. PICK a, b : a = tx'[s].start /\ b = tx'[s].end
  OBVIOUS
<1>2. Over(a, b) /\ (tx'[s].step = "append" => tx'[s].leaves = SealLeaves(a, b)')
  <2>1. CASE tx'[s] = tx[s]
    BY <1>1, <2>1, Frozen DEF ReadRight, Over
  <2>2. CASE SealPeriod(s)
    BY <1>1, <2>2, WindowAssumption DEF SealPeriod, Settled, Time, Over, Typed
  <2>3. CASE LockSealing(s)
    BY <1>1, <2>3 DEF LockSealing, ReadRight, Typed
  <2>4. CASE CheckOverlap(s)
    BY <1>1, <2>4 DEF CheckOverlap, ReadRight, Typed
  <2>5. CASE ReadLeaves(s)
    <3>1. a = tx[s].start /\ b = tx[s].end /\ tx[s] # None
      BY <1>1, <2>5 DEF ReadLeaves, Typed
    <3>2. tx'[s].leaves = SealLeaves(a, b)
      BY <2>5, <3>1 DEF ReadLeaves, Typed
    <3>3. Over(a, b)
      BY <3>1 DEF ReadRight
    <3> QED  BY <3>2, <3>3, Frozen DEF Over
  <2> QED
    BY <2>1, <2>2, <2>3, <2>4, <2>5 DEF Next, vars, Tick, Determine, Put, Record, Drop,
       SealPeriod, LockSealing, CheckOverlap, ReadLeaves, AppendSeal, Fail, Typed
<1>3. Over(a, b)'
  BY <1>2, OverStays
<1> QED  BY <1>1, <1>2, <1>3

LEMMA SealedStep == Typed /\ Young /\ ReadRight /\ SealedRight /\ [Next]_vars => SealedRight'
<1> SUFFICES ASSUME Typed, Young, ReadRight, SealedRight, [Next]_vars, NEW k \in DOMAIN seals'
             PROVE  /\ Over(seals[k].start, seals[k].end)'
                    /\ seals'[k].leafCount = Len(SealLeaves(seals[k].start, seals[k].end)')
                    /\ seals'[k].merkleRoot = MerkleRoot(SealLeaves(seals[k].start, seals[k].end)')
  BY DEF SealedRight
<1>1. PICK a, b : a = seals'[k].start /\ b = seals'[k].end
  OBVIOUS
<1>2. Over(a, b) /\ seals'[k].leafCount = Len(SealLeaves(a, b))
        /\ seals'[k].merkleRoot = MerkleRoot(SealLeaves(a, b))
  <2>1. CASE k \in DOMAIN seals /\ seals'[k] = seals[k]
    BY <1>1, <2>1 DEF SealedRight
  <2>2. ASSUME NEW s \in Sealer, AppendSeal(s), ~(k \in DOMAIN seals /\ seals'[k] = seals[k])
        PROVE  /\ Over(a, b) /\ seals'[k].leafCount = Len(SealLeaves(a, b))
               /\ seals'[k].merkleRoot = MerkleRoot(SealLeaves(a, b))
    <3>1. PICK S : seals \in Seq(S)
      BY DEF Typed
    <3>2. PICK e : seals' = Append(seals, e)
                   /\ e = [start |-> tx[s].start, end |-> tx[s].end,
                           leafCount |-> Len(tx[s].leaves),
                           merkleRoot |-> MerkleRoot(tx[s].leaves), sealedAt |-> tx[s].now]
      BY <2>2 DEF AppendSeal
    <3>3. seals'[k] = e
      BY <2>2, <3>1, <3>2
    <3>4. a = tx[s].start /\ b = tx[s].end /\ e.leafCount = Len(tx[s].leaves)
          /\ e.merkleRoot = MerkleRoot(tx[s].leaves)
      BY <1>1, <3>2, <3>3
    <3>5. Over(a, b) /\ tx[s].leaves = SealLeaves(a, b)
      BY <2>2, <3>4 DEF AppendSeal, ReadRight
    <3> QED  BY <3>3, <3>4, <3>5
  <2>3. seals' = seals \/ \E s \in Sealer : AppendSeal(s)
    BY DEF Next, vars, Tick, Determine, Put, Record, Drop, SealPeriod, LockSealing,
       CheckOverlap, ReadLeaves, Fail
  <2> QED  BY <2>1, <2>2, <2>3
<1>3. Over(a, b)' /\ SealLeaves(a, b)' = SealLeaves(a, b)
  BY <1>2, OverStays, Frozen DEF Over
<1> QED  BY <1>1, <1>2, <1>3

LEMMA RightStep == IInv /\ [Next]_vars => IInv'
  BY TypedStep, YoungStep, ReadStep, SealedStep DEF IInv

(* Whatever was in hand when a period was sealed, every seal verifies ever *)
(* after: its leaves are those the table and the evidence store still have.*)
LEMMA RightVerifies == Typed /\ SealedRight => SealsStayValid
<1> SUFFICES ASSUME Typed, SealedRight, NEW k \in DOMAIN seals PROVE VerifySeal(k) = "VALID"
  BY DEF SealsStayValid
<1>1. \A l \in Leaves(seals[k].start, seals[k].end) : l.decision \in objects
  BY DEF Leaves, Typed
<1> QED  BY <1>1 DEF VerifySeal, SealedRight

THEOREM SealsVerify == Spec => []SealsStayValid
<1>1. Spec => []IInv
  BY TypedInit, RightStep, PTL DEF Spec, IInv
<1>2. IInv => SealsStayValid
  BY RightVerifies DEF IInv
<1> QED  BY <1>1, <1>2, PTL

(***************************************************************************)
(* One seal a decision: who holds the sealing lock is alone with the table *)
(* of seals from its overlap check to its commit, so periods never meet.   *)
(***************************************************************************)
Holds(s) == tx[s] # None /\ tx[s].step # "lock"

OneHolder == \A s, q \in Sealer : Holds(s) /\ Holds(q) => s = q

Clear ==
  \A s \in Sealer : tx[s] # None /\ tx[s].step \in {"read", "append"} =>
    Overlapping(tx[s].start, tx[s].end) = {}

Apart ==
  \A k, l \in DOMAIN seals : k # l =>
    seals[k].end <= seals[l].start \/ seals[l].end <= seals[k].start

LEMMA OneHolderStep == Typed /\ OneHolder /\ [Next]_vars => OneHolder'
<1> SUFFICES ASSUME Typed, OneHolder, [Next]_vars PROVE OneHolder'
  OBVIOUS
<1>1. ASSUME NEW s \in Sealer, LockSealing(s) PROVE OneHolder'
  <2>1. \A q \in Sealer \ {s} : tx'[q] = tx[q] /\ ~Holds(q)
    BY <1>1 DEF LockSealing, LockFree, Holds, Typed
  <2> QED  BY <2>1 DEF OneHolder, Holds
<1>2. ASSUME \A s \in Sealer : Holds(s)' => Holds(s) PROVE OneHolder'
  BY <1>2 DEF OneHolder
<1>3. ASSUME NEW s \in Sealer, ~LockSealing(s),
             SealPeriod(s) \/ CheckOverlap(s) \/ ReadLeaves(s) \/ AppendSeal(s) \/ Fail(s)
      PROVE  \A q \in Sealer : Holds(q)' => Holds(q)
  BY <1>3 DEF SealPeriod, CheckOverlap, ReadLeaves, AppendSeal, Fail, Holds, Typed
<1>4. CASE tx' = tx
  BY <1>4 DEF OneHolder, Holds
<1> QED
  BY <1>1, <1>2, <1>3, <1>4 DEF Next, vars, Tick, Determine, Put, Record, Drop

LEMMA ApartStep ==
  Typed /\ ReadRight /\ SealedRight /\ OneHolder /\ Clear /\ Apart /\ [Next]_vars
    => Clear' /\ Apart'
<1> SUFFICES ASSUME Typed, ReadRight, SealedRight, OneHolder, Clear, Apart, [Next]_vars
             PROVE  Clear' /\ Apart'
  OBVIOUS
<1>1. ASSUME NEW s \in Sealer, AppendSeal(s) PROVE Clear' /\ Apart'
  <2>1. PICK S : seals \in Seq(S)
    BY DEF Typed
  <2>2. PICK e : seals' = Append(seals, e) /\ e.start = tx[s].start /\ e.end = tx[s].end
    BY <1>1 DEF AppendSeal
  <2>3. DOMAIN seals' = DOMAIN seals \cup {Len(seals) + 1} /\ seals'[Len(seals) + 1] = e
        /\ \A k \in DOMAIN seals : seals'[k] = seals[k]
    BY <2>1, <2>2
  <2>4. \A q \in Sealer : tx'[q] # None => tx'[q].step = "lock"
    BY <1>1 DEF AppendSeal, OneHolder, Holds, Typed
  <2>5. \A k \in DOMAIN seals : seals[k].end <= e.start \/ e.end <= seals[k].start
    <3>1. tx[s] # None /\ tx[s].step = "append"
      BY <1>1 DEF AppendSeal
    <3>2. Overlapping(tx[s].start, tx[s].end) = {}
      BY <3>1 DEF Clear
    <3>3. \A k \in DOMAIN seals : ~(seals[k].start < e.end /\ seals[k].end > e.start)
      BY <2>2, <3>2 DEF Overlapping
    <3>4. e.start \in Nat /\ e.end \in Nat
      BY <2>2, <3>1 DEF ReadRight, Over
    <3> QED  BY <3>3, <3>4 DEF SealedRight, Over
  <2>6. Clear'
    BY <2>4 DEF Clear
  <2>7. Apart'
    BY <2>3, <2>5 DEF Apart
  <2> QED  BY <2>6, <2>7
<1>2. ASSUME seals' = seals,
             \A s \in Sealer : tx'[s] # None /\ tx'[s].step \in {"read", "append"} =>
                tx'[s] = tx[s] \/ Overlapping(tx'[s].start, tx'[s].end) = {}
      PROVE  Clear' /\ Apart'
  BY <1>2 DEF Clear, Apart, Overlapping
<1>3. ASSUME NEW s \in Sealer, CheckOverlap(s) PROVE Clear' /\ Apart'
  BY <1>2, <1>3 DEF CheckOverlap, Typed
<1>4. ASSUME NEW s \in Sealer, ReadLeaves(s) PROVE Clear' /\ Apart'
  <2>1. \A q \in Sealer \ {s} : tx'[q] = tx[q]
    BY <1>4 DEF ReadLeaves, Typed
  <2>2. tx'[s].start = tx[s].start /\ tx'[s].end = tx[s].end
        /\ Overlapping(tx[s].start, tx[s].end) = {}
    <3>1. tx[s] # None /\ tx[s].step = "read"
      BY <1>4 DEF ReadLeaves
    <3>2. Overlapping(tx[s].start, tx[s].end) = {}
      BY <3>1 DEF Clear
    <3>3. tx'[s].start = tx[s].start /\ tx'[s].end = tx[s].end
      BY <1>4, <3>1 DEF ReadLeaves, Typed
    <3> QED  BY <3>2, <3>3
  <2> QED  BY <1>2, <1>4, <2>1, <2>2 DEF ReadLeaves
<1>5. ASSUME NEW s \in Sealer, SealPeriod(s) \/ LockSealing(s) \/ Fail(s)
      PROVE  Clear' /\ Apart'
  BY <1>2, <1>5 DEF SealPeriod, LockSealing, Fail, Typed
<1>6. CASE tx' = tx /\ seals' = seals
  BY <1>2, <1>6
<1> QED
  BY <1>1, <1>3, <1>4, <1>5, <1>6 DEF Next, vars, Tick, Determine, Put, Record, Drop

(* However calls interleave, no decision's instant is in two seals.        *)
THEOREM SealedOnce == Spec => []InOneSeal
<1> DEFINE Inv == IInv /\ OneHolder /\ Clear /\ Apart
<1>1. Init => Inv
  BY TypedInit DEF Init, IInv, OneHolder, Holds, Clear, Apart
<1>2. Inv /\ [Next]_vars => Inv'
  BY RightStep, OneHolderStep, ApartStep DEF IInv
<1>3. Inv => InOneSeal
  BY DEF IInv, Apart, SealedRight, Over, InOneSeal, In, Typed, Young
<1> QED  BY <1>1, <1>2, <1>3, PTL DEF Spec

(***************************************************************************)
(* The Merkle tree: the climb of a verifier mirrors the walk of the        *)
(* prover, so a leaf leads to the root exactly when it is the leaf at its  *)
(* index.                                                                  *)
(***************************************************************************)
(* A set of numbers has a least one, so what holds of 0 and of n + 1 when  *)
(* of n holds of all.                                                      *)
LEMMA LeastExists ==
  ASSUME NEW S, S \subseteq Nat, S # {}
  PROVE  \E n \in S : \A m \in S : n <= m
<1>1. PICK n \in S : \A m \in S : ~(<<m, n>> \in OpToRel(<, Nat))
  BY NatLessThanWellFounded, WFMin
<1>2. ASSUME NEW m \in S PROVE n <= m
  <2>1. m \in Nat /\ n \in Nat
    OBVIOUS
  <2>2. m < n => <<m, n>> \in OpToRel(<, Nat)
    BY <2>1 DEF OpToRel
  <2>3. ~(m < n)
    BY <1>1, <2>2, Zenon
  <2> QED  BY <2>1, <2>3
<1> QED  BY <1>2

LEMMA EveryNatural ==
  ASSUME NEW S, 0 \in S, \A n \in Nat : n \in S => n + 1 \in S
  PROVE  \A n \in Nat : n \in S
<1> DEFINE Missing == {n \in Nat : n \notin S}
<1>1. SUFFICES ASSUME Missing # {} PROVE FALSE
  OBVIOUS
<1>2. PICK n \in Missing : \A m \in Missing : n <= m
  <2>1. Missing \subseteq Nat
    OBVIOUS
  <2> HIDE DEF Missing
  <2> QED  BY <1>1, <2>1, LeastExists
<1>3. n - 1 \in Nat /\ ~(n <= n - 1) /\ n - 1 + 1 = n
  BY <1>2
<1>4. n - 1 \in S
  BY <1>2, <1>3
<1> QED  BY <1>2, <1>3, <1>4

(* The levels are the recursion's: each is the one above the last.         *)
Ground(leaves) == [i \in DOMAIN leaves |-> leafHash(leaves[i])]

LEMMA LevelsAre ==
  ASSUME NEW leaves, Len(leaves) \in Nat
  PROVE  Levels(leaves) = [h \in 0..Len(leaves) |->
           IF h = 0 THEN Ground(leaves) ELSE Above(Levels(leaves)[h - 1])]
<1> DEFINE Are(f, n) == f = [h \in 0..n |-> IF h = 0 THEN Ground(leaves) ELSE Above(f[h - 1])]
           Far == {n \in Nat : \E f : Are(f, n)}
<1>1. 0 \in Far
  <2>1. Are([h \in 0..0 |-> Ground(leaves)], 0)
    OBVIOUS
  <2> QED  BY <2>1
<1>2. ASSUME NEW n \in Nat, n \in Far PROVE n + 1 \in Far
  <2>1. PICK f : Are(f, n)
    BY <1>2
  <2> DEFINE g == [h \in 0..(n + 1) |-> IF h = n + 1 THEN Above(f[n]) ELSE f[h]]
  <2>2. ASSUME NEW h \in 0..(n + 1)
        PROVE  g[h] = IF h = 0 THEN Ground(leaves) ELSE Above(g[h - 1])
    BY <2>1
  <2>3. Are(g, n + 1)
    <3>1. g = [h \in 0..(n + 1) |-> g[h]]
      OBVIOUS
    <3> HIDE DEF g
    <3> QED  BY <2>2, <3>1
  <2> HIDE DEF Are, g
  <2>4. \E a : Are(a, n + 1)
    BY <2>3
  <2> QED  BY <2>4
<1>3. \E f : Are(f, Len(leaves))
  <2> HIDE DEF Far
  <2>1. Len(leaves) \in Far
    BY <1>1, <1>2, EveryNatural
  <2> QED  BY <2>1 DEF Far
<1> QED  BY <1>3 DEF Levels, Ground

IsSeq(s) == \E T : s \in Seq(T)

LEMMA TableIsSeq ==
  ASSUME NEW m \in Nat, NEW f, f = [i \in 1..m |-> f[i]]
  PROVE  IsSeq(f) /\ Len(f) = m
<1> DEFINE T == {f[i] : i \in 1..m}
<1>1. \A i \in 1..m : f[i] \in T
  OBVIOUS
<1>2. f \in Seq(T) /\ Len(f) = m
  <2> HIDE DEF T
  <2> QED  BY <1>1
<1> QED  BY <1>2 DEF IsSeq

LEMMA SeqIsTable ==
  ASSUME NEW s, IsSeq(s)
  PROVE  s = [i \in 1..Len(s) |-> s[i]]
BY DEF IsSeq

LEMMA GroundIs ==
  ASSUME NEW leaves, IsSeq(leaves)
  PROVE  IsSeq(Ground(leaves)) /\ Len(Ground(leaves)) = Len(leaves)
<1>1. Len(leaves) \in Nat
  BY DEF IsSeq
<1>2. Ground(leaves) = [i \in 1..Len(leaves) |-> Ground(leaves)[i]]
  BY DEF IsSeq, Ground
<1> QED  BY <1>1, <1>2, TableIsSeq

(* A level is half as long as the one below, and its nodes hash pairs.     *)
LEMMA AboveIs ==
  ASSUME NEW level, IsSeq(level), Len(level) >= 1
  PROVE  /\ IsSeq(Above(level))
         /\ Len(Above(level)) = (Len(level) + 1) \div 2
         /\ Len(level) > 1 => \A i \in 1..Len(Above(level)) :
              Above(level)[i] = IF 2*i > Len(level) THEN level[2*i - 1]
                                ELSE interiorHash(level[2*i - 1], level[2*i])
<1>1. Len(level) \in Nat
  BY DEF IsSeq
<1>2. CASE Len(level) = 1
  BY <1>2 DEF Above
<1>3. CASE Len(level) # 1
  <2> DEFINE m == (Len(level) + 1) \div 2
  <2>1. m \in Nat /\ Above(level) = NextLevel(level)
    BY <1>1, <1>3 DEF Above
  <2>2. Above(level) = [i \in 1..m |-> Above(level)[i]]
    BY <2>1 DEF NextLevel
  <2>3. IsSeq(Above(level)) /\ Len(Above(level)) = m
    <3> HIDE DEF m
    <3> QED  BY <2>1, <2>2, TableIsSeq
  <2> QED  BY <2>1, <2>3 DEF NextLevel
<1> QED  BY <1>2, <1>3

(* The length falls at every level until it is 1.                          *)
LEMMA HalfFits ==
  ASSUME NEW l \in Nat, NEW m, NEW h \in Nat, NEW n \in Nat,
         l >= 1, l = 1 \/ l + h <= n, m = (l + 1) \div 2
  PROVE  m \in Nat /\ m >= 1 /\ (m = 1 \/ m + (h + 1) <= n)
<1>1. m \in Nat /\ 2*m <= l + 1 /\ l <= 2*m
  OBVIOUS
<1> QED  BY <1>1

LevelFits(level, h, n) ==
  IsSeq(level) /\ Len(level) >= 1 /\ (Len(level) = 1 \/ Len(level) + h <= n)

LEMMA LevelAt ==
  ASSUME NEW leaves, IsSeq(leaves), Len(leaves) >= 1
  PROVE  /\ Len(leaves) \in Nat
         /\ Levels(leaves)[0] = Ground(leaves)
         /\ \A h \in 1..Len(leaves) : Levels(leaves)[h] = Above(Levels(leaves)[h - 1])
         /\ \A h \in 0..Len(leaves) : LevelFits(Levels(leaves)[h], h, Len(leaves))
<1> DEFINE n == Len(leaves)
           level == Levels(leaves)
           Good == {h \in Nat : h <= n => LevelFits(level[h], h, n)}
<1>0. n \in Nat
  BY DEF IsSeq
<1>1. level[0] = Ground(leaves)
  BY <1>0, LevelsAre
<1>2. \A h \in 1..n : level[h] = Above(level[h - 1])
  BY <1>0, LevelsAre
<1>3. 0 \in Good
  BY <1>0, <1>1, GroundIs DEF LevelFits
<1>4. ASSUME NEW h \in Nat, h \in Good PROVE h + 1 \in Good
  <2>1. SUFFICES ASSUME h + 1 <= n PROVE LevelFits(level[h + 1], h + 1, n)
    OBVIOUS
  <2>2. level[h + 1] = Above(level[h])
    BY <1>0, <1>2, <2>1
  <2>3. LevelFits(level[h], h, n)
    BY <1>0, <1>4, <2>1
  <2> HIDE DEF n, level
  <2>4. IsSeq(level[h + 1]) /\ Len(level[h + 1]) = (Len(level[h]) + 1) \div 2
    BY <2>2, <2>3, AboveIs DEF LevelFits
  <2>5. Len(level[h]) \in Nat
    BY <2>3 DEF LevelFits, IsSeq
  <2> QED  BY <1>0, <2>3, <2>4, <2>5, HalfFits DEF LevelFits
<1>5. \A h \in Nat : h \in Good
  <2> HIDE DEF Good
  <2> QED  BY <1>3, <1>4, EveryNatural
<1> QED  BY <1>0, <1>1, <1>2, <1>5

LEMMA AppendIsSeq ==
  ASSUME NEW s, IsSeq(s), NEW e
  PROVE  /\ Len(s) \in Nat /\ IsSeq(Append(s, e)) /\ Len(Append(s, e)) = Len(s) + 1
         /\ \A i \in 1..Len(s) : Append(s, e)[i] = s[i]
         /\ Append(s, e)[Len(s) + 1] = e
<1>1. PICK T : s \in Seq(T)
  BY DEF IsSeq
<1> DEFINE U == T \cup {e}
<1>2. s \in Seq(U) /\ e \in U
  <2>1. \A i \in 1..Len(s) : s[i] \in U
    BY <1>1
  <2>2. Len(s) \in Nat /\ s = [i \in 1..Len(s) |-> s[i]]
    BY <1>1
  <2> HIDE DEF U
  <2>3. s \in Seq(U)
    BY <2>1, <2>2
  <2> QED  BY <2>3 DEF U
<1>3. Append(s, e) \in Seq(U)
  <2> HIDE DEF U
  <2> QED  BY <1>2
<1> QED  BY <1>2, <1>3 DEF IsSeq

(* The prover's notes and the verifier's climb are their recursions'.      *)
LEMMA NotedIs ==
  ASSUME NEW leaves, NEW index, Len(leaves) \in Nat
  PROVE  Noted(leaves, index) = [h \in 0..Len(leaves) |->
           IF h = 0 THEN [index |-> index, path |-> <<>>]
           ELSE Note(Noted(leaves, index)[h - 1], Levels(leaves)[h - 1])]
<1> DEFINE Are(f, n) == f = [h \in 0..n |-> IF h = 0 THEN [index |-> index, path |-> <<>>]
                                            ELSE Note(f[h - 1], Levels(leaves)[h - 1])]
           Far == {n \in Nat : \E f : Are(f, n)}
<1>1. 0 \in Far
  <2>1. Are([h \in 0..0 |-> [index |-> index, path |-> <<>>]], 0)
    OBVIOUS
  <2> QED  BY <2>1
<1>2. ASSUME NEW n \in Nat, n \in Far PROVE n + 1 \in Far
  <2>1. PICK f : Are(f, n)
    BY <1>2
  <2> DEFINE g == [h \in 0..(n + 1) |-> IF h = n + 1 THEN Note(f[n], Levels(leaves)[n])
                                        ELSE f[h]]
  <2>2. ASSUME NEW h \in 0..(n + 1)
        PROVE  g[h] = IF h = 0 THEN [index |-> index, path |-> <<>>]
                      ELSE Note(g[h - 1], Levels(leaves)[h - 1])
    BY <2>1
  <2>3. Are(g, n + 1)
    <3>1. g = [h \in 0..(n + 1) |-> g[h]]
      OBVIOUS
    <3> HIDE DEF g
    <3> QED  BY <2>2, <3>1
  <2> HIDE DEF Are, g
  <2>4. \E a : Are(a, n + 1)
    BY <2>3
  <2> QED  BY <2>4
<1>3. \E f : Are(f, Len(leaves))
  <2> HIDE DEF Far
  <2>1. Len(leaves) \in Far
    BY <1>1, <1>2, EveryNatural
  <2> QED  BY <2>1 DEF Far
<1> QED  BY <1>3 DEF Noted

Foot(leaf, index, size) ==
  [node |-> leafHash(leaf), used |-> 0, index |-> index, size |-> size, ok |-> index < size]

LEMMA ClimbIs ==
  ASSUME NEW leaf, NEW index, NEW size \in Nat, NEW path
  PROVE  Climb(leaf, index, size, path) = [h \in 0..size |->
           IF h = 0 THEN Foot(leaf, index, size)
           ELSE Up(Climb(leaf, index, size, path)[h - 1], path)]
<1> DEFINE Are(f, n) == f = [h \in 0..n |-> IF h = 0 THEN Foot(leaf, index, size)
                                            ELSE Up(f[h - 1], path)]
           Far == {n \in Nat : \E f : Are(f, n)}
<1>1. 0 \in Far
  <2>1. Are([h \in 0..0 |-> Foot(leaf, index, size)], 0)
    OBVIOUS
  <2> QED  BY <2>1
<1>2. ASSUME NEW n \in Nat, n \in Far PROVE n + 1 \in Far
  <2>1. PICK f : Are(f, n)
    BY <1>2
  <2> DEFINE g == [h \in 0..(n + 1) |-> IF h = n + 1 THEN Up(f[n], path) ELSE f[h]]
  <2>2. ASSUME NEW h \in 0..(n + 1)
        PROVE  g[h] = IF h = 0 THEN Foot(leaf, index, size) ELSE Up(g[h - 1], path)
    BY <2>1
  <2>3. Are(g, n + 1)
    <3>1. g = [h \in 0..(n + 1) |-> g[h]]
      OBVIOUS
    <3> HIDE DEF g
    <3> QED  BY <2>2, <3>1
  <2> HIDE DEF Are, g
  <2>4. \E a : Are(a, n + 1)
    BY <2>3
  <2> QED  BY <2>4
<1>3. \E f : Are(f, size)
  <2> HIDE DEF Far
  <2>1. size \in Far
    BY <1>1, <1>2, EveryNatural
  <2> QED  BY <2>1 DEF Far
<1> QED  BY <1>3 DEF Climb, Foot

Continues(s, t) == Len(s) <= Len(t) /\ \A i \in 1..Len(s) : t[i] = s[i]

NoteFits(m, level) == m.index \in Nat /\ m.index < Len(level) /\ IsSeq(m.path)

(* A step of the prover: the index stays inside its level, and the path    *)
(* grows by the sibling exactly when there is one.                         *)
LEMMA NoteKeeps ==
  ASSUME NEW level, IsSeq(level), Len(level) >= 1, NEW m, NoteFits(m, level)
  PROVE  /\ NoteFits(Note(m, level), Above(level))
         /\ Note(m, level).index = m.index \div 2
         /\ Continues(m.path, Note(m, level).path)
         /\ IF Takes(m.index, Len(level))
            THEN /\ Len(Note(m, level).path) = Len(m.path) + 1
                 /\ Note(m, level).path[Len(m.path) + 1] = level[Sibling(m.index) + 1]
            ELSE Note(m, level).path = m.path
<1>1. Len(level) \in Nat /\ m.index \in Nat /\ m.index < Len(level) /\ IsSeq(m.path)
      /\ Len(m.path) \in Nat
  BY DEF IsSeq, NoteFits
<1>2. Sibling(m.index) < Len(level) <=> Takes(m.index, Len(level))
  BY <1>1 DEF Sibling, Takes
<1>3. m.index \div 2 \in Nat /\ m.index \div 2 < Len(Above(level))
  <2>1. Len(Above(level)) = (Len(level) + 1) \div 2
    BY AboveIs
  <2> QED  BY <1>1, <2>1
<1>4. Note(m, level).index = m.index \div 2
  BY DEF Note
<1>5. CASE Takes(m.index, Len(level))
  <2>1. Note(m, level).path = Append(m.path, level[Sibling(m.index) + 1])
    BY <1>2, <1>5 DEF Note
  <2> DEFINE e == level[Sibling(m.index) + 1]
  <2>2. /\ IsSeq(Append(m.path, e)) /\ Len(Append(m.path, e)) = Len(m.path) + 1
        /\ \A i \in 1..Len(m.path) : Append(m.path, e)[i] = m.path[i]
        /\ Append(m.path, e)[Len(m.path) + 1] = e
    <3> HIDE DEF e
    <3> QED  BY <1>1, AppendIsSeq
  <2> QED  BY <1>1, <1>3, <1>4, <1>5, <2>1, <2>2 DEF NoteFits, Continues
<1>6. CASE ~Takes(m.index, Len(level))
  <2>1. Note(m, level).path = m.path
    BY <1>2, <1>6 DEF Note
  <2> QED  BY <1>1, <1>3, <1>4, <1>6, <2>1 DEF NoteFits, Continues
<1> QED  BY <1>5, <1>6

LEMMA NotedAt ==
  ASSUME NEW leaves, IsSeq(leaves), Len(leaves) >= 1,
         NEW index \in Nat, index < Len(leaves)
  PROVE  /\ Noted(leaves, index)[0] = [index |-> index, path |-> <<>>]
         /\ \A h \in 1..Len(leaves) :
              Noted(leaves, index)[h] = Note(Noted(leaves, index)[h - 1], Levels(leaves)[h - 1])
         /\ \A h \in 0..Len(leaves) : NoteFits(Noted(leaves, index)[h], Levels(leaves)[h])
<1> DEFINE n == Len(leaves)
           level == Levels(leaves)
           noted == Noted(leaves, index)
           Good == {h \in Nat : h <= n => NoteFits(noted[h], level[h])}
<1>0. /\ n \in Nat
      /\ \A h \in 1..n : level[h] = Above(level[h - 1])
      /\ \A h \in 0..n : IsSeq(level[h]) /\ Len(level[h]) >= 1
  BY LevelAt DEF LevelFits
<1>1. noted[0] = [index |-> index, path |-> <<>>]
  BY <1>0, NotedIs
<1>2. \A h \in 1..n : noted[h] = Note(noted[h - 1], level[h - 1])
  BY <1>0, NotedIs
<1>3. 0 \in Good
  <2>1. level[0] = Ground(leaves)
    BY LevelAt
  <2>2. Len(level[0]) = n
    BY <2>1, GroundIs
  <2>3. IsSeq(<<>>)
    <3>1. <<>> \in Seq({})
      OBVIOUS
    <3> QED  BY <3>1 DEF IsSeq
  <2> HIDE DEF level, noted
  <2>4. NoteFits(noted[0], level[0])
    BY <1>1, <2>2, <2>3 DEF NoteFits
  <2> QED  BY <2>4
<1>4. ASSUME NEW h \in Nat, h \in Good PROVE h + 1 \in Good
  <2>1. SUFFICES ASSUME h + 1 <= n PROVE NoteFits(noted[h + 1], level[h + 1])
    OBVIOUS
  <2>2. NoteFits(noted[h], level[h]) /\ h \in 0..n /\ h + 1 \in 1..n /\ h + 1 - 1 = h
    BY <1>0, <1>4, <2>1
  <2> HIDE DEF n, level, noted
  <2>3. level[h + 1] = Above(level[h]) /\ noted[h + 1] = Note(noted[h], level[h])
    BY <1>0, <1>2, <2>2
  <2> QED  BY <1>0, <2>2, <2>3, NoteKeeps
<1>5. \A h \in Nat : h \in Good
  <2> HIDE DEF Good
  <2> QED  BY <1>3, <1>4, EveryNatural
<1> QED  BY <1>0, <1>1, <1>2, <1>5

LEMMA ContinuesOn ==
  ASSUME NEW r, NEW s, NEW t, Len(r) \in Nat, Len(s) \in Nat, Len(t) \in Nat,
         Continues(r, s), Continues(s, t)
  PROVE  Continues(r, t)
BY DEF Continues

(* The path so far is the beginning of the whole path.                     *)
LEMMA PathGrows ==
  ASSUME NEW leaves, IsSeq(leaves), Len(leaves) >= 1,
         NEW index \in Nat, index < Len(leaves), NEW h \in 0..Len(leaves)
  PROVE  /\ Len(InclusionProof(leaves, index)) \in Nat
         /\ Continues(Noted(leaves, index)[h].path, InclusionProof(leaves, index))
<1> DEFINE n == Len(leaves)
           level == Levels(leaves)
           noted == Noted(leaves, index)
           Good == {k \in Nat : h + k <= n => Continues(noted[h].path, noted[h + k].path)}
<1>0. /\ n \in Nat
      /\ \A k \in 0..n : IsSeq(level[k]) /\ Len(level[k]) >= 1
      /\ \A k \in 1..n : noted[k] = Note(noted[k - 1], level[k - 1])
      /\ \A k \in 0..n : NoteFits(noted[k], level[k])
  BY LevelAt, NotedAt DEF LevelFits
<1>1. \A k \in 0..n : Len(noted[k].path) \in Nat
  <2> TAKE k \in 0..n
  <2>1. IsSeq(noted[k].path)
    BY <1>0 DEF NoteFits
  <2> HIDE DEF noted
  <2> QED  BY <2>1 DEF IsSeq
<1>2. 0 \in Good
  BY <1>1 DEF Continues
<1>3. ASSUME NEW k \in Nat, k \in Good PROVE k + 1 \in Good
  <2>1. SUFFICES ASSUME h + (k + 1) <= n
                 PROVE  Continues(noted[h].path, noted[h + (k + 1)].path)
    OBVIOUS
  <2>2. /\ Continues(noted[h].path, noted[h + k].path) 
        /\ h + k \in 0..n /\ h + (k + 1) \in 1..n /\ h + (k + 1) - 1 = h + k
    BY <1>0, <1>3, <2>1
  <2> HIDE DEF n, level, noted
  <2>3. noted[h + (k + 1)] = Note(noted[h + k], level[h + k])
    BY <1>0, <2>2
  <2>4. Continues(noted[h + k].path, noted[h + (k + 1)].path)
    BY <1>0, <2>2, <2>3, NoteKeeps
  <2>5. Len(noted[h].path) \in Nat /\ Len(noted[h + k].path) \in Nat
        /\ Len(noted[h + (k + 1)].path) \in Nat
    BY <1>0, <1>1, <2>2
  <2> QED  BY <2>2, <2>4, <2>5, ContinuesOn
<1>4. \A k \in Nat : k \in Good
  <2> HIDE DEF Good
  <2> QED  BY <1>2, <1>3, EveryNatural
<1>5. n - h \in Nat /\ h + (n - h) = n /\ n \in 0..n
  BY <1>0
<1>6. Continues(noted[h].path, noted[n].path)
  <2>1. n - h \in Good
    <3> HIDE DEF Good
    <3> QED  BY <1>4, <1>5
  <2> QED  BY <1>5, <2>1
<1> QED  BY <1>1, <1>5, <1>6 DEF InclusionProof

LEMMA Parity ==
  ASSUME NEW k \in Nat
  PROVE  \/ k % 2 = 1 /\ 2 * (k \div 2) = k - 1
         \/ k % 2 # 1 /\ k % 2 = 0 /\ 2 * (k \div 2) = k
OBVIOUS

LEMMA OnlyOne ==
  ASSUME NEW l \in Nat, NEW n \in Nat, NEW i \in Nat, l >= 1
  PROVE  /\ l = 1 \/ l > 1
         /\ (l = 1 \/ l + n <= n) /\ i < l => i = 0
OBVIOUS

LEMMA PairIs ==
  ASSUME NEW a, NEW b, NEW x, NEW y
  PROVE  interiorHash(a, b) = interiorHash(x, y) <=> a = x /\ b = y
BY DEF interiorHash

(* The verifier is where the prover was: the same index, the size of that  *)
(* level, and as much of the path used.                                    *)
Beside(c, m, level) ==
  c = [node |-> c.node, used |-> Len(m.path), index |-> m.index, size |-> Len(level), ok |-> TRUE]

(* A step up keeps the two beside each other, and two nodes above are      *)
(* equal exactly when the two below are.                                   *)
LEMMA UpFollows ==
  ASSUME NEW level, IsSeq(level), Len(level) >= 1, NEW m, NoteFits(m, level),
         NEW c, Beside(c, m, level), NEW path, Len(path) \in Nat,
         Continues(Note(m, level).path, path)
  PROVE  /\ Beside(Up(c, path), Note(m, level), Above(level))
         /\ Up(c, path).node = Above(level)[Note(m, level).index + 1]
              <=> c.node = level[m.index + 1]
<1>0. /\ Len(level) \in Nat /\ m.index \in Nat /\ m.index < Len(level)
      /\ Len(m.path) \in Nat
  BY DEF IsSeq, NoteFits
<1>1. c.used = Len(m.path) /\ c.index = m.index /\ c.size = Len(level) /\ c.ok
  BY DEF Beside
<1>2. CASE Len(level) = 1
  <2>1. Up(c, path) = c /\ Above(level) = level
    BY <1>1, <1>2 DEF Up, Above
  <2>2. m.index = 0 /\ ~Takes(m.index, Len(level)) /\ m.index \div 2 = 0
    BY <1>0, <1>2 DEF Takes
  <2>3. Note(m, level).index = 0 /\ Note(m, level).path = m.path
    BY <2>2, NoteKeeps
  <2> QED  BY <2>1, <2>2, <2>3 DEF Beside
<1>3. CASE Len(level) > 1
  <2> DEFINE takes == Takes(m.index, Len(level))
             sib == level[Sibling(m.index) + 1]
             node == IF ~takes THEN c.node
                     ELSE IF m.index % 2 = 1 THEN interiorHash(sib, c.node)
                     ELSE interiorHash(c.node, sib)
             up == [node |-> node, used |-> Len(Note(m, level).path),
                    index |-> m.index \div 2, size |-> (Len(level) + 1) \div 2, ok |-> TRUE]
  <2>1. ASSUME takes PROVE Up(c, path) = up
    <3>1. /\ Len(Note(m, level).path) = Len(m.path) + 1
          /\ Note(m, level).path[Len(m.path) + 1] = sib
      BY <2>1, NoteKeeps
    <3>2. Len(m.path) < Len(path) /\ path[Len(m.path) + 1] = sib
      BY <1>0, <3>1 DEF Continues
    <3>3. ~(c.size <= 1 \/ ~c.ok) /\ ~(Takes(c.index, c.size) /\ c.used = Len(path))
      BY <1>0, <1>1, <1>3, <3>2
    <3> QED  BY <1>1, <2>1, <3>1, <3>2, <3>3 DEF Up
  <2>2. ASSUME ~takes PROVE Up(c, path) = up
    <3>1. Note(m, level).path = m.path
      BY <2>2, NoteKeeps
    <3>2. ~(c.size <= 1 \/ ~c.ok) /\ ~(Takes(c.index, c.size) /\ c.used = Len(path))
      BY <1>0, <1>1, <1>3, <2>2
    <3> QED  BY <1>1, <2>2, <3>1, <3>2 DEF Up
  <2>3. Up(c, path) = up
    BY <2>1, <2>2
  <2>4. Note(m, level).index = m.index \div 2 /\ Len(Above(level)) = (Len(level) + 1) \div 2
    BY NoteKeeps, AboveIs
  <2>5. Beside(up, Note(m, level), Above(level))
    BY <2>4 DEF Beside
  <2>6. node = Above(level)[m.index \div 2 + 1] <=> c.node = level[m.index + 1]
    <3> DEFINE i == m.index \div 2 + 1
    <3>1. /\ i \in 1..Len(Above(level))
          /\ m.index % 2 = 1 => 2*i - 1 = m.index /\ 2*i = m.index + 1
          /\ m.index % 2 # 1 => 2*i - 1 = m.index + 1 /\ 2*i = m.index + 2
      <4>1. Len(Above(level)) \in Nat
        BY <1>0, <2>4
      <4>2. m.index \div 2 \in Nat /\ m.index \div 2 < (Len(level) + 1) \div 2
        BY <1>0
      <4> QED  BY <1>0, <2>4, <4>1, <4>2, Parity
    <3>2. Above(level)[i] = IF 2*i > Len(level) THEN level[2*i - 1]
                            ELSE interiorHash(level[2*i - 1], level[2*i])
      BY <1>3, <3>1, AboveIs
    <3>3. CASE m.index % 2 = 1
      <4>1. takes /\ sib = level[m.index] /\ ~(2*i > Len(level))
        <5>1. Sibling(m.index) + 1 = m.index
          BY <1>0, <3>3 DEF Sibling
        <5>2. ~(2*i > Len(level))
          BY <1>0, <3>1, <3>3
        <5> QED  BY <3>3, <5>1, <5>2 DEF Takes
      <4>2. node = interiorHash(level[m.index], c.node)
            /\ Above(level)[i] = interiorHash(level[m.index], level[m.index + 1])
        BY <3>1, <3>2, <3>3, <4>1
      <4> HIDE DEF node, i
      <4>3. node = Above(level)[i] <=> c.node = level[m.index + 1]
        BY <4>2, PairIs
      <4> QED  BY <4>3 DEF i
    <3>4. CASE m.index % 2 # 1 /\ m.index + 1 < Len(level)
      <4>1. takes /\ sib = level[m.index + 2] /\ ~(2*i > Len(level))
        <5>1. Sibling(m.index) + 1 = m.index + 2
          BY <1>0, <3>4, Parity DEF Sibling
        <5>2. ~(2*i > Len(level))
          BY <1>0, <3>1, <3>4
        <5> QED  BY <3>4, <5>1, <5>2 DEF Takes
      <4>2. node = interiorHash(c.node, level[m.index + 2])
            /\ Above(level)[i] = interiorHash(level[m.index + 1], level[m.index + 2])
        BY <3>1, <3>2, <3>4, <4>1
      <4> HIDE DEF node, i
      <4>3. node = Above(level)[i] <=> c.node = level[m.index + 1]
        BY <4>2, PairIs
      <4> QED  BY <4>3 DEF i
    <3>5. CASE m.index % 2 # 1 /\ ~(m.index + 1 < Len(level))
      <4>1. ~takes /\ 2*i > Len(level)
        BY <1>0, <3>1, <3>5, Parity DEF Takes
      <4> QED  BY <3>1, <3>2, <3>5, <4>1
    <3> QED  BY <3>3, <3>4, <3>5
  <2> QED  BY <2>3, <2>4, <2>5, <2>6
<1>4. Len(level) = 1 \/ Len(level) > 1
  BY <1>0, OnlyOne
<1> QED  BY <1>2, <1>3, <1>4

LEMMA ClimbAt ==
  ASSUME NEW leaves, IsSeq(leaves), Len(leaves) >= 1,
         NEW index \in Nat, index < Len(leaves), NEW leaf,
         NEW h \in 0..Len(leaves)
  PROVE  LET c == Climb(leaf, index, Len(leaves), InclusionProof(leaves, index))[h]
             m == Noted(leaves, index)[h]
             level == Levels(leaves)[h]
         IN  Beside(c, m, level) /\ (c.node = level[m.index + 1] <=> leaf = leaves[index + 1])
<1> DEFINE n == Len(leaves)
           path == InclusionProof(leaves, index)
           level == Levels(leaves)
           noted == Noted(leaves, index)
           c == Climb(leaf, index, n, path)
           Right(k) == /\ Beside(c[k], noted[k], level[k])
                       /\ c[k].node = level[k][noted[k].index + 1] <=> leaf = leaves[index + 1]
           Good == {k \in Nat : k <= n => Right(k)}
<1>0. /\ n \in Nat
      /\ \A k \in 0..n : IsSeq(level[k]) /\ Len(level[k]) >= 1
      /\ \A k \in 1..n : level[k] = Above(level[k - 1])
      /\ \A k \in 1..n : noted[k] = Note(noted[k - 1], level[k - 1])
      /\ \A k \in 0..n : NoteFits(noted[k], level[k])
      /\ \A k \in 0..n : Continues(noted[k].path, path)
      /\ Len(path) \in Nat
  BY LevelAt, NotedAt, PathGrows DEF LevelFits
<1>1. c[0] = Foot(leaf, index, n) /\ \A k \in 1..n : c[k] = Up(c[k - 1], path)
  BY <1>0, ClimbIs
<1>2. 0 \in Good
  <2>1. level[0] = Ground(leaves) /\ noted[0] = [index |-> index, path |-> <<>>]
    BY LevelAt, NotedAt
  <2>2. index + 1 \in DOMAIN leaves
    BY DEF IsSeq
  <2>3. level[0][index + 1] = leafHash(leaves[index + 1])
    BY <2>1, <2>2 DEF Ground
  <2>4. Len(level[0]) = n
    BY <2>1, GroundIs
  <2> HIDE DEF n, level, noted, c
  <2>5. Beside(c[0], noted[0], level[0])
    <3>1. /\ noted[0].index = index /\ Len(noted[0].path) = 0 /\ index < n
          /\ c[0] = Foot(leaf, index, n) /\ c[0].node = leafHash(leaf)
      BY <1>1, <2>1 DEF Foot, n
    <3> QED  BY <2>4, <3>1 DEF Beside, Foot
  <2>6. c[0].node = level[0][noted[0].index + 1] <=> leaf = leaves[index + 1]
    BY <1>1, <2>1, <2>3 DEF Foot, leafHash
  <2> QED  BY <2>5, <2>6
<1>3. ASSUME NEW k \in Nat, k \in Good PROVE k + 1 \in Good
  <2>1. SUFFICES ASSUME k + 1 <= n PROVE Right(k + 1)
    OBVIOUS
  <2>2. Right(k) /\ k \in 0..n /\ k + 1 \in 1..n /\ k + 1 \in 0..n /\ k + 1 - 1 = k
    BY <1>0, <1>3, <2>1
  <2> HIDE DEF n, level, noted, c, path
  <2>3. /\ level[k + 1] = Above(level[k]) /\ noted[k + 1] = Note(noted[k], level[k])
        /\ c[k + 1] = Up(c[k], path)
    BY <1>0, <1>1, <2>2
  <2>5. /\ IsSeq(level[k]) /\ Len(level[k]) >= 1 /\ NoteFits(noted[k], level[k])
        /\ Beside(c[k], noted[k], level[k]) /\ Continues(Note(noted[k], level[k]).path, path)
    BY <1>0, <2>2, <2>3
  <2>4. Beside(c[k + 1], noted[k + 1], level[k + 1])
        /\ (c[k + 1].node = level[k + 1][noted[k + 1].index + 1]
              <=> c[k].node = level[k][noted[k].index + 1])
    BY <1>0, <2>3, <2>5, UpFollows
  <2> QED  BY <2>2, <2>4
<1>4. \A k \in Nat : k \in Good
  <2> HIDE DEF Good
  <2> QED  BY <1>2, <1>3, EveryNatural
<1>5. Right(h)
  <2>1. h \in Nat /\ h \in Good /\ h <= n
    <3> HIDE DEF Good
    <3> QED  BY <1>0, <1>4
  <2> HIDE DEF Right
  <2> QED  BY <2>1
<1> QED  BY <1>5

(* The path of a leaf proves what is at its index, and nothing else.       *)
LEMMA PathProves ==
  ASSUME NEW leaves, IsSeq(leaves), Len(leaves) >= 1,
         NEW index \in Nat, index < Len(leaves), NEW leaf
  PROVE  VerifyInclusion(leaf, index, Len(leaves), InclusionProof(leaves, index),
                         MerkleRoot(leaves))
           <=> leaf = leaves[index + 1]
<1> DEFINE n == Len(leaves)
           path == InclusionProof(leaves, index)
           level == Levels(leaves)[n]
           m == Noted(leaves, index)[n]
           c == Climb(leaf, index, n, path)[n]
<1>1. n \in Nat /\ n \in 0..n
  BY DEF IsSeq
<1>2. Beside(c, m, level) /\ (c.node = level[m.index + 1] <=> leaf = leaves[index + 1])
  BY <1>1, ClimbAt
<1>3. LevelFits(level, n, n) /\ NoteFits(m, level)
  BY <1>1, LevelAt, NotedAt
<1>4. m.index = 0
  <2>1. Len(level) \in Nat /\ Len(level) >= 1 /\ (Len(level) = 1 \/ Len(level) + n <= n)
    <3> HIDE DEF n, level
    <3> QED  BY <1>3 DEF LevelFits, IsSeq
  <2>2. m.index \in Nat /\ m.index < Len(level)
    BY <1>3 DEF NoteFits
  <2> HIDE DEF n, level, m
  <2> QED  BY <1>1, <2>1, <2>2, OnlyOne
<1>5. c.ok /\ c.used = Len(path)
  <2> HIDE DEF c, level
  <2> QED  BY <1>2 DEF Beside, InclusionProof
<1>6. MerkleRoot(leaves) = level[1]
  BY DEF MerkleRoot
<1> QED  BY <1>2, <1>4, <1>5, <1>6 DEF VerifyInclusion

(***************************************************************************)
(* Inclusion: the leaves of a period, in order, each at one place.         *)
(***************************************************************************)
(* LeafOrder is total on the leaves of a period: a decision has one.       *)
LeafSet(S) ==
  /\ S \subseteq [decision : Nat, recordedAt : Nat]
  /\ \A a, b \in S : a.decision = b.decision => a = b

Ordered(s) == \A i, j \in DOMAIN s : i < j => LeafOrder(s[i], s[j])

LEMMA EarliestLeaf ==
  ASSUME NEW S, LeafSet(S), S # {}
  PROVE  \E a \in S : \A b \in S \ {a} : LeafOrder(a, b)
<1> DEFINE Instants == {b.recordedAt : b \in S}
<1>1. Instants \subseteq Nat /\ Instants # {}
  BY DEF LeafSet
<1>2. PICK t \in Instants : \A u \in Instants : t <= u
  <2> HIDE DEF Instants
  <2> QED  BY <1>1, LeastExists
<1> DEFINE Ids == {b.decision : b \in {c \in S : c.recordedAt = t}}
<1>3. Ids \subseteq Nat /\ Ids # {}
  BY DEF LeafSet
<1>4. PICK d \in Ids : \A e \in Ids : d <= e
  <2> HIDE DEF Ids
  <2> QED  BY <1>3, LeastExists
<1>5. PICK a \in S : a.recordedAt = t /\ a.decision = d
  OBVIOUS
<1>6. ASSUME NEW b \in S \ {a} PROVE LeafOrder(a, b)
  <2>1. /\ a.decision \in Nat /\ a.recordedAt \in Nat /\ b.decision \in Nat
        /\ b.recordedAt \in Nat /\ a.decision # b.decision
    BY DEF LeafSet
  <2>2. t <= b.recordedAt
    BY <1>2
  <2>3. CASE b.recordedAt = t
    <3>1. d <= b.decision
      BY <1>4, <2>3
    <3> QED  BY <1>5, <2>1, <2>3, <3>1 DEF LeafOrder
  <2>4. CASE b.recordedAt # t
    BY <1>5, <2>1, <2>2, <2>4 DEF LeafOrder
  <2> QED  BY <2>3, <2>4
<1> QED  BY <1>6

Orderable(S) == \E s \in [1..Cardinality(S) -> S] : Ordered(s)

(* Leaves can be listed in LeafOrder: the earliest, then the others.       *)
LEMMA OrderExists ==
  ASSUME NEW U, LeafSet(U), IsFiniteSet(U)
  PROVE  Orderable(U)
<1> DEFINE Good == {n \in Nat : \A S \in SUBSET U : IsFiniteSet(S) /\ Cardinality(S) = n
                                                       => Orderable(S)}
<1>1. 0 \in Good
  <2>1. SUFFICES ASSUME NEW S \in SUBSET U, IsFiniteSet(S), Cardinality(S) = 0
                 PROVE  Orderable(S)
    OBVIOUS
  <2> DEFINE s == [i \in 1..0 |-> CHOOSE x \in S : TRUE]
  <2>2. s \in [1..0 -> S] /\ Ordered(s)
    BY DEF Ordered
  <2> HIDE DEF s
  <2> QED  BY <2>1, <2>2 DEF Orderable
<1>2. ASSUME NEW n \in Nat, n \in Good PROVE n + 1 \in Good
  <2>1. SUFFICES ASSUME NEW S \in SUBSET U, IsFiniteSet(S), Cardinality(S) = n + 1
                 PROVE  Orderable(S)
    OBVIOUS
  <2>2. S # {} /\ LeafSet(S)
    BY <2>1, FS_EmptySet DEF LeafSet
  <2>3. PICK a \in S : \A b \in S \ {a} : LeafOrder(a, b)
    BY <2>2, EarliestLeaf
  <2>4. IsFiniteSet(S \ {a}) /\ Cardinality(S \ {a}) = n
    <3>1. IsFiniteSet(S \ {a}) /\ Cardinality(S \ {a}) = Cardinality(S) - 1
      BY <2>1, FS_RemoveElement
    <3> QED  BY <2>1, <3>1
  <2>5. PICK t \in [1..n -> S \ {a}] : Ordered(t)
    BY <1>2, <2>4 DEF Orderable
  <2> DEFINE s == [i \in 1..(n + 1) |-> IF i = 1 THEN a ELSE t[i - 1]]
  <2>6. s \in [1..(n + 1) -> S]
    OBVIOUS
  <2>7. ASSUME NEW i \in 1..(n + 1), NEW j \in 1..(n + 1), i < j PROVE LeafOrder(s[i], s[j])
    <3>1. j - 1 \in 1..n /\ s[j] = t[j - 1] /\ t[j - 1] \in S \ {a}
      BY <2>7
    <3>2. CASE i = 1
      BY <2>3, <3>1, <3>2
    <3>3. CASE i # 1
      <4>1. i - 1 \in 1..n /\ i - 1 < j - 1 /\ s[i] = t[i - 1]
        BY <2>7, <3>3
      <4> QED  BY <2>5, <3>1, <4>1 DEF Ordered
    <3> QED  BY <3>2, <3>3
  <2>8. Ordered(s)
    BY <2>7 DEF Ordered
  <2> HIDE DEF s
  <2> QED  BY <2>1, <2>6, <2>8 DEF Orderable
<1>3. Cardinality(U) \in Nat
  BY FS_CardinalityType
<1>4. Cardinality(U) \in Good
  <2> HIDE DEF Good
  <2> QED  BY <1>1, <1>2, <1>3, EveryNatural
<1> QED  BY <1>4

(* The list has every leaf: no two places have the same, and there are as  *)
(* many places as leaves.                                                  *)
LEMMA OrderLists ==
  ASSUME NEW U, LeafSet(U), IsFiniteSet(U)
  PROVE  /\ OrderLeaves(U) \in Seq(U) /\ Len(OrderLeaves(U)) = Cardinality(U)
         /\ \A a \in U : \E i \in 1..Cardinality(U) : OrderLeaves(U)[i] = a
<1> DEFINE n == Cardinality(U)
           s == OrderLeaves(U)
<1>1. n \in Nat
  BY FS_CardinalityType
<1>2. s \in [1..n -> U] /\ \A i, j \in DOMAIN s : i < j => LeafOrder(s[i], s[j])
  BY OrderExists DEF OrderLeaves, Ordered, Orderable
<1> HIDE DEF n, s
<1>3. ASSUME NEW i \in 1..n, NEW j \in 1..n, s[i] = s[j] PROVE i = j
  <2>1. ~(i < j) /\ ~(j < i)
    BY <1>2, <1>3 DEF LeafOrder, LeafSet
  <2> QED  BY <1>1, <2>1
<1>4. s \in Injection(1..n, U)
  BY <1>2, <1>3 DEF Injection, IsInjective
<1>5. IsFiniteSet(1..n) /\ Cardinality(1..n) = n
  BY <1>1, FS_Interval
<1>6. s \in Surjection(1..n, U)
  BY <1>4, <1>5, FS_Injection DEF n
<1>7. s \in Seq(U) /\ Len(s) = n
  BY <1>1, <1>2
<1> QED  BY <1>6, <1>7 DEF Surjection, n, s
LEMMA LeavesFinite ==
  ASSUME Typed, NEW start, NEW end
  PROVE  /\ IsFiniteSet(Leaves(start, end))
         /\ Cardinality(Leaves(start, end)) \in 0..Cardinality(Decision)
<1> DEFINE of == {e \in recorded : In(recordedAt[e], start, end)}
           S == Leaves(start, end)
           f == [d \in of |-> [decision |-> d, recordedAt |-> recordedAt[d]]]
<1>1. of \in SUBSET Decision
  BY DEF Typed
<1>2. IsFiniteSet(of) /\ Cardinality(of) <= Cardinality(Decision)
  BY <1>1, DecisionAssumption, FS_Subset
<1>3. f \in Surjection(of, S)
  <2>1. S = {f[d] : d \in of} /\ f = [d \in of |-> f[d]]
    BY DEF Leaves
  <2> HIDE DEF f, of, S
  <2> QED  BY <2>1 DEF Surjection
<1>4. IsFiniteSet(S) /\ Cardinality(S) <= Cardinality(of)
  <2> HIDE DEF f, of, S
  <2> QED  BY <1>2, <1>3, FS_Surjection
<1>5. Cardinality(S) \in Nat /\ Cardinality(of) \in Nat /\ Cardinality(Decision) \in Nat
  <2> HIDE DEF of, S
  <2> QED  BY <1>2, <1>4, DecisionAssumption, FS_CardinalityType
<1> HIDE DEF of
<1> QED  BY <1>2, <1>4, <1>5

(* The leaves of a period, each at one place of its sequence.              *)
LEMMA LeavesListed ==
  ASSUME Typed, Young, NEW start, NEW end
  PROVE  LET S == Leaves(start, end)
             s == SealLeaves(start, end)
         IN  /\ LeafSet(S) /\ IsSeq(s) /\ Len(s) \in Nat
             /\ \A i \in 1..Len(s) : s[i] \in S
             /\ \A a \in S : \E i \in 1..Len(s) : s[i] = a
<1> DEFINE of == {e \in recorded : In(recordedAt[e], start, end)}
           S == Leaves(start, end)
           s == SealLeaves(start, end)
<1>1. IsFiniteSet(S)
  BY LeavesFinite
<1>2. LeafSet(S)
  <2>1. \A d \in of : d \in Nat /\ recordedAt[d] \in Nat
    BY DecisionAssumption DEF Typed, Young
  <2> QED  BY <2>1 DEF LeafSet, Leaves
<1>3. s = OrderLeaves(S)
  BY DEF SealLeaves
<1> HIDE DEF S, s
<1>4. /\ s \in Seq(S) /\ Len(s) = Cardinality(S)
      /\ \A a \in S : \E i \in 1..Cardinality(S) : s[i] = a
  BY <1>1, <1>2, <1>3, OrderLists
<1>5. \A i \in 1..Len(s) : s[i] \in S
  BY <1>4
<1> QED  BY <1>2, <1>4, <1>5 DEF IsSeq, S, s

(* The place found for a decision is one where it is.                      *)
LEMMA PositionIs ==
  ASSUME NEW leaves, Len(leaves) \in Nat, NEW d, NEW i \in 1..Len(leaves),
         leaves[i].decision = d
  PROVE  /\ Position(leaves, d) \in Nat /\ Position(leaves, d) < Len(leaves)
         /\ leaves[Position(leaves, d) + 1].decision = d
<1> DEFINE I == {j \in 1..Len(leaves) : leaves[j].decision = d}
<1>1. I \subseteq Nat /\ I # {}
  OBVIOUS
<1>2. \E j \in I : \A k \in I : j <= k
  <2> HIDE DEF I
  <2> QED  BY <1>1, LeastExists
<1>3. Min(I) \in I
  <2> HIDE DEF I
  <2> QED  BY <1>2 DEF Min
<1>4. Position(leaves, d) = Min(I) - 1
  BY <1>1 DEF Position, SelectInSeq
<1> QED  BY <1>3, <1>4

(* A seal says what the table has, so the proof of a decision it covers is *)
(* checked against the tree the path is from.                              *)
LEMMA RightIncludes == IInv => InclusionProves
<1>1. SUFFICES ASSUME IInv, NEW k \in DOMAIN seals, NEW d \in recorded,
                      In(recordedAt[d], seals[k].start, seals[k].end), NEW x \in recorded
               PROVE  Included(k, d, x) <=> x = d
  BY DEF InclusionProves
<1> DEFINE S == Leaves(seals[k].start, seals[k].end)
           s == SealLeaves(seals[k].start, seals[k].end)
           p == Position(s, d)
           Leaf(e) == [decision |-> e, recordedAt |-> recordedAt[e]]
<1>2. /\ LeafSet(S) /\ IsSeq(s) /\ Len(s) \in Nat
      /\ \A i \in 1..Len(s) : s[i] \in S
      /\ \A a \in S : \E i \in 1..Len(s) : s[i] = a
  BY <1>1, LeavesListed DEF IInv
<1>3. Leaf(d) \in S
  BY <1>1 DEF Leaves
<1>4. PICK i \in 1..Len(s) : s[i] = Leaf(d)
  <2> HIDE DEF S, s, Leaf
  <2> QED  BY <1>2, <1>3
<1>5. p \in Nat /\ p < Len(s) /\ s[p + 1].decision = d
  <2>1. s[i].decision = d
    BY <1>4
  <2> HIDE DEF s
  <2> QED  BY <1>2, <2>1, PositionIs
<1>6. s[p + 1] = Leaf(d)
  <2>1. p + 1 \in 1..Len(s)
    BY <1>2, <1>5
  <2>2. s[p + 1] \in S
    BY <1>2, <2>1
  <2>3. Leaf(d).decision = d
    OBVIOUS
  <2> HIDE DEF S, s, p, Leaf
  <2> QED  BY <1>2, <1>3, <1>5, <2>2, <2>3 DEF LeafSet
<1>7. VerifyInclusion(Leaf(x), p, Len(s), InclusionProof(s, p), MerkleRoot(s)) <=> x = d
  <2>1. Leaf(x) = Leaf(d) <=> x = d
    OBVIOUS
  <2>2. Len(s) >= 1
    BY <1>2, <1>5
  <2> HIDE DEF s, p, Leaf
  <2> QED  BY <1>2, <1>5, <1>6, <2>1, <2>2, PathProves
<1>8. Len(s) = seals[k].leafCount /\ MerkleRoot(s) = seals[k].merkleRoot
  BY <1>1 DEF IInv, SealedRight
<1> QED  BY <1>1, <1>7, <1>8 DEF Included

(* Every decision whose instant a seal covers has a proof that verifies    *)
(* against the seal's root, and with no other decision's leaf does it.     *)
THEOREM InclusionIsProof == Spec => []InclusionProves
<1>1. Init => IInv
  BY TypedInit DEF IInv
<1> QED  BY <1>1, RightStep, RightIncludes, PTL DEF Spec

(***************************************************************************)
(* RFC 6962: what MerkleRoot pairs up from the leaves is the tree the RFC  *)
(* splits from the root.                                                   *)
(***************************************************************************)
(* Power is its recursion's: any two tables of the first powers agree.     *)
LEMMA PowerIs ==
  Power = [e \in Nat |-> IF e = 0 THEN 1 ELSE 2 * Power[e - 1]]
<1> DEFINE Are(f, n) == f = [h \in 0..n |-> IF h = 0 THEN 1 ELSE 2 * f[h - 1]]
           Far == {n \in Nat : \E f : Are(f, n)}
           upTo(n) == CHOOSE f : Are(f, n)
           g == [e \in Nat |-> upTo(e)[e]]
<1>1. 0 \in Far
  <2>1. Are([h \in 0..0 |-> 1], 0)
    OBVIOUS
  <2> QED  BY <2>1
<1>2. ASSUME NEW n \in Nat, n \in Far PROVE n + 1 \in Far
  <2>1. PICK f : Are(f, n)
    BY <1>2
  <2> DEFINE k == [h \in 0..(n + 1) |-> IF h = n + 1 THEN 2 * f[n] ELSE f[h]]
  <2>2. ASSUME NEW h \in 0..(n + 1)
        PROVE  k[h] = IF h = 0 THEN 1 ELSE 2 * k[h - 1]
    BY <2>1
  <2>3. Are(k, n + 1)
    <3>1. k = [h \in 0..(n + 1) |-> k[h]]
      OBVIOUS
    <3> HIDE DEF k
    <3> QED  BY <2>2, <3>1
  <2> HIDE DEF Are, k
  <2>4. \E a : Are(a, n + 1)
    BY <2>3
  <2> QED  BY <2>4
<1>3. \A n \in Nat : Are(upTo(n), n)
  <2>1. \A n \in Nat : n \in Far
    <3> HIDE DEF Far
    <3> QED  BY <1>1, <1>2, EveryNatural
  <2> TAKE n \in Nat
  <2>2. \E f : Are(f, n)
    BY <2>1
  <2> HIDE DEF Are
  <2> QED  BY <2>2
<1>4. ASSUME NEW n \in Nat, NEW m \in Nat, NEW a, NEW b, Are(a, n), Are(b, m)
      PROVE  \A e \in Nat : e <= n /\ e <= m => a[e] = b[e]
  <2> DEFINE Same == {e \in Nat : e <= n /\ e <= m => a[e] = b[e]}
  <2>1. 0 \in Same
    BY <1>4
  <2>2. ASSUME NEW e \in Nat, e \in Same PROVE e + 1 \in Same
    BY <1>4, <2>2
  <2>3. \A e \in Nat : e \in Same
    <3> HIDE DEF Same
    <3> QED  BY <2>1, <2>2, EveryNatural
  <2> QED  BY <2>3
<1>5. ASSUME NEW e \in Nat PROVE g[e] = IF e = 0 THEN 1 ELSE 2 * g[e - 1]
  <2>1. Are(upTo(e), e)
    BY <1>3
  <2>2. CASE e = 0
    <3> HIDE DEF upTo
    <3> QED  BY <2>1, <2>2
  <2>3. CASE e # 0
    <3>0. e - 1 \in Nat /\ e - 1 <= e
      BY <2>3
    <3>1. Are(upTo(e - 1), e - 1)
      <4> HIDE DEF Are, upTo
      <4> QED  BY <1>3, <3>0
    <3> HIDE DEF upTo
    <3>2. upTo(e)[e - 1] = upTo(e - 1)[e - 1]
      <4> HIDE DEF Are
      <4> QED  BY <1>4, <2>1, <3>0, <3>1
    <3>3. upTo(e)[e] = 2 * upTo(e)[e - 1]
      BY <2>1, <2>3
    <3> QED  BY <2>3, <3>0, <3>2, <3>3
  <2> QED  BY <2>2, <2>3
<1>6. g = [e \in Nat |-> IF e = 0 THEN 1 ELSE 2 * g[e - 1]]
  <2>1. g = [e \in Nat |-> g[e]]
    OBVIOUS
  <2> HIDE DEF g
  <2> QED  BY <1>5, <2>1
<1>7. \E f : f = [e \in Nat |-> IF e = 0 THEN 1 ELSE 2 * f[e - 1]]
  <2> HIDE DEF g
  <2> QED  BY <1>6
<1> QED  BY <1>7 DEF Power

LEMMA PowerAt ==
  /\ Power[0] = 1
  /\ \A e \in Nat : Power[e + 1] = 2 * Power[e]
  /\ \A e \in Nat : Power[e] \in Nat /\ Power[e] > e /\ Power[e] >= 1
<1>1. Power[0] = 1
  BY PowerIs
<1>2. ASSUME NEW e \in Nat PROVE Power[e + 1] = 2 * Power[e]
  <2>1. e + 1 \in Nat /\ e + 1 # 0 /\ e + 1 - 1 = e
    OBVIOUS
  <2> QED  BY <2>1, PowerIs
<1> DEFINE S == {e \in Nat : Power[e] \in Nat /\ Power[e] > e /\ Power[e] >= 1}
<1>3. 0 \in S
  BY <1>1
<1>4. ASSUME NEW e \in Nat, e \in S PROVE e + 1 \in S
  BY <1>2, <1>4
<1>5. \A e \in Nat : e \in S
  <2> HIDE DEF S
  <2> QED  BY <1>3, <1>4, EveryNatural
<1> QED  BY <1>1, <1>2, <1>5

LEMMA PowerGrows ==
  ASSUME NEW e \in Nat, NEW h \in Nat, e < h
  PROVE  2 * Power[e] <= Power[h]
<1> DEFINE S == {k \in Nat : 2 * Power[e] <= Power[e + 1 + k]}
<1>1. 0 \in S
  BY PowerAt
<1>2. ASSUME NEW k \in Nat, k \in S PROVE k + 1 \in S
  <2>1. e + 1 + k \in Nat /\ e + 1 + (k + 1) = (e + 1 + k) + 1
    OBVIOUS
  <2>2. Power[e + 1 + (k + 1)] = 2 * Power[e + 1 + k] /\ Power[e + 1 + k] \in Nat
        /\ Power[e] \in Nat
    BY <2>1, PowerAt
  <2> QED  BY <1>2, <2>2
<1>3. \A k \in Nat : k \in S
  <2> HIDE DEF S
  <2> QED  BY <1>1, <1>2, EveryNatural
<1>4. h - e - 1 \in Nat /\ e + 1 + (h - e - 1) = h
  OBVIOUS
<1>5. h - e - 1 \in S
  <2> HIDE DEF S
  <2> QED  BY <1>3, <1>4
<1> QED  BY <1>4, <1>5

(* One power of two is below n and no less than half of it.                *)
LEMMA SplitIs ==
  ASSUME NEW h \in Nat, NEW n \in Nat, Power[h] < n, n <= 2 * Power[h]
  PROVE  Split(n) = Power[h]
<1> DEFINE Splits(k) == (\E e \in 0..n : k = Power[e]) /\ 2*k >= n
<1>1. Power[h] \in Nat /\ Power[h] > h /\ Power[h] >= 1
  BY PowerAt
<1>2. Power[h] \in 1..(n - 1) /\ Splits(Power[h])
  <2>1. h \in 0..n
    BY <1>1
  <2> QED  BY <1>1, <2>1
<1>3. ASSUME NEW k \in 1..(n - 1), Splits(k) PROVE k = Power[h]
  <2>1. PICK e \in 0..n : k = Power[e]
    BY <1>3
  <2>2. k \in Nat /\ 2*k >= n /\ k < n
    BY <1>3
  <2>3. ~(e < h)
    <3>1. e < h => 2 * k <= Power[h]
      BY <2>1, PowerGrows
    <3> QED  BY <1>1, <2>2, <3>1
  <2>4. ~(h < e)
    <3>1. h < e => 2 * Power[h] <= k
      BY <2>1, PowerGrows
    <3> QED  BY <1>1, <2>2, <3>1
  <2>5. e = h
    BY <2>3, <2>4
  <2> QED  BY <2>1, <2>5
<1> HIDE DEF Splits
<1>4. (CHOOSE k \in 1..(n - 1) : Splits(k)) = Power[h]
  BY <1>2, <1>3
<1> QED  BY <1>4 DEF Split, Splits

LEMMA SplitExists ==
  ASSUME NEW n \in Nat, n >= 2
  PROVE  \E h \in Nat : Power[h] < n /\ n <= 2 * Power[h]
<1> DEFINE Between(m) == \E h \in Nat : Power[h] < m /\ m <= 2 * Power[h]
           S == {k \in Nat : Between(k + 2)}
<1>1. 0 \in S
  <2>1. Power[0] < 0 + 2 /\ 0 + 2 <= 2 * Power[0]
    BY PowerAt
  <2> QED  BY <2>1
<1>2. ASSUME NEW k \in Nat, k \in S PROVE k + 1 \in S
  <2>1. PICK h \in Nat : Power[h] < k + 2 /\ k + 2 <= 2 * Power[h]
    BY <1>2
  <2>2. Power[h] \in Nat /\ Power[h + 1] = 2 * Power[h] /\ h + 1 \in Nat
    BY PowerAt
  <2>3. CASE k + 1 + 2 <= 2 * Power[h]
    BY <2>1, <2>2, <2>3
  <2>4. CASE ~(k + 1 + 2 <= 2 * Power[h])
    <3>1. Power[h + 1] < k + 1 + 2 /\ k + 1 + 2 <= 2 * Power[h + 1]
      BY <2>1, <2>2, <2>4
    <3> QED  BY <2>2, <3>1
  <2> QED  BY <2>3, <2>4
<1>3. \A k \in Nat : k \in S
  <2> HIDE DEF S
  <2> QED  BY <1>1, <1>2, EveryNatural
<1>4. n - 2 \in Nat /\ n - 2 + 2 = n
  OBVIOUS
<1> QED  BY <1>3, <1>4

LEMMA SplitWithin ==
  ASSUME NEW n \in Nat, n >= 2
  PROVE  Split(n) \in 1..(n - 1) /\ n - Split(n) \in 1..(n - 1)
<1>1. PICK h \in Nat : Power[h] < n /\ n <= 2 * Power[h]
  BY SplitExists
<1>2. Split(n) = Power[h] /\ Power[h] \in Nat /\ Power[h] >= 1
  BY <1>1, SplitIs, PowerAt
<1> QED  BY <1>1, <1>2

\* The trees of n leaves, given those of fewer.
Trees(leaves, f, n) ==
  [lo \in 0..(Len(leaves) - n) |->
     IF n = 1 THEN leafHash(leaves[lo + 1])
     ELSE interiorHash(f[Split(n)][lo], f[n - Split(n)][lo + Split(n)])]

LEMMA TreesSame ==
  ASSUME NEW leaves, NEW f, NEW g, NEW n,
         n # 1 => f[Split(n)] = g[Split(n)] /\ f[n - Split(n)] = g[n - Split(n)]
  PROVE  Trees(leaves, f, n) = Trees(leaves, g, n)
BY DEF Trees

(* Tree is its recursion's: a split leaves fewer leaves on either side.    *)
LEMMA TreeIs ==
  ASSUME NEW leaves, Len(leaves) \in Nat
  PROVE  Tree(leaves) = [n \in 1..Len(leaves) |-> Trees(leaves, Tree(leaves), n)]
<1> DEFINE Are(f, m) == f = [n \in 1..m |-> Trees(leaves, f, n)]
           Far == {m \in Nat : \E f : Are(f, m)}
<1>1. 0 \in Far
  <2>1. Are([n \in 1..0 |-> n], 0)
    OBVIOUS
  <2> HIDE DEF Are
  <2>2. \E f : Are(f, 0)
    BY <2>1
  <2> QED  BY <2>2
<1>2. ASSUME NEW m \in Nat, m \in Far PROVE m + 1 \in Far
  <2>1. PICK f : Are(f, m)
    BY <1>2
  <2> DEFINE g == [n \in 1..(m + 1) |-> IF n = m + 1 THEN Trees(leaves, f, n) ELSE f[n]]
  <2>2. ASSUME NEW n \in 1..(m + 1) PROVE g[n] = Trees(leaves, g, n)
    <3>1. g[n] = Trees(leaves, f, n)
      BY <2>1
    <3>2. ASSUME n # 1 PROVE f[Split(n)] = g[Split(n)] /\ f[n - Split(n)] = g[n - Split(n)]
      <4>1. Split(n) \in 1..(n - 1) /\ n - Split(n) \in 1..(n - 1)
        BY <3>2, SplitWithin
      <4>2. \A k \in 1..(n - 1) : g[k] = f[k]
        OBVIOUS
      <4> HIDE DEF g
      <4> QED  BY <4>1, <4>2
    <3> HIDE DEF g
    <3>3. Trees(leaves, f, n) = Trees(leaves, g, n)
      BY <3>2, TreesSame
    <3> QED  BY <3>1, <3>3
  <2>3. Are(g, m + 1)
    <3>1. g = [n \in 1..(m + 1) |-> g[n]]
      OBVIOUS
    <3> HIDE DEF g
    <3> QED  BY <2>2, <3>1
  <2> HIDE DEF Are, g
  <2>4. \E a : Are(a, m + 1)
    BY <2>3
  <2> QED  BY <2>4
<1>3. \E f : Are(f, Len(leaves))
  <2> HIDE DEF Far
  <2>1. Len(leaves) \in Far
    BY <1>1, <1>2, EveryNatural
  <2> QED  BY <2>1 DEF Far
<1> QED  BY <1>3 DEF Tree, Trees

LEMMA TreeSplits ==
  ASSUME NEW leaves, Len(leaves) \in Nat,
         NEW h \in Nat, NEW q \in Nat, 1 <= q, q <= Power[h],
         NEW lo \in Nat, lo + (Power[h] + q) <= Len(leaves)
  PROVE  Tree(leaves)[Power[h] + q][lo]
           = interiorHash(Tree(leaves)[Power[h]][lo], Tree(leaves)[q][lo + Power[h]])
<1> DEFINE n == Power[h] + q
<1>1. Power[h] \in Nat /\ Power[h] >= 1
  BY PowerAt
<1>2. n \in 1..Len(leaves) /\ n # 1 /\ lo \in 0..(Len(leaves) - n) /\ n - Power[h] = q
  BY <1>1
<1>3. Split(n) = Power[h]
  BY <1>1, SplitIs
<1>4. Tree(leaves)[n] = Trees(leaves, Tree(leaves), n)
  <2> HIDE DEF n
  <2> QED  BY <1>2, TreeIs
<1> HIDE DEF n
<1>5. Tree(leaves)[n][lo] = interiorHash(Tree(leaves)[Power[h]][lo], Tree(leaves)[q][lo + Power[h]])
  BY <1>2, <1>3, <1>4 DEF Trees
<1> QED  BY <1>5 DEF n

LEMMA Multiples ==
  ASSUME NEW i \in Nat, i >= 1, NEW p \in Nat
  PROVE  /\ (i - 1) * (2 * p) \in Nat
         /\ (2 * i - 1 - 1) * p = (i - 1) * (2 * p)
         /\ (2 * i - 1) * p = (i - 1) * (2 * p) + p
         /\ (2 * i) * p = (i - 1) * (2 * p) + 2 * p
         /\ i * (2 * p) = (i - 1) * (2 * p) + 2 * p
OBVIOUS

LEMMA MultiplesGrow ==
  ASSUME NEW i \in Nat, NEW j \in Nat, i <= j, NEW p \in Nat
  PROVE  i * p \in Nat /\ j * p \in Nat /\ i * p <= j * p
OBVIOUS

\* How many of n leaves the i-th node of a level is over, when a full one is over p.
Under(i, p, n) == IF i * p <= n THEN p ELSE n - (i - 1) * p

Spans(l, p, n) == (l - 1) * p < n /\ n <= l * p

OverTrees(level, p, leaves) ==
  /\ Spans(Len(level), p, Len(leaves))
  /\ \A i \in 1..Len(level) :
       level[i] = Tree(leaves)[Under(i, p, Len(leaves))][(i - 1) * p]

LEMMA HalfSpans ==
  ASSUME NEW l \in Nat, l >= 1, NEW m, m = (l + 1) \div 2,
         NEW p \in Nat, NEW n \in Nat, Spans(l, p, n)
  PROVE  Spans(m, 2 * p, n)
<1>1. m \in Nat /\ m >= 1 /\ (l = 2 * m \/ l = 2 * m - 1)
  OBVIOUS
<1> DEFINE a == (m - 1) * (2 * p)
<1>2. /\ a \in Nat /\ (2 * m - 1 - 1) * p = a /\ (2 * m - 1) * p = a + p
      /\ (2 * m) * p = a + 2 * p /\ m * (2 * p) = a + 2 * p
  BY <1>1, Multiples
<1> HIDE DEF a
<1>3. CASE l = 2 * m
  <2>1. a + p < n /\ n <= a + 2 * p
    BY <1>2, <1>3 DEF Spans
  <2>2. a < n
    BY <1>2, <2>1
  <2> QED  BY <1>2, <2>1, <2>2 DEF Spans, a
<1>4. CASE l = 2 * m - 1
  <2>1. a < n /\ n <= a + p
    BY <1>2, <1>4 DEF Spans
  <2>2. n <= a + 2 * p
    BY <1>2, <2>1
  <2> QED  BY <1>2, <2>1, <2>2 DEF Spans, a
<1> QED  BY <1>1, <1>3, <1>4

(* A node of a level is the tree of the leaves it is over, and hashing two *)
(* of them makes the tree of both: all but the last are over a power of    *)
(* two, where the RFC splits.                                              *)
LEMMA AboveIsOver ==
  ASSUME NEW leaves, Len(leaves) \in Nat, NEW h \in Nat,
         NEW level, IsSeq(level), Len(level) >= 1, OverTrees(level, Power[h], leaves)
  PROVE  OverTrees(Above(level), Power[h + 1], leaves)
<1> DEFINE n == Len(leaves)
           p == Power[h]
           l == Len(level)
           m == Len(Above(level))
<1>1. /\ l \in Nat /\ l >= 1 /\ n \in Nat /\ p \in Nat /\ p >= 1 /\ Power[h + 1] = 2 * p
      /\ m = (l + 1) \div 2 /\ m \in Nat
  <2>1. l \in Nat
    BY DEF IsSeq
  <2>2. m = (l + 1) \div 2
    BY AboveIs
  <2>3. m \in Nat
    BY <2>1, <2>2
  <2> QED  BY <2>1, <2>2, <2>3, PowerAt
<1>2. Spans(m, 2 * p, n)
  <2>1. Spans(l, p, n)
    BY DEF OverTrees
  <2> HIDE DEF l, m, n, p
  <2> QED  BY <1>1, <2>1, HalfSpans
<1>3. SUFFICES ASSUME NEW i \in 1..m
               PROVE  Above(level)[i] = Tree(leaves)[Under(i, 2 * p, n)][(i - 1) * (2 * p)]
  BY <1>1, <1>2 DEF OverTrees
<1> DEFINE a == (i - 1) * (2 * p)
<1>5. i \in Nat /\ i >= 1 /\ i <= m
  BY <1>1
<1>4. /\ a \in Nat /\ (2 * i - 1 - 1) * p = a /\ (2 * i - 1) * p = a + p
      /\ (2 * i) * p = a + 2 * p /\ i * (2 * p) = a + 2 * p
  <2> HIDE DEF p
  <2> QED  BY <1>1, <1>5, Multiples
<1>11. l # 1 => Above(level)[i] = IF 2 * i > l THEN level[2 * i - 1]
                                  ELSE interiorHash(level[2 * i - 1], level[2 * i])
  <2>1. l # 1 => l > 1
    <3> HIDE DEF l
    <3> QED  BY <1>1
  <2> QED  BY <2>1, AboveIs
<1>6. (l - 1) * p < n /\ n <= l * p
  BY DEF OverTrees, Spans
<1>7. \A j \in 1..l : level[j] = Tree(leaves)[Under(j, p, n)][(j - 1) * p]
  BY DEF OverTrees
<1>8. CASE l = 1
  <2>1. Above(level) = level /\ m = 1 /\ i = 1
    <3>1. Above(level) = level
      BY <1>8 DEF Above
    <3>2. m = 1
      BY <1>8, <3>1
    <3> HIDE DEF m
    <3> QED  BY <1>5, <3>1, <3>2
  <2>2. level[1] = Tree(leaves)[Under(1, p, n)][(1 - 1) * p]
    BY <1>7, <1>8
  <2>3. Under(1, p, n) = n /\ Under(1, 2 * p, n) = n /\ (1 - 1) * p = 0 /\ (1 - 1) * (2 * p) = 0
    BY <1>1, <1>6, <1>8 DEF Under
  <2> QED  BY <2>1, <2>2, <2>3
<1>9. CASE l # 1 /\ 2 * i > l
  <2>1. l = 2 * i - 1
    BY <1>1, <1>5, <1>9
  <2>2. Above(level)[i] = level[2 * i - 1]
    BY <1>9, <1>11
  <2>3. level[2 * i - 1] = Tree(leaves)[Under(2 * i - 1, p, n)][a]
    BY <1>1, <1>4, <1>5, <1>7, <2>1
  <2>4. a < n /\ n <= a + p
    BY <1>4, <1>6, <2>1
  <2> HIDE DEF a, p, n
  <2>5. Under(2 * i - 1, p, n) = n - a
    BY <1>1, <1>4, <2>4 DEF Under
  <2>6. Under(i, 2 * p, n) = n - a
    BY <1>1, <1>4, <2>4 DEF Under, a
  <2> QED  BY <2>2, <2>3, <2>5, <2>6 DEF a
<1>10. CASE l # 1 /\ ~(2 * i > l)
  <2> DEFINE q == IF a + 2 * p <= n THEN p ELSE n - (a + p)
  <2>1. Above(level)[i] = interiorHash(level[2 * i - 1], level[2 * i])
    BY <1>10, <1>11
  <2>2. a + p < n
    <3>1. 2 * i - 1 \in Nat /\ l - 1 \in Nat /\ 2 * i - 1 <= l - 1
      BY <1>1, <1>5, <1>10
    <3>2. (2 * i - 1) * p <= (l - 1) * p /\ (l - 1) * p \in Nat
      <4> HIDE DEF l, p
      <4> QED  BY <1>1, <3>1, MultiplesGrow
    <3> HIDE DEF a, p, n, l
    <3> QED  BY <1>1, <1>4, <1>6, <3>2
  <2>3. /\ level[2 * i - 1] = Tree(leaves)[Under(2 * i - 1, p, n)][a]
        /\ level[2 * i] = Tree(leaves)[Under(2 * i, p, n)][a + p]
    <3>1. 2 * i - 1 \in 1..l /\ 2 * i \in 1..l /\ 2 * i - 1 - 1 = 2 * i - 2
      BY <1>1, <1>5, <1>10
    <3> HIDE DEF a, p, n, l
    <3> QED  BY <1>4, <1>7, <3>1
  <2> HIDE DEF a, p, n, l
  <2>4. Under(2 * i - 1, p, n) = p
    BY <1>1, <1>4, <2>2 DEF Under
  <2>5. Under(2 * i, p, n) = q
    BY <1>1, <1>4, <2>2 DEF Under
  <2>6. q \in Nat /\ 1 <= q /\ q <= p /\ a + (p + q) <= n
    BY <1>1, <1>4, <2>2
  <2>7. Under(i, 2 * p, n) = p + q
    BY <1>1, <1>4, <2>2 DEF Under, a
  <2> HIDE DEF q
  <2>8. Tree(leaves)[p + q][a] = interiorHash(Tree(leaves)[p][a], Tree(leaves)[q][a + p])
    <3>1. Len(leaves) \in Nat /\ q <= Power[h] /\ a + (Power[h] + q) <= Len(leaves)
      BY <2>6 DEF p, n
    <3> QED  BY <1>4, <2>6, <3>1, TreeSplits DEF p
  <2> QED  BY <2>1, <2>3, <2>4, <2>5, <2>7, <2>8 DEF a
<1> QED  BY <1>8, <1>9, <1>10

LEMMA RootIsMTH ==
  ASSUME NEW leaves, IsSeq(leaves)
  PROVE  MerkleRoot(leaves) = MTH(leaves)
<1>1. CASE leaves = <<>>
  BY <1>1 DEF MerkleRoot, MTH
<1>2. CASE leaves # <<>>
  <2> DEFINE n == Len(leaves)
             level == Levels(leaves)
             Good == {h \in Nat : h <= n => OverTrees(level[h], Power[h], leaves)}
  <2>1. n \in Nat /\ n >= 1
    BY <1>2 DEF IsSeq
  <2>2. /\ level[0] = Ground(leaves)
        /\ \A h \in 1..n : level[h] = Above(level[h - 1])
        /\ \A h \in 0..n : LevelFits(level[h], h, n)
    BY <2>1, LevelAt
  <2>3. 0 \in Good
    <3>1. Len(level[0]) = n
      BY <2>2, GroundIs
    <3>2. ASSUME NEW i \in 1..n
          PROVE  level[0][i] = Tree(leaves)[Under(i, 1, n)][(i - 1) * 1]
      <4>1. Under(i, 1, n) = 1 /\ (i - 1) * 1 = i - 1
        BY <2>1 DEF Under
      <4>2. level[0][i] = leafHash(leaves[i])
        BY <2>2 DEF Ground, IsSeq
      <4>3. Tree(leaves)[1] = Trees(leaves, Tree(leaves), 1)
        BY <2>1, TreeIs
      <4>4. i - 1 \in 0..(n - 1) /\ i - 1 + 1 = i
        BY <2>1
      <4>5. Tree(leaves)[1][i - 1] = leafHash(leaves[i])
        BY <4>3, <4>4 DEF Trees
      <4> QED  BY <4>1, <4>2, <4>5
    <3>3. Spans(n, 1, n)
      BY <2>1 DEF Spans
    <3> HIDE DEF level
    <3>4. OverTrees(level[0], 1, leaves)
      BY <3>1, <3>2, <3>3 DEF OverTrees
    <3> QED  BY <3>4, PowerAt
  <2>4. ASSUME NEW h \in Nat, h \in Good PROVE h + 1 \in Good
    <3>1. SUFFICES ASSUME h + 1 <= n PROVE OverTrees(level[h + 1], Power[h + 1], leaves)
      OBVIOUS
    <3>2. /\ OverTrees(level[h], Power[h], leaves) /\ h \in 0..n
          /\ h + 1 \in 1..n /\ h + 1 - 1 = h
      BY <2>1, <2>4, <3>1
    <3> HIDE DEF level
    <3>3. level[h + 1] = Above(level[h]) /\ IsSeq(level[h]) /\ Len(level[h]) >= 1
      BY <2>2, <3>2 DEF LevelFits
    <3> QED  BY <2>1, <3>2, <3>3, AboveIsOver
  <2>5. \A h \in Nat : h \in Good
    <3> HIDE DEF Good
    <3> QED  BY <2>3, <2>4, EveryNatural
  <2>6. OverTrees(level[n], Power[n], leaves)
    BY <2>1, <2>5
  <2>7. Len(level[n]) = 1
    <3>1. LevelFits(level[n], n, n)
      BY <2>1, <2>2
    <3>2. /\ Len(level[n]) \in Nat /\ Len(level[n]) >= 1
          /\ Len(level[n]) = 1 \/ Len(level[n]) + n <= n
      <4> HIDE DEF n, level
      <4> QED  BY <3>1 DEF LevelFits, IsSeq
    <3> HIDE DEF n, level
    <3> QED  BY <2>1, <3>2
  <2>8. level[n][1] = Tree(leaves)[n][0]
    <3> DEFINE p == Power[n]
    <3>1. p \in Nat
      BY <2>1, PowerAt
    <3>2. n <= 1 * p /\ level[n][1] = Tree(leaves)[Under(1, p, n)][(1 - 1) * p]
      BY <2>6, <2>7 DEF OverTrees, Spans
    <3> HIDE DEF p, level
    <3>3. Under(1, p, n) = n /\ (1 - 1) * p = 0
      BY <2>1, <3>1, <3>2 DEF Under
    <3> QED  BY <3>2, <3>3
  <2> QED  BY <1>2, <2>8 DEF MerkleRoot, MTH
<1> QED  BY <1>1, <1>2

(* Whatever the number of leaves, the root MerkleRoot pairs up level by    *)
(* level is RFC 6962's, and the path of a leaf proves that leaf alone.     *)
THEOREM EveryTreeIsRFC6962 == \A n \in Nat : TreeIsRFC6962(n)
<1> TAKE n \in Nat
<1> DEFINE leaves == [i \in 1..n |-> i]
<1>1. IsSeq(leaves) /\ Len(leaves) = n
  <2>1. leaves = [i \in 1..n |-> leaves[i]]
    OBVIOUS
  <2> HIDE DEF leaves
  <2> QED  BY <2>1, TableIsSeq
<1>2. MerkleRoot(leaves) = MTH(leaves)
  <2> HIDE DEF leaves
  <2> QED  BY <1>1, RootIsMTH
<1>3. ASSUME NEW i \in 0..(n - 1), NEW j \in 0..(n - 1)
      PROVE  VerifyInclusion(leaves[j + 1], i, n, InclusionProof(leaves, i), MTH(leaves)) <=> i = j
  <2>1. leaves[j + 1] = j + 1 /\ leaves[i + 1] = i + 1 /\ i \in Nat /\ i < n /\ n >= 1
    OBVIOUS
  <2>2. j + 1 = i + 1 <=> i = j
    OBVIOUS
  <2>3. VerifyInclusion(leaves[j + 1], i, Len(leaves), InclusionProof(leaves, i),
                        MerkleRoot(leaves))
          <=> leaves[j + 1] = leaves[i + 1]
    <3> HIDE DEF leaves
    <3> QED  BY <1>1, <2>1, PathProves
  <2> HIDE DEF leaves
  <2> QED  BY <1>1, <1>2, <2>1, <2>2, <2>3
<1> QED  BY <1>2, <1>3 DEF TreeIsRFC6962

(* What a seal's root is of: the RFC's tree of the leaves the table has    *)
(* for its period, then and ever after.                                    *)
RootsAreMTH ==
  \A k \in DOMAIN seals : seals[k].merkleRoot = MTH(SealLeaves(seals[k].start, seals[k].end))

(* For ever, every seal's root is the RFC's.                               *)
THEOREM SealsAreRFC6962 == Spec => []RootsAreMTH
<1>1. ASSUME IInv PROVE RootsAreMTH
  <2> SUFFICES ASSUME NEW k \in DOMAIN seals
               PROVE  seals[k].merkleRoot = MTH(SealLeaves(seals[k].start, seals[k].end))
    BY DEF RootsAreMTH
  <2>1. IsSeq(SealLeaves(seals[k].start, seals[k].end))
    BY <1>1, LeavesListed DEF IInv
  <2> QED  BY <1>1, <2>1, RootIsMTH DEF IInv, SealedRight
<1>2. Init => IInv
  BY TypedInit DEF IInv
<1> QED  BY <1>1, <1>2, RightStep, PTL DEF Spec

(***************************************************************************)
(* Types: every instant in a seal, a sealing call or a row was the         *)
(* clock's.                                                                *)
(***************************************************************************)
Dated ==
  /\ clock \in Time
  /\ recordedAt \in [Decision -> Time \cup {None}]
  /\ \A s \in Sealer : tx[s] # None => tx[s].now \in Time /\ tx[s].end <= tx[s].now
  /\ \A k \in DOMAIN seals : seals[k].sealedAt \in Time /\ seals[k].end <= seals[k].sealedAt

LEMMA DatedStep == IInv /\ Dated /\ [Next]_vars => Dated'
<1> SUFFICES ASSUME IInv, Dated, [Next]_vars PROVE Dated'
  OBVIOUS
<1>0. Typed /\ ReadRight
  BY DEF IInv
<1>1. ASSUME NEW s \in Sealer, SealPeriod(s) PROVE Dated'
  <2>1. PICK a, b \in Time : Settled(b) /\ tx' = [tx EXCEPT ![s] =
          [step |-> "lock", start |-> a, end |-> b, now |-> clock, leaves |-> <<>>]]
    BY <1>1 DEF SealPeriod
  <2>2. b <= clock
    BY <2>1, WindowAssumption, BoundAssumption DEF Settled, Dated, Time
  <2>3. tx'[s].now = clock /\ tx'[s].end = b /\ \A q \in Sealer \ {s} : tx'[q] = tx[q]
    BY <1>0, <2>1 DEF Typed
  <2> QED  BY <1>1, <2>2, <2>3 DEF SealPeriod, Dated
<1>2. ASSUME NEW s \in Sealer, LockSealing(s) \/ CheckOverlap(s) \/ ReadLeaves(s) \/ Fail(s)
      PROVE  Dated'
  <2>1. \A q \in Sealer : tx'[q] # None =>
          tx[q] # None /\ tx'[q].now = tx[q].now /\ tx'[q].end = tx[q].end
    BY <1>0, <1>2 DEF LockSealing, CheckOverlap, ReadLeaves, Fail, Typed
  <2> QED  BY <1>2, <2>1 DEF LockSealing, CheckOverlap, ReadLeaves, Fail, Dated
<1>3. ASSUME NEW s \in Sealer, AppendSeal(s) PROVE Dated'
  <2> DEFINE e == [start |-> tx[s].start, end |-> tx[s].end, leafCount |-> Len(tx[s].leaves),
                   merkleRoot |-> MerkleRoot(tx[s].leaves), sealedAt |-> tx[s].now]
  <2>1. PICK S : seals \in Seq(S)
    BY <1>0 DEF Typed
  <2>2. seals' = Append(seals, e) /\ tx[s] # None
    BY <1>3 DEF AppendSeal
  <2>3. e.end = tx[s].end /\ e.sealedAt = tx[s].now
    OBVIOUS
  <2> HIDE DEF e
  <2>4. \A k \in DOMAIN seals' : seals'[k] = e \/ (k \in DOMAIN seals /\ seals'[k] = seals[k])
    BY <2>1, <2>2
  <2>5. \A q \in Sealer : tx'[q] # None => tx'[q] = tx[q]
    BY <1>0, <1>3 DEF AppendSeal, Typed
  <2> QED  BY <1>3, <2>2, <2>3, <2>4, <2>5 DEF AppendSeal, Dated
<1>4. ASSUME NEW d \in Decision, Determine(d) \/ Put(d) \/ Record(d) \/ Drop(d) PROVE Dated'
  BY <1>4 DEF Determine, Put, Record, Drop, Dated
<1>5. ASSUME Tick PROVE Dated'
  BY <1>5, BoundAssumption DEF Tick, Dated, Time
<1>6. ASSUME UNCHANGED vars PROVE Dated'
  BY <1>6 DEF vars, Dated
<1> QED  BY <1>1, <1>2, <1>3, <1>4, <1>5, <1>6 DEF Next

(* A seal has at most as many leaves as there are decisions.               *)
LEMMA LeavesFew ==
  ASSUME Typed, Young, NEW start, NEW end
  PROVE  Len(SealLeaves(start, end)) \in 0..Cardinality(Decision)
<1> DEFINE S == Leaves(start, end)
<1>1. IsFiniteSet(S) /\ Cardinality(S) \in 0..Cardinality(Decision) /\ LeafSet(S)
  BY LeavesFinite, LeavesListed
<1>2. SealLeaves(start, end) = OrderLeaves(S)
  BY DEF SealLeaves
<1> HIDE DEF S
<1> QED  BY <1>1, <1>2, OrderLists

(* Every state is of its type: instants are the clock's, a period ends     *)
(* after it starts and before it is sealed.                                *)
THEOREM TypeCorrect == Spec => []TypeOK
<1>1. Init => IInv /\ Dated
  <2>1. Init => IInv
    BY TypedInit DEF IInv
  <2>2. Init => Dated
    BY BoundAssumption DEF Init, Dated, Time
  <2> QED  BY <2>1, <2>2
<1>2. IInv /\ Dated /\ [Next]_vars => IInv' /\ Dated'
  BY RightStep, DatedStep
<1>3. ASSUME IInv, Dated PROVE TypeOK
  <2>1. ASSUME NEW k \in DOMAIN seals
        PROVE  /\ seals[k].start \in Time /\ seals[k].end \in Time /\ seals[k].sealedAt \in Time
               /\ seals[k].start < seals[k].end /\ seals[k].end <= seals[k].sealedAt
               /\ seals[k].leafCount \in 0..Cardinality(Decision)
    <3>1. Over(seals[k].start, seals[k].end)
          /\ seals[k].leafCount = Len(SealLeaves(seals[k].start, seals[k].end))
      BY <1>3 DEF IInv, SealedRight
    <3>2. seals[k].sealedAt \in Time /\ seals[k].end <= seals[k].sealedAt
      BY <1>3 DEF Dated
    <3>3. seals[k].leafCount \in 0..Cardinality(Decision)
      BY <1>3, <3>1, LeavesFew DEF IInv
    <3> QED  BY <3>1, <3>2, <3>3, BoundAssumption DEF Over, Time
  <2>2. \A s \in Sealer : tx[s] # None => tx[s].step \in Step
    BY <1>3 DEF IInv, Typed
  <2> QED  BY <1>3, <2>1, <2>2 DEF TypeOK, IInv, Typed, Dated
<1> QED  BY <1>1, <1>2, <1>3, PTL DEF Spec

(***************************************************************************)
(* The refinement: a sealing call takes effect at once, at its commit, and *)
(* no row committed later is in a period it sealed.                        *)
(***************************************************************************)
Row(d) == [decision |-> d, recordedAt |-> recordedAt[d]]
Table == {Row(d) : d \in recorded}
Statement(k) == [start |-> seals[k].start, end |-> seals[k].end,
                 says |-> <<seals[k].leafCount, seals[k].merkleRoot>>]
Statements == [k \in DOMAIN seals |-> Statement(k)]

AtOnceInv == IInv /\ Dated /\ OneHolder /\ Clear /\ Apart

LEMMA AtOnceAlways == Spec => []AtOnceInv
<1>1. Init => AtOnceInv
  <2>1. Init => Dated
    BY BoundAssumption DEF Init, Dated, Time
  <2> QED  BY <2>1, TypedInit DEF Init, AtOnceInv, IInv, OneHolder, Holds, Clear, Apart
<1>2. AtOnceInv /\ [Next]_vars => AtOnceInv'
  BY RightStep, DatedStep, OneHolderStep, ApartStep DEF AtOnceInv, IInv
<1> QED  BY <1>1, <1>2, PTL DEF Spec

LEMMA AtOnceInit == Init => AtOnce!Init
<1> SUFFICES ASSUME Init PROVE AtOnce!Init
  OBVIOUS
<1>1. recorded = {} /\ seals = <<>>
  BY DEF Init
<1>2. Table = {}
  BY <1>1 DEF Table
<1>3. Statements = <<>>
  BY <1>1 DEF Statements
<1> QED  BY <1>2, <1>3 DEF AtOnce!Init, Table, Row, Statements, Statement

(* What the table has in a period is its leaves.                           *)
LEMMA TableLeaves ==
  ASSUME NEW start, NEW end
  PROVE  AtOnce!Between(start, end) = Leaves(start, end)
BY DEF AtOnce!Between, Leaves, In

(* A row is committed at an instant no seal covers: it was in hand, and a  *)
(* sealed period was settled.                                              *)
LEMMA RecordIsRecord ==
  ASSUME AtOnceInv, NEW d \in Decision, Record(d)
  PROVE  AtOnce!Record
<1>0. /\ Typed /\ Young /\ SealedRight /\ Dated
      /\ InHand(d) /\ d \in objects /\ recorded' = recorded \cup {d}
      /\ UNCHANGED <<clock, recordedAt, seals>>
  BY DEF AtOnceInv, IInv, Record
<1> DEFINE t == recordedAt[d]
<1>1. t \in Time /\ t \in Nat /\ clock \in Nat /\ clock <= t + Longest /\ d \notin recorded
  BY <1>0, BoundAssumption DEF Dated, InHand, Time, Young
<1>2. \A l \in Table : l.decision # d
  BY <1>1 DEF Table, Row
<1>3. \A k \in DOMAIN Statements : t < Statements[k].start \/ Statements[k].end <= t
  <2> TAKE k \in DOMAIN Statements
  <2>1. k \in DOMAIN seals /\ Statements[k].end = seals[k].end
    BY DEF Statements, Statement
  <2>2. seals[k].end \in Nat /\ seals[k].end + Settle <= clock
    BY <1>0, <2>1 DEF SealedRight, Over
  <2>3. seals[k].end <= t
    BY <1>1, <2>2, WindowAssumption
  <2> QED  BY <2>1, <2>3
<1>4. Table' = Table \cup {Row(d)}
  BY <1>0 DEF Table, Row
<1>5. Statements' = Statements
  BY <1>0 DEF Statements, Statement
<1> QED
  BY <1>1, <1>2, <1>3, <1>4, <1>5
  DEF AtOnce!Record, Table, Row, Statements, Statement

(* What is appended is a statement of the table as it is at the commit.    *)
LEMMA AppendIsSeal ==
  ASSUME AtOnceInv, NEW s \in Sealer, AppendSeal(s)
  PROVE  AtOnce!Seal
<1> DEFINE r == tx[s]
           S == Leaves(r.start, r.end)
           e == [start |-> r.start, end |-> r.end, leafCount |-> Len(r.leaves),
                 merkleRoot |-> MerkleRoot(r.leaves), sealedAt |-> r.now]
           x == [start |-> r.start, end |-> r.end, says |-> Says(S)]
<1>0. /\ Typed /\ Young /\ ReadRight /\ SealedRight /\ Dated /\ Clear
      /\ r # None /\ r.step = "append" /\ seals' = Append(seals, e)
      /\ UNCHANGED <<clock, recordedAt, recorded>>
  BY DEF AtOnceInv, IInv, AppendSeal
<1>1. /\ r.start \in Time /\ r.end \in Time /\ r.start < r.end
  <2>1. Over(r.start, r.end) /\ clock \in Time
    BY <1>0 DEF ReadRight, Dated
  <2> QED  BY <2>1, WindowAssumption, BoundAssumption DEF Over, Time
<1>2. \A k \in DOMAIN seals : seals[k].end <= r.start \/ r.end <= seals[k].start
  <2>1. \A k \in DOMAIN seals : ~(seals[k].start < r.end /\ seals[k].end > r.start)
    BY <1>0 DEF Clear, Overlapping
  <2>2. r.start \in Nat /\ r.end \in Nat
    BY <1>0 DEF ReadRight, Over
  <2>3. \A k \in DOMAIN seals : seals[k].start \in Nat /\ seals[k].end \in Nat
    BY <1>0 DEF SealedRight, Over
  <2> HIDE DEF r
  <2> QED  BY <2>1, <2>2, <2>3
<1>3. r.leaves = OrderLeaves(S) /\ IsSeq(r.leaves)
  <2>1. r.leaves = SealLeaves(r.start, r.end)
    BY <1>0 DEF ReadRight
  <2>2. IsSeq(SealLeaves(r.start, r.end))
    BY <1>0, LeavesListed
  <2> QED  BY <2>1, <2>2 DEF SealLeaves
<1>4. Len(r.leaves) = Cardinality(S)
  <2>1. IsFiniteSet(S) /\ LeafSet(S)
    BY <1>0, LeavesFinite, LeavesListed
  <2> HIDE DEF S, r
  <2> QED  BY <1>3, <2>1, OrderLists
<1>5. <<e.leafCount, e.merkleRoot>> = Says(S)
  <2>1. MerkleRoot(r.leaves) = MTH(OrderLeaves(S))
    BY <1>3, RootIsMTH
  <2> HIDE DEF r, S
  <2> QED  BY <1>4, <2>1 DEF Says
<1>6. Statements' = Append(Statements, x)
  <2>1. PICK T : seals \in Seq(T)
    BY <1>0 DEF Typed
  <2> DEFINE n == Len(seals)
  <2>2. /\ n \in Nat /\ DOMAIN seals = 1..n /\ DOMAIN seals' = 1..(n + 1)
        /\ seals'[n + 1] = e /\ \A k \in 1..n : seals'[k] = seals[k]
    <3> HIDE DEF e
    <3> QED  BY <1>0, <2>1
  <2>3. Statements'[n + 1] = x
    <3>1. Statements'[n + 1] = [start |-> e.start, end |-> e.end,
                                says |-> <<e.leafCount, e.merkleRoot>>]
      <4> HIDE DEF e
      <4> QED  BY <2>2 DEF Statements, Statement
    <3>2. e.start = r.start /\ e.end = r.end
      OBVIOUS
    <3> HIDE DEF e, S, r
    <3> QED  BY <1>5, <3>1, <3>2 DEF x
  <2>4. \A k \in 1..n : Statements'[k] = Statements[k]
    <3> HIDE DEF e, n, r, S, x
    <3> TAKE k \in 1..n
    <3>1. k \in DOMAIN seals /\ k \in DOMAIN seals' /\ seals'[k] = seals[k]
      BY <2>2
    <3> QED  BY <3>1 DEF Statements, Statement
  <2>5. /\ Statements' = [k \in 1..(n + 1) |-> Statements'[k]]
        /\ Statements = [k \in 1..n |-> Statements[k]]
    BY <2>2 DEF Statements
  <2>6. IsSeq(Statements) /\ Len(Statements) = n
    <3> HIDE DEF n
    <3> QED  BY <2>2, <2>5, TableIsSeq
  <2>7. /\ IsSeq(Append(Statements, x)) /\ Len(Append(Statements, x)) = n + 1
        /\ \A i \in 1..n : Append(Statements, x)[i] = Statements[i]
        /\ Append(Statements, x)[n + 1] = x
    <3> HIDE DEF n, x
    <3> QED  BY <2>6, AppendIsSeq
  <2>8. Append(Statements, x) = [k \in 1..(n + 1) |-> Append(Statements, x)[k]]
    <3> HIDE DEF n, x
    <3> QED  BY <2>7, SeqIsTable
  <2> HIDE DEF n, x
  <2>9. \A k \in 1..(n + 1) : Statements'[k] = Append(Statements, x)[k]
    <3> TAKE k \in 1..(n + 1)
    <3>1. k \in 1..n \/ k = n + 1
      BY <2>2
    <3> QED  BY <2>3, <2>4, <2>7, <3>1
  <2> QED  BY <2>5, <2>8, <2>9
<1>7. Table' = Table
  BY <1>0 DEF Table, Row
<1>8. \A k \in DOMAIN Statements : Statements[k].end <= r.start \/ r.end <= Statements[k].start
  BY <1>2 DEF Statements, Statement
<1>9. x = [start |-> r.start, end |-> r.end, says |-> Says(AtOnce!Between(r.start, r.end))]
  BY TableLeaves
<1> HIDE DEF r, x
<1> QED
  BY <1>1, <1>6, <1>7, <1>8, <1>9
  DEF AtOnce!Seal, Table, Row, Statements, Statement

(* Every other step leaves the table and the statements as they are.       *)
LEMMA OthersStutter ==
  ASSUME AtOnceInv, [Next]_vars,
         \A d \in Decision : ~Record(d), \A s \in Sealer : ~AppendSeal(s)
  PROVE  UNCHANGED AtOnce!vars
<1>1. seals' = seals /\ recorded' = recorded /\ \A d \in recorded : recordedAt'[d] = recordedAt[d]
  <2>1. ASSUME NEW d \in Decision, Determine(d) \/ Drop(d)
        PROVE  \A q \in recorded : recordedAt'[q] = recordedAt[q]
    BY <2>1 DEF AtOnceInv, IInv, Determine, Drop, InHand, Typed, Young
  <2> QED
    BY <2>1 DEF Next, vars, Tick, Determine, Put, Drop, SealPeriod, LockSealing, CheckOverlap,
       ReadLeaves, Fail
<1>2. Table' = Table
  BY <1>1 DEF Table, Row
<1>3. Statements' = Statements
  BY <1>1 DEF Statements, Statement
<1> QED  BY <1>2, <1>3 DEF AtOnce!vars, Table, Row, Statements, Statement

(* However calls interleave, fail or wait, a seal is made at once: it says *)
(* what the table has in its period, of the tree RFC 6962 defines, no      *)
(* other seal's period meets it, and no row enters it afterwards.          *)
THEOREM SealsTakeEffectAtOnce == Spec => SealsAtOnce
<1>1. AtOnceInv /\ [Next]_vars => [AtOnce!Next]_AtOnce!vars
  BY RecordIsRecord, AppendIsSeal, OthersStutter DEF AtOnce!Next
<1> QED  BY <1>1, AtOnceAlways, AtOnceInit, PTL DEF Spec, SealsAtOnce, AtOnce!Spec

================================================================================
