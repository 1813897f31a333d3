---------------------------- MODULE LedgerProofs ----------------------------
(***************************************************************************)
(* What holds of committed decisions for any number of calls, bindings,    *)
(* months and refunds: the types, that whoever holds an accumulator's lock *)
(* holds its current total, that corrections form a line, that a stored    *)
(* total is what the standing decisions contribute, that thresholds are    *)
(* crossed once, that decisions read their past, and that refunds stay     *)
(* within the tax.  And what holds of the documents that bill decisions:   *)
(* the types, their statuses tell what was cancelled, a bill released      *)
(* stays released, and together they charge what was decided and not       *)
(* credited.  And of both, that the calls in progress never all wait.      *)
(*                                                                         *)
(* Stored totals, thresholds, past reads and refunds, and what documents   *)
(* charge, are sums.  No set of calls or refunds is assumed finite: that   *)
(* finitely many are committed, in progress or asked for is part of the    *)
(* invariants.                                                             *)
(***************************************************************************)
EXTENDS Ledger, Documents, FiniteSetTheorems, WellFoundedInduction, TLAPS

(* Two transactions never hold one accumulator; a decision is inserted     *)
(* with every lock it needs held; a committed call is over; an inserted    *)
(* decision is alone in naming the one it supersedes.                      *)
Exclusive ==
  \A c, d \in Call : \A k \in Holds(c) : k \in Holds(d) => c = d
HoldsAll == \A c \in Call : step[c] = "appended" => Needs(c) \subseteq Holds(c)
DecidedIsOver == \A c \in decided : step[c] = "over"
NamesAlone ==
  \A c, d \in Call :
    /\ step[c] = "appended" /\ Supersedes[c] # None
    /\ Supersedes[d] = Supersedes[c]
    /\ d \in decided \/ step[d] = "appended"
    => c = d

LockInv == Exclusive /\ HoldsAll /\ HeldIsCurrent
LineInv == DecidedIsOver /\ NamesAlone /\ OneSuccessor

LEMMA OwnBound ==
  ASSUME NEW c \in Call
  PROVE  Own(c) \subseteq Bound(c) /\ Bound(c) \subseteq Key
  BY CallAssumption DEF Own, Bound, Key

(* What a call needs, and what it moves, are accumulators it binds.        *)
LEMMA KeysNeeded ==
  ASSUME NEW c \in Call
  PROVE  /\ Needs(c) \subseteq Key /\ Bound(c) \subseteq Needs(c)
         /\ Own(c) \cup Withdrawn(c) \subseteq Needs(c)
         /\ c \in Adjusting => Supersedes[c] \in Call
<1>1. c \in Adjusting => Supersedes[c] \in Call
  BY CallAssumption
<1>2. Withdrawn(c) \subseteq IF c \in Adjusting THEN Bound(Supersedes[c]) ELSE {}
  BY <1>1, OwnBound DEF Withdrawn
<1> QED  BY <1>1, <1>2, OwnBound DEF Needs

-----------------------------------------------------------------------------
(* Sums over finite sets                                                   *)
(*                                                                         *)
(* The folds of the model peel one chosen element at a time.  These lemmas *)
(* say what such a fold is worth when an element comes or goes.            *)

(* Strong induction over the subsets of a finite set.                      *)
LEMMA SubsetInduction ==
  ASSUME NEW S, IsFiniteSet(S), NEW Good,
         \A T \in SUBSET S : (\A U \in SUBSET T : U # T => U \in Good) => T \in Good
  PROVE  S \in Good
<1> DEFINE Bad == (SUBSET S) \ Good
<1> SUFFICES ASSUME Bad # {} PROVE FALSE
  OBVIOUS
<1>1. IsWellFoundedOn(StrictSubsetOrdering(S), SUBSET S)
  <2>1. IsWellFoundedOn(StrictSubsetOrdering(S), FiniteSubsetsOf(S))
    BY FS_StrictSubsetOrderingWellFounded
  <2>2. FiniteSubsetsOf(S) = SUBSET S
    BY FS_FiniteSubsetsOfFinite
  <2> QED  BY <2>1, <2>2
<1>2. PICK M \in Bad : \A T \in Bad : <<T, M>> \notin StrictSubsetOrdering(S)
  <2>1. Bad \subseteq SUBSET S
    OBVIOUS
  <2> HIDE DEF Bad
  <2> QED  BY <1>1, <2>1, WFMin
<1>3. ASSUME NEW U \in SUBSET M, U # M PROVE U \in Good
  <2>1. U \in SUBSET S /\ <<U, M>> \in StrictSubsetOrdering(S)
    BY <1>3 DEF StrictSubsetOrdering
  <2> QED  BY <1>2, <2>1
<1> QED  BY <1>2, <1>3

(* In a finite set some member comes before no other, in any strict order. *)
LEMMA LastExists ==
  ASSUME NEW S, IsFiniteSet(S), S # {}, NEW R,
         \A x \in S : <<x, x>> \notin R,
         \A x, y, z \in S : <<x, y>> \in R /\ <<y, z>> \in R => <<x, z>> \in R
  PROVE  \E x \in S : \A y \in S : <<x, y>> \notin R
<1> DEFINE Good == {T \in SUBSET S : T # {} => \E x \in T : \A y \in T : <<x, y>> \notin R}
<1>1. ASSUME NEW T \in SUBSET S, \A U \in SUBSET T : U # T => U \in Good
      PROVE  T \in Good
  <2> SUFFICES ASSUME NEW x \in T PROVE \E z \in T : \A y \in T : <<z, y>> \notin R
    OBVIOUS
  <2> DEFINE U == {y \in T : <<x, y>> \in R}
  <2>1. U \in Good
    <3>1. U \in SUBSET T /\ x \notin U
      OBVIOUS
    <3> QED  BY <1>1, <3>1
  <2>2. CASE U = {}
    BY <2>2
  <2>3. CASE U # {}
    <3>1. PICK z \in U : \A y \in U : <<z, y>> \notin R
      BY <2>1, <2>3
    <3>2. \A y \in T : <<z, y>> \in R => y \in U
      BY <3>1
    <3> QED  BY <3>1, <3>2
  <2> QED  BY <2>2, <2>3
<1>2. S \in Good
  <2> HIDE DEF Good
  <2> QED  BY <1>1, SubsetInduction
<1> QED  BY <1>2

Sum(f, S) == MapThenSumSet(LAMBDA x : f[x], S)

(* The sums of f over the subsets of S, taken in any order.                *)
Additive(F, f, S) ==
  /\ F \in [SUBSET S -> Int]
  /\ F[{}] = 0
  /\ \A T \in SUBSET S : \A x \in T : F[T] = f[x] + F[T \ {x}]

LEMMA AdditiveExists ==
  ASSUME NEW S, IsFiniteSet(S), NEW f, \A x \in S : f[x] \in Int
  PROVE  \E F : Additive(F, f, S)
<1> DEFINE Good == {T \in SUBSET S : \E F : Additive(F, f, T)}
<1>1. ASSUME NEW T \in SUBSET S, \A U \in SUBSET T : U # T => U \in Good
      PROVE  T \in Good
  <2>1. CASE T = {}
    <3> DEFINE F == [s \in SUBSET {} |-> 0]
    <3>1. Additive(F, f, {})
      BY DEF Additive
    <3> QED  BY <2>1, <3>1
  <2>2. CASE T # {}
    <3>1. PICK x \in T : TRUE
      BY <2>2
    <3> DEFINE U == T \ {x}
    <3>2. U \in SUBSET T /\ U # T /\ f[x] \in Int
      BY <3>1
    <3>3. PICK F : Additive(F, f, U)
      BY <1>1, <3>2
    <3> DEFINE G == [s \in SUBSET T |->
                       IF x \in s THEN f[x] + F[s \ {x}] ELSE F[s]]
    <3>4. \A s \in SUBSET T : /\ s \ {x} \in SUBSET U
                              /\ x \notin s => s \in SUBSET U
      OBVIOUS
    <3>5. G \in [SUBSET T -> Int] /\ G[{}] = 0
      BY <3>2, <3>3, <3>4 DEF Additive
    <3>6. ASSUME NEW s \in SUBSET T, NEW y \in s
          PROVE  G[s] = f[y] + G[s \ {y}]
      <4>0. f[y] \in Int /\ F[s \ {x}] \in Int
        BY <3>3, <3>4 DEF Additive
      <4>1. CASE x \notin s
        BY <3>3, <3>4, <4>1 DEF Additive
      <4>2. CASE y = x
        BY <3>4, <4>2
      <4>3. CASE x \in s /\ y # x
        <5>1. F[s \ {x}] = f[y] + F[(s \ {x}) \ {y}]
          BY <3>3, <3>4, <4>3 DEF Additive
        <5>2. G[s \ {y}] = f[x] + F[(s \ {y}) \ {x}]
          BY <4>3
        <5>3. (s \ {x}) \ {y} = (s \ {y}) \ {x} /\ (s \ {x}) \ {y} \in SUBSET U
          BY <3>4
        <5>4. F[(s \ {x}) \ {y}] \in Int
          BY <3>3, <5>3 DEF Additive
        <5>5. G[s] = f[x] + F[s \ {x}]
          BY <4>3
        <5> HIDE DEF G, U
        <5>6. G[s] = f[x] + (f[y] + F[(s \ {x}) \ {y}])
          BY <5>1, <5>5
        <5>7. G[s \ {y}] = f[x] + F[(s \ {x}) \ {y}]
          BY <5>2, <5>3
        <5> QED  BY <3>2, <4>0, <5>4, <5>6, <5>7
      <4> QED  BY <4>1, <4>2, <4>3
    <3>7. Additive(G, f, T)
      BY <3>5, <3>6 DEF Additive
    <3> QED  BY <3>7
  <2> QED  BY <2>1, <2>2
<1>2. S \in Good
  <2> HIDE DEF Good
  <2> QED  BY <1>1, SubsetInduction
<1> QED  BY <1>2

(* The fold's own recursion, which peels the chosen element.               *)
Peels(it, f, S) ==
  it = [s \in SUBSET S |->
         IF s = {} THEN 0
         ELSE f[CHOOSE x \in s : TRUE] + it[s \ {CHOOSE x \in s : TRUE}]]

LEMMA AdditivePeels ==
  ASSUME NEW S, NEW f, NEW F, Additive(F, f, S)
  PROVE  Peels(F, f, S)
<1>1. \A s \in SUBSET S : s # {} => (CHOOSE x \in s : TRUE) \in s
  OBVIOUS
<1> QED  BY <1>1 DEF Additive, Peels

LEMMA PeelsAdditive ==
  ASSUME NEW S, IsFiniteSet(S), NEW f, NEW F, Additive(F, f, S),
         NEW it, Peels(it, f, S)
  PROVE  it[S] = F[S]
<1> DEFINE Good == {T \in SUBSET S : it[T] = F[T]}
<1>1. ASSUME NEW T \in SUBSET S, \A U \in SUBSET T : U # T => U \in Good
      PROVE  T \in Good
  <2>1. CASE T = {}
    BY <2>1 DEF Additive, Peels
  <2>2. CASE T # {}
    <3>1. PICK x : x = (CHOOSE y \in T : TRUE) /\ x \in T
      BY <2>2
    <3>2. it[T \ {x}] = F[T \ {x}]
      BY <1>1, <3>1
    <3>3. it[T] = f[x] + it[T \ {x}]
      BY <2>2, <3>1 DEF Peels
    <3> QED  BY <3>1, <3>2, <3>3 DEF Additive
  <2> QED  BY <2>1, <2>2
<1>2. S \in Good
  <2> HIDE DEF Good
  <2> QED  BY <1>1, SubsetInduction
<1> QED  BY <1>2

LEMMA SumIsAdditive ==
  ASSUME NEW S, IsFiniteSet(S), NEW f, NEW F, Additive(F, f, S)
  PROVE  Sum(f, S) = F[S]
<1>1. Peels(F, f, S)
  BY AdditivePeels
<1>2. \E it : Peels(it, f, S) /\ Sum(f, S) = it[S]
  BY <1>1 DEF Sum, MapThenSumSet, MapThenFoldSet, Peels
<1> QED  BY <1>2, PeelsAdditive

LEMMA SumEmpty == ASSUME NEW f PROVE Sum(f, {}) = 0
<1>1. IsFiniteSet({}) /\ \A x \in {} : f[x] \in Int
  BY FS_EmptySet
<1>2. PICK F : Additive(F, f, {})
  BY <1>1, AdditiveExists
<1>3. Sum(f, {}) = F[{}]
  BY <1>1, <1>2, SumIsAdditive
<1> QED  BY <1>2, <1>3 DEF Additive

LEMMA SumType ==
  ASSUME NEW S, IsFiniteSet(S), NEW f, \A x \in S : f[x] \in Int
  PROVE  Sum(f, S) \in Int
<1>1. PICK F : Additive(F, f, S)
  BY AdditiveExists
<1>2. Sum(f, S) = F[S]
  BY <1>1, SumIsAdditive
<1>3. F[S] \in Int
  BY <1>1 DEF Additive
<1> QED  BY <1>2, <1>3

LEMMA SumRemove ==
  ASSUME NEW S, IsFiniteSet(S), NEW f, \A x \in S : f[x] \in Int, NEW y \in S
  PROVE  Sum(f, S) = f[y] + Sum(f, S \ {y})
<1>1. PICK F : Additive(F, f, S)
  BY AdditiveExists
<1> DEFINE T == S \ {y}
           G == [s \in SUBSET T |-> F[s]]
<1>2. Additive(G, f, T)
  BY <1>1 DEF Additive
<1>3. IsFiniteSet(T)
  BY FS_Subset
<1>4. Sum(f, T) = F[T]
  <2>1. Sum(f, T) = G[T]
    <3> HIDE DEF G, T
    <3> QED  BY <1>2, <1>3, SumIsAdditive
  <2> QED  BY <2>1
<1>5. Sum(f, S) = F[S]
  BY <1>1, SumIsAdditive
<1>6. F[S] = f[y] + F[S \ {y}]
  BY <1>1 DEF Additive
<1> QED  BY <1>4, <1>5, <1>6

LEMMA SumAdd ==
  ASSUME NEW S, IsFiniteSet(S), NEW f, NEW y, y \notin S,
         \A x \in S \cup {y} : f[x] \in Int
  PROVE  Sum(f, S \cup {y}) = Sum(f, S) + f[y]
<1>1. IsFiniteSet(S \cup {y})
  BY FS_AddElement
<1>2. (S \cup {y}) \ {y} = S
  OBVIOUS
<1>3. Sum(f, S) \in Int
  BY SumType
<1>4. Sum(f, S \cup {y}) = f[y] + Sum(f, (S \cup {y}) \ {y})
  BY <1>1, SumRemove
<1>5. Sum(f, S \cup {y}) = f[y] + Sum(f, S)
  BY <1>2, <1>4
<1> QED  BY <1>3, <1>5

LEMMA SumAgree ==
  ASSUME NEW S, IsFiniteSet(S), NEW f, NEW g,
         \A x \in S : f[x] \in Int /\ g[x] = f[x]
  PROVE  Sum(g, S) = Sum(f, S)
<1>1. PICK F : Additive(F, f, S)
  BY AdditiveExists
<1>2. Additive(F, g, S)
  BY <1>1 DEF Additive
<1>3. Sum(f, S) = F[S]
  BY <1>1, SumIsAdditive
<1>4. Sum(g, S) = F[S]
  BY <1>2, SumIsAdditive
<1> QED  BY <1>3, <1>4

LEMMA SumUnion ==
  ASSUME NEW A, NEW B, IsFiniteSet(A \cup B), A \cap B = {},
         NEW f, \A x \in A \cup B : f[x] \in Int
  PROVE  Sum(f, A \cup B) = Sum(f, A) + Sum(f, B)
<1>1. PICK F : Additive(F, f, A \cup B)
  BY AdditiveExists
<1>2. IsFiniteSet(A) /\ IsFiniteSet(B)
  BY FS_Subset
<1> DEFINE H == [T \in SUBSET A |-> F[T]]
           G == [T \in SUBSET B |-> F[A \cup T] - F[A]]
<1>3. \A T \in SUBSET B : A \cup T \in SUBSET (A \cup B) /\ F[A \cup T] \in Int
  BY <1>1 DEF Additive
<1>4. F[A] \in Int
  BY <1>1 DEF Additive
<1>5. Additive(H, f, A)
  BY <1>1 DEF Additive
<1>6. Additive(G, f, B)
  <2>1. ASSUME NEW T \in SUBSET B, NEW x \in T
        PROVE  G[T] = f[x] + G[T \ {x}]
    <3>1. F[A \cup T] = f[x] + F[(A \cup T) \ {x}]
      BY <1>1, <1>3 DEF Additive
    <3>2. (A \cup T) \ {x} = A \cup (T \ {x})
      OBVIOUS
    <3>3. F[A \cup (T \ {x})] \in Int /\ f[x] \in Int
      BY <1>3
    <3>4. G[T] = F[A \cup T] - F[A] /\ G[T \ {x}] = F[A \cup (T \ {x})] - F[A]
      OBVIOUS
    <3>5. F[A \cup T] = f[x] + F[A \cup (T \ {x})]
      BY <3>1, <3>2
    <3> HIDE DEF G
    <3> QED  BY <1>4, <3>3, <3>4, <3>5
  <2>2. G[{}] = 0
    <3>1. A \cup {} = A
      OBVIOUS
    <3> QED  BY <1>4, <3>1
  <2>3. G \in [SUBSET B -> Int]
    <3>1. ASSUME NEW T \in SUBSET B PROVE F[A \cup T] - F[A] \in Int
      <4>1. PICK u \in Int : u = F[A \cup T]
        BY <1>3
      <4>2. PICK v \in Int : v = F[A]
        BY <1>4
      <4> QED  BY <4>1, <4>2
    <3> QED  BY <3>1
  <2> HIDE DEF G
  <2> QED  BY <2>1, <2>2, <2>3 DEF Additive
<1>7. Sum(f, A) = F[A]
  <2>1. Sum(f, A) = H[A]
    <3> HIDE DEF H
    <3> QED  BY <1>2, <1>5, SumIsAdditive
  <2> QED  BY <2>1
<1>8. Sum(f, B) = F[A \cup B] - F[A]
  <2>1. Sum(f, B) = G[B]
    <3> HIDE DEF G
    <3> QED  BY <1>2, <1>6, SumIsAdditive
  <2> QED  BY <2>1
<1>9. Sum(f, A \cup B) = F[A \cup B] /\ F[A \cup B] \in Int
  BY <1>1, <1>3, SumIsAdditive
<1> QED  BY <1>4, <1>7, <1>8, <1>9

(* What f sums to over the values of an injective g, h sums to over what g *)
(* takes them from, or its negative does.                                  *)
LEMMA SumImage ==
  ASSUME NEW A, IsFiniteSet(A), NEW B, IsFiniteSet(B), NEW g \in [A -> B],
         \A x, y \in A : g[x] = g[y] => x = y, \A b \in B : \E x \in A : b = g[x],
         NEW f, \A b \in B : f[b] \in Int, NEW h
  PROVE  /\ (\A x \in A : h[x] = f[g[x]]) => Sum(h, A) = Sum(f, B)
         /\ (\A x \in A : h[x] = -f[g[x]]) => Sum(h, A) + Sum(f, B) = 0
<1>1. PICK F : Additive(F, f, B)
  BY AdditiveExists
<1> DEFINE Of(T) == {g[x] : x \in T}
           G == [T \in SUBSET A |-> F[Of(T)]]
           H == [T \in SUBSET A |-> -F[Of(T)]]
<1>2. \A T \in SUBSET A : Of(T) \in SUBSET B /\ F[Of(T)] \in Int
  BY <1>1 DEF Additive
<1>3. ASSUME NEW T \in SUBSET A, NEW x \in T
      PROVE  F[Of(T)] = f[g[x]] + F[Of(T \ {x})]
  <2>1. Of(T) \ {g[x]} = Of(T \ {x}) /\ g[x] \in Of(T)
    OBVIOUS
  <2> HIDE DEF Of
  <2>2. F[Of(T)] = f[g[x]] + F[Of(T) \ {g[x]}]
    BY <1>1, <1>2, <2>1 DEF Additive
  <2> QED  BY <2>1, <2>2
<1>4. F[Of({})] = 0 /\ F[Of(A)] = F[B]
  <2>1. Of({}) = {} /\ Of(A) = B
    OBVIOUS
  <2> HIDE DEF Of
  <2> QED  BY <1>1, <2>1 DEF Additive
<1>5. \A x \in A : f[g[x]] \in Int
  OBVIOUS
<1> HIDE DEF Of
<1>6. Sum(f, B) = F[B] /\ F[B] \in Int
  <2>1. Sum(f, B) = F[B]
    BY <1>1, SumIsAdditive
  <2>2. B \in SUBSET B
    OBVIOUS
  <2> QED  BY <1>1, <2>1, <2>2 DEF Additive
<1>7. ASSUME \A x \in A : h[x] = f[g[x]] PROVE Sum(h, A) = Sum(f, B)
  <2>1. Additive(G, h, A)
    BY <1>2, <1>3, <1>4, <1>7 DEF Additive
  <2>2. Sum(h, A) = G[A]
    <3> HIDE DEF G
    <3> QED  BY <2>1, SumIsAdditive
  <2> QED  BY <1>4, <1>6, <2>2
<1>8. ASSUME \A x \in A : h[x] = -f[g[x]] PROVE Sum(h, A) + Sum(f, B) = 0
  <2>1. ASSUME NEW T \in SUBSET A, NEW x \in T PROVE H[T] = h[x] + H[T \ {x}]
    <3>1. H[T] = -F[Of(T)] /\ H[T \ {x}] = -F[Of(T \ {x})] /\ h[x] = -f[g[x]]
      BY <1>8
    <3> HIDE DEF H
    <3> QED  BY <1>2, <1>3, <1>5, <3>1
  <2>2. Additive(H, h, A)
    <3>1. H \in [SUBSET A -> Int] /\ H[{}] = 0
      BY <1>2, <1>4
    <3> HIDE DEF H
    <3> QED  BY <2>1, <3>1 DEF Additive
  <2>3. Sum(h, A) = H[A]
    <3> HIDE DEF H
    <3> QED  BY <2>2, SumIsAdditive
  <2> QED  BY <1>4, <1>6, <2>3
<1> QED  BY <1>7, <1>8

-----------------------------------------------------------------------------
(* Running totals                                                          *)

Entry == [of : Call, amount : Int]

LEMMA SumOfIs ==
  ASSUME NEW s, IsFiniteSet(DOMAIN s), NEW f,
         \A i \in DOMAIN s : f[i] = s[i].amount /\ f[i] \in Int
  PROVE  SumOf(s) = Sum(f, DOMAIN s)
<1>1. PICK F : Additive(F, f, DOMAIN s)
  BY AdditiveExists
<1>2. Peels(F, f, DOMAIN s)
  BY <1>1, AdditivePeels
<1> DEFINE Recurs(it) ==
      it = [t \in SUBSET DOMAIN s |->
              IF t = {} THEN 0
              ELSE s[CHOOSE x \in t : TRUE].amount + it[t \ {CHOOSE x \in t : TRUE}]]
<1>3. \A t \in SUBSET DOMAIN s : t # {} =>
        /\ (CHOOSE x \in t : TRUE) \in DOMAIN s
        /\ f[CHOOSE x \in t : TRUE] = s[CHOOSE x \in t : TRUE].amount
  OBVIOUS
<1>4. \A it : Peels(it, f, DOMAIN s) <=> Recurs(it)
  BY <1>3 DEF Peels
<1>5. \E it : Recurs(it) /\ SumOf(s) = it[DOMAIN s]
  <2>1. Recurs(F)
    BY <1>2, <1>4
  <2> QED  BY <2>1 DEF SumOf, MapThenSumSet, MapThenFoldSet
<1>6. PICK it : Peels(it, f, DOMAIN s) /\ SumOf(s) = it[DOMAIN s]
  BY <1>4, <1>5
<1>7. it[DOMAIN s] = F[DOMAIN s]
  BY <1>1, <1>6, PeelsAdditive
<1> QED  BY <1>1, <1>6, <1>7, SumIsAdditive

LEMMA SumOfFacts ==
  ASSUME NEW s \in Seq(Entry)
  PROVE  /\ SumOf(s) \in Int
         /\ s = <<>> => SumOf(s) = 0
         /\ \A e \in Entry : SumOf(Append(s, e)) = SumOf(s) + e.amount
<1> DEFINE f == [i \in DOMAIN s |-> s[i].amount]
<1>1. DOMAIN s = 1..Len(s) /\ Len(s) \in Nat /\ \A i \in DOMAIN s : s[i] \in Entry
  OBVIOUS
<1>2. IsFiniteSet(DOMAIN s)
  BY <1>1, FS_Interval
<1>3. \A i \in DOMAIN s : f[i] = s[i].amount /\ f[i] \in Int
  BY <1>1 DEF Entry
<1>4. SumOf(s) = Sum(f, DOMAIN s)
  <2> HIDE DEF f
  <2> QED  BY <1>2, <1>3, SumOfIs
<1>5. SumOf(s) \in Int
  <2> HIDE DEF f
  <2> QED  BY <1>2, <1>3, <1>4, SumType
<1>6. s = <<>> => SumOf(s) = 0
  <2>1. s = <<>> => DOMAIN s = {}
    BY <1>1
  <2> QED  BY <1>4, <2>1, SumEmpty
<1>7. ASSUME NEW e \in Entry
      PROVE  SumOf(Append(s, e)) = SumOf(s) + e.amount
  <2> DEFINE t == Append(s, e)
             n == Len(s) + 1
             g == [i \in DOMAIN t |-> t[i].amount]
  <2>1. /\ DOMAIN t = DOMAIN s \cup {n} /\ n \notin DOMAIN s
        /\ t[n] = e /\ \A i \in DOMAIN s : t[i] = s[i]
    <3>1. t \in Seq(Entry) /\ Len(t) = n /\ t[n] = e
          /\ \A i \in 1..Len(s) : t[i] = s[i]
      BY <1>1
    <3>2. DOMAIN t = 1..n
      BY <3>1
    <3> HIDE DEF t
    <3> QED  BY <1>1, <3>1, <3>2
  <2>2. \A i \in DOMAIN t : g[i] = t[i].amount /\ g[i] \in Int
    <3>1. \A i \in DOMAIN t : t[i] \in Entry
      BY <1>1, <2>1
    <3> HIDE DEF t
    <3> QED  BY <3>1 DEF Entry
  <2>3. IsFiniteSet(DOMAIN t)
    BY <1>2, <2>1, FS_AddElement
  <2>4. SumOf(t) = Sum(g, DOMAIN t)
    <3> HIDE DEF t, g
    <3> QED  BY <2>2, <2>3, SumOfIs
  <2>5. Sum(g, DOMAIN s \cup {n}) = Sum(g, DOMAIN s) + g[n]
    <3>1. \A i \in DOMAIN s \cup {n} : g[i] \in Int
      BY <2>1, <2>2
    <3>2. n \notin DOMAIN s
      BY <2>1
    <3> HIDE DEF g, n
    <3> QED  BY <1>2, <3>1, <3>2, SumAdd
  <2>6. Sum(g, DOMAIN s) = Sum(f, DOMAIN s)
    <3>1. \A i \in DOMAIN s : f[i] \in Int /\ g[i] = f[i]
      BY <1>3, <2>1
    <3> HIDE DEF f, g
    <3> QED  BY <1>2, <3>1, SumAgree
  <2>7. g[n] = e.amount
    BY <2>1
  <2> HIDE DEF f, g, n
  <2> QED  BY <1>4, <2>1, <2>4, <2>5, <2>6, <2>7
<1> QED  BY <1>5, <1>6, <1>7

(* The total after n contributions.                                        *)
Prefix(s, n) == SumOf(SubSeq(s, 1, n))

LEMMA PrefixFacts ==
  ASSUME NEW s \in Seq(Entry), NEW e \in Entry
  PROVE  /\ Prefix(s, Len(s)) = SumOf(s)
         /\ \A n \in 0..Len(s) : /\ Prefix(s, n) \in Int
                                 /\ Prefix(Append(s, e), n) = Prefix(s, n)
         /\ Prefix(Append(s, e), Len(s) + 1) = SumOf(s) + e.amount
<1>1. Len(s) \in Nat
  OBVIOUS
<1>2. SubSeq(s, 1, Len(s)) = s
  OBVIOUS
<1>3. ASSUME NEW n \in 0..Len(s)
      PROVE  SubSeq(s, 1, n) \in Seq(Entry) /\ SubSeq(Append(s, e), 1, n) = SubSeq(s, 1, n)
  OBVIOUS
<1>4. SubSeq(Append(s, e), 1, Len(s) + 1) = Append(s, e)
  OBVIOUS
<1> QED  BY <1>2, <1>3, <1>4, SumOfFacts DEF Prefix

-----------------------------------------------------------------------------
(* The locks                                                               *)

LEMMA LockStep ==
  ASSUME LockInv, TypeOK, [Next]_vars
  PROVE  LockInv'
<1> USE DEF LockInv
<1>1. CASE UNCHANGED <<step, held, snapshot>>
  BY <1>1 DEF Holds, Exclusive, HoldsAll, HeldIsCurrent, Needs, Bound
<1>2. ASSUME NEW c \in Call, Begin(c)
      PROVE  LockInv'
  <2>1. /\ UNCHANGED <<held, snapshot>> /\ step'[c] = "locking"
        /\ \A d \in Call : d # c => step'[d] = step[d]
    BY <1>2 DEF Begin, books, TypeOK
  <2> QED
    BY <2>1 DEF Holds, Exclusive, HoldsAll, HeldIsCurrent, Needs, Bound
<1>3. ASSUME NEW c \in Call, LockNext(c)
      PROVE  LockInv'
  <2>1. PICK k \in Missing(c) :
          Free(k) /\ held' = [held EXCEPT ![c][k] = snapshot[k]]
    BY <1>3 DEF LockNext
  <2>2. /\ k \in Key
        /\ \A l \in Key : held'[c][l] = IF l = k THEN snapshot[k] ELSE held[c][l]
        /\ \A d \in Call : d # c => held'[d] = held[d]
    BY <2>1, KeysNeeded DEF TypeOK, Missing
  <2>3. UNCHANGED <<step, snapshot>> /\ step[c] = "locking"
    BY <1>3 DEF LockNext, books
  <2>4. Exclusive'
    BY <2>1, <2>2 DEF Holds, Exclusive, Free
  <2>5. HoldsAll'
    BY <2>2, <2>3 DEF Holds, HoldsAll, Needs, Bound
  <2>6. HeldIsCurrent'
    BY <2>2, <2>3 DEF Holds, HeldIsCurrent
  <2> QED  BY <2>4, <2>5, <2>6
<1>4. ASSUME NEW c \in Call, AppendDecision(c)
      PROVE  LockInv'
  <2>1. Needs(c) \subseteq Holds(c)
    BY <1>4 DEF AppendDecision, Missing
  <2>2. UNCHANGED <<held, snapshot>> /\ \A d \in Call : d # c => step'[d] = step[d]
    BY <1>4 DEF AppendDecision, books, TypeOK
  <2> QED  BY <2>1, <2>2 DEF Holds, Exclusive, HoldsAll, HeldIsCurrent, Needs, Bound
<1>5. ASSUME NEW c \in Call, NEW to \in {"idle", "over"}, End(c, to),
             \A d \in Call : d # c => \A k \in Holds(d) : snapshot'[k] = snapshot[k]
      PROVE  LockInv'
  <2>1. Holds(c)' = {} /\ step'[c] = to
    BY <1>5 DEF End, TypeOK, Holds, Nothing
  <2>2. \A d \in Call : d # c => held'[d] = held[d] /\ step'[d] = step[d]
    BY <1>5 DEF End, TypeOK
  <2>3. Exclusive'
    BY <2>1, <2>2 DEF Holds, Exclusive
  <2>4. HoldsAll'
    BY <2>1, <2>2 DEF Holds, HoldsAll, Needs, Bound
  <2>5. HeldIsCurrent'
    BY <1>5, <2>1, <2>2 DEF Holds, HeldIsCurrent
  <2> QED  BY <2>3, <2>4, <2>5
<1>6. ASSUME NEW c \in Call, RefuseSuccessor(c) \/ Fail(c)
      PROVE  LockInv'
  BY <1>5, <1>6 DEF RefuseSuccessor, Fail, books
<1>7. ASSUME NEW c \in Call, Commit(c)
      PROVE  LockInv'
  <2>1. \A k \in Key : k \notin Own(c) \cup Withdrawn(c) => snapshot'[k] = snapshot[k]
    BY <1>7 DEF Commit
  <2>2. Own(c) \cup Withdrawn(c) \subseteq Holds(c)
    BY <1>7, KeysNeeded DEF Holds, Commit, HoldsAll
  <2>3. \A d \in Call : Holds(d) \subseteq Key
    BY DEF Holds
  <2>4. \A d \in Call : d # c => \A k \in Holds(d) : snapshot'[k] = snapshot[k]
    BY <2>1, <2>2, <2>3 DEF Holds, Exclusive
  <2> QED  BY <1>5, <1>7, <2>4 DEF Commit
<1>8. ASSUME NEW r \in Refund, Check(r) \/ Admit(r) \/ FailAdmission(r) \/ Report(r)
      PROVE  LockInv'
  BY <1>1, <1>8 DEF Check, Admit, FailAdmission, Report, books
<1>9. CASE UNCHANGED vars
  BY <1>1, <1>9 DEF vars, books
<1> QED
  BY <1>2, <1>3, <1>4, <1>6, <1>7, <1>8, <1>9 DEF Next, Proceed, Quote

-----------------------------------------------------------------------------
(* The line of corrections                                                 *)

LEMMA LineStep ==
  ASSUME LineInv, TypeOK, [Next]_vars
  PROVE  LineInv'
<1> USE DEF LineInv
<1>1. CASE UNCHANGED <<decided, step>>
  BY <1>1 DEF DecidedIsOver, NamesAlone, OneSuccessor
<1>2. ASSUME NEW c \in Call, NEW to \in {"idle", "locking", "over"},
             step[c] \in {"idle", "locking", "appended"},
             step' = [step EXCEPT ![c] = to], decided' = decided
      PROVE  LineInv'
  BY <1>2 DEF TypeOK, DecidedIsOver, NamesAlone, OneSuccessor
<1>3. ASSUME NEW c \in Call, AppendDecision(c)
      PROVE  LineInv'
  <2>1. /\ step[c] = "locking" /\ step' = [step EXCEPT ![c] = "appended"]
        /\ decided' = decided
    BY <1>3 DEF AppendDecision, books
  <2>2. ASSUME Supersedes[c] # None, NEW d \in Call, d # c,
               Supersedes[d] = Supersedes[c]
        PROVE  d \notin decided /\ step[d] # "appended"
    BY <1>3, <2>2 DEF AppendDecision, Alone, Superseded
  <2>3. NamesAlone'
    BY <2>1, <2>2 DEF NamesAlone, TypeOK
  <2>4. DecidedIsOver' /\ OneSuccessor'
    BY <2>1 DEF DecidedIsOver, OneSuccessor, TypeOK
  <2> QED  BY <2>3, <2>4
<1>4. ASSUME NEW c \in Call, Commit(c)
      PROVE  LineInv'
  <2>1. /\ step[c] = "appended" /\ step' = [step EXCEPT ![c] = "over"]
        /\ decided' = decided \cup {c}
    BY <1>4 DEF Commit, End
  <2>2. decided \subseteq Call
    BY DEF TypeOK
  <2>3. DecidedIsOver'
    BY <2>1, <2>2 DEF DecidedIsOver, TypeOK
  <2>4. NamesAlone'
    BY <2>1, <2>2 DEF NamesAlone, TypeOK
  <2>5. OneSuccessor'
    BY <2>1, <2>2 DEF NamesAlone, OneSuccessor
  <2> QED  BY <2>3, <2>4, <2>5
<1>5. ASSUME NEW c \in Call, Begin(c) \/ RefuseSuccessor(c) \/ Fail(c)
      PROVE  LineInv'
  BY <1>2, <1>5 DEF Begin, RefuseSuccessor, Fail, End, books
<1>6. ASSUME NEW c \in Call, LockNext(c)
      PROVE  LineInv'
  BY <1>1, <1>6 DEF LockNext, books
<1>7. ASSUME NEW r \in Refund, Check(r) \/ Admit(r) \/ FailAdmission(r) \/ Report(r)
      PROVE  LineInv'
  BY <1>1, <1>7 DEF Check, Admit, FailAdmission, Report, books
<1>8. CASE UNCHANGED vars
  BY <1>1, <1>8 DEF vars, books
<1> QED
  BY <1>3, <1>4, <1>5, <1>6, <1>7, <1>8 DEF Next, Proceed, Quote

-----------------------------------------------------------------------------
(* Types                                                                   *)

LEMMA ContributionType ==
  ASSUME NEW c \in Call, NEW k \in Own(c) \cup Withdrawn(c)
  PROVE  Contribution(c, k) \in Int
<1>1. ASSUME NEW d \in Call, NEW j \in Own(d)
      PROVE  Amount[d][j[1]] \in Int
  BY <1>1, CallAssumption DEF Own
<1>2. c \in Adjusting => Supersedes[c] \in Call
  BY KeysNeeded
<1> QED  BY <1>1, <1>2 DEF Contribution, Withdrawn

LEMMA TypeStep ==
  ASSUME TypeOK, HoldsAll, [Next]_vars
  PROVE  TypeOK'
<1> USE DEF TypeOK
<1>1. ASSUME NEW c \in Call, Begin(c)
      PROVE  TypeOK'
  BY <1>1 DEF Begin, books
<1>2. ASSUME NEW c \in Call, LockNext(c)
      PROVE  TypeOK'
  <2>1. PICK k \in Missing(c) : held' = [held EXCEPT ![c][k] = snapshot[k]]
    BY <1>2 DEF LockNext
  <2>2. k \in Key
    BY KeysNeeded DEF Missing
  <2>3. /\ held' \in [Call -> [Key -> Snapshot \cup {None}]]
        /\ \A d \in Call : d # c => held'[d] = held[d]
    BY <2>1, <2>2
  <2> QED  BY <1>2, <2>3 DEF LockNext, books
<1>3. ASSUME NEW c \in Call, AppendDecision(c)
      PROVE  TypeOK'
  <2>1. \A k \in Bound(c) : k \in Key /\ held[c][k] \in Snapshot
    BY <1>3, KeysNeeded DEF AppendDecision, Missing, Holds
  <2>2. \A b \in Binding : <<b, MonthOf[c]>> \in Bound(c)
    BY DEF Bound
  <2>3. \A b \in Binding : held[c][<<b, MonthOf[c]>>].total \in Int
    BY <2>1, <2>2 DEF Snapshot
  <2>4. ReadSet(c) \in [Binding -> Int]
    BY <2>3, KeysNeeded DEF ReadSet, ReadsNow
  <2> QED  BY <1>3, <2>4 DEF AppendDecision, books
<1>4. ASSUME NEW c \in Call, NEW to \in {"idle", "over"}, End(c, to)
      PROVE  /\ step' \in [Call -> {"idle", "locking", "appended", "over"}]
             /\ held' \in [Call -> [Key -> Snapshot \cup {None}]]
             /\ \A d \in Call : step'[d] \in {"idle", "over"} => held'[d] = Nothing
  <2>1. Nothing \in [Key -> Snapshot \cup {None}]
    BY DEF Nothing
  <2> QED  BY <1>4, <2>1 DEF End
<1>5. ASSUME NEW c \in Call, RefuseSuccessor(c)
      PROVE  TypeOK'
  BY <1>4, <1>5 DEF RefuseSuccessor, books
<1>6. ASSUME NEW c \in Call, Fail(c)
      PROVE  TypeOK'
  <2>1. faults' \in 0..MaxFaults
    BY <1>6, FaultAssumption DEF Fail
  <2>2. End(c, "idle") /\ UNCHANGED <<books, reads, status>>
    BY <1>6 DEF Fail
  <2> QED  BY <1>4, <2>1, <2>2 DEF books
<1>7. ASSUME NEW c \in Call, Commit(c)
      PROVE  TypeOK'
  <2> DEFINE touched == Own(c) \cup Withdrawn(c)
             next(k) == Apply(k, held[c][k], Contribution(c, k))
  <2>1. touched \subseteq Key /\ \A k \in touched : held[c][k] \in Snapshot
    BY <1>7, KeysNeeded DEF Commit, HoldsAll, Holds
  <2>2. \A k \in touched : k[1] \in Binding
    BY <2>1 DEF Key
  <2>3. \A k \in touched : Contribution(c, k) \in Int
    BY ContributionType
  <2>4. \A k \in touched : Limit[k[1]] \subseteq Int
    BY <2>2, LimitAssumption
  <2>5. \A k \in touched : next(k) \in Snapshot
    BY <2>1, <2>3, <2>4 DEF Apply, Crosses, Snapshot
  <2>6. \A k \in touched : Crosses(k, held[c][k], next(k).total) \subseteq Int
    BY <2>4 DEF Crosses
  <2>7. log' \in [Key -> Seq([of : Call, amount : Int])]
    <3>1. \A k \in touched :
            [of |-> c, amount |-> Contribution(c, k)] \in [of : Call, amount : Int]
      BY <2>3
    <3>2. \A k \in Key : log'[k] = IF k \in touched
            THEN Append(log[k], [of |-> c, amount |-> Contribution(c, k)]) ELSE log[k]
      BY <1>7 DEF Commit
    <3>3. ASSUME NEW k \in Key
          PROVE  log'[k] \in Seq([of : Call, amount : Int])
      <4> DEFINE Row == [of : Call, amount : Int]
                 row == [of |-> c, amount |-> Contribution(c, k)]
      <4>1. log[k] \in Seq(Row)
        OBVIOUS
      <4>2. k \in touched => row \in Row
        BY <3>1
      <4>3. log'[k] = IF k \in touched THEN Append(log[k], row) ELSE log[k]
        BY <3>2
      <4> HIDE DEF Row, row, touched
      <4>4. log'[k] \in Seq(Row)
        BY <4>1, <4>2, <4>3
      <4> QED  BY <4>4 DEF Row
    <3>4. log' = [k \in Key |-> log'[k]]
      BY <1>7 DEF Commit
    <3> QED  BY <3>3, <3>4
  <2>8. snapshot' \in [Key -> Snapshot]
    BY <1>7, <2>5 DEF Commit
  <2>9. crossing' \subseteq [key : Key, limit : Int, seq : Nat]
    <3>1. \A k \in touched : next(k).seq \in Nat
      BY <2>5 DEF Snapshot
    <3>2. ASSUME NEW k \in touched, NEW l \in Crosses(k, held[c][k], next(k).total)
          PROVE  [key |-> k, limit |-> l, seq |-> next(k).seq]
                   \in [key : Key, limit : Int, seq : Nat]
      BY <2>1, <2>6, <3>1
    <3>3. crossing' = crossing \cup UNION
            {{[key |-> k, limit |-> l, seq |-> next(k).seq] :
                l \in Crosses(k, held[c][k], next(k).total)} : k \in touched}
      BY <1>7 DEF Commit
    <3> DEFINE Rows(k) == {[key |-> k, limit |-> l, seq |-> next(k).seq] :
                             l \in Crosses(k, held[c][k], next(k).total)}
    <3>4. ASSUME NEW k \in touched, NEW x \in Rows(k)
          PROVE  x \in [key : Key, limit : Int, seq : Nat]
      <4>1. PICK l \in Crosses(k, held[c][k], next(k).total) :
              x = [key |-> k, limit |-> l, seq |-> next(k).seq]
        BY <3>4, Zenon
      <4> HIDE DEF touched, next
      <4> QED  BY <3>2, <4>1
    <3>5. crossing' = crossing \cup UNION {Rows(k) : k \in touched}
      BY <3>3
    <3> HIDE DEF Rows, touched, next
    <3> QED  BY <3>4, <3>5
  <2>10. journal' \subseteq Journal
    BY <1>7, KeysNeeded DEF Commit, Journals, Journal
  <2>11. End(c, "over") /\ decided' = decided \cup {c} /\ UNCHANGED <<reads, status, faults>>
    BY <1>7 DEF Commit
  <2> HIDE DEF touched, next
  <2> QED  BY <1>4, <2>7, <2>8, <2>9, <2>10, <2>11
<1>8. ASSUME NEW r \in Refund, Check(r) \/ Admit(r)
      PROVE  TypeOK'
  BY <1>8 DEF Check, Admit, books
<1>9. ASSUME NEW r \in Refund, FailAdmission(r)
      PROVE  TypeOK'
  <2>1. faults' \in 0..MaxFaults
    BY <1>9, FaultAssumption DEF FailAdmission
  <2> QED  BY <1>9, <2>1 DEF FailAdmission, books
<1>10. ASSUME NEW r \in Refund, Report(r)
       PROVE  TypeOK'
  <2>1. PICK to \in {"PENDING", "UNCERTAIN", "COMPLETED", "FAILED"} :
          /\ status' = [status EXCEPT ![r] = to]
          /\ journal' = IF to = "COMPLETED"
                        THEN journal \cup {<<"REFUND_COMPLETED", r>>} ELSE journal
    BY <1>10 DEF Report
  <2>2. <<"REFUND_COMPLETED", r>> \in Journal
    BY DEF Journal
  <2> QED  BY <1>10, <2>1, <2>2 DEF Report
<1>11. CASE UNCHANGED vars
  BY <1>11 DEF vars, books
<1> QED
  BY <1>1, <1>2, <1>3, <1>5, <1>6, <1>7, <1>8, <1>9, <1>10, <1>11
     DEF Next, Proceed, Quote

-----------------------------------------------------------------------------

Inv == TypeOK /\ LockInv /\ LineInv

LEMMA InitInv == Init => Inv
<1> SUFFICES ASSUME Init PROVE Inv
  OBVIOUS
<1>1. TypeOK
  BY FaultAssumption DEF Init, TypeOK, Snapshot, Nothing
<1>2. \A c \in Call : Holds(c) = {} /\ step[c] = "idle"
  BY DEF Init, Holds, Nothing
<1>3. LockInv
  BY <1>2 DEF LockInv, Exclusive, HoldsAll, HeldIsCurrent
<1>4. LineInv
  BY <1>2 DEF LineInv, DecidedIsOver, NamesAlone, OneSuccessor, Init
<1> QED  BY <1>1, <1>3, <1>4 DEF Inv

LEMMA Inductive == Spec => []Inv
<1>1. ASSUME Inv, [Next]_vars PROVE Inv'
  BY <1>1, LockStep, LineStep, TypeStep DEF Inv, LockInv
<1> QED  BY <1>1, InitInv, PTL DEF Spec

(* The books keep their types through every commit, correction, failure    *)
(* and refund.                                                             *)
THEOREM TypeCorrect == Spec => []TypeOK
<1>1. Inv => TypeOK
  BY DEF Inv
<1> QED  BY <1>1, Inductive, PTL

(* A transaction that holds an accumulator's lock evaluates against the    *)
(* total it will add to (LockAll).                                         *)
THEOREM ReadsUnderLock == Spec => []HeldIsCurrent
<1>1. Inv => HeldIsCurrent
  BY DEF Inv, LockInv
<1> QED  BY <1>1, Inductive, PTL

(* However many calls name one decision at once, at most one of them       *)
(* commits (checkSupersedes and its unique index).                         *)
THEOREM CorrectionsFormALine == Spec => []OneSuccessor
<1>1. Inv => OneSuccessor
  BY DEF Inv, LineInv
<1> QED  BY <1>1, Inductive, PTL

-----------------------------------------------------------------------------
(* Refunds                                                                 *)
(*                                                                         *)
(* What RefundsWithinTax rests on is that the refund under admission is    *)
(* covered too, that there is one of them a decision, and that no report   *)
(* moves a reservation while there is.                                     *)

Paying(d) == {r \in Refund : RefundOf[r] = d /\ Reserves(status[r])}
Asked == {r \in Refund : status[r] # "none"}

OneAdmission ==
  \A r, q \in Refund :
    /\ status[r] = "admitting" /\ status[q] = "admitting"
    /\ RefundOf[r] = RefundOf[q]
    => r = q
PayingWithinTax ==
  \A d \in Call : Sum(RefundAmount, Paying(d)) <= Collected(d)
AdmissionWithinTax ==
  \A r \in Refund : status[r] = "admitting" =>
    Sum(RefundAmount, Paying(RefundOf[r])) + RefundAmount[r]
      <= Collected(RefundOf[r])

RefundInv ==
  /\ IsFiniteSet(Asked)
  /\ OneAdmission /\ PayingWithinTax /\ AdmissionWithinTax

LEMMA PayingSum ==
  ASSUME IsFiniteSet(Asked), NEW d
  PROVE  /\ IsFiniteSet(Paying(d))
         /\ Sum(RefundAmount, Paying(d)) \in Int
         /\ Reserved(d) = Sum(RefundAmount, Paying(d))
<1>1. Paying(d) \subseteq Asked
  BY DEF Paying, Asked, Reserves
<1>2. IsFiniteSet(Paying(d))
  BY <1>1, FS_Subset
<1>3. \A r \in Paying(d) : RefundAmount[r] \in Int
  BY RefundAssumption DEF Paying
<1>4. Sum(RefundAmount, Paying(d)) \in Int
  BY <1>2, <1>3, SumType
<1>5. Reserved(d) = Sum(RefundAmount, Paying(d))
  BY DEF Reserved, Sum, Paying, MapThenSumSet, MapThenFoldSet
<1> QED  BY <1>2, <1>4, <1>5

LEMMA CollectedGrows ==
  ASSUME journal \subseteq journal', NEW d \in Call
  PROVE  Collected(d) \in Int /\ Collected(d)' \in Int /\ Collected(d) <= Collected(d)'
  BY CallAssumption DEF Collected

LEMMA RefundStep ==
  ASSUME RefundInv, TypeOK, [Next]_vars
  PROVE  RefundInv'
<1> USE DEF RefundInv
<1>1. ASSUME UNCHANGED status, journal \subseteq journal'
      PROVE  RefundInv'
  <2>1. UNCHANGED Asked /\ \A d \in Call : Paying(d)' = Paying(d)
    BY <1>1 DEF Asked, Paying
  <2>2. \A d \in Call : /\ Collected(d) \in Int /\ Collected(d)' \in Int
                        /\ Collected(d) <= Collected(d)'
    BY <1>1, CollectedGrows
  <2>3. \A d \in Call : Sum(RefundAmount, Paying(d)) \in Int
    BY PayingSum
  <2>4. OneAdmission'
    BY <1>1 DEF OneAdmission
  <2>5. PayingWithinTax'
    BY <2>1, <2>2, <2>3 DEF PayingWithinTax
  <2>6. AdmissionWithinTax'
    <3> SUFFICES ASSUME NEW r \in Refund, status'[r] = "admitting"
                 PROVE  Sum(RefundAmount, Paying(RefundOf[r])') + RefundAmount[r]
                          <= Collected(RefundOf[r])'
      BY DEF AdmissionWithinTax
    <3>1. RefundOf[r] \in Call /\ RefundAmount[r] \in Int
      BY RefundAssumption
    <3>2. Sum(RefundAmount, Paying(RefundOf[r])) + RefundAmount[r]
            <= Collected(RefundOf[r])
      BY <1>1 DEF AdmissionWithinTax
    <3> QED  BY <2>1, <2>2, <2>3, <3>1, <3>2
  <2> QED  BY <2>1, <2>4, <2>5, <2>6
<1>2. ASSUME NEW r \in Refund, NEW to,
             status' = [status EXCEPT ![r] = to],
             ~Reserves(status[r]), ~Reserves(to), UNCHANGED journal
      PROVE  /\ IsFiniteSet(Asked')
             /\ \A d \in Call : Paying(d)' = Paying(d) /\ Collected(d)' = Collected(d)
             /\ PayingWithinTax'
  <2>1. Asked' \subseteq Asked \cup {r}
    BY <1>2 DEF Asked, TypeOK
  <2>2. IsFiniteSet(Asked')
    BY <2>1, FS_AddElement, FS_Subset
  <2>3. \A d \in Call : Paying(d)' = Paying(d) /\ Collected(d)' = Collected(d)
    BY <1>2 DEF Paying, Collected, Reserves, TypeOK
  <2> QED  BY <2>2, <2>3 DEF PayingWithinTax
<1>3. ASSUME NEW r \in Refund, Check(r) PROVE RefundInv'
  <2> DEFINE to == IF Refundable(r) THEN "admitting" ELSE "refused"
  <2>1. /\ status' = [status EXCEPT ![r] = to]
        /\ status[r] = "none" /\ ~LockedForRefund(RefundOf[r])
        /\ UNCHANGED journal
    BY <1>3 DEF Check, books
  <2>2. ~Reserves(status[r]) /\ ~Reserves(to)
    BY <2>1 DEF Reserves
  <2>3. /\ IsFiniteSet(Asked')
        /\ \A d \in Call : Paying(d)' = Paying(d) /\ Collected(d)' = Collected(d)
        /\ PayingWithinTax'
    BY <1>2, <2>1, <2>2
  <2>4. OneAdmission'
    BY <2>1 DEF OneAdmission, LockedForRefund, TypeOK
  <2>5. AdmissionWithinTax'
    <3> SUFFICES ASSUME NEW q \in Refund, status'[q] = "admitting"
                 PROVE  Sum(RefundAmount, Paying(RefundOf[q])') + RefundAmount[q]
                          <= Collected(RefundOf[q])'
      BY DEF AdmissionWithinTax
    <3>1. RefundOf[q] \in Call
      BY RefundAssumption
    <3>2. CASE q = r
      <4>1. Refundable(r)
        BY <2>1, <3>2 DEF TypeOK
      <4>2. Reserved(RefundOf[r]) + RefundAmount[r] <= Collected(RefundOf[r])
        BY <4>1 DEF Refundable
      <4>3. Reserved(RefundOf[r]) = Sum(RefundAmount, Paying(RefundOf[r]))
        BY PayingSum
      <4> QED  BY <2>3, <3>1, <3>2, <4>2, <4>3
    <3>3. CASE q # r
      <4>1. status[q] = "admitting"
        BY <2>1, <3>3 DEF TypeOK
      <4> QED  BY <2>3, <3>1, <4>1 DEF AdmissionWithinTax
    <3> QED  BY <3>2, <3>3
  <2> QED  BY <2>3, <2>4, <2>5
<1>4. ASSUME NEW r \in Refund, FailAdmission(r) PROVE RefundInv'
  <2>1. /\ status' = [status EXCEPT ![r] = "none"] /\ status[r] = "admitting"
        /\ UNCHANGED journal
    BY <1>4 DEF FailAdmission, books
  <2>2. ~Reserves(status[r]) /\ ~Reserves("none")
    BY <2>1 DEF Reserves
  <2>3. /\ IsFiniteSet(Asked')
        /\ \A d \in Call : Paying(d)' = Paying(d) /\ Collected(d)' = Collected(d)
        /\ PayingWithinTax'
    BY <1>2, <2>1, <2>2
  <2>4. \A q \in Refund : status'[q] = "admitting" => status[q] = "admitting"
    BY <2>1 DEF TypeOK
  <2>5. OneAdmission'
    BY <2>4 DEF OneAdmission
  <2>6. AdmissionWithinTax'
    BY <2>3, <2>4, RefundAssumption DEF AdmissionWithinTax
  <2> QED  BY <2>3, <2>5, <2>6
<1>5. ASSUME NEW r \in Refund, Admit(r) PROVE RefundInv'
  <2> DEFINE d == RefundOf[r]
  <2>1. /\ status' = [status EXCEPT ![r] = "REQUESTED"] /\ status[r] = "admitting"
        /\ UNCHANGED journal
    BY <1>5 DEF Admit, books
  <2>2. Asked' = Asked
    BY <2>1 DEF Asked, TypeOK
  <2>3. r \notin Paying(d) /\ Paying(d)' = Paying(d) \cup {r}
    BY <2>1 DEF Paying, Reserves, TypeOK
  <2>4. \A e \in Call : /\ Collected(e)' = Collected(e)
                        /\ e # d => Paying(e)' = Paying(e)
    BY <2>1 DEF Paying, Collected, TypeOK
  <2>5. Sum(RefundAmount, Paying(d) \cup {r})
          = Sum(RefundAmount, Paying(d)) + RefundAmount[r]
    <3>1. \A q \in Paying(d) \cup {r} : RefundAmount[q] \in Int
      BY RefundAssumption DEF Paying
    <3>2. IsFiniteSet(Paying(d))
      BY PayingSum
    <3> QED  BY <2>3, <3>1, <3>2, SumAdd
  <2>6. \A q \in Refund :
          status'[q] = "admitting" => status[q] = "admitting" /\ RefundOf[q] # d
    BY <2>1 DEF TypeOK, OneAdmission
  <2>7. Sum(RefundAmount, Paying(d)) + RefundAmount[r] <= Collected(d)
    BY <2>1 DEF AdmissionWithinTax
  <2>8. PayingWithinTax'
    <3> SUFFICES ASSUME NEW e \in Call
                 PROVE  Sum(RefundAmount, Paying(e)') <= Collected(e)'
      BY DEF PayingWithinTax
    <3>1. CASE e = d
      <4>1. Sum(RefundAmount, Paying(d)') <= Collected(d)
        BY <2>3, <2>5, <2>7
      <4> QED  BY <2>4, <3>1, <4>1
    <3>2. CASE e # d
      BY <2>4, <3>2 DEF PayingWithinTax
    <3> QED  BY <3>1, <3>2
  <2>9. OneAdmission'
    BY <2>6 DEF OneAdmission
  <2>10. AdmissionWithinTax'
    BY <2>4, <2>6, RefundAssumption DEF AdmissionWithinTax
  <2> QED  BY <2>2, <2>8, <2>9, <2>10
<1>6. ASSUME NEW r \in Refund, Report(r) PROVE RefundInv'
  <2> DEFINE d == RefundOf[r]
  <2>1. PICK to \in {"PENDING", "UNCERTAIN", "COMPLETED", "FAILED"} :
          /\ CanMoveTo(status[r], to)
          /\ status' = [status EXCEPT ![r] = to]
          /\ journal \subseteq journal'
    BY <1>6 DEF Report
  <2>2. r \in Paying(d) /\ ~LockedForRefund(d)
    BY <1>6, <2>1 DEF Report, Paying, Reserves, CanMoveTo
  <2>3. Asked' = Asked
    BY <2>1, <2>2 DEF Asked, TypeOK, Paying, Reserves
  <2>4. /\ Paying(d)' = Paying(d) \/ Paying(d)' = Paying(d) \ {r}
        /\ \A e \in Call : e # d => Paying(e)' = Paying(e)
    BY <2>1, <2>2 DEF Paying, Reserves, TypeOK
  <2>5. \A e \in Call : /\ Collected(e) \in Int /\ Collected(e)' \in Int
                        /\ Collected(e) <= Collected(e)'
    BY <2>1, CollectedGrows
  <2>6. /\ Sum(RefundAmount, Paying(d)') <= Sum(RefundAmount, Paying(d))
        /\ Sum(RefundAmount, Paying(d)') \in Int
    <3>1. IsFiniteSet(Paying(d)) /\ Sum(RefundAmount, Paying(d)) \in Int
      BY PayingSum
    <3>2. \A q \in Paying(d) : RefundAmount[q] \in Nat
      BY RefundAssumption DEF Paying
    <3>3. Sum(RefundAmount, Paying(d))
            = RefundAmount[r] + Sum(RefundAmount, Paying(d) \ {r})
      BY <2>2, <3>1, <3>2, SumRemove
    <3>4. Sum(RefundAmount, Paying(d) \ {r}) \in Int
      <4>1. IsFiniteSet(Paying(d) \ {r})
        BY <3>1, FS_RemoveElement
      <4>2. \A q \in Paying(d) \ {r} : RefundAmount[q] \in Int
        BY <3>2
      <4> QED  BY <4>1, <4>2, SumType
    <3>5. RefundAmount[r] \in Nat
      BY <2>2, <3>2
    <3>6. /\ Sum(RefundAmount, Paying(d) \ {r}) <= Sum(RefundAmount, Paying(d))
      BY <3>1, <3>3, <3>4, <3>5
    <3> QED  BY <2>4, <3>1, <3>4, <3>6
  <2>7. \A q \in Refund :
          status'[q] = "admitting" => status[q] = "admitting" /\ RefundOf[q] # d
    BY <2>1, <2>2 DEF TypeOK, LockedForRefund
  <2>8. \A e \in Call : Sum(RefundAmount, Paying(e)) \in Int
    BY PayingSum
  <2>9. PayingWithinTax'
    <3> SUFFICES ASSUME NEW e \in Call
                 PROVE  Sum(RefundAmount, Paying(e)') <= Collected(e)'
      BY DEF PayingWithinTax
    <3>1. Sum(RefundAmount, Paying(e)) <= Collected(e)
      BY DEF PayingWithinTax
    <3>2. CASE e = d
      BY <2>5, <2>6, <2>8, <3>1, <3>2
    <3>3. CASE e # d
      BY <2>4, <2>5, <2>8, <3>1, <3>3
    <3> QED  BY <3>2, <3>3
  <2>10. OneAdmission'
    BY <2>7 DEF OneAdmission
  <2>11. AdmissionWithinTax'
    <3> SUFFICES ASSUME NEW q \in Refund, status'[q] = "admitting"
                 PROVE  Sum(RefundAmount, Paying(RefundOf[q])') + RefundAmount[q]
                          <= Collected(RefundOf[q])'
      BY DEF AdmissionWithinTax
    <3>1. RefundOf[q] \in Call /\ RefundOf[q] # d /\ RefundAmount[q] \in Int
      BY <2>7, RefundAssumption
    <3>2. Sum(RefundAmount, Paying(RefundOf[q])) + RefundAmount[q]
            <= Collected(RefundOf[q])
      BY <2>7 DEF AdmissionWithinTax
    <3> QED  BY <2>4, <2>5, <2>8, <3>1, <3>2
  <2> QED  BY <2>3, <2>9, <2>10, <2>11
<1>7. ASSUME NEW c \in Call, Begin(c) \/ Proceed(c) \/ Fail(c) PROVE RefundInv'
  <2>1. UNCHANGED status /\ journal \subseteq journal'
    BY <1>7
    DEF Begin, Proceed, LockNext, AppendDecision, RefuseSuccessor, Commit, Fail, books
  <2> QED  BY <1>1, <2>1
<1>8. CASE UNCHANGED vars
  BY <1>1, <1>8 DEF vars, books
<1> QED
  BY <1>3, <1>4, <1>5, <1>6, <1>7, <1>8 DEF Next, Quote

LEMMA RefundInit == Init => RefundInv
<1> SUFFICES ASSUME Init PROVE RefundInv
  OBVIOUS
<1>1. Asked = {} /\ \A d : Paying(d) = {}
  BY DEF Init, Asked, Paying, Reserves
<1>2. IsFiniteSet(Asked)
  BY <1>1, FS_EmptySet
<1>3. PayingWithinTax
  <2>1. Sum(RefundAmount, {}) = 0
    BY SumEmpty
  <2>2. \A d \in Call : 0 <= Collected(d)
    BY CallAssumption DEF Collected
  <2> QED  BY <1>1, <2>1, <2>2 DEF PayingWithinTax
<1>4. OneAdmission /\ AdmissionWithinTax
  BY DEF Init, OneAdmission, AdmissionWithinTax
<1> QED  BY <1>2, <1>3, <1>4 DEF RefundInv

(* The refunds of a decision that have paid or may still pay never exceed  *)
(* the tax it posted, in whatever order admissions, their failures and the *)
(* provider's reports come (admit, Reserves).                              *)
THEOREM RefundsNeverExceedTax == Spec => []RefundsWithinTax
<1>1. ASSUME TypeOK, RefundInv PROVE RefundsWithinTax
  <2> SUFFICES ASSUME NEW d \in Call
               PROVE  MapThenSumSet(LAMBDA r : RefundAmount[r],
                        {r \in Refund : RefundOf[r] = d /\
                           status[r] \notin {"none", "admitting", "refused", "FAILED"}})
                        <= Collected(d)
    BY DEF RefundsWithinTax
  <2>1. {r \in Refund : RefundOf[r] = d /\
           status[r] \notin {"none", "admitting", "refused", "FAILED"}} = Paying(d)
    BY <1>1 DEF Paying, Reserves, TypeOK
  <2>2. Sum(RefundAmount, Paying(d)) <= Collected(d)
    BY <1>1 DEF RefundInv, PayingWithinTax
  <2> QED  BY <2>1, <2>2 DEF Sum, MapThenSumSet, MapThenFoldSet
<1>2. Spec => []TypeOK
  BY TypeCorrect
<1>3. ASSUME TypeOK, RefundInv, [Next]_vars PROVE RefundInv'
  BY <1>3, RefundStep
<1>4. Spec => []RefundInv
  BY <1>2, <1>3, RefundInit, PTL DEF Spec
<1> QED  BY <1>1, <1>2, <1>4, PTL

-----------------------------------------------------------------------------
(* What a commit does to one accumulator                                   *)

Touched(c) == Own(c) \cup Withdrawn(c)
Contributes(c, k) == [of |-> c, amount |-> Contribution(c, k)]

LEMMA CommitMoves ==
  ASSUME Inv, NEW c \in Call, Commit(c), NEW k \in Key
  PROVE  /\ log[k] \in Seq(Entry)
         /\ k \in Touched(c) =>
              /\ Contributes(c, k) \in Entry
              /\ Contribution(c, k) \in Int
              /\ held[c][k] = snapshot[k] /\ snapshot[k] \in Snapshot
              /\ log'[k] = Append(log[k], Contributes(c, k))
              /\ snapshot[k].seq + 1 = Len(log[k]) + 1
              /\ snapshot'[k] = Apply(k, snapshot[k], Contribution(c, k))
         /\ k \notin Touched(c) => log'[k] = log[k] /\ snapshot'[k] = snapshot[k]
<1>1. log[k] \in Seq(Entry)
  BY DEF Inv, TypeOK, Entry
<1>2. CASE k \in Touched(c)
  <2>1. k \in Holds(c)
    BY <1>2, KeysNeeded DEF Inv, LockInv, HoldsAll, Commit, Touched
  <2>2. held[c][k] = snapshot[k] /\ snapshot[k] \in Snapshot
    BY <2>1 DEF Inv, LockInv, HeldIsCurrent, TypeOK
  <2>3. Contribution(c, k) \in Int
    BY <1>2, ContributionType DEF Touched
  <2>4. /\ log'[k] = Append(log[k], Contributes(c, k))
        /\ snapshot'[k] = Apply(k, held[c][k], Contribution(c, k))
        /\ Apply(k, held[c][k], Contribution(c, k)).seq = Len(log[k]) + 1
    BY <1>2 DEF Commit, Touched, Contributes
  <2>5. Apply(k, held[c][k], Contribution(c, k)).seq = held[c][k].seq + 1
    BY DEF Apply
  <2> QED  BY <1>1, <1>2, <2>2, <2>3, <2>4, <2>5 DEF Contributes, Entry
<1>3. CASE k \notin Touched(c)
  BY <1>1, <1>3 DEF Commit, Touched
<1> QED  BY <1>2, <1>3

(* Every other step leaves the accumulators as they are.                   *)
LEMMA BooksOrCommit ==
  ASSUME [Next]_vars
  PROVE  (\E c \in Call : Commit(c)) \/ UNCHANGED <<decided, log, snapshot, crossing>>
  BY DEF Next, Begin, Proceed, LockNext, AppendDecision, RefuseSuccessor, Fail,
         Check, Admit, FailAdmission, Report, Quote, books, vars

-----------------------------------------------------------------------------
(* Totals and thresholds                                                   *)

TotalsLogged == \A k \in Key : snapshot[k].total = SumOf(log[k])
CrossedLogged ==
  \A k \in Key : \A l \in Limit[k[1]] :
    l \in snapshot[k].crossed <=> \E n \in DOMAIN log[k] : TotalAt(k, n) >= l

(* The two sides of CrossedOnce: the contributions a crossing was recorded *)
(* with, and the one that first reached the threshold.                     *)
Recorded(k, l) == {x.seq : x \in {y \in crossing : y.key = k /\ y.limit = l}}
First(k, l) ==
  {n \in DOMAIN log[k] : /\ TotalAt(k, n) >= l
                         /\ \A m \in 1..n-1 : TotalAt(k, m) < l}

TotalInv == TotalsLogged /\ CrossedLogged /\ CrossedOnce

LEMMA TotalInit == Init => TotalInv
<1> SUFFICES ASSUME Init PROVE TotalInv
  OBVIOUS
<1>1. \A k \in Key : log[k] = <<>> /\ snapshot[k] = [total |-> 0, seq |-> 0, crossed |-> {}]
  BY DEF Init
<1>2. <<>> \in Seq(Entry)
  OBVIOUS
<1>3. SumOf(<<>>) = 0
  BY <1>2, SumOfFacts
<1>6. TotalsLogged
  BY <1>1, <1>3 DEF TotalsLogged
<1>4. CrossedLogged
  BY <1>1 DEF CrossedLogged
<1>5. CrossedOnce
  BY <1>1 DEF CrossedOnce, Init
<1> QED  BY <1>4, <1>5, <1>6 DEF TotalInv

(* A contribution to k that takes its total from SumOf(log[k]) to total.   *)
LEMMA Appended ==
  ASSUME NEW k \in Key, log[k] \in Seq(Entry), NEW e \in Entry,
         log'[k] = Append(log[k], e)
  PROVE  /\ DOMAIN log'[k] = DOMAIN log[k] \cup {Len(log[k]) + 1}
         /\ DOMAIN log[k] = 1..Len(log[k]) /\ Len(log[k]) \in Nat
         /\ SumOf(log'[k]) = SumOf(log[k]) + e.amount
         /\ SumOf(log[k]) \in Int /\ SumOf(log'[k]) \in Int
         /\ \A n \in 0..Len(log[k]) : /\ TotalAt(k, n) \in Int
                                      /\ TotalAt(k, n)' = TotalAt(k, n)
         /\ \A n \in Nat : n = Len(log[k]) => /\ TotalAt(k, n + 1)' = SumOf(log'[k])
                                             /\ TotalAt(k, n)' = SumOf(log[k])
         /\ \A n \in DOMAIN log[k] : log'[k][n] = log[k][n]
         /\ log'[k][Len(log[k]) + 1] = e
<1>1. PICK s \in Seq(Entry) : s = log[k]
  OBVIOUS
<1>2. Len(s) \in Nat /\ DOMAIN s = 1..Len(s)
  OBVIOUS
<1>3. /\ DOMAIN Append(s, e) = 1..(Len(s) + 1)
      /\ Append(s, e)[Len(s) + 1] = e
      /\ \A n \in 1..Len(s) : Append(s, e)[n] = s[n]
  OBVIOUS
<1>4. e.amount \in Int
  BY DEF Entry
<1>5. /\ SumOf(s) \in Int /\ SumOf(Append(s, e)) = SumOf(s) + e.amount
      /\ Prefix(s, Len(s)) = SumOf(s)
      /\ \A n \in 0..Len(s) : /\ Prefix(s, n) \in Int
                              /\ Prefix(Append(s, e), n) = Prefix(s, n)
      /\ Prefix(Append(s, e), Len(s) + 1) = SumOf(s) + e.amount
  BY SumOfFacts, PrefixFacts
<1>6. \A n : TotalAt(k, n) = Prefix(s, n) /\ TotalAt(k, n)' = Prefix(Append(s, e), n)
  BY <1>1 DEF TotalAt, Prefix
<1>7. \A n \in Nat : n = Len(log[k]) => /\ TotalAt(k, n + 1)' = SumOf(log'[k])
                                       /\ TotalAt(k, n)' = SumOf(log[k])
  BY <1>1, <1>2, <1>5, <1>6
<1>8. \A n \in 0..Len(log[k]) : /\ TotalAt(k, n) \in Int
                                /\ TotalAt(k, n)' = TotalAt(k, n)
  BY <1>1, <1>5, <1>6
<1>9. /\ SumOf(log'[k]) = SumOf(log[k]) + e.amount
      /\ SumOf(log[k]) \in Int /\ SumOf(log'[k]) \in Int
  BY <1>1, <1>4, <1>5
<1>10. DOMAIN log'[k] = DOMAIN log[k] \cup {Len(log[k]) + 1}
  BY <1>1, <1>2, <1>3
<1> QED  BY <1>1, <1>2, <1>3, <1>7, <1>8, <1>9, <1>10

LEMMA TotalStep ==
  ASSUME Inv, TotalInv, [Next]_vars
  PROVE  TotalInv'
<1>1. CASE UNCHANGED <<log, snapshot, crossing>>
  BY <1>1 DEF TotalInv, TotalsLogged, CrossedLogged, CrossedOnce, TotalAt
<1>2. ASSUME NEW c \in Call, Commit(c)
      PROVE  TotalInv'
  <2>1. ASSUME NEW k \in Key
        PROVE  /\ snapshot'[k].total = SumOf(log'[k])
               /\ \A l \in Limit[k[1]] :
                    /\ l \in snapshot'[k].crossed <=>
                         \E n \in DOMAIN log'[k] : TotalAt(k, n)' >= l
                    /\ Recorded(k, l)' = First(k, l)'
    <3> DEFINE s == snapshot[k]
               total == s.total + Contribution(c, k)
    <3>1. /\ s.total = SumOf(log[k])
          /\ \A l \in Limit[k[1]] :
               /\ l \in s.crossed <=> \E n \in DOMAIN log[k] : TotalAt(k, n) >= l
               /\ Recorded(k, l) = First(k, l)
      BY DEF TotalInv, TotalsLogged, CrossedLogged, CrossedOnce, Recorded, First
    <3>2. CASE k \notin Touched(c)
      <4>1. log'[k] = log[k] /\ snapshot'[k] = s
        BY <1>2, <3>2, CommitMoves
      <4>2. \A n : TotalAt(k, n)' = TotalAt(k, n)
        BY <4>1 DEF TotalAt
      <4>3. \A l : Recorded(k, l)' = Recorded(k, l)
        <5>1. {y \in crossing' : y.key = k} = {y \in crossing : y.key = k}
          BY <1>2, <3>2 DEF Commit, Touched
        <5> QED  BY <5>1 DEF Recorded
      <4>4. \A l : First(k, l)' = First(k, l)
        BY <4>1, <4>2 DEF First
      <4> QED  BY <3>1, <4>1, <4>2, <4>3, <4>4
    <3>3. CASE k \in Touched(c)
      <4>1. /\ log[k] \in Seq(Entry) /\ Contributes(c, k) \in Entry
            /\ log'[k] = Append(log[k], Contributes(c, k))
            /\ held[c][k] = s /\ s \in Snapshot
            /\ s.seq + 1 = Len(log[k]) + 1
            /\ snapshot'[k] = Apply(k, s, Contribution(c, k))
        BY <1>2, <3>3, CommitMoves
      <4>2. PICK n : n = Len(log[k]) + 1
        OBVIOUS
      <4>3. /\ n \in Nat \ {0} /\ Len(log[k]) = n - 1
            /\ DOMAIN log[k] = 1..n-1 /\ DOMAIN log'[k] = 1..n
            /\ SumOf(log'[k]) = total /\ total \in Int
            /\ TotalAt(k, n)' = total
            /\ \A m \in 1..n-1 : TotalAt(k, m) \in Int /\ TotalAt(k, m)' = TotalAt(k, m)
        <5>1. Contributes(c, k).amount = Contribution(c, k)
          BY DEF Contributes
        <5>2. /\ DOMAIN log'[k] = DOMAIN log[k] \cup {n}
              /\ DOMAIN log[k] = 1..Len(log[k]) /\ Len(log[k]) \in Nat
          BY <4>1, <4>2, Appended
        <5>3. /\ SumOf(log'[k]) = SumOf(log[k]) + Contribution(c, k)
              /\ SumOf(log'[k]) \in Int
          BY <4>1, <5>1, Appended
        <5>4. \A m \in 0..Len(log[k]) : /\ TotalAt(k, m) \in Int
                                        /\ TotalAt(k, m)' = TotalAt(k, m)
          BY <4>1, Appended
        <5>5. PICK m \in Nat : m = Len(log[k]) /\ n = m + 1
          BY <4>2, <5>2
        <5>6. TotalAt(k, m + 1)' = SumOf(log'[k])
          BY <4>1, <5>5, Appended
        <5>7. TotalAt(k, n)' = SumOf(log'[k])
          BY <5>5, <5>6
        <5>8. n \in Nat \ {0} /\ Len(log[k]) = n - 1
          BY <5>5
        <5> QED  BY <3>1, <5>2, <5>3, <5>4, <5>7, <5>8
      <4>4. /\ snapshot'[k].total = total
            /\ snapshot'[k].seq = n
            /\ snapshot'[k].crossed = s.crossed \cup Crosses(k, s, total)
        BY <4>1, <4>2 DEF Apply
      <4>5. snapshot'[k].total = SumOf(log'[k])
        BY <4>3, <4>4
      <4>6. ASSUME NEW l \in Limit[k[1]]
            PROVE  /\ l \in snapshot'[k].crossed <=>
                         \E m \in DOMAIN log'[k] : TotalAt(k, m)' >= l
                   /\ Recorded(k, l)' = First(k, l)'
        <5>1. l \in Int
          BY LimitAssumption DEF Key
        <5>2. l \in Crosses(k, s, total) <=> l \notin s.crossed /\ total >= l
          BY DEF Crosses
        <5>3. l \in s.crossed <=> \E m \in 1..n-1 : TotalAt(k, m) >= l
          BY <3>1, <4>3
        <5>4. l \in snapshot'[k].crossed <=>
                \E m \in DOMAIN log'[k] : TotalAt(k, m)' >= l
          BY <4>3, <4>4, <5>2, <5>3
        <5>5. First(k, l)' = First(k, l) \cup {m \in {n} : l \in Crosses(k, s, total)}
          <6>1. First(k, l) = {m \in 1..n-1 : /\ TotalAt(k, m) >= l
                                              /\ \A j \in 1..m-1 : TotalAt(k, j) < l}
            BY <4>3 DEF First
          <6>2. First(k, l)' = {m \in 1..n : /\ TotalAt(k, m)' >= l
                                             /\ \A j \in 1..m-1 : TotalAt(k, j)' < l}
            BY <4>3 DEF First
          <6>3. ASSUME NEW m \in 1..n-1
                PROVE  m \in First(k, l)' <=> m \in First(k, l)
            <7>1. \A j \in 1..m-1 : TotalAt(k, j)' = TotalAt(k, j)
              BY <4>3
            <7>2. TotalAt(k, m)' = TotalAt(k, m) /\ m \in 1..n
              BY <4>3
            <7> QED  BY <6>1, <6>2, <7>1, <7>2
          <6>4. n \in First(k, l)' <=> l \in Crosses(k, s, total)
            <7>1. n \in First(k, l)' <=>
                    total >= l /\ \A j \in 1..n-1 : TotalAt(k, j)' < l
              BY <4>3, <6>2
            <7>2. (\A j \in 1..n-1 : TotalAt(k, j)' < l) <=> l \notin s.crossed
              BY <4>3, <5>1, <5>3
            <7> QED  BY <5>2, <7>1, <7>2
          <6>5. First(k, l) \subseteq 1..n-1 /\ First(k, l)' \subseteq (1..n-1) \cup {n}
            BY <4>3, <6>1, <6>2
          <6> QED  BY <6>3, <6>4, <6>5
        <5>6. Recorded(k, l)' = Recorded(k, l) \cup {m \in {n} : l \in Crosses(k, s, total)}
          <6> DEFINE New(j) == {[key |-> j, limit |-> i,
                                 seq |-> Apply(j, held[c][j], Contribution(c, j)).seq] :
                                  i \in Crosses(j, held[c][j],
                                          Apply(j, held[c][j], Contribution(c, j)).total)}
          <6>1. crossing' = crossing \cup UNION {New(j) : j \in Touched(c)}
            BY <1>2 DEF Commit, Touched
          <6>2. New(k) = {[key |-> k, limit |-> i, seq |-> n] : i \in Crosses(k, s, total)}
            BY <4>1, <4>2 DEF Apply
          <6>3. \A j \in Touched(c) : \A x \in New(j) : x.key = j
            OBVIOUS
          <6> HIDE DEF New
          <6>4. {y \in crossing' : y.key = k /\ y.limit = l}
                  = {y \in crossing : y.key = k /\ y.limit = l}
                      \cup {y \in New(k) : y.key = k /\ y.limit = l}
            BY <3>3, <6>1, <6>3
          <6>5. \A x : x \in New(k) /\ x.key = k /\ x.limit = l <=>
                  /\ l \in Crosses(k, s, total)
                  /\ x = [key |-> k, limit |-> l, seq |-> n]
            BY <6>2
          <6>6. ASSUME NEW v
                PROVE  v \in Recorded(k, l)' <=>
                         v \in Recorded(k, l) \/ (v = n /\ l \in Crosses(k, s, total))
            <7>1. v \in Recorded(k, l) <=>
                    \E x \in crossing : x.key = k /\ x.limit = l /\ v = x.seq
              BY DEF Recorded
            <7>2. v \in Recorded(k, l)' <=>
                    \E x \in crossing' : x.key = k /\ x.limit = l /\ v = x.seq
              BY DEF Recorded
            <7>3. \A x : x \in crossing' /\ x.key = k /\ x.limit = l <=>
                          \/ x \in crossing /\ x.key = k /\ x.limit = l
                          \/ x \in New(k) /\ x.key = k /\ x.limit = l
              BY <6>4
            <7>4. (\E x : x \in New(k) /\ x.key = k /\ x.limit = l /\ v = x.seq) <=>
                    v = n /\ l \in Crosses(k, s, total)
              <8> DEFINE x == [key |-> k, limit |-> l, seq |-> n]
              <8>1. x.key = k /\ x.limit = l /\ x.seq = n
                OBVIOUS
              <8> HIDE DEF x
              <8>2. \A y : y \in New(k) /\ y.key = k /\ y.limit = l <=>
                            l \in Crosses(k, s, total) /\ y = x
                BY <6>5 DEF x
              <8> QED  BY <8>1, <8>2
            <7> HIDE DEF s, total
            <7>5. v \in Recorded(k, l)' <=>
                    \/ \E x \in crossing : x.key = k /\ x.limit = l /\ v = x.seq
                    \/ \E x : x \in New(k) /\ x.key = k /\ x.limit = l /\ v = x.seq
              BY <7>2, <7>3
            <7> QED  BY <7>1, <7>4, <7>5
          <6> QED  BY <6>6
        <5> QED  BY <3>1, <5>4, <5>5, <5>6
      <4> QED  BY <4>5, <4>6
    <3> QED  BY <3>2, <3>3
  <2>2. TotalsLogged' /\ CrossedLogged'
    BY <2>1 DEF TotalsLogged, CrossedLogged
  <2>3. CrossedOnce'
    BY <2>1 DEF CrossedOnce, Recorded, First
  <2> QED  BY <2>2, <2>3 DEF TotalInv
<1> QED  BY <1>1, <1>2, BooksOrCommit

LEMMA TotalAlways == Spec => []TotalInv
<1>1. ASSUME Inv, TotalInv, [Next]_vars PROVE TotalInv'
  BY <1>1, TotalStep
<1> QED  BY <1>1, TotalInit, Inductive, PTL DEF Spec

(* Each threshold is recorded as crossed once, with the contribution that  *)
(* first reached it, whatever corrections take back and return (Apply).    *)
THEOREM ThresholdsCrossOnce == Spec => []CrossedOnce
<1>1. TotalInv => CrossedOnce
  BY DEF TotalInv
<1> QED  BY <1>1, TotalAlways, PTL

-----------------------------------------------------------------------------
(* What a decision read                                                    *)
(*                                                                         *)
(* An inserted decision has read the totals it holds locked, or, being a   *)
(* correction, what the decision it corrects read; that decision is        *)
(* committed, so nothing reads again on its behalf.                        *)

ReadsHeld ==
  \A c \in Call : step[c] = "appended" =>
    IF c \in Adjusting THEN reads[c] = reads[Supersedes[c]]
    ELSE \A k \in Bound(c) : reads[c][k[1]] = held[c][k].total
NamesDecided ==
  \A c \in Call : step[c] \in {"locking", "appended"} \/ c \in decided =>
    Supersedes[c] \in decided \cup {None}

ReadInv == ReadsHeld /\ NamesDecided /\ ReadsItsPast

LEMMA ReadInit == Init => ReadInv
  BY DEF Init, ReadInv, ReadsHeld, NamesDecided, ReadsItsPast

LEMMA ReadStep ==
  ASSUME Inv, TotalInv, ReadInv, [Next]_vars
  PROVE  ReadInv'
<1>0. /\ decided \subseteq Call /\ \A d \in decided : step[d] = "over"
      /\ \A d \in Call : d \in Adjusting => Supersedes[d] \in Call
  BY KeysNeeded DEF Inv, TypeOK, LineInv, DecidedIsOver
<1>1. ASSUME UNCHANGED <<decided, log, reads>>,
             \A c \in Call : step'[c] = "appended" =>
               step[c] = "appended" /\ held'[c] = held[c],
             \A c \in Call : step'[c] = "locking" =>
               step[c] = "locking" \/ Supersedes[c] \in decided \cup {None}
      PROVE  ReadInv'
  <2>1. ReadsHeld'
    BY <1>1 DEF ReadInv, ReadsHeld, Bound
  <2>2. NamesDecided'
    BY <1>1 DEF ReadInv, NamesDecided
  <2>3. ReadsItsPast'
    BY <1>1 DEF ReadInv, ReadsItsPast, Own, TotalAt
  <2> QED  BY <2>1, <2>2, <2>3 DEF ReadInv
<1>2. ASSUME NEW c \in Call, Begin(c) \/ RefuseSuccessor(c) \/ Fail(c)
      PROVE  ReadInv'
  BY <1>1, <1>2 DEF Begin, RefuseSuccessor, Fail, End, books, Inv, TypeOK
<1>3. ASSUME NEW c \in Call, LockNext(c)
      PROVE  ReadInv'
  <2>1. /\ UNCHANGED <<decided, log, reads, step>> /\ step[c] = "locking"
        /\ \A d \in Call : d # c => held'[d] = held[d]
    BY <1>3 DEF LockNext, books, Inv, TypeOK
  <2> QED  BY <1>1, <2>1
<1>4. ASSUME NEW c \in Call, AppendDecision(c)
      PROVE  ReadInv'
  <2>1. /\ step[c] = "locking" /\ step' = [step EXCEPT ![c] = "appended"]
        /\ reads' = [reads EXCEPT ![c] = ReadSet(c)]
        /\ UNCHANGED <<decided, log, held>>
    BY <1>4 DEF AppendDecision, books
  <2>2. c \notin decided /\ \A d \in Call \ {c} : reads'[d] = reads[d] /\ step'[d] = step[d]
    BY <1>0, <2>1 DEF Inv, TypeOK
  <2>3. reads'[c] = ReadSet(c) /\ step'[c] = "appended"
    BY <2>1 DEF Inv, TypeOK
  <2>4. \A d \in Call : step[d] \in {"locking", "appended"} \/ d \in decided =>
          Supersedes[d] \in decided \cup {None}
    BY DEF ReadInv, NamesDecided
  <2>5. NamesDecided'
    BY <2>1, <2>2, <2>4 DEF NamesDecided
  <2>6. ASSUME NEW d \in Adjusting,
               step[d] \in {"locking", "appended"} \/ d \in decided
        PROVE  Supersedes[d] \in decided /\ Supersedes[d] # c
                 /\ reads'[Supersedes[d]] = reads[Supersedes[d]]
    BY <1>0, <2>2, <2>4, <2>6, CallAssumption
  <2>7. ReadsHeld'
    <3> SUFFICES ASSUME NEW d \in Call, step'[d] = "appended"
                 PROVE  IF d \in Adjusting THEN reads'[d] = reads'[Supersedes[d]]
                        ELSE \A k \in Bound(d) : reads'[d][k[1]] = held'[d][k].total
      BY DEF ReadsHeld, Bound
    <3>1. CASE d # c
      <4>1. step[d] = "appended" /\ reads'[d] = reads[d] /\ held'[d] = held[d]
        BY <2>1, <2>2, <3>1
      <4> QED  BY <2>6, <4>1 DEF ReadInv, ReadsHeld
    <3>2. CASE d = c /\ c \in Adjusting
      BY <2>1, <2>3, <2>6, <3>2 DEF ReadSet
    <3>3. CASE d = c /\ c \notin Adjusting
      <4>1. reads'[c] = [b \in Binding |-> held[c][<<b, MonthOf[c]>>].total]
        BY <2>3, <3>3 DEF ReadSet, ReadsNow
      <4>2. \A k \in Bound(c) : k[1] \in Binding /\ k = <<k[1], MonthOf[c]>>
        BY DEF Bound
      <4> QED  BY <2>1, <3>3, <4>1, <4>2
    <3> QED  BY <3>1, <3>2, <3>3
  <2>8. ReadsItsPast'
    <3> SUFFICES ASSUME NEW d \in decided
                 PROVE  IF d \in Adjusting THEN reads'[d] = reads'[Supersedes[d]]
                        ELSE \A k \in Own(d) : \E n \in DOMAIN log[k] :
                               log[k][n].of = d /\ reads'[d][k[1]] = TotalAt(k, n - 1)
      BY <2>1 DEF ReadsItsPast, Own, TotalAt
    <3>1. reads'[d] = reads[d]
      BY <1>0, <2>2
    <3> QED  BY <2>6, <3>1 DEF ReadInv, ReadsItsPast
  <2> QED  BY <2>5, <2>7, <2>8 DEF ReadInv
<1>5. ASSUME NEW c \in Call, Commit(c)
      PROVE  ReadInv'
  <2>1. /\ step[c] = "appended" /\ step' = [step EXCEPT ![c] = "over"]
        /\ decided' = decided \cup {c} /\ UNCHANGED reads
        /\ held' = [held EXCEPT ![c] = Nothing]
    BY <1>5 DEF Commit, End
  <2>2. NamesDecided'
    BY <2>1 DEF ReadInv, NamesDecided, Inv, TypeOK
  <2>3. ReadsHeld'
    BY <2>1 DEF ReadInv, ReadsHeld, Inv, TypeOK, Bound
  <2>4. ReadsItsPast'
    <3> SUFFICES ASSUME NEW d \in decided \cup {c}
                 PROVE  IF d \in Adjusting THEN reads[d] = reads[Supersedes[d]]
                        ELSE \A k \in Own(d) : \E n \in DOMAIN log'[k] :
                               log'[k][n].of = d /\ reads[d][k[1]] = TotalAt(k, n - 1)'
      BY <2>1 DEF ReadsItsPast, Own
    <3>1. CASE d \in Adjusting
      BY <2>1, <3>1 DEF ReadInv, ReadsItsPast, ReadsHeld
    <3>2. ASSUME d \notin Adjusting, NEW k \in Own(d)
          PROVE  \E n \in DOMAIN log'[k] :
                   log'[k][n].of = d /\ reads[d][k[1]] = TotalAt(k, n - 1)'
      <4>1. k \in Key /\ k \in Bound(d) /\ d \in Call
        BY <1>0, <3>2, KeysNeeded, OwnBound
      <4>2. log[k] \in Seq(Entry)
        BY <1>5, <4>1, CommitMoves
      <4>3. CASE d = c
        <5>1. k \in Touched(c)
          BY <3>2, <4>3 DEF Touched
        <5>2. /\ Contributes(c, k) \in Entry
              /\ log'[k] = Append(log[k], Contributes(c, k))
              /\ held[c][k] = snapshot[k]
          BY <1>5, <4>1, <5>1, CommitMoves
        <5>3. reads[c][k[1]] = SumOf(log[k])
          BY <2>1, <3>2, <4>1, <4>3, <5>2
          DEF ReadInv, ReadsHeld, TotalInv, TotalsLogged
        <5>4. PICK m \in Nat : m = Len(log[k])
          BY <4>2
        <5>5. TotalAt(k, m)' = SumOf(log[k])
          BY <4>1, <4>2, <5>2, <5>4, Appended
        <5>6. m + 1 \in DOMAIN log'[k] /\ log'[k][m + 1].of = c
          <6>1. Contributes(c, k).of = c
            BY DEF Contributes
          <6> QED  BY <4>1, <4>2, <5>2, <5>4, <6>1, Appended
        <5>7. (m + 1) - 1 = m
          OBVIOUS
        <5> QED  BY <4>3, <5>3, <5>5, <5>6, <5>7
      <4>4. CASE d # c
        <5>1. PICK n \in DOMAIN log[k] :
                log[k][n].of = d /\ reads[d][k[1]] = TotalAt(k, n - 1)
          BY <3>2, <4>4 DEF ReadInv, ReadsItsPast
        <5>2. CASE k \in Touched(c)
          <6>1. /\ Contributes(c, k) \in Entry
                /\ log'[k] = Append(log[k], Contributes(c, k))
            BY <1>5, <4>1, <5>2, CommitMoves
          <6>2. n \in DOMAIN log'[k] /\ log'[k][n] = log[k][n]
            BY <4>1, <4>2, <5>1, <6>1, Appended
          <6>3. n - 1 \in 0..Len(log[k])
            BY <4>2, <5>1
          <6>4. TotalAt(k, n - 1)' = TotalAt(k, n - 1)
            BY <4>1, <4>2, <6>1, <6>3, Appended
          <6> QED  BY <5>1, <6>2, <6>4
        <5>3. CASE k \notin Touched(c)
          <6>1. log'[k] = log[k]
            BY <1>5, <4>1, <5>3, CommitMoves
          <6>2. TotalAt(k, n - 1)' = TotalAt(k, n - 1)
            BY <6>1 DEF TotalAt
          <6> QED  BY <5>1, <6>1, <6>2
        <5> QED  BY <5>2, <5>3
      <4> QED  BY <4>3, <4>4
    <3> QED  BY <3>1, <3>2
  <2> QED  BY <2>2, <2>3, <2>4 DEF ReadInv
<1>6. ASSUME NEW r \in Refund, Check(r) \/ Admit(r) \/ FailAdmission(r) \/ Report(r)
      PROVE  ReadInv'
  BY <1>1, <1>6 DEF Check, Admit, FailAdmission, Report, books
<1>7. CASE UNCHANGED vars
  BY <1>1, <1>7 DEF vars, books
<1> QED
  BY <1>2, <1>3, <1>4, <1>5, <1>6, <1>7 DEF Next, Proceed, Quote

LEMMA ReadAlways == Spec => []ReadInv
<1>1. ASSUME Inv, TotalInv, ReadInv, [Next]_vars PROVE ReadInv'
  BY <1>1, ReadStep
<1> QED  BY <1>1, ReadInit, TotalAlways, Inductive, PTL DEF Spec

(* A decision was evaluated against exactly what precedes it in each log,  *)
(* and a correction against what the decision it corrects saw, so that a   *)
(* replay finds the same (readSet, record).                                *)
THEOREM DecisionsReadTheirPast == Spec => []ReadsItsPast
<1>1. ReadInv => ReadsItsPast
  BY DEF ReadInv
<1> QED  BY <1>1, ReadAlways, PTL

-----------------------------------------------------------------------------
(* What the totals are made of                                             *)
(*                                                                         *)
(* A committed decision has contributed to every accumulator it owns, so   *)
(* that a correction withdraws all of it; and the decision a correction    *)
(* names still stands when the correction commits (NamesAlone).            *)

AmountsTo(k) == [d \in Call |-> Amount[d][k[1]]]

DecidedContributed ==
  \A d \in decided : \A k \in Own(d) : Contributed(k, d)
StandingTotals ==
  \A k \in Key : snapshot[k].total = Sum(AmountsTo(k), Standing(k))

StandInv == IsFiniteSet(decided) /\ DecidedContributed /\ StandingTotals

LEMMA StandingFacts ==
  ASSUME TypeOK, IsFiniteSet(decided), NEW k \in Key
  PROVE  /\ Standing(k) \subseteq decided /\ IsFiniteSet(Standing(k))
         /\ \A d \in Call : k \in Own(d) =>
              AmountsTo(k)[d] \in Int /\ AmountsTo(k)[d] = Amount[d][k[1]]
         /\ \A d \in Standing(k) : d \in Call /\ AmountsTo(k)[d] \in Int
<1>1. Standing(k) \subseteq decided
  BY DEF Standing
<1>2. IsFiniteSet(Standing(k))
  BY <1>1, FS_Subset
<1>3. \A d \in Call : k \in Own(d) =>
        AmountsTo(k)[d] \in Int /\ AmountsTo(k)[d] = Amount[d][k[1]]
  BY CallAssumption DEF AmountsTo, Own
<1>4. \A d \in Standing(k) : d \in Call /\ k \in Own(d)
  BY DEF TypeOK, Standing
<1> QED  BY <1>1, <1>2, <1>3, <1>4

(* The fold of TotalsOfStanding is a Sum.                                  *)
LEMMA StandingSum ==
  ASSUME TypeOK, IsFiniteSet(decided), NEW k \in Key
  PROVE  MapThenSumSet(LAMBDA d : Amount[d][k[1]], Standing(k))
           = Sum(AmountsTo(k), Standing(k))
<1> DEFINE f == AmountsTo(k)
           S == Standing(k)
<1>1. IsFiniteSet(S) /\ \A d \in S : f[d] \in Int /\ f[d] = Amount[d][k[1]]
  <2>1. \A d \in S : d \in Call /\ k \in Own(d)
    BY DEF TypeOK, Standing
  <2> QED  BY <2>1, StandingFacts
<1>2. PICK F : Additive(F, f, S)
  <2> HIDE DEF f, S
  <2> QED  BY <1>1, AdditiveExists
<1>3. Peels(F, f, S)
  BY <1>2, AdditivePeels
<1> DEFINE Recurs(it) ==
      it = [t \in SUBSET S |->
              IF t = {} THEN 0
              ELSE Amount[CHOOSE x \in t : TRUE][k[1]] + it[t \ {CHOOSE x \in t : TRUE}]]
<1> HIDE DEF f, S
<1>4. \A t \in SUBSET S : t # {} =>
        f[CHOOSE x \in t : TRUE] = Amount[CHOOSE x \in t : TRUE][k[1]]
  BY <1>1
<1>5. \A it : Peels(it, f, S) <=> Recurs(it)
  BY <1>4 DEF Peels
<1>6. \E it : Recurs(it) /\ MapThenSumSet(LAMBDA d : Amount[d][k[1]], S) = it[S]
  <2>1. Recurs(F)
    BY <1>3, <1>5
  <2> QED  BY <2>1 DEF MapThenSumSet, MapThenFoldSet
<1>7. PICK it : Peels(it, f, S) /\ MapThenSumSet(LAMBDA d : Amount[d][k[1]], S) = it[S]
  BY <1>5, <1>6
<1>8. it[S] = F[S]
  BY <1>1, <1>2, <1>7, PeelsAdditive
<1>9. Sum(f, S) = F[S]
  BY <1>1, <1>2, SumIsAdditive
<1> QED  BY <1>7, <1>8, <1>9 DEF f, S

LEMMA StandStep ==
  ASSUME Inv, ReadInv, StandInv, [Next]_vars
  PROVE  StandInv'
<1>1. CASE UNCHANGED <<decided, log, snapshot>>
  BY <1>1 DEF StandInv, DecidedContributed, StandingTotals, Standing, Contributed, Own
<1>2. ASSUME NEW c \in Call, Commit(c)
      PROVE  StandInv'
  <2> DEFINE p == Supersedes[c]
             stands == \A a \in decided \cap Adjusting : Supersedes[a] # c
  <2>1. /\ step[c] = "appended" /\ c \notin decided
        /\ decided' = decided \cup {c} /\ decided \subseteq Call
    BY <1>2 DEF Commit, Inv, LineInv, DecidedIsOver, TypeOK
  <2>2. c \in Adjusting =>
          p \in decided /\ p # c /\ \A a \in decided : Supersedes[a] # p
    <3>1. c \in Adjusting => p # None /\ p \in decided
      BY <2>1, CallAssumption DEF ReadInv, NamesDecided
    <3>2. c \in Adjusting => \A a \in decided : Supersedes[a] # p
      BY <2>1, <3>1 DEF Inv, LineInv, NamesAlone
    <3> QED  BY <2>1, <3>1, <3>2
  <2>3. \A a \in decided \cup {c} : a \in Adjusting => Supersedes[a] # c
    BY <2>1, <2>2, CallAssumption DEF ReadInv, NamesDecided
  <2>4. IsFiniteSet(decided')
    BY <2>1, FS_AddElement DEF StandInv
  <2>5. DecidedContributed'
    <3> SUFFICES ASSUME NEW d \in decided \cup {c}, NEW k \in Own(d)
                 PROVE  \E i \in DOMAIN log'[k] : log'[k][i].of = d
      BY <2>1 DEF DecidedContributed, Contributed, Own
    <3>1. k \in Key
      BY <2>1, OwnBound
    <3>2. d # c => \E i \in DOMAIN log[k] : log[k][i].of = d
      BY DEF StandInv, DecidedContributed, Contributed
    <3>3. log[k] \in Seq(Entry)
      BY <1>2, <3>1, CommitMoves
    <3>4. CASE k \notin Touched(c)
      BY <1>2, <3>1, <3>2, <3>4, CommitMoves DEF Touched
    <3>5. CASE k \in Touched(c)
      <4>1. /\ Contributes(c, k) \in Entry /\ Contributes(c, k).of = c
            /\ log'[k] = Append(log[k], Contributes(c, k))
        BY <1>2, <3>1, <3>5, CommitMoves DEF Contributes
      <4>2. /\ DOMAIN log'[k] = DOMAIN log[k] \cup {Len(log[k]) + 1}
            /\ \A n \in DOMAIN log[k] : log'[k][n] = log[k][n]
            /\ log'[k][Len(log[k]) + 1].of = c
        BY <3>1, <3>3, <4>1, Appended
      <4> QED  BY <3>2, <4>2
    <3> QED  BY <3>4, <3>5
  <2>6. StandingTotals'
    <3> SUFFICES ASSUME NEW k \in Key
                 PROVE  snapshot'[k].total = Sum(AmountsTo(k), Standing(k)')
      BY DEF StandingTotals
    <3> DEFINE f == AmountsTo(k)
               S == Standing(k)
               left == c \in Adjusting /\ k \in Own(p)
               R == IF left THEN S \ {p} ELSE S
               out == IF left THEN f[p] ELSE 0
               in == IF k \in Own(c) THEN f[c] ELSE 0
    <3>1. /\ S \subseteq decided /\ IsFiniteSet(S) /\ \A d \in S : f[d] \in Int
          /\ in \in Int /\ out \in Int
      BY <2>1, <2>2, StandingFacts DEF StandInv, Inv
    <3>2. snapshot[k].total = Sum(f, S)
      BY DEF StandInv, StandingTotals
    <3>3. left => p \in S
      BY <2>2 DEF Standing
    <3>4. Standing(k)' = R \cup {d \in {c} : k \in Own(c)}
      <4>1. \A d \in decided : d \in Standing(k)' <=>
              d \in S /\ ~(c \in Adjusting /\ p = d)
        BY <2>1 DEF Standing, Own
      <4>2. c \in Standing(k)' <=> k \in Own(c)
        BY <2>1, <2>3 DEF Standing, Own
      <4>3. Standing(k)' \subseteq decided \cup {c}
        BY <2>1 DEF Standing
      <4>4. S \subseteq decided /\ (p \in S => k \in Own(p))
        BY DEF Standing
      <4> HIDE DEF S
      <4> QED  BY <2>1, <4>1, <4>2, <4>3, <4>4
    <3>5. /\ IsFiniteSet(R) /\ c \notin R /\ \A d \in R : f[d] \in Int
          /\ Sum(f, R) \in Int /\ Sum(f, S) = out + Sum(f, R)
      <4>1. IsFiniteSet(R) /\ R \subseteq S
        BY <3>1, FS_RemoveElement
      <4>2. c \notin R /\ \A d \in R : f[d] \in Int
        BY <2>1, <3>1, <4>1
      <4>3. Sum(f, R) \in Int
        <5> HIDE DEF f, R
        <5> QED  BY <4>1, <4>2, SumType
      <4>4. CASE left
        <5>1. Sum(f, S) = f[p] + Sum(f, S \ {p})
          <6> HIDE DEF f, S, p, left
          <6> QED  BY <3>1, <3>3, <4>4, SumRemove
        <5> QED  BY <4>1, <4>2, <4>3, <4>4, <5>1
      <4>5. CASE ~left
        <5>1. R = S /\ out = 0
          BY <4>5
        <5> HIDE DEF R, out, S, f
        <5> QED  BY <4>1, <4>2, <4>3, <5>1
      <4> QED  BY <4>4, <4>5
    <3>6. Sum(f, Standing(k)') = Sum(f, R) + in
      <4>1. CASE k \in Own(c)
        <5>1. Standing(k)' = R \cup {c} /\ in = f[c] /\ f[c] \in Int
          BY <3>1, <3>4, <4>1
        <5>2. Sum(f, R \cup {c}) = Sum(f, R) + f[c]
          <6>1. \A d \in R \cup {c} : f[d] \in Int
            BY <3>5, <5>1
          <6>2. IsFiniteSet(R) /\ c \notin R
            BY <3>5
          <6> HIDE DEF f, R
          <6> QED  BY <6>1, <6>2, SumAdd
        <5> QED  BY <5>1, <5>2
      <4>2. CASE k \notin Own(c)
        <5>1. Standing(k)' = R /\ in = 0
          BY <3>4, <4>2
        <5> HIDE DEF f, R, in
        <5> QED  BY <3>5, <5>1
      <4> QED  BY <4>1, <4>2
    <3>7. snapshot'[k].total = (snapshot[k].total + in) - out
      <4>1. k \in Withdrawn(c) <=> left
        BY <2>2 DEF Withdrawn, StandInv, DecidedContributed
      <4>2. Contribution(c, k) = in - out
        <5>1. k \in Own(c) => in = Amount[c][k[1]]
          BY StandingFacts DEF StandInv, Inv
        <5>2. left => out = Amount[p][k[1]]
          BY <2>1, <2>2, StandingFacts DEF StandInv, Inv
        <5> HIDE DEF f
        <5> QED  BY <4>1, <5>1, <5>2 DEF Contribution
      <4>3. snapshot[k].total \in Int
        BY DEF Inv, TypeOK, Snapshot
      <4>4. CASE k \in Touched(c)
        <5>1. snapshot'[k].total = snapshot[k].total + Contribution(c, k)
          <6>1. snapshot'[k] = Apply(k, snapshot[k], Contribution(c, k))
            BY <1>2, <4>4, CommitMoves
          <6> QED  BY <6>1 DEF Apply
        <5> HIDE DEF in, out
        <5> QED  BY <3>1, <4>2, <4>3, <5>1
      <4>5. CASE k \notin Touched(c)
        <5>1. snapshot'[k] = snapshot[k]
          BY <1>2, <4>5, CommitMoves
        <5>2. in = 0 /\ out = 0
          BY <4>1, <4>5 DEF Touched
        <5> HIDE DEF in, out
        <5> QED  BY <4>3, <5>1, <5>2
      <4> QED  BY <4>4, <4>5
    <3> HIDE DEF f, S, R, in, out
    <3>8. snapshot'[k].total = Sum(f, R) + in
      BY <3>1, <3>2, <3>5, <3>7
    <3> QED  BY <3>6, <3>8 DEF f
  <2> QED  BY <2>4, <2>5, <2>6 DEF StandInv
<1> QED  BY <1>1, <1>2, BooksOrCommit

LEMMA StandInit == Init => StandInv
<1> SUFFICES ASSUME Init PROVE StandInv
  OBVIOUS
<1>1. IsFiniteSet(decided) /\ decided = {}
  BY FS_EmptySet DEF Init
<1>2. \A k \in Key : Standing(k) = {} /\ snapshot[k].total = 0
  BY DEF Init, Standing
<1>3. \A k \in Key : Sum(AmountsTo(k), {}) = 0
  BY SumEmpty
<1> QED  BY <1>1, <1>2, <1>3 DEF StandInv, DecidedContributed, StandingTotals

(* Every stored total is what the standing decisions contribute: however   *)
(* corrections of corrections cross months and race, nothing is lost and   *)
(* nothing is counted twice (record, mergeContributions).                  *)
THEOREM TotalsAreOfStanding == Spec => []TotalsOfStanding
<1>1. ASSUME Inv, StandInv PROVE TotalsOfStanding
  BY <1>1, StandingSum DEF Inv, StandInv, StandingTotals, TotalsOfStanding
<1>2. ASSUME Inv, ReadInv, StandInv, [Next]_vars PROVE StandInv'
  BY <1>2, StandStep
<1> QED  BY <1>1, <1>2, StandInit, ReadAlways, Inductive, PTL DEF Spec

-----------------------------------------------------------------------------
(* Billing documents                                                       *)
(*                                                                         *)
(* What a document charges stays; what changes is which lines are          *)
(* cancelled and whether it still stands.  A line is cancelled once        *)
(* (CancelledOnce) because a correction holds its chain, and what it chose *)
(* is still left when it commits (Cancels).  A decision is billed once     *)
(* (OneStands) because whoever checked it holds it, and until it commits   *)
(* nobody else's document can stand for it (Shape).                        *)

DocTypes ==
  /\ docs \in Seq(Document)
  /\ tx \in [Proc -> Request \cup {Absent}]

Bill(k) == Bills(docs[k].type)
Presents(lines) ==
  /\ DOMAIN lines # {}
  /\ \A j \in DOMAIN lines : lines[j].cancels = Absent
Undoes(line, k, i) ==
  /\ line.cancels = <<k, i>>
  /\ line.decision = docs[k].lines[i].decision
  /\ line.amount = -docs[k].lines[i].amount
Charges(lines, d) ==
  Total([i \in DOMAIN lines |-> lines[i].amount],
        {i \in DOMAIN lines : lines[i].decision = d})

(* A document that bills presents lines that sum to what was decided; any  *)
(* other undoes lines of one that does.                                    *)
DocShape ==
  \A c \in DOMAIN docs :
    IF Bill(c)
    THEN /\ Presents(docs[c].lines)
         /\ \A d \in Decision :
              Cites(c, d) => Charges(docs[c].lines, d) = DecisionTax[d]
    ELSE \A j \in DOMAIN docs[c].lines :
           \E k \in DOMAIN docs : \E i \in DOMAIN docs[k].lines :
             Bill(k) /\ Undoes(docs[c].lines[j], k, i)
CancelledOnce ==
  \A c, e \in DOMAIN docs :
    \A j \in DOMAIN docs[c].lines, l \in DOMAIN docs[e].lines :
      /\ docs[c].lines[j].cancels # Absent
      /\ docs[c].lines[j].cancels = docs[e].lines[l].cancels
      => c = e /\ j = l
Dated == \A c \in DOMAIN docs : docs[c].history # <<>>
OneStands == \A d \in Decision : \A j, k \in StandsFor(d) : j = k

DocInv == DocShape /\ CancelledOnce /\ Dated /\ StatusTellsCancelled /\ OneStands

(* A call under its chain's lock, and what a cancellation chose.           *)
Locked(r) == r.of # Absent /\ r.seq > 0
Cancels(r) ==
  /\ StatusOf(r.of) \in {"COMMITTED", "PARTIALLY_CREDITED"}
  /\ DOMAIN r.lines # {}
  /\ \A j \in DOMAIN r.lines :
       \E i \in LinesLeft(r.of) : Undoes(r.lines[j], r.of, i)
  /\ \A j, l \in DOMAIN r.lines : r.lines[j].cancels = r.lines[l].cancels => j = l
  /\ r.type = "VOID" =>
       \A i \in DOMAIN docs[r.of].lines :
         \E j \in DOMAIN r.lines : r.lines[j].cancels = <<r.of, i>>
Shape(r) ==
  /\ r.type = "INVOICE" <=> r.of = Absent
  /\ r.type = "VOID" => r.chosen = <<>>
  /\ r.of # Absent => r.of \in DOMAIN docs
  /\ Bills(r.type) => Presents(r.lines)
  /\ Locked(r) => Bill(r.of) /\ (~Bills(r.type) => Cancels(r))
  /\ \A d \in r.checked : StandsFor(d) = {}
Apart(r, s) ==
  /\ r.checked \cap s.checked = {}
  /\ Locked(r) /\ Locked(s) => docs[r.of].root # docs[s.of].root

CallInv ==
  /\ \A p \in Proc : tx[p] # Absent => Shape(tx[p])
  /\ \A p, q \in Proc : p # q /\ tx[p] # Absent /\ tx[q] # Absent => Apart(tx[p], tx[q])

BillInv == DocTypes /\ DocInv /\ CallInv

LEMMA DocTypesAt ==
  ASSUME DocTypes
  PROVE  /\ \A k \in DOMAIN docs : k \in Nat /\ docs[k] \in Document
         /\ \A p \in Proc : tx[p] # Absent => tx[p] \in Request
  BY DEF DocTypes

LEMMA BillInit == DocumentsInit => BillInv
<1> SUFFICES ASSUME DocumentsInit PROVE BillInv
  OBVIOUS
<1>1. docs = <<>> /\ tx = [p \in Proc |-> Absent]
  BY DEF DocumentsInit
<1>2. DocTypes /\ CallInv
  BY <1>1 DEF DocTypes, CallInv
<1>3. DOMAIN docs = {}
  BY <1>1
<1>4. DocInv
  BY <1>3 DEF DocInv, DocShape, CancelledOnce, Dated, OneStands, StandsFor,
       CitedBy, StatusTellsCancelled
<1> QED  BY <1>2, <1>4 DEF BillInv

LEMMA DocsStay ==
  ASSUME DocInv, UNCHANGED docs
  PROVE  DocInv'
<1>1. DocShape'
  BY DEF DocInv, DocShape, Cites, Bills, Bill, Presents, Undoes
<1>2. CancelledOnce' /\ Dated'
  BY DEF DocInv, CancelledOnce, Dated
<1>3. StatusTellsCancelled'
  <2>1. \A k : /\ CancelledLines(k)' = CancelledLines(k)
               /\ LinesLeft(k)' = LinesLeft(k)
               /\ StatusOf(k)' = StatusOf(k)
    BY DEF CancelledLines, LinesLeft, StatusOf, Last
  <2> QED  BY <2>1 DEF DocInv, StatusTellsCancelled, Bills, Releases
<1>4. OneStands'
  BY DEF DocInv, OneStands, StandsFor, CitedBy, Cites,
     StatusOf, Last
<1> QED  BY <1>1, <1>2, <1>3, <1>4 DEF DocInv

(* A step of one call that commits nothing.                                *)
LEMMA CallMoves ==
  ASSUME BillInv, DocTypes', UNCHANGED docs, NEW p \in Proc,
         \A q \in Proc : q # p => tx'[q] = tx[q],
         tx'[p] # Absent =>
           /\ Shape(tx'[p])
           /\ \A q \in Proc \ {p} : tx[q] # Absent => Apart(tx'[p], tx[q])
  PROVE  BillInv'
<1>1. DocInv'
  BY DocsStay DEF BillInv
<1>2. \A r : Shape(r) => Shape(r)'
  BY DEF Shape, Locked, Cancels, StandsFor, CitedBy, Cites, StatusOf,
     LinesLeft, CancelledLines, Bill, Presents, Undoes, Last
<1>3. \A r, s : /\ Apart(r, s) => Apart(r, s)'
                /\ Apart(r, s) => Apart(s, r)
  BY DEF Apart, Locked
<1>4. ASSUME NEW q \in Proc, tx'[q] # Absent PROVE Shape(tx[q])'
  <2>1. Shape(tx'[q])
    BY <1>4 DEF BillInv, CallInv
  <2> QED  BY <1>2, <2>1
<1>5. ASSUME NEW q \in Proc, NEW u \in Proc, q # u, tx'[q] # Absent, tx'[u] # Absent
      PROVE  Apart(tx[q], tx[u])'
  <2>1. Apart(tx'[q], tx'[u])
    BY <1>3, <1>5 DEF BillInv, CallInv
  <2> QED  BY <1>3, <2>1
<1> QED  BY <1>1, <1>4, <1>5 DEF BillInv, CallInv

(* A request under way, its transaction not yet begun.                     *)
LEMMA AskKeeps ==
  ASSUME BillInv, NEW p \in Proc, NEW type, NEW k, NEW chosen \in Seq(Nat), NEW lines,
         Ask(p, type, k, chosen, lines),
         \/ type = "INVOICE" /\ k = Absent
         \/ type \in {"VOID", "CREDIT_NOTE", "REBILL"} /\ k \in DOMAIN docs,
         lines \in Seq(Line),
         Bills(type) => Presents(lines),
         type = "VOID" => chosen = <<>>
  PROVE  BillInv'
<1> DEFINE r == [type |-> type, of |-> k, chosen |-> chosen, lines |-> lines,
                 seq |-> 0, checked |-> {}]
<1>1. tx' = [tx EXCEPT ![p] = r] /\ UNCHANGED docs
  BY DEF Ask
<1>2. DocTypes
  BY DEF BillInv
<1>3. k \in Nat \cup {Absent} /\ type \in Type
  BY <1>2, DocTypesAt DEF Type
<1>4. r \in Request
  BY <1>3 DEF Request
<1>5. Shape(r) /\ ~Locked(r) /\ r.checked = {}
  <2>1. Absent \notin Nat
    BY AbsentAssumption
  <2> QED  BY <1>2, <2>1, DocTypesAt DEF Shape, Locked
<1> HIDE DEF r
<1>6. /\ tx' \in [Proc -> Request \cup {Absent}]
      /\ tx'[p] = r /\ \A q \in Proc : q # p => tx'[q] = tx[q]
  BY <1>1, <1>2, <1>4 DEF DocTypes
<1>7. DocTypes'
  BY <1>1, <1>2, <1>6 DEF DocTypes
<1> QED  BY <1>1, <1>5, <1>6, <1>7, CallMoves DEF Apart

LEMMA DraftLines ==
  ASSUME NEW d \in Draft
  PROVE  buildLines(d) \in Seq(Line) /\ Presents(buildLines(d))
<1>1. d # <<>> /\ d \in Seq([decision : Decision, amount : Int])
  BY DraftAssumption
<1>2. DOMAIN d = 1..Len(d) /\ Len(d) \in Nat /\ Len(d) # 0
  BY <1>1
<1>3. \A i \in DOMAIN d : d[i].decision \in Decision /\ d[i].amount \in Int
  <2> DEFINE R == [decision : Decision, amount : Int]
  <2>1. \A i \in DOMAIN d : d[i] \in R
    <3>1. d \in Seq(R)
      BY <1>1
    <3> HIDE DEF R
    <3> QED  BY <3>1
  <2> QED  BY <2>1
<1>4. 1 \in DOMAIN d
  BY <1>2
<1>5. buildLines(d) \in [1..Len(d) -> Line]
  BY <1>2, <1>3 DEF buildLines, Line
<1> QED  BY <1>2, <1>4, <1>5 DEF buildLines, Presents

(* What a correction chooses of a document are lines of it, each once.     *)
LEMMA OrderFacts ==
  ASSUME DocTypes, NEW k \in DOMAIN docs, NEW order \in Orders(k)
  PROVE  /\ order \in Seq(Nat) /\ order \in Seq(DOMAIN docs[k].lines)
         /\ DOMAIN order # {}
         /\ \A i, j \in DOMAIN order : order[i] = order[j] => i = j
<1>1. docs[k].lines \in Seq(Line)
  BY DocTypesAt DEF Document
<1>2. DOMAIN docs[k].lines = 1..Len(docs[k].lines) /\ Len(docs[k].lines) \in Nat
  BY <1>1
<1>3. PICK n \in 1..Len(docs[k].lines) :
        /\ order \in [1..n -> DOMAIN docs[k].lines]
        /\ \A i, j \in DOMAIN order : order[i] = order[j] => i = j
  BY DEF Orders, Injection, IsInjective
<1>4. n \in Nat /\ 1 \in 1..n
  BY <1>2
<1>5. order \in Seq(Nat)
  <2>1. order \in [1..n -> Nat]
    BY <1>2, <1>3
  <2> QED  BY <1>4, <2>1
<1>6. order \in Seq(DOMAIN docs[k].lines)
  <2> DEFINE T == DOMAIN docs[k].lines
  <2>1. order \in [1..n -> T]
    BY <1>3
  <2> HIDE DEF T
  <2>2. order \in Seq(T)
    BY <1>4, <2>1
  <2> QED  BY <2>2 DEF T
<1>7. DOMAIN order # {}
  BY <1>3, <1>4
<1> QED  BY <1>3, <1>5, <1>6, <1>7

LEMMA AsksKeep ==
  ASSUME BillInv, NEW p \in Proc,
         Issue(p) \/ Correct(p)
  PROVE  BillInv'
<1>0. DocTypes /\ <<>> \in Seq(Nat) /\ <<>> \in Seq(Line)
  BY DEF BillInv
<1>1. CASE Issue(p)
  <2>1. PICK d \in Draft : Ask(p, "INVOICE", Absent, <<>>, buildLines(d))
    BY <1>1 DEF Issue
  <2> QED  BY <1>0, <2>1, DraftLines, AskKeeps
<1>2. CASE Correct(p)
  <2>1. PICK k \in DOMAIN docs :
          \/ Ask(p, "VOID", k, <<>>, <<>>)
          \/ \E chosen \in Orders(k) \cup {<<>>} :
               Ask(p, "CREDIT_NOTE", k, chosen, <<>>)
          \/ \E d \in Draft : Ask(p, "REBILL", k, <<>>, buildLines(d))
    BY <1>2 DEF Correct
  <2>2. ~Bills("VOID") /\ ~Bills("CREDIT_NOTE")
    BY DEF Bills
  <2>3. CASE Ask(p, "VOID", k, <<>>, <<>>)
    BY <1>0, <2>2, <2>3, AskKeeps
  <2>4. ASSUME NEW chosen \in Orders(k) \cup {<<>>},
               Ask(p, "CREDIT_NOTE", k, chosen, <<>>)
        PROVE  BillInv'
    <3>1. chosen \in Seq(Nat)
      BY <1>0, OrderFacts
    <3> QED  BY <1>0, <2>2, <2>4, <3>1, AskKeeps
  <2>5. ASSUME NEW d \in Draft, Ask(p, "REBILL", k, <<>>, buildLines(d))
        PROVE  BillInv'
    BY <1>0, <2>5, DraftLines, AskKeeps
  <2> QED  BY <2>1, <2>3, <2>4, <2>5
<1> QED  BY <1>1, <1>2

(* A correction is decided under the chain's lock: what it cancels is left.*)
LEMMA NegateUndoes ==
  ASSUME BillInv, NEW k \in DOMAIN docs, NEW order \in Orders(k)
  PROVE  LET lines == Negate(k, order)
         IN  /\ lines \in Seq(Line) /\ DOMAIN lines = DOMAIN order
             /\ \A j \in DOMAIN order : Undoes(lines[j], k, order[j])
             /\ \A j, l \in DOMAIN order : lines[j].cancels = lines[l].cancels => j = l
<1> DEFINE lines == Negate(k, order)
<1>0. DocTypes
  BY DEF BillInv
<1>1. docs[k].lines \in Seq(Line) /\ k \in Nat
  BY <1>0, DocTypesAt DEF Document
<1>2. \A i \in DOMAIN docs[k].lines :
        /\ i \in Nat
        /\ docs[k].lines[i].decision \in Decision /\ docs[k].lines[i].amount \in Int
  <2>1. \A i \in DOMAIN docs[k].lines : i \in Nat /\ docs[k].lines[i] \in Line
    BY <1>1
  <2> QED  BY <2>1 DEF Line
<1>3. /\ order \in Seq(Nat) /\ order \in Seq(DOMAIN docs[k].lines)
      /\ \A i, j \in DOMAIN order : order[i] = order[j] => i = j
  BY <1>0, OrderFacts
<1>4. /\ DOMAIN order = 1..Len(order) /\ Len(order) \in Nat
      /\ \A j \in DOMAIN order : order[j] \in DOMAIN docs[k].lines
  BY <1>3
<1>5. /\ DOMAIN lines = DOMAIN order
      /\ \A j \in DOMAIN order :
           lines[j] = [decision |-> docs[k].lines[order[j]].decision,
                       amount |-> -docs[k].lines[order[j]].amount,
                       cancels |-> <<k, order[j]>>]
  BY DEF Negate
<1> HIDE DEF lines
<1>6. \A j \in DOMAIN order : lines[j] \in Line /\ Undoes(lines[j], k, order[j])
  BY <1>1, <1>2, <1>4, <1>5 DEF Undoes, Line
<1>7. lines = [j \in 1..Len(order) |-> lines[j]]
  BY <1>4 DEF lines, Negate
<1>8. lines \in Seq(Line)
  <2>1. lines \in [1..Len(order) -> Line]
    BY <1>4, <1>6, <1>7
  <2> QED  BY <1>4, <2>1
<1>9. \A j, l \in DOMAIN order : lines[j].cancels = lines[l].cancels => j = l
  BY <1>3, <1>6 DEF Undoes
<1> QED  BY <1>5, <1>6, <1>8, <1>9 DEF lines

LEMMA ChosenCancels ==
  ASSUME BillInv, NEW r \in Request, r.of \in DOMAIN docs,
         StatusOf(r.of) \in {"COMMITTED", "PARTIALLY_CREDITED"},
         NEW order \in Orders(r.of),
         Range(order) \cap CancelledLines(r.of) = {},
         r.lines = Negate(r.of, order),
         r.type = "VOID" => Range(order) = DOMAIN docs[r.of].lines
  PROVE  Cancels(r)
<1> DEFINE k == r.of
           lines == Negate(k, order)
<1>0. DocTypes
  BY DEF BillInv
<1>1. /\ DOMAIN lines = DOMAIN order
      /\ \A j \in DOMAIN order : Undoes(lines[j], k, order[j])
      /\ \A j, l \in DOMAIN order : lines[j].cancels = lines[l].cancels => j = l
  BY NegateUndoes
<1>2. /\ DOMAIN order # {}
      /\ \A j \in DOMAIN order : order[j] \in DOMAIN docs[k].lines
  <2>1. order \in Seq(DOMAIN docs[k].lines) /\ DOMAIN order # {}
    BY <1>0, OrderFacts
  <2> QED  BY <2>1
<1>3. \A j \in DOMAIN order : order[j] \in LinesLeft(k)
  BY <1>2 DEF Range, LinesLeft
<1>4. \A j \in DOMAIN order : lines[j].cancels = <<k, order[j]>>
  BY <1>1 DEF Undoes
<1>5. r.type = "VOID" => \A i \in DOMAIN docs[k].lines :
                           \E j \in DOMAIN lines : lines[j].cancels = <<k, i>>
  BY <1>1, <1>4 DEF Range
<1> HIDE DEF lines
<1>6. r.lines = lines
  BY DEF lines
<1> QED  BY <1>1, <1>2, <1>3, <1>5, <1>6 DEF Cancels

LEMMA LockChainKeeps ==
  ASSUME BillInv, NEW p \in Proc, LockChain(p)
  PROVE  BillInv'
<1> DEFINE r == tx[p]
           k == r.of
<1>0. DocTypes /\ Absent \notin Nat
  BY AbsentAssumption DEF BillInv
<1>1. /\ r # Absent /\ k # Absent /\ UNCHANGED docs
      /\ \A q \in Proc \ {p} : tx[q] # Absent /\ Locked(tx[q]) =>
           docs[tx[q].of].root # docs[k].root
  BY DEF LockChain, AwaitsChain, ChainFree, Active, Locked
<1>2. r \in Request /\ Shape(r) /\ k \in DOMAIN docs
  BY <1>0, <1>1, DocTypesAt DEF BillInv, CallInv, Shape
<1>3. CASE tx' = [tx EXCEPT ![p] = Absent]
  <2>1. tx'[p] = Absent /\ \A q \in Proc : q # p => tx'[q] = tx[q]
    BY <1>0, <1>3 DEF DocTypes
  <2>2. DocTypes'
    BY <1>0, <1>1, <1>3 DEF DocTypes
  <2> QED  BY <1>1, <2>1, <2>2, CallMoves
<1>4. ASSUME NEW lines \in LinesOf(p),
             tx' = [tx EXCEPT ![p] = [@ EXCEPT !.seq = Len(docs[k].history), !.lines = lines]]
      PROVE  BillInv'
  <2> DEFINE s == [r EXCEPT !.seq = Len(docs[k].history), !.lines = lines]
  <2>1. Bill(k) /\ r.type \in Type \ {"INVOICE"}
    BY <1>1, <1>2, <1>4 DEF LinesOf, CanCorrect, Bill, Shape, Request
  <2>2. Len(docs[k].history) \in Nat
    BY <1>0, <1>2, DocTypesAt DEF Document
  <2>3. /\ s.type = r.type /\ s.of = r.of /\ s.checked = r.checked /\ s.chosen = r.chosen
        /\ s.lines = lines
        /\ lines \in Seq(Line) => s \in Request
    BY <1>2, <2>2 DEF Request
  <2> HIDE DEF s
  <2>4. ASSUME r.type = "REBILL"
        PROVE  lines \in Seq(Line) /\ Shape(s)
    <3>1. lines = r.lines
      BY <1>4, <2>4 DEF LinesOf
    <3>2. lines \in Seq(Line)
      BY <1>2, <3>1 DEF Request
    <3>3. Shape(s)
      BY <1>2, <2>1, <2>3, <2>4, <3>1 DEF Shape, Bills, Locked
    <3> QED  BY <3>2, <3>3
  <2>5. ASSUME r.type # "REBILL"
        PROVE  lines \in Seq(Line) /\ Shape(s)
    <3>1. PICK order \in Chosen(p) : lines = Negate(k, order)
      BY <1>4, <2>5 DEF LinesOf
    <3>2. StatusOf(k) \in {"COMMITTED", "PARTIALLY_CREDITED"}
      BY <1>4, <2>5 DEF LinesOf, CanCorrect
    <3>3. order \in Orders(k) /\ Range(order) \cap CancelledLines(k) = {}
      BY DEF Chosen
    <3>4. r.type = "VOID" => Range(order) = DOMAIN docs[k].lines
      <4>1. r.type = "VOID" => r.chosen = <<>>
        BY <1>2 DEF Shape
      <4> QED  BY <4>1 DEF Chosen, LinesLeft
    <3>5. lines \in Seq(Line)
      BY <1>2, <3>1, <3>3, NegateUndoes
    <3>6. Cancels(s)
      BY <1>2, <2>3, <3>1, <3>2, <3>3, <3>4, <3>5, ChosenCancels
    <3>7. Shape(s)
      BY <1>2, <2>1, <2>3, <2>5, <3>6 DEF Shape, Bills, Type
    <3> QED  BY <3>5, <3>7
  <2>6. tx'[p] = s /\ \A q \in Proc : q # p => tx'[q] = tx[q]
    BY <1>0, <1>4 DEF DocTypes, s
  <2>7. DocTypes'
    <3>1. s \in Request /\ tx' = [tx EXCEPT ![p] = s]
      BY <1>4, <2>3, <2>4, <2>5 DEF s
    <3> QED  BY <1>0, <1>1, <3>1 DEF DocTypes
  <2>8. \A q \in Proc \ {p} : tx[q] # Absent => Apart(s, tx[q])
    BY <1>1, <2>3 DEF Apart, BillInv, CallInv
  <2> QED  BY <1>1, <2>4, <2>5, <2>6, <2>7, <2>8, CallMoves
<1> QED  BY <1>3, <1>4 DEF LockChain

LEMMA LeastExists ==
  ASSUME NEW S, S \subseteq Nat, S # {}
  PROVE  \E n \in S : \A m \in S : n <= m
<1>1. PICK n \in S : \A m \in S : ~(<<m, n>> \in OpToRel(<, Nat))
  BY NatLessThanWellFounded, WFMin
<1>2. ASSUME NEW m \in S PROVE n <= m
  <2>1. m \in Nat /\ n \in Nat
    OBVIOUS
  <2>2. m < n => <<m, n>> \in OpToRel(<, Nat)
    BY <2>1 DEF OpToRel
  <2>3. ~(m < n)
    BY <1>1, <2>2, Zenon
  <2> QED  BY <2>1, <2>3
<1> QED  BY <1>2

(* The decision LockDecision takes next.                                   *)
LEMMA NextIsLeast ==
  ASSUME NEW p, tx[p] \in Request
  PROVE  /\ Unbilled(p) \subseteq Decision /\ Unbilled(p) \subseteq Nat
         /\ Unbilled(p) # {} => /\ NextDecision(p) \in Unbilled(p)
                                /\ \A e \in Unbilled(p) : NextDecision(p) <= e
<1>1. \A i \in DOMAIN tx[p].lines : tx[p].lines[i] \in Line
  BY DEF Request
<1>2. Unbilled(p) \subseteq Decision
  BY <1>1 DEF Unbilled, Pinned, Line
<1>3. Unbilled(p) # {} => \E n \in Unbilled(p) : \A m \in Unbilled(p) : n <= m
  BY <1>2, LeastExists, DecisionAssumption
<1> QED  BY <1>2, <1>3, DecisionAssumption DEF NextDecision

(* A decision a call checked is held, and no document stands for it.       *)
LEMMA LockDecisionKeeps ==
  ASSUME BillInv, NEW p \in Proc, LockDecision(p)
  PROVE  BillInv'
<1> DEFINE r == tx[p]
           d == NextDecision(p)
<1>0. DocTypes
  BY DEF BillInv
<1>1. /\ r # Absent /\ UNCHANGED docs
      /\ Unbilled(p) # {} /\ DecisionFree(p, d)
      /\ tx' = [tx EXCEPT ![p] = IF Billable(d) THEN [r EXCEPT !.checked = @ \cup {d}]
                                 ELSE Absent]
  BY DEF LockDecision, Read
<1>2. r \in Request /\ Shape(r)
  BY <1>0, <1>1, DocTypesAt DEF BillInv, CallInv
<1>3. d \in Decision
  BY <1>1, <1>2, NextIsLeast
<1> HIDE DEF d
<1>4. CASE ~Billable(d)
  <2>1. tx' = [tx EXCEPT ![p] = Absent]
    BY <1>1, <1>4
  <2>2. tx'[p] = Absent /\ \A q \in Proc : q # p => tx'[q] = tx[q]
    BY <1>0, <2>1 DEF DocTypes
  <2>3. DocTypes'
    BY <1>0, <1>1, <2>1 DEF DocTypes
  <2> QED  BY <1>1, <2>2, <2>3, CallMoves
<1>5. CASE Billable(d)
  <2> DEFINE s == [r EXCEPT !.checked = @ \cup {d}]
  <2>1. /\ s \in Request
        /\ s.type = r.type /\ s.of = r.of /\ s.chosen = r.chosen /\ s.seq = r.seq
        /\ s.lines = r.lines /\ s.checked = r.checked \cup {d}
    BY <1>2, <1>3 DEF Request
  <2>2. tx' = [tx EXCEPT ![p] = s]
    BY <1>1, <1>5
  <2> HIDE DEF s
  <2>3. tx'[p] = s /\ \A q \in Proc : q # p => tx'[q] = tx[q]
    BY <1>0, <2>2 DEF DocTypes
  <2>4. DocTypes'
    BY <1>0, <1>1, <2>1, <2>2 DEF DocTypes
  <2>5. StandsFor(d) = {}
    BY <1>5 DEF Billable, StandsFor
  <2>6. Shape(s)
    BY <1>2, <2>1, <2>5 DEF Shape, Locked, Cancels
  <2>7. \A q \in Proc \ {p} : tx[q] # Absent => Apart(s, tx[q])
    <3>1. \A q \in Proc \ {p} : tx[q] # Absent => d \notin tx[q].checked
      BY <1>1 DEF DecisionFree, Active
    <3>2. \A q \in Proc \ {p} : tx[q] # Absent => Apart(r, tx[q])
      BY <1>1 DEF BillInv, CallInv
    <3> QED  BY <2>1, <3>1, <3>2 DEF Apart, Locked
  <2> QED  BY <1>1, <2>3, <2>4, <2>6, <2>7, CallMoves
<1> QED  BY <1>4, <1>5

(* A call that ends without a document.                                    *)
LEMMA EndKeeps ==
  ASSUME BillInv, NEW p \in Proc, tx' = [tx EXCEPT ![p] = Absent], UNCHANGED docs
  PROVE  BillInv'
<1>0. DocTypes
  BY DEF BillInv
<1>1. tx'[p] = Absent /\ \A q \in Proc : q # p => tx'[q] = tx[q]
  BY <1>0 DEF DocTypes
<1>2. DocTypes'
  BY <1>0 DEF DocTypes
<1> QED  BY <1>1, <1>2, CallMoves

-----------------------------------------------------------------------------
(* A document commits                                                      *)

(* What the new document is, and what becomes of the others.               *)
LEMMA AfterIs ==
  ASSUME NEW p
  PROVE  LET type == tx[p].type
         IN  /\ type = "VOID" => After(p) = <<"VOIDED">>
             /\ type = "CREDIT_NOTE" =>
                  After(p) = IF FullyCancelled(tx[p].of, tx[p].lines)
                                 THEN <<"FULLY_CREDITED">> ELSE <<"PARTIALLY_CREDITED">>
             /\ type \notin {"VOID", "CREDIT_NOTE"} => After(p) = <<>>
  BY DEF After

LEMMA NewDocument ==
  ASSUME BillInv, NEW p \in Proc, CommitDocument(p)
  PROVE  LET r == tx[p]
             n == Len(docs) + 1
         IN  /\ r \in Request /\ Shape(r)
             /\ r.of # Absent => Locked(r)
             /\ ~Bills(r.type) => Cancels(r)
             /\ n \notin DOMAIN docs /\ DOMAIN docs' = DOMAIN docs \cup {n}
             /\ docs'[n].type = r.type /\ docs'[n].lines = r.lines
             /\ docs'[n].history = <<"COMMITTED">>
             /\ \A k \in DOMAIN docs :
                  /\ docs'[k].type = docs[k].type /\ docs'[k].lines = docs[k].lines
                  /\ docs'[k].root = docs[k].root
                  /\ docs'[k].history = IF k = r.of THEN docs[k].history \o After(p)
                                        ELSE docs[k].history
             /\ DocTypes' /\ tx' = [tx EXCEPT ![p] = Absent]
<1> DEFINE r == tx[p]
           n == Len(docs) + 1
           new == [type |-> r.type, history |-> <<"COMMITTED">>, lines |-> r.lines,
                   root |-> IF r.of = Absent THEN n ELSE docs[r.of].root]
           moved(k) == IF k = r.of THEN [docs[k] EXCEPT !.history = @ \o After(p)]
                       ELSE docs[k]
           old == [k \in DOMAIN docs |-> moved(k)]
<1>0. DocTypes /\ Absent \notin Nat
  BY AbsentAssumption DEF BillInv
<1>1. /\ r # Absent /\ (r.of = Absent \/ r.seq > 0)
      /\ docs' = Append(old, new) /\ tx' = [tx EXCEPT ![p] = Absent]
  BY DEF CommitDocument, Read
<1>2. r \in Request /\ Shape(r)
  BY <1>0, <1>1, DocTypesAt DEF BillInv, CallInv
<1>3. r.of # Absent => Locked(r)
  BY <1>1 DEF Locked
<1>4. ~Bills(r.type) => Cancels(r)
  BY <1>2, <1>3 DEF Shape, Bills
<1>5. docs \in Seq(Document) /\ Len(docs) \in Nat /\ DOMAIN docs = 1..Len(docs)
  BY <1>0 DEF DocTypes
<1>6. After(p) \in Seq(DocStatus)
  <2>1. /\ <<"VOIDED">> \in Seq(DocStatus) /\ <<>> \in Seq(DocStatus)
        /\ <<"FULLY_CREDITED">> \in Seq(DocStatus)
        /\ <<"PARTIALLY_CREDITED">> \in Seq(DocStatus)
    BY DEF DocStatus
  <2> QED  BY <2>1, AfterIs
<1>7. \A k \in DOMAIN docs :
        /\ docs[k] \in Document
        /\ moved(k) \in Document
        /\ moved(k).type = docs[k].type /\ moved(k).lines = docs[k].lines
        /\ moved(k).root = docs[k].root
        /\ moved(k).history = IF k = r.of THEN docs[k].history \o After(p)
                              ELSE docs[k].history
  <2> TAKE k \in DOMAIN docs
  <2>1. docs[k] \in Document
    BY <1>5
  <2>2. docs[k].history \in Seq(DocStatus)
    BY <2>1 DEF Document
  <2>3. docs[k].history \o After(p) \in Seq(DocStatus)
    BY <1>6, <2>2
  <2> QED  BY <2>1, <2>3 DEF Document
<1>8. new \in Document
  <2>1. r.of # Absent => r.of \in DOMAIN docs /\ docs[r.of].root \in Nat
    BY <1>0, <1>2, DocTypesAt DEF Shape, Document
  <2>2. <<"COMMITTED">> \in Seq(DocStatus)
    BY DEF DocStatus
  <2>3. n \in Nat
    BY <1>5
  <2> QED  BY <1>2, <2>1, <2>2, <2>3 DEF Document, Request
<1>9. new.type = r.type /\ new.lines = r.lines /\ new.history = <<"COMMITTED">>
  OBVIOUS
<1> HIDE DEF new, moved
<1>10. old \in Seq(Document) /\ Len(old) = Len(docs)
  <2>1. old \in [1..Len(docs) -> Document]
    BY <1>5, <1>7
  <2> QED  BY <1>5, <2>1
<1>11. \A k \in DOMAIN docs : old[k] = moved(k)
  OBVIOUS
<1> HIDE DEF old
<1>12. /\ DOMAIN docs' = DOMAIN docs \cup {n} /\ docs'[n] = new
       /\ \A k \in DOMAIN docs : docs'[k] = moved(k)
       /\ n \notin DOMAIN docs
       /\ docs' \in Seq(Document)
  BY <1>1, <1>5, <1>8, <1>10, <1>11
<1>13. DocTypes'
  BY <1>0, <1>1, <1>12 DEF DocTypes
<1> QED
  BY <1>1, <1>2, <1>3, <1>4, <1>7, <1>9, <1>12, <1>13

(* The lines of document k that a document with these lines cancels.       *)
Hit(k, lines) ==
  {i \in DOMAIN docs[k].lines : \E j \in DOMAIN lines : lines[j].cancels = <<k, i>>}

(* The lines the new document cancels were left; nothing cancels its own.  *)
LEMMA CommitCancels ==
  ASSUME BillInv, NEW p \in Proc, CommitDocument(p),
         NEW r, r = tx[p], NEW n, n = Len(docs) + 1
  PROVE  /\ \A k \in DOMAIN docs :
              CancelledLines(k)' = CancelledLines(k) \cup Hit(k, r.lines)
         /\ CancelledLines(n)' = {}
         /\ \A k \in DOMAIN docs : k # r.of \/ Bills(r.type) =>
              /\ CancelledLines(k)' = CancelledLines(k)
              /\ LinesLeft(k)' = LinesLeft(k)
              /\ StatusOf(k)' = StatusOf(k)
<1>0. /\ r \in Request /\ Shape(r)
      /\ ~Bills(r.type) => Cancels(r)
      /\ n \notin DOMAIN docs /\ DOMAIN docs' = DOMAIN docs \cup {n}
      /\ docs'[n].lines = r.lines
      /\ \A k \in DOMAIN docs :
           /\ docs'[k].lines = docs[k].lines
           /\ docs'[k].history = IF k = r.of THEN docs[k].history \o After(p)
                                 ELSE docs[k].history
  BY NewDocument
<1>1. \A k, i : (\E c \in DOMAIN docs' : \E j \in DOMAIN docs'[c].lines :
                    docs'[c].lines[j].cancels = <<k, i>>)
        <=> \/ \E c \in DOMAIN docs : \E j \in DOMAIN docs[c].lines :
                  docs[c].lines[j].cancels = <<k, i>>
            \/ \E j \in DOMAIN r.lines : r.lines[j].cancels = <<k, i>>
  BY <1>0
<1>2. \A k \in DOMAIN docs : \A i :
        i \in CancelledLines(k)' <=>
          \/ i \in CancelledLines(k)
          \/ /\ i \in DOMAIN docs[k].lines
             /\ \E j \in DOMAIN r.lines : r.lines[j].cancels = <<k, i>>
  BY <1>0, <1>1 DEF CancelledLines
<1>3. \A k \in Nat, i \in Nat : <<k, i>> # Absent
  BY AbsentAssumption
<1>4. \A j \in DOMAIN r.lines :
        \/ Bills(r.type) /\ r.lines[j].cancels = Absent
        \/ ~Bills(r.type) /\ \E i : r.lines[j].cancels = <<r.of, i>>
  BY <1>0 DEF Shape, Presents, Cancels, Undoes
<1>5. \A c \in DOMAIN docs : \A j \in DOMAIN docs[c].lines :
        \/ docs[c].lines[j].cancels = Absent
        \/ \E k \in DOMAIN docs : \E i \in DOMAIN docs[k].lines :
             docs[c].lines[j].cancels = <<k, i>>
  BY DEF BillInv, DocInv, DocShape, Presents, Undoes
<1>6. CancelledLines(n)' = {}
  <2>1. ASSUME NEW i \in DOMAIN docs'[n].lines,
               \E c \in DOMAIN docs' : \E j \in DOMAIN docs'[c].lines :
                 docs'[c].lines[j].cancels = <<n, i>>
        PROVE  FALSE
    <3>1. n \in Nat /\ i \in Nat
      <4>1. r.lines \in Seq(Line) /\ docs \in Seq(Document)
        BY <1>0 DEF BillInv, DocTypes, Request
      <4> QED  BY <1>0, <2>1, <4>1
    <3>2. <<n, i>> # Absent
      BY <1>3, <3>1
    <3>3. r.of # n
      BY <1>0, <3>1, AbsentAssumption DEF Shape
    <3>4. CASE \E j \in DOMAIN r.lines : r.lines[j].cancels = <<n, i>>
      <4>1. PICK j \in DOMAIN r.lines : r.lines[j].cancels = <<n, i>>
        BY <3>4
      <4>2. \E l : <<n, i>> = <<r.of, l>>
        BY <1>4, <3>2, <4>1
      <4> QED  BY <3>3, <4>2
    <3>5. CASE \E c \in DOMAIN docs : \E j \in DOMAIN docs[c].lines :
                 docs[c].lines[j].cancels = <<n, i>>
      <4>1. PICK c \in DOMAIN docs : \E j \in DOMAIN docs[c].lines :
              docs[c].lines[j].cancels = <<n, i>>
        BY <3>5
      <4>2. \E k \in DOMAIN docs : \E l : <<n, i>> = <<k, l>>
        BY <1>5, <3>2, <4>1
      <4> QED  BY <1>0, <4>2
    <3> QED  BY <1>1, <2>1, <3>4, <3>5
  <2> QED  BY <2>1 DEF CancelledLines
<1>7. ASSUME NEW k \in DOMAIN docs, k # r.of \/ Bills(r.type)
      PROVE  /\ CancelledLines(k)' = CancelledLines(k)
             /\ LinesLeft(k)' = LinesLeft(k)
             /\ StatusOf(k)' = StatusOf(k)
  <2>1. docs[k].history \in Seq(DocStatus) /\ docs[k].lines \in Seq(Line) /\ k \in Nat
    BY DocTypesAt DEF BillInv, Document
  <2>2. docs'[k].history = docs[k].history
    <3>1. Bills(r.type) => After(p) = <<>>
      BY AfterIs DEF Bills
    <3>2. docs[k].history \o <<>> = docs[k].history
      BY <2>1
    <3> QED  BY <1>0, <1>7, <3>1, <3>2
  <2>3. ASSUME NEW i \in DOMAIN docs[k].lines, NEW j \in DOMAIN r.lines,
               r.lines[j].cancels = <<k, i>>
        PROVE  FALSE
    <3>1. i \in Nat
      BY <2>1
    <3>2. <<k, i>> # Absent
      BY <1>3, <2>1, <3>1
    <3>3. ~Bills(r.type) /\ \E l : <<k, i>> = <<r.of, l>>
      BY <1>4, <2>3, <3>2
    <3> QED  BY <1>7, <3>3
  <2>4. CancelledLines(k)' = CancelledLines(k)
    <3>1. \A i : i \in CancelledLines(k)' <=> i \in CancelledLines(k)
      BY <1>2, <2>3
    <3> QED  BY <3>1
  <2> QED  BY <1>0, <2>2, <2>4 DEF LinesLeft, StatusOf, Last
<1>8. ASSUME NEW k \in DOMAIN docs
      PROVE  CancelledLines(k)' = CancelledLines(k) \cup Hit(k, r.lines)
  <2>1. \A i : i \in CancelledLines(k)' <=>
               i \in CancelledLines(k) \cup Hit(k, r.lines)
    BY <1>2 DEF Hit
  <2> QED  BY <2>1
<1> QED  BY <1>6, <1>7, <1>8

(* A cancellation moves its original's status; nothing else moves.         *)
LEMMA CommitStatus ==
  ASSUME BillInv, NEW p \in Proc, CommitDocument(p),
         NEW r, r = tx[p], NEW n, n = Len(docs) + 1
  PROVE  /\ StatusOf(n)' = "COMMITTED"
         /\ ~Bills(r.type) =>
              /\ r.of \in DOMAIN docs
              /\ LinesLeft(r.of)' = {} <=> Releases(StatusOf(r.of)')
              /\ StatusOf(r.of)' # "COMMITTED"
              /\ CancelledLines(r.of)' # {}
<1>0. /\ r \in Request /\ Shape(r)
      /\ ~Bills(r.type) => Cancels(r)
      /\ docs'[n].history = <<"COMMITTED">>
      /\ \A k \in DOMAIN docs :
           /\ docs'[k].lines = docs[k].lines
           /\ docs'[k].history = IF k = r.of THEN docs[k].history \o After(p)
                                 ELSE docs[k].history
  BY NewDocument
<1>1. StatusOf(n)' = "COMMITTED"
  BY <1>0 DEF StatusOf, Last
<1>3. /\ \A k \in DOMAIN docs :
           CancelledLines(k)' = CancelledLines(k) \cup Hit(k, r.lines)
      /\ CancelledLines(n)' = {}
      /\ \A k \in DOMAIN docs : k # r.of \/ Bills(r.type) =>
           /\ CancelledLines(k)' = CancelledLines(k)
           /\ LinesLeft(k)' = LinesLeft(k)
           /\ StatusOf(k)' = StatusOf(k)
  BY CommitCancels
<1>2. ASSUME ~Bills(r.type)
      PROVE  /\ r.of \in DOMAIN docs
             /\ LinesLeft(r.of)' = {} <=> Releases(StatusOf(r.of)')
             /\ StatusOf(r.of)' # "COMMITTED"
             /\ CancelledLines(r.of)' # {}
  <2>1. Cancels(r) /\ r.of \in DOMAIN docs /\ r.type \in {"VOID", "CREDIT_NOTE"}
    BY <1>0, <1>2 DEF Shape, Bills, Request, Type
  <2>2. PICK k \in DOMAIN docs : k = r.of
    BY <2>1
  <2>3. docs[k].history \in Seq(DocStatus)
    BY DocTypesAt DEF BillInv, Document
  <2>4. \A i : i \in CancelledLines(k)' <=>
               \/ i \in CancelledLines(k)
               \/ /\ i \in DOMAIN docs[k].lines
                  /\ \E j \in DOMAIN r.lines : r.lines[j].cancels = <<k, i>>
    BY <1>3 DEF Hit
  <2>5. PICK x \in DocStatus : After(p) = <<x>>
    BY <2>1, AfterIs DEF DocStatus
  <2>6. StatusOf(k)' = x
    <3>1. docs'[k].history = docs[k].history \o <<x>>
      BY <1>0, <2>2, <2>5
    <3> QED  BY <2>3, <3>1 DEF StatusOf, Last
  <2>7. /\ r.type = "VOID" => x = "VOIDED"
        /\ r.type = "CREDIT_NOTE" => x = IF FullyCancelled(k, r.lines)
                                         THEN "FULLY_CREDITED" ELSE "PARTIALLY_CREDITED"
    <3>1. /\ r.type = "VOID" => <<x>> = <<"VOIDED">>
          /\ r.type = "CREDIT_NOTE" =>
               <<x>> = IF FullyCancelled(k, r.lines)
                       THEN <<"FULLY_CREDITED">> ELSE <<"PARTIALLY_CREDITED">>
      BY <2>2, <2>5, AfterIs
    <3> QED  BY <2>1, <3>1
  <2>8. PICK j \in DOMAIN r.lines : \E i \in LinesLeft(k) : r.lines[j].cancels = <<k, i>>
    BY <2>1, <2>2 DEF Cancels, Undoes
  <2>9. CancelledLines(k)' # {}
    BY <2>4, <2>8 DEF LinesLeft
  <2>10. LinesLeft(k)' = {} <=>
           \A i \in LinesLeft(k) : \E l \in DOMAIN r.lines : r.lines[l].cancels = <<k, i>>
    <3>1. \A i : i \in LinesLeft(k)' <=>
                 i \in DOMAIN docs[k].lines /\ i \notin CancelledLines(k)'
      BY <1>0 DEF LinesLeft
    <3> QED  BY <2>4, <3>1 DEF LinesLeft
  <2>11. r.type = "VOID" => LinesLeft(k)' = {}
    BY <2>1, <2>2, <2>10 DEF Cancels, LinesLeft
  <2>12. FullyCancelled(k, r.lines) <=> LinesLeft(k)' = {}
    BY <2>10 DEF FullyCancelled
  <2>13. /\ LinesLeft(k)' = {} <=> Releases(x)
         /\ x # "COMMITTED"
    BY <2>1, <2>7, <2>11, <2>12 DEF Releases
  <2> QED  BY <2>2, <2>6, <2>9, <2>13
<1> QED  BY <1>1, <1>2

(* No document comes to stand for a decision but the new one.              *)
LEMMA CommitStanding ==
  ASSUME BillInv, NEW p \in Proc, CommitDocument(p),
         NEW r, r = tx[p], NEW n, n = Len(docs) + 1, NEW d
  PROVE  \A k \in StandsFor(d)' :
           \/ k \in StandsFor(d)
           \/ k = n /\ Bills(r.type) /\ d \in r.checked
<1>0. /\ Shape(r)
      /\ ~Bills(r.type) => Cancels(r)
      /\ DOMAIN docs' = DOMAIN docs \cup {n}
      /\ docs'[n].type = r.type /\ docs'[n].lines = r.lines
      /\ \A k \in DOMAIN docs : docs'[k].type = docs[k].type /\ docs'[k].lines = docs[k].lines
  BY NewDocument
<1>1. ASSUME NEW k \in DOMAIN docs, k \in StandsFor(d)'
      PROVE  k \in StandsFor(d)
  <2>1. Cites(k, d) /\ Bills(docs[k].type) /\ ~Releases(StatusOf(k)')
    BY <1>0, <1>1 DEF StandsFor, CitedBy, Cites, Bills, Releases
  <2>2. ~Releases(StatusOf(k))
    <3>1. CASE k # r.of \/ Bills(r.type)
      BY <2>1, <3>1, CommitCancels
    <3>2. CASE k = r.of /\ ~Bills(r.type)
      BY <1>0, <3>2 DEF Cancels, Releases
    <3> QED  BY <3>1, <3>2
  <2> QED  BY <2>1, <2>2 DEF StandsFor, CitedBy
<1>2. ASSUME n \in StandsFor(d)'
      PROVE  Bills(r.type) /\ d \in r.checked
  <2>1. Bills(r.type) /\ \E i \in DOMAIN r.lines : r.lines[i].decision = d
    BY <1>0, <1>2 DEF StandsFor, CitedBy, Cites, Bills
  <2>2. Pinned(p) \ r.checked = {}
    BY <2>1 DEF CommitDocument, Unbilled
  <2> QED  BY <2>1, <2>2 DEF Pinned
<1> QED  BY <1>0, <1>1, <1>2 DEF StandsFor, CitedBy

LEMMA CommitDocs ==
  ASSUME BillInv, NEW p \in Proc, CommitDocument(p),
         NEW r, r = tx[p], NEW n, n = Len(docs) + 1
  PROVE  DocInv'
<1>0. /\ r \in Request /\ Shape(r)
      /\ r.of # Absent => Locked(r)
      /\ ~Bills(r.type) => Cancels(r)
      /\ n \notin DOMAIN docs /\ DOMAIN docs' = DOMAIN docs \cup {n}
      /\ docs'[n].type = r.type /\ docs'[n].lines = r.lines
      /\ docs'[n].history = <<"COMMITTED">>
      /\ \A k \in DOMAIN docs :
           /\ docs'[k].type = docs[k].type /\ docs'[k].lines = docs[k].lines
           /\ docs'[k].history = IF k = r.of THEN docs[k].history \o After(p)
                                 ELSE docs[k].history
      /\ DocTypes /\ DocTypes'
  BY NewDocument DEF BillInv
<1>1. /\ \A k \in DOMAIN docs :
           CancelledLines(k)' = CancelledLines(k) \cup Hit(k, r.lines)
      /\ CancelledLines(n)' = {}
      /\ \A k \in DOMAIN docs : k # r.of \/ Bills(r.type) =>
           /\ CancelledLines(k)' = CancelledLines(k)
           /\ LinesLeft(k)' = LinesLeft(k)
           /\ StatusOf(k)' = StatusOf(k)
  BY CommitCancels
<1>2. DocShape'
  <2>1. ASSUME NEW c \in DOMAIN docs
        PROVE  IF Bills(docs'[c].type)
               THEN /\ Presents(docs'[c].lines)
                    /\ \A d \in Decision :
                         (\E i \in DOMAIN docs'[c].lines : docs'[c].lines[i].decision = d)
                         => Charges(docs'[c].lines, d) = DecisionTax[d]
               ELSE \A j \in DOMAIN docs'[c].lines :
                      \E k \in DOMAIN docs' : \E i \in DOMAIN docs'[k].lines :
                        /\ Bills(docs'[k].type)
                        /\ docs'[c].lines[j].cancels = <<k, i>>
                        /\ docs'[c].lines[j].decision = docs'[k].lines[i].decision
                        /\ docs'[c].lines[j].amount = -docs'[k].lines[i].amount
    BY <1>0 DEF BillInv, DocInv, DocShape, Bill, Undoes, Cites
  <2>2. CASE Bills(r.type)
    <3>1. Presents(r.lines)
      BY <1>0, <2>2 DEF Shape
    <3>2. \A d \in Pinned(p) : Presented(p, d) = Decided(p, d)
      BY DEF CommitDocument, Agrees
    <3>3. ASSUME NEW d \in Decision, \E i \in DOMAIN r.lines : r.lines[i].decision = d
          PROVE  Charges(r.lines, d) = DecisionTax[d]
      <4>1. d \in Pinned(p)
        BY <3>3 DEF Pinned
      <4>2. Presented(p, d) = Charges(r.lines, d)
        BY DEF Presented, Charges
      <4>3. Decided(p, d) = DecisionTax[d]
        BY <2>2 DEF Decided
      <4> QED  BY <3>2, <4>1, <4>2, <4>3
    <3> QED
      BY <1>0, <2>1, <2>2, <3>1, <3>3 DEF DocShape, Bill, Undoes, Cites
  <2>3. CASE ~Bills(r.type)
    <3>1. /\ Cancels(r) /\ r.of \in DOMAIN docs /\ Bill(r.of)
      BY <1>0, <2>3 DEF Shape, Bills
    <3>2. \A j \in DOMAIN r.lines : \E i \in DOMAIN docs[r.of].lines :
            /\ r.lines[j].cancels = <<r.of, i>>
            /\ r.lines[j].decision = docs[r.of].lines[i].decision
            /\ r.lines[j].amount = -docs[r.of].lines[i].amount
      BY <3>1 DEF Cancels, Undoes, LinesLeft
    <3> QED
      BY <1>0, <2>1, <2>3, <3>1, <3>2 DEF DocShape, Bill, Undoes, Cites
  <2> QED  BY <2>2, <2>3
<1>3. CancelledOnce'
  <2>1. ASSUME NEW c \in DOMAIN docs, NEW j \in DOMAIN docs[c].lines,
               NEW l \in DOMAIN r.lines,
               docs[c].lines[j].cancels # Absent,
               docs[c].lines[j].cancels = r.lines[l].cancels
        PROVE  FALSE
    <3>1. ~Bills(r.type)
      BY <1>0, <2>1 DEF Shape, Presents
    <3>2. PICK i \in LinesLeft(r.of) : r.lines[l].cancels = <<r.of, i>>
      BY <1>0, <3>1 DEF Cancels, Undoes
    <3>3. i \in DOMAIN docs[r.of].lines /\ i \notin CancelledLines(r.of)
      BY DEF LinesLeft
    <3> QED  BY <2>1, <3>2, <3>3 DEF CancelledLines
  <2>2. \A l, m \in DOMAIN r.lines :
          r.lines[l].cancels # Absent /\ r.lines[l].cancels = r.lines[m].cancels => l = m
    BY <1>0 DEF Shape, Presents, Cancels
  <2>3. \A c, e \in DOMAIN docs : \A j \in DOMAIN docs[c].lines, l \in DOMAIN docs[e].lines :
          /\ docs[c].lines[j].cancels # Absent
          /\ docs[c].lines[j].cancels = docs[e].lines[l].cancels
          => c = e /\ j = l
    BY DEF BillInv, DocInv, CancelledOnce
  <2>4. ASSUME NEW c \in DOMAIN docs', NEW e \in DOMAIN docs',
               NEW j \in DOMAIN docs'[c].lines, NEW l \in DOMAIN docs'[e].lines,
               docs'[c].lines[j].cancels # Absent,
               docs'[c].lines[j].cancels = docs'[e].lines[l].cancels
        PROVE  c = e /\ j = l
    <3>1. CASE c # n /\ e # n
      BY <1>0, <2>3, <2>4, <3>1
    <3>2. CASE c = n /\ e = n
      BY <1>0, <2>2, <2>4, <3>2
    <3>3. CASE c # n /\ e = n
      BY <1>0, <2>1, <2>4, <3>3
    <3>4. CASE c = n /\ e # n
      BY <1>0, <2>1, <2>4, <3>4
    <3> QED  BY <3>1, <3>2, <3>3, <3>4
  <2> QED  BY <2>4 DEF CancelledOnce
<1>4. Dated'
  <2>1. \A c \in DOMAIN docs : docs[c].history \in Seq(DocStatus) /\ docs[c].history # <<>>
    BY <1>0, DocTypesAt DEF BillInv, DocInv, Dated, Document
  <2>2. After(p) \in Seq(DocStatus)
    <3>1. /\ <<"VOIDED">> \in Seq(DocStatus) /\ <<>> \in Seq(DocStatus)
          /\ <<"FULLY_CREDITED">> \in Seq(DocStatus)
          /\ <<"PARTIALLY_CREDITED">> \in Seq(DocStatus)
      BY DEF DocStatus
    <3> QED  BY <3>1, AfterIs
  <2>3. \A c \in DOMAIN docs : docs[c].history \o After(p) # <<>>
    BY <2>1, <2>2
  <2>4. \A c \in DOMAIN docs : docs'[c].history # <<>>
    <3>1. TAKE c \in DOMAIN docs
    <3>2. docs'[c].history = docs[c].history \/ docs'[c].history = docs[c].history \o After(p)
      BY <1>0
    <3> QED  BY <2>1, <2>3, <3>2
  <2>5. docs'[n].history # <<>>
    BY <1>0
  <2> QED  BY <1>0, <2>4, <2>5 DEF Dated
<1>5. StatusTellsCancelled'
  <2>1. ASSUME NEW k \in DOMAIN docs, Bills(docs[k].type)
        PROVE  /\ Releases(StatusOf(k)') <=> LinesLeft(k)' = {}
               /\ StatusOf(k)' = "COMMITTED" <=> CancelledLines(k)' = {}
    <3>1. CASE k # r.of \/ Bills(r.type)
      <4>1. /\ Releases(StatusOf(k)) <=> LinesLeft(k) = {}
            /\ StatusOf(k) = "COMMITTED" <=> CancelledLines(k) = {}
        BY <2>1 DEF BillInv, DocInv, StatusTellsCancelled
      <4> QED  BY <1>1, <3>1, <4>1
    <3>2. CASE k = r.of /\ ~Bills(r.type)
      BY <3>2, CommitStatus
    <3> QED  BY <3>1, <3>2
  <2>2. Bills(r.type) =>
          /\ Releases(StatusOf(n)') <=> LinesLeft(n)' = {}
          /\ StatusOf(n)' = "COMMITTED" <=> CancelledLines(n)' = {}
    <3>1. StatusOf(n)' = "COMMITTED"
      BY CommitStatus
    <3>2. LinesLeft(n)' = DOMAIN r.lines
      BY <1>0, <1>1 DEF LinesLeft
    <3> QED  BY <1>0, <1>1, <3>1, <3>2 DEF Shape, Presents, Releases
  <2> QED  BY <1>0, <2>1, <2>2 DEF StatusTellsCancelled, Bills, Releases
<1>6. OneStands'
  <2>1. ASSUME NEW d \in Decision, NEW j \in StandsFor(d)', NEW k \in StandsFor(d)'
        PROVE  j = k
    <3>1. d \in r.checked => StandsFor(d) = {}
      BY <1>0 DEF Shape
    <3>2. \A m \in StandsFor(d)' : m \in StandsFor(d) \/ (m = n /\ d \in r.checked)
      BY CommitStanding
    <3> QED  BY <2>1, <3>1, <3>2 DEF BillInv, DocInv, OneStands
  <2> QED  BY <2>1 DEF OneStands
<1> QED  BY <1>2, <1>3, <1>4, <1>5, <1>6 DEF DocInv

(* What the others chose is still left: their chains are not this one, and *)
(* no document comes to stand for a decision they checked.                 *)
LEMMA CommitOthers ==
  ASSUME BillInv, NEW p \in Proc, CommitDocument(p),
         NEW q \in Proc, q # p, NEW s, s = tx[q], s # Absent
  PROVE  Shape(s)'
<1> DEFINE r == tx[p]
           n == Len(docs) + 1
<1>0. /\ r # Absent /\ Shape(r) /\ r \in Request
      /\ r.of # Absent => Locked(r)
      /\ DOMAIN docs' = DOMAIN docs \cup {n}
      /\ \A k \in DOMAIN docs :
           docs'[k].type = docs[k].type /\ docs'[k].lines = docs[k].lines
  <2>1. r # Absent
    BY DEF CommitDocument, Read
  <2> QED  BY <2>1, NewDocument
<1>1. Shape(s) /\ Apart(r, s)
  BY <1>0 DEF BillInv, CallInv
<1>2. r.of = Absent => Bills(r.type)
  BY <1>0 DEF Shape, Bills
<1>3. Locked(s) =>
        /\ s.of \in DOMAIN docs /\ docs'[s.of].type = docs[s.of].type
        /\ docs'[s.of].lines = docs[s.of].lines
        /\ LinesLeft(s.of)' = LinesLeft(s.of)
        /\ StatusOf(s.of)' = StatusOf(s.of)
  <2> SUFFICES ASSUME Locked(s) PROVE
        /\ s.of \in DOMAIN docs /\ docs'[s.of].type = docs[s.of].type
        /\ docs'[s.of].lines = docs[s.of].lines
        /\ LinesLeft(s.of)' = LinesLeft(s.of)
        /\ StatusOf(s.of)' = StatusOf(s.of)
    OBVIOUS
  <2>1. s.of \in DOMAIN docs /\ (s.of # r.of \/ Bills(r.type))
    BY <1>0, <1>1, <1>2 DEF Shape, Locked, Apart
  <2>2. /\ LinesLeft(s.of)' = LinesLeft(s.of)
        /\ StatusOf(s.of)' = StatusOf(s.of)
    <3>1. \A k \in DOMAIN docs : k # r.of \/ Bills(r.type) =>
            /\ CancelledLines(k)' = CancelledLines(k)
            /\ LinesLeft(k)' = LinesLeft(k)
            /\ StatusOf(k)' = StatusOf(k)
      BY CommitCancels
    <3> QED  BY <2>1, <3>1
  <2> QED  BY <1>0, <2>1, <2>2
<1>4. ASSUME NEW d \in s.checked
      PROVE  StandsFor(d)' = {}
  <2>1. StandsFor(d) = {} /\ d \notin r.checked
    BY <1>1 DEF Shape, Apart
  <2>2. \A k \in StandsFor(d)' : k \in StandsFor(d) \/ (k = n /\ d \in r.checked)
    BY CommitStanding
  <2> QED  BY <2>1, <2>2
<1>5. Locked(s) => Bills(docs'[s.of].type) /\ (~Bills(s.type) => Cancels(s)')
  <2> SUFFICES ASSUME Locked(s)
               PROVE  Bills(docs'[s.of].type) /\ (~Bills(s.type) => Cancels(s)')
    OBVIOUS
  <2>1. Bills(docs'[s.of].type)
    BY <1>1, <1>3 DEF Shape, Bill
  <2>2. ~Bills(s.type) => Cancels(s)
    BY <1>1 DEF Shape
  <2> QED  BY <1>3, <2>1, <2>2 DEF Cancels, Undoes
<1>6. s.of # Absent => s.of \in DOMAIN docs'
  BY <1>0, <1>1 DEF Shape
<1> QED  BY <1>1, <1>4, <1>5, <1>6 DEF Shape, Locked, Bill, Bills

LEMMA CommitKeeps ==
  ASSUME BillInv, NEW p \in Proc, CommitDocument(p)
  PROVE  BillInv'
<1>0. DocTypes
  BY DEF BillInv
<1>1. /\ tx' = [tx EXCEPT ![p] = Absent] /\ DocTypes'
      /\ \A k \in DOMAIN docs : docs'[k].root = docs[k].root
  BY NewDocument
<1>2. tx'[p] = Absent /\ \A q \in Proc : q # p => tx'[q] = tx[q]
  BY <1>0, <1>1 DEF DocTypes
<1>3. DocInv'
  BY CommitDocs
<1>4. ASSUME NEW q \in Proc, tx'[q] # Absent
      PROVE  Shape(tx[q])'
  <2>1. PICK s : s = tx[q]
    OBVIOUS
  <2>2. tx'[q] = s /\ q # p
    BY <1>2, <1>4, <2>1
  <2>3. Shape(s)'
    BY <1>4, <2>1, <2>2, CommitOthers
  <2> QED  BY <2>2, <2>3
<1>5. ASSUME NEW q \in Proc, NEW u \in Proc, q # u, tx'[q] # Absent, tx'[u] # Absent
      PROVE  Apart(tx[q], tx[u])'
  <2>1. PICK s : s = tx[q]
    OBVIOUS
  <2>2. PICK t : t = tx[u]
    OBVIOUS
  <2>3. tx'[q] = s /\ tx'[u] = t
    BY <1>2, <1>5, <2>1, <2>2
  <2>4. Apart(s, t) /\ Shape(s) /\ Shape(t)
    BY <1>2, <1>5, <2>1, <2>2 DEF BillInv, CallInv
  <2>5. Apart(s, t)'
    BY <1>1, <2>4 DEF Apart, Locked, Shape
  <2> QED  BY <2>3, <2>5
<1> QED  BY <1>1, <1>3, <1>4, <1>5 DEF BillInv, CallInv

LEMMA BillStep ==
  ASSUME BillInv, [DocumentsNext]_documentVars
  PROVE  BillInv'
<1>1. ASSUME NEW p \in Proc, Issue(p) \/ Correct(p) PROVE BillInv'
  BY <1>1, AsksKeep
<1>2. ASSUME NEW p \in Proc, LockChain(p) PROVE BillInv'
  BY <1>2, LockChainKeeps
<1>3. ASSUME NEW p \in Proc, LockDecision(p) PROVE BillInv'
  BY <1>3, LockDecisionKeeps
<1>4. ASSUME NEW p \in Proc, CommitDocument(p) PROVE BillInv'
  BY <1>4, CommitKeeps
<1>5. ASSUME NEW p \in Proc, RefuseVariance(p) \/ Abandon(p) PROVE BillInv'
  <2>1. tx' = [tx EXCEPT ![p] = Absent] /\ UNCHANGED docs
    BY <1>5 DEF RefuseVariance, Abandon
  <2> QED  BY <2>1, EndKeeps
<1>6. CASE UNCHANGED <<docs, tx>>
  <2>1. DocTypes'
    BY <1>6 DEF BillInv, DocTypes
  <2>2. CASE Proc = {}
    <3>1. CallInv'
      BY <2>2 DEF CallInv
    <3>2. DocInv'
      BY <1>6, DocsStay DEF BillInv
    <3> QED  BY <2>1, <3>1, <3>2 DEF BillInv
  <2>3. CASE Proc # {}
    <3>1. PICK p \in Proc : TRUE
      BY <2>3
    <3>2. \A q \in Proc : tx'[q] = tx[q] /\ (tx[q] # Absent => Shape(tx[q]))
      BY <1>6 DEF BillInv, CallInv
    <3>3. tx[p] # Absent => \A q \in Proc \ {p} : tx[q] # Absent => Apart(tx[p], tx[q])
      BY DEF BillInv, CallInv
    <3> QED  BY <1>6, <2>1, <3>2, <3>3, CallMoves
  <2> QED  BY <2>2, <2>3
<1>7. ASSUME NEW d \in Decision, Supersede(d) PROVE BillInv'
  BY <1>6, <1>7 DEF Supersede
<1> QED
  BY <1>1, <1>2, <1>3, <1>4, <1>5, <1>6, <1>7 DEF DocumentsNext, Step, documentVars

LEMMA BillAlways == DocumentsSpec => []BillInv
<1>1. DocumentsInit => BillInv
  BY BillInit
<1>2. BillInv /\ [DocumentsNext]_documentVars => BillInv'
  BY BillStep
<1> QED  BY <1>1, <1>2, PTL DEF DocumentsSpec

(* A billing document's status says what its chain has cancelled of it: it *)
(* releases its decisions when no line of it is left, and is COMMITTED     *)
(* while every line is (After in commit, decided under the chain's lock).  *)
THEOREM StatusesTell == DocumentsSpec => []StatusTellsCancelled
<1>1. BillInv => StatusTellsCancelled
  BY DEF BillInv, DocInv
<1> QED  BY <1>1, BillAlways, PTL

-----------------------------------------------------------------------------
(* What the documents charge                                               *)

LEMMA TotalIsSum ==
  ASSUME NEW S, IsFiniteSet(S), NEW f, \A x \in S : f[x] \in Int
  PROVE  Total(f, S) = Sum(f, S)
<1>1. PICK F : Additive(F, f, S)
  BY AdditiveExists
<1>2. Peels(F, f, S)
  BY <1>1, AdditivePeels
<1>3. \E it : Peels(it, f, S) /\ Total(f, S) = it[S]
  BY <1>2 DEF Total, MapThenSumSet, MapThenFoldSet, Peels
<1> QED  BY <1>1, <1>3, PeelsAdditive, SumIsAdditive

(* What each decision is charged, told by the lines: those of the bills    *)
(* that are cancelled sum to nothing with the lines that undo them.        *)
OnDecision(d) == {x \in Refs : LineAt(x).decision = d}
Undoing(d) == {x \in OnDecision(d) : ~Bill(x[1])}
Undone(d) == {x \in OnDecision(d) : Bill(x[1]) /\ x[2] \in CancelledLines(x[1])}
Uncancelled(d) == {x \in OnDecision(d) : Bill(x[1]) /\ x[2] \in LinesLeft(x[1])}

LEMMA RefsAre ==
  ASSUME DocTypes
  PROVE  /\ IsFiniteSet(Refs)
         /\ \A x : x \in Refs <=>
              \E k \in DOMAIN docs : \E i \in DOMAIN docs[k].lines : x = <<k, i>>
         /\ \A x \in Refs :
              /\ x[1] \in DOMAIN docs /\ x[2] \in DOMAIN docs[x[1]].lines
              /\ x = <<x[1], x[2]>>
              /\ LineAt(x) \in Line /\ Amounts[x] = LineAt(x).amount
              /\ Amounts[x] \in Int
<1>1. \A x : x \in Refs <=>
        \E k \in DOMAIN docs : \E i \in DOMAIN docs[k].lines : x = <<k, i>>
  BY DEF Refs
<1>2. ASSUME NEW k \in DOMAIN docs
      PROVE  /\ IsFiniteSet({k} \X DOMAIN docs[k].lines)
             /\ \A i \in DOMAIN docs[k].lines : docs[k].lines[i] \in Line
  <2>1. docs[k].lines \in Seq(Line)
    BY DocTypesAt DEF Document
  <2>2. DOMAIN docs[k].lines = 1..Len(docs[k].lines) /\ Len(docs[k].lines) \in Nat
    BY <2>1
  <2>3. IsFiniteSet(DOMAIN docs[k].lines) /\ IsFiniteSet({k})
    <3>1. IsFiniteSet(1..Len(docs[k].lines))
      BY <2>2, FS_Interval
    <3>2. IsFiniteSet({k})
      BY FS_Singleton
    <3> QED  BY <2>2, <3>1, <3>2
  <2>4. \A i \in DOMAIN docs[k].lines : docs[k].lines[i] \in Line
    BY <2>1
  <2> QED  BY <2>3, <2>4, FS_Product
<1>3. IsFiniteSet(Refs)
  <2> DEFINE part == [k \in DOMAIN docs |-> {k} \X DOMAIN docs[k].lines]
             parts == {part[k] : k \in DOMAIN docs}
  <2>1. DOMAIN docs = 1..Len(docs) /\ Len(docs) \in Nat
    BY DEF DocTypes
  <2>2. IsFiniteSet(DOMAIN docs)
    BY <2>1, FS_Interval
  <2>3. part \in Surjection(DOMAIN docs, parts)
    BY DEF Surjection
  <2>4. IsFiniteSet(parts)
    <3> HIDE DEF part, parts
    <3> QED  BY <2>2, <2>3, FS_Surjection
  <2>5. \A P \in parts : IsFiniteSet(P)
    BY <1>2
  <2>6. Refs = UNION parts
    BY DEF Refs
  <2> HIDE DEF parts
  <2> QED  BY <2>4, <2>5, <2>6, FS_UNION
<1>4. ASSUME NEW x \in Refs
      PROVE  /\ x[1] \in DOMAIN docs /\ x[2] \in DOMAIN docs[x[1]].lines
             /\ x = <<x[1], x[2]>>
             /\ LineAt(x) \in Line /\ Amounts[x] = LineAt(x).amount
             /\ Amounts[x] \in Int
  <2>1. PICK k \in DOMAIN docs : \E i \in DOMAIN docs[k].lines : x = <<k, i>>
    BY <1>1
  <2>2. PICK i \in DOMAIN docs[k].lines : x = <<k, i>>
    BY <2>1
  <2>3. x[1] = k /\ x[2] = i
    BY <2>2
  <2>4. LineAt(x) = docs[k].lines[i] /\ docs[k].lines[i] \in Line
    BY <1>2, <2>3 DEF LineAt
  <2>5. Amounts[x] = LineAt(x).amount
    BY DEF Amounts
  <2>6. docs[k].lines[i].amount \in Int
    BY <2>4 DEF Line
  <2> QED  BY <2>2, <2>3, <2>4, <2>5, <2>6
<1> QED  BY <1>1, <1>3, <1>4

LEMMA UndoneSumToNothing ==
  ASSUME BillInv, NEW d \in Decision
  PROVE  Sum(Amounts, Undoing(d)) + Sum(Amounts, Undone(d)) = 0
<1> DEFINE f == Amounts
           A == Undoing(d)
           B == Undone(d)
           g == [x \in A |-> LineAt(x).cancels]
<1>0. DocTypes
  BY DEF BillInv
<1>1. \A x \in A \cup B : x \in Refs /\ LineAt(x).decision = d
  BY DEF Undoing, Undone, OnDecision
<1>2. IsFiniteSet(A) /\ IsFiniteSet(B)
  <2>1. A \subseteq Refs /\ B \subseteq Refs
    BY <1>1
  <2> QED  BY <1>0, <2>1, RefsAre, FS_Subset
<1>3. \A x \in Refs : x # Absent
  <2>1. \A k \in DOMAIN docs : \A i \in DOMAIN docs[k].lines : k \in Nat /\ i \in Nat
    <3>1. \A k \in DOMAIN docs : k \in Nat /\ docs[k].lines \in Seq(Line)
      BY <1>0, DocTypesAt DEF Document
    <3> QED  BY <3>1
  <2> QED  BY <1>0, <2>1, RefsAre, AbsentAssumption
<1>4. ASSUME NEW x \in A
      PROVE  g[x] \in B /\ f[x] = -f[g[x]] /\ g[x] = docs[x[1]].lines[x[2]].cancels
  <2>1. /\ x[1] \in DOMAIN docs /\ x[2] \in DOMAIN docs[x[1]].lines /\ ~Bill(x[1])
        /\ LineAt(x) = docs[x[1]].lines[x[2]]
        /\ f[x] = docs[x[1]].lines[x[2]].amount
    BY <1>0, <1>1, RefsAre DEF Undoing, LineAt
  <2>2. PICK k \in DOMAIN docs : \E i \in DOMAIN docs[k].lines :
          Bill(k) /\ Undoes(docs[x[1]].lines[x[2]], k, i)
    BY <2>1 DEF BillInv, DocInv, DocShape
  <2>3. PICK i \in DOMAIN docs[k].lines :
          Bill(k) /\ Undoes(docs[x[1]].lines[x[2]], k, i)
    BY <2>2
  <2>4. PICK y : y = <<k, i>>
    OBVIOUS
  <2>5. g[x] = y /\ g[x] = docs[x[1]].lines[x[2]].cancels
    BY <2>1, <2>3, <2>4 DEF Undoes
  <2>6. y \in Refs /\ y[1] = k /\ y[2] = i
    BY <1>0, <2>4, RefsAre
  <2>7. LineAt(y) = docs[k].lines[i] /\ f[y] = docs[k].lines[i].amount
        /\ f[y] \in Int
    BY <1>0, <2>6, RefsAre DEF LineAt
  <2>8. i \in CancelledLines(k)
    BY <2>1, <2>3 DEF Undoes, CancelledLines
  <2>9. docs[k].lines[i].decision = d
    BY <1>1, <2>1, <2>3 DEF Undoes
  <2>10. y \in B
    BY <2>3, <2>6, <2>7, <2>8, <2>9 DEF Undone, OnDecision
  <2>11. f[x] = -f[y]
    BY <2>1, <2>3, <2>7 DEF Undoes
  <2> HIDE DEF g
  <2> QED  BY <2>5, <2>10, <2>11
<1>5. ASSUME NEW x \in A, NEW y \in A, g[x] = g[y]
      PROVE  x = y
  <2>1. /\ x \in Refs /\ y \in Refs
        /\ docs[x[1]].lines[x[2]].cancels = docs[y[1]].lines[y[2]].cancels
        /\ docs[x[1]].lines[x[2]].cancels # Absent
    <3>1. g[x] \in Refs
      BY <1>1, <1>4
    <3> HIDE DEF g
    <3> QED  BY <1>1, <1>3, <1>4, <1>5, <3>1
  <2>2. x[1] = y[1] /\ x[2] = y[2]
    BY <1>0, <2>1, RefsAre DEF BillInv, DocInv, CancelledOnce
  <2> QED  BY <1>0, <2>1, <2>2, RefsAre
<1>6. ASSUME NEW b \in B
      PROVE  \E x \in A : b = g[x]
  <2>1. /\ b \in Refs /\ b[1] \in DOMAIN docs /\ b[2] \in DOMAIN docs[b[1]].lines
        /\ b = <<b[1], b[2]>> /\ Bill(b[1]) /\ b[2] \in CancelledLines(b[1])
        /\ docs[b[1]].lines[b[2]].decision = d
    BY <1>0, <1>1, RefsAre DEF Undone, LineAt
  <2>2. PICK c \in DOMAIN docs : \E j \in DOMAIN docs[c].lines :
          docs[c].lines[j].cancels = b
    BY <2>1 DEF CancelledLines
  <2>3. PICK j \in DOMAIN docs[c].lines : docs[c].lines[j].cancels = b
    BY <2>2
  <2>4. ~Bill(c)
    BY <1>3, <2>1, <2>3 DEF BillInv, DocInv, DocShape, Presents
  <2>5. PICK k \in DOMAIN docs : \E i \in DOMAIN docs[k].lines :
          Undoes(docs[c].lines[j], k, i)
    BY <2>3, <2>4 DEF BillInv, DocInv, DocShape
  <2>6. PICK i \in DOMAIN docs[k].lines : Undoes(docs[c].lines[j], k, i)
    BY <2>5
  <2>7. k = b[1] /\ i = b[2]
    <3>1. <<k, i>> = <<b[1], b[2]>>
      BY <2>1, <2>3, <2>6 DEF Undoes
    <3> QED  BY <3>1
  <2>8. docs[c].lines[j].decision = d
    BY <2>1, <2>6, <2>7 DEF Undoes
  <2>9. PICK x : x = <<c, j>>
    OBVIOUS
  <2>10. x \in Refs /\ x[1] = c /\ x[2] = j /\ LineAt(x) = docs[c].lines[j]
    BY <1>0, <2>9, RefsAre DEF LineAt
  <2>11. x \in A
    BY <2>4, <2>8, <2>10 DEF Undoing, OnDecision
  <2> QED  BY <2>3, <2>10, <2>11
<1>7. \A b \in B : f[b] \in Int
  BY <1>0, <1>1, RefsAre
<1>8. g \in [A -> B] /\ \A x \in A : f[x] = -f[g[x]]
  BY <1>4
<1> HIDE DEF f, g, A, B
<1>9. Sum(f, A) + Sum(f, B) = 0
  BY <1>2, <1>5, <1>6, <1>7, <1>8, SumImage
<1> QED  BY <1>9 DEF f, A, B

(* The lines of a decision undo, are undone, or are left.                  *)
LEMMA DocumentedIsLeft ==
  ASSUME BillInv, NEW d \in Decision
  PROVE  /\ Documented(d) = Sum(Amounts, Uncancelled(d))
         /\ Left(d) = Sum(Amounts, Uncancelled(d))
<1> DEFINE f == Amounts
           A == Undoing(d)
           B == Undone(d)
           U == Uncancelled(d)
<1>0. DocTypes
  BY DEF BillInv
<1>1. OnDecision(d) = (A \cup B) \cup U /\ (A \cup B) \cap U = {} /\ A \cap B = {}
  BY <1>0, RefsAre DEF Undoing, Undone, Uncancelled, OnDecision, LinesLeft
<1>2. IsFiniteSet(OnDecision(d)) /\ \A x \in OnDecision(d) : f[x] \in Int
  <2>1. OnDecision(d) \subseteq Refs
    BY DEF OnDecision
  <2> QED  BY <1>0, <2>1, RefsAre, FS_Subset
<1>3. Documented(d) = Sum(f, OnDecision(d))
  <2>1. Documented(d) = Total(f, OnDecision(d))
    BY DEF Documented, OnDecision
  <2> HIDE DEF f
  <2> QED  BY <1>2, <2>1, TotalIsSum
<1>4. Left(d) = Sum(f, U)
  <2>1. {x \in Refs : /\ x[1] \in StandsFor(d) /\ x[2] \in LinesLeft(x[1])
                      /\ LineAt(x).decision = d} = U
    <3>1. ASSUME NEW x \in Refs, LineAt(x).decision = d,
                 x[2] \in LinesLeft(x[1])
          PROVE  x[1] \in StandsFor(d) <=> Bill(x[1])
      <4>1. /\ x[1] \in DOMAIN docs /\ x[2] \in DOMAIN docs[x[1]].lines
            /\ docs[x[1]].lines[x[2]].decision = d
        BY <1>0, <3>1, RefsAre DEF LineAt
      <4>2. Bill(x[1]) => ~Releases(StatusOf(x[1]))
        BY <3>1, <4>1 DEF BillInv, DocInv, StatusTellsCancelled, Bill
      <4> QED  BY <4>1, <4>2 DEF StandsFor, CitedBy, Cites, Bill
    <3> QED  BY <3>1 DEF Uncancelled, OnDecision
  <2>2. Left(d) = Total(f, U)
    BY <2>1 DEF Left
  <2>3. IsFiniteSet(U) /\ \A x \in U : f[x] \in Int
    BY <1>1, <1>2, FS_Subset
  <2> HIDE DEF f, U
  <2> QED  BY <2>2, <2>3, TotalIsSum
<1>5. Sum(f, A) + Sum(f, B) = 0
  BY UndoneSumToNothing
<1> HIDE DEF f, A, B, U
<1>6. IsFiniteSet(A \cup B) /\ IsFiniteSet(U)
  BY <1>1, <1>2, FS_Subset
<1>7. Sum(f, A \cup B) = Sum(f, A) + Sum(f, B)
  BY <1>1, <1>2, <1>6, SumUnion
<1>8. Sum(f, OnDecision(d)) = Sum(f, A \cup B) + Sum(f, U)
  <2>1. IsFiniteSet((A \cup B) \cup U) /\ \A x \in (A \cup B) \cup U : f[x] \in Int
    BY <1>1, <1>2
  <2>2. Sum(f, (A \cup B) \cup U) = Sum(f, A \cup B) + Sum(f, U)
    BY <1>1, <2>1, SumUnion
  <2> QED  BY <1>1, <2>2
<1>9. Sum(f, U) \in Int
  BY <1>1, <1>2, <1>6, SumType
<1>10. Documented(d) = Sum(f, U)
  BY <1>3, <1>5, <1>7, <1>8, <1>9
<1> QED  BY <1>4, <1>10 DEF f, U

(* Nothing of a document that still is COMMITTED has been cancelled: what  *)
(* is left of the decision is what was decided.                            *)
LEMMA CommittedChargesAll ==
  ASSUME BillInv, NEW d \in Decision, NEW k \in StandsFor(d),
         StatusOf(k) = "COMMITTED"
  PROVE  Sum(Amounts, Uncancelled(d)) = DecisionTax[d]
<1> DEFINE f == Amounts
           lines == docs[k].lines
           I == {i \in DOMAIN lines : lines[i].decision = d}
           U == Uncancelled(d)
           h == [i \in DOMAIN lines |-> lines[i].amount]
           g == [i \in I |-> <<k, i>>]
<1>0. DocTypes
  BY DEF BillInv
<1>1. k \in DOMAIN docs /\ Bill(k) /\ Cites(k, d)
  BY DEF StandsFor, CitedBy, Bill
<1>2. LinesLeft(k) = DOMAIN lines
  BY <1>1 DEF BillInv, DocInv, StatusTellsCancelled, Bill, LinesLeft
<1>3. \A x : x \in U <=> \E i \in I : x = <<k, i>>
  <2>1. ASSUME NEW x \in U PROVE \E i \in I : x = <<k, i>>
    <3>1. /\ x \in Refs /\ Bill(x[1]) /\ x[2] \in LinesLeft(x[1])
          /\ LineAt(x).decision = d
      BY DEF Uncancelled, OnDecision
    <3>2. /\ x[1] \in DOMAIN docs /\ x[2] \in DOMAIN docs[x[1]].lines
          /\ x = <<x[1], x[2]>> /\ docs[x[1]].lines[x[2]].decision = d
      BY <1>0, <3>1, RefsAre DEF LineAt
    <3>3. ~Releases(StatusOf(x[1]))
      BY <3>1, <3>2 DEF BillInv, DocInv, StatusTellsCancelled, Bill
    <3>4. x[1] \in StandsFor(d)
      BY <3>1, <3>2, <3>3 DEF StandsFor, CitedBy, Cites, Bill
    <3>5. x[1] = k
      BY <3>4 DEF BillInv, DocInv, OneStands
    <3> QED  BY <3>2, <3>5
  <2>2. ASSUME NEW i \in I PROVE <<k, i>> \in U
    <3>1. PICK x : x = <<k, i>>
      OBVIOUS
    <3>2. x \in Refs /\ x[1] = k /\ x[2] = i
      BY <1>0, <1>1, <3>1, RefsAre
    <3>3. x \in U
      BY <1>1, <1>2, <3>2 DEF Uncancelled, OnDecision, LineAt
    <3> QED  BY <3>1, <3>3
  <2> QED  BY <2>1, <2>2
<1>4. IsFiniteSet(U) /\ \A x \in U : f[x] \in Int
  <2>1. U \subseteq Refs
    BY DEF Uncancelled, OnDecision
  <2> QED  BY <1>0, <2>1, RefsAre, FS_Subset
<1>5. IsFiniteSet(I) /\ \A i \in I : h[i] \in Int
  <2>1. lines \in Seq(Line)
    BY <1>0, <1>1, DocTypesAt DEF Document
  <2>2. DOMAIN lines = 1..Len(lines) /\ Len(lines) \in Nat
    BY <2>1
  <2>3. IsFiniteSet(DOMAIN lines)
    BY <2>2, FS_Interval
  <2>4. IsFiniteSet(I)
    BY <2>3, FS_Subset
  <2>5. \A i \in DOMAIN lines : lines[i] \in Line
    BY <2>1
  <2>6. \A i \in I : lines[i].amount \in Int
    BY <2>5 DEF Line
  <2> QED  BY <2>4, <2>6
<1>6. \A i \in I : h[i] = f[<<k, i>>]
  <2> TAKE i \in I
  <2>1. PICK x : x = <<k, i>>
    OBVIOUS
  <2>2. x \in Refs /\ x[1] = k /\ x[2] = i
    BY <1>0, <1>1, <2>1, RefsAre
  <2>3. f[x] = docs[k].lines[i].amount
    BY <1>0, <2>2, RefsAre DEF LineAt
  <2> QED  BY <2>1, <2>3
<1>7. Charges(lines, d) = DecisionTax[d]
  BY <1>1 DEF BillInv, DocInv, DocShape
<1>8. Charges(lines, d) = Total(h, I)
  BY DEF Charges
<1>9. /\ g \in [I -> U] /\ \A i, j \in I : g[i] = g[j] => i = j
      /\ \A x \in U : \E i \in I : x = g[i]
      /\ \A i \in I : h[i] = f[g[i]]
  <2>1. \A i \in I : g[i] = <<k, i>> /\ g[i] \in U
    BY <1>3
  <2>2. \A i, j \in I : <<k, i>> = <<k, j>> => i = j
    OBVIOUS
  <2>3. \A i \in I : h[i] = f[g[i]]
    BY <1>6, <2>1
  <2>4. \A x \in U : \E i \in I : x = g[i]
    BY <1>3, <2>1
  <2> HIDE DEF f, h, U, I
  <2> QED  BY <2>1, <2>2, <2>3, <2>4
<1> HIDE DEF f, g, h, I, U
<1>10. Sum(h, I) = Sum(f, U)
  BY <1>4, <1>5, <1>9, SumImage
<1>11. Total(h, I) = Sum(h, I)
  BY <1>5, TotalIsSum
<1> QED  BY <1>7, <1>8, <1>10, <1>11 DEF f, U

(* Whatever is issued, voided, credited and rebilled at once, at most one  *)
(* document bills a decision, and all its documents together charge what   *)
(* is left of that one: what was decided until a line of it is credited,   *)
(* and nothing when none stands (the billing lock of billedOnce, the       *)
(* chain's lock, and the lines commit reads as cancelled).                 *)
THEOREM DecisionsChargedOnce == DocumentsSpec => []ChargedAsDecided
<1>1. ASSUME BillInv PROVE ChargedAsDecided
  <2>1. ASSUME NEW d \in Decision
        PROVE  /\ \A j, k \in StandsFor(d) : j = k
               /\ Documented(d) = Left(d)
               /\ \A k \in StandsFor(d) :
                    StatusOf(k) = "COMMITTED" => Documented(d) = DecisionTax[d]
    <3>1. \A j, k \in StandsFor(d) : j = k
      BY <1>1 DEF BillInv, DocInv, OneStands
    <3>2. /\ Documented(d) = Sum(Amounts, Uncancelled(d))
          /\ Left(d) = Sum(Amounts, Uncancelled(d))
      BY <1>1, DocumentedIsLeft
    <3>3. \A k \in StandsFor(d) : StatusOf(k) = "COMMITTED" =>
            Sum(Amounts, Uncancelled(d)) = DecisionTax[d]
      BY <1>1, CommittedChargesAll
    <3> QED  BY <3>1, <3>2, <3>3
  <2> QED  BY <2>1 DEF ChargedAsDecided
<1> QED  BY <1>1, BillAlways, PTL

-----------------------------------------------------------------------------
(* What else is kept of documents                                          *)

(* A call reserves the document it may commit.                             *)
DocsFit == IsFiniteSet(Active) /\ Len(docs) + Cardinality(Active) <= MaxDocs

LEMMA FitInit == DocumentsInit => DocsFit /\ superseded \subseteq Decision
<1> SUFFICES ASSUME DocumentsInit PROVE DocsFit /\ superseded \subseteq Decision
  OBVIOUS
<1>1. docs = <<>> /\ superseded = {} /\ Active = {}
  BY DEF DocumentsInit, Active
<1>2. IsFiniteSet({}) /\ Cardinality({}) = 0 /\ Len(docs) = 0
  BY <1>1, FS_EmptySet
<1> QED  BY <1>1, <1>2, BoundAssumption DEF DocsFit

(* A call that goes on keeps its document, one that ends frees it.         *)
LEMMA FitKept ==
  ASSUME BillInv, DocsFit, UNCHANGED docs, NEW p \in Proc, tx[p] # Absent,
         \A q \in Proc : q # p => tx'[q] = tx[q]
  PROVE  DocsFit'
<1>1. Active' \subseteq Active
  BY DEF Active
<1>2. /\ IsFiniteSet(Active') /\ Cardinality(Active') <= Cardinality(Active)
      /\ Cardinality(Active') \in Nat /\ Cardinality(Active) \in Nat
  BY <1>1, FS_Subset, FS_CardinalityType DEF DocsFit
<1>3. Len(docs) \in Nat
  BY DEF BillInv, DocTypes
<1> QED  BY <1>2, <1>3, BoundAssumption DEF DocsFit

(* The document of a call that commits takes the place it kept.            *)
LEMMA FitCommitted ==
  ASSUME BillInv, DocsFit, NEW p \in Proc, CommitDocument(p)
  PROVE  DocsFit'
<1>1. tx \in [Proc -> Request \cup {Absent}] /\ docs \in Seq(Document)
  BY DEF BillInv, DocTypes
<1>2. tx[p] # Absent /\ tx' = [tx EXCEPT ![p] = Absent]
  BY DEF CommitDocument, Read
<1>3. p \in Active /\ Active' = Active \ {p}
  BY <1>1, <1>2 DEF Active
<1>4. /\ IsFiniteSet(Active') /\ Cardinality(Active') = Cardinality(Active) - 1
      /\ Cardinality(Active) \in Nat
  BY <1>3, FS_RemoveElement, FS_CardinalityType DEF DocsFit
<1>5. Len(docs') = Len(docs) + 1 /\ Len(docs) \in Nat
  <2>1. PICK moved, new : docs' = Append([k \in DOMAIN docs |-> moved[k]], new)
    <3> DEFINE moved == [k \in DOMAIN docs |->
          IF k = tx[p].of THEN [docs[k] EXCEPT !.history = @ \o After(p)] ELSE docs[k]]
    <3>1. \E new : docs' = Append(moved, new)
      BY DEF CommitDocument
    <3>2. moved = [k \in DOMAIN docs |-> moved[k]]
      OBVIOUS
    <3> HIDE DEF moved
    <3> QED  BY <3>1, <3>2
  <2>2. Len(docs) \in Nat /\ DOMAIN docs = 1..Len(docs)
    BY <1>1
  <2> DEFINE f == [k \in DOMAIN docs |-> moved[k]]
             V == {moved[k] : k \in DOMAIN docs} \cup {new}
  <2>3. f \in Seq(V) /\ Len(f) = Len(docs) /\ new \in V
    BY <2>2
  <2> HIDE DEF f, V
  <2>4. Len(Append(f, new)) = Len(f) + 1
    BY <2>3
  <2> QED  BY <2>1, <2>2, <2>3, <2>4 DEF f
<1> QED  BY <1>4, <1>5, BoundAssumption DEF DocsFit

LEMMA FitAsks ==
  ASSUME BillInv, DocsFit, NEW p \in Proc, NEW type, NEW k, NEW chosen, NEW lines,
         Ask(p, type, k, chosen, lines), BillInv'
  PROVE  DocsFit'
<1>1. tx \in [Proc -> Request \cup {Absent}] /\ tx' \in [Proc -> Request \cup {Absent}]
  BY DEF BillInv, DocTypes
<1>2. /\ tx[p] = Absent /\ Len(docs) + Cardinality(Active) < MaxDocs /\ docs' = docs
      /\ \A q \in Proc : q # p => tx'[q] = tx[q]
      /\ tx'[p] = [type |-> type, of |-> k, chosen |-> chosen,
                   lines |-> lines, seq |-> 0, checked |-> {}]
  BY <1>1 DEF Ask
<1>3. p \notin Active /\ Active' \subseteq Active \cup {p}
  BY <1>2 DEF Active
<1>4. /\ IsFiniteSet(Active \cup {p})
      /\ Cardinality(Active \cup {p}) = Cardinality(Active) + 1
      /\ Cardinality(Active) \in Nat
  BY <1>3, FS_AddElement, FS_CardinalityType DEF DocsFit
<1>5. /\ IsFiniteSet(Active') /\ Cardinality(Active') <= Cardinality(Active \cup {p})
      /\ Cardinality(Active') \in Nat
  BY <1>3, <1>4, FS_Subset, FS_CardinalityType
<1>6. Len(docs) \in Nat
  BY DEF BillInv, DocTypes
<1> QED  BY <1>2, <1>4, <1>5, <1>6, BoundAssumption DEF DocsFit

(* What the statements of a call leave alone.                              *)
LEMMA Statements ==
  ASSUME DocTypes, NEW p \in Proc
  PROVE  /\ Issue(p) \/ Correct(p) =>
              /\ UNCHANGED <<docs, superseded>>
              /\ \E type, k, chosen, lines : Ask(p, type, k, chosen, lines)
         /\ LockChain(p) \/ LockDecision(p) \/ RefuseVariance(p) \/ Abandon(p) =>
              /\ tx[p] # Absent /\ UNCHANGED <<docs, superseded>>
              /\ \A q \in Proc : q # p => tx'[q] = tx[q]
<1>1. tx \in [Proc -> Request \cup {Absent}]
  BY DEF DocTypes
<1>2. ASSUME NEW type, NEW k, NEW chosen, NEW lines, Ask(p, type, k, chosen, lines)
      PROVE  UNCHANGED <<docs, superseded>>
  BY <1>2 DEF Ask
<1>3. Issue(p) \/ Correct(p) => \E type, k, chosen, lines : Ask(p, type, k, chosen, lines)
  <2>1. Issue(p) => \E type, k, chosen, lines : Ask(p, type, k, chosen, lines)
    BY DEF Issue
  <2>2. Correct(p) => \E type, k, chosen, lines : Ask(p, type, k, chosen, lines)
    BY DEF Correct
  <2> QED  BY <2>1, <2>2
<1>4. ASSUME NEW r, tx' = [tx EXCEPT ![p] = r]
      PROVE  \A q \in Proc : q # p => tx'[q] = tx[q]
  BY <1>1, <1>4
<1>5. LockChain(p) => /\ tx[p] # Absent /\ UNCHANGED <<docs, superseded>>
                      /\ \E r : tx' = [tx EXCEPT ![p] = r]
  BY DEF LockChain, AwaitsChain
<1>6. LockDecision(p) => /\ tx[p] # Absent /\ UNCHANGED <<docs, superseded>>
                         /\ \E r : tx' = [tx EXCEPT ![p] = r]
  BY DEF LockDecision, Read
<1>7. RefuseVariance(p) \/ Abandon(p) => /\ tx[p] # Absent /\ UNCHANGED <<docs, superseded>>
                                         /\ \E r : tx' = [tx EXCEPT ![p] = r]
  BY DEF RefuseVariance, Abandon, Read
<1> QED  BY <1>2, <1>3, <1>4, <1>5, <1>6, <1>7

(* In what a step does, a call's statements or a decision's correction.    *)
LEMMA DocumentSteps ==
  ASSUME [DocumentsNext]_documentVars
  PROVE  \/ \E p \in Proc : Issue(p) \/ Correct(p)
         \/ \E p \in Proc : LockChain(p) \/ LockDecision(p) \/ RefuseVariance(p) \/ Abandon(p)
         \/ \E p \in Proc : CommitDocument(p)
         \/ \E d \in Decision : Supersede(d)
         \/ UNCHANGED <<docs, superseded, tx>>
  BY DEF DocumentsNext, documentVars, Step

LEMMA FitStep ==
  BillInv /\ BillInv' /\ DocsFit /\ [DocumentsNext]_documentVars => DocsFit'
<1> SUFFICES ASSUME BillInv, BillInv', DocsFit, [DocumentsNext]_documentVars PROVE DocsFit'
  OBVIOUS
<1>1. DocTypes
  BY DEF BillInv
<1>2. ASSUME NEW p \in Proc, Issue(p) \/ Correct(p) PROVE DocsFit'
  BY <1>1, <1>2, Statements, FitAsks
<1>3. ASSUME NEW p \in Proc,
             LockChain(p) \/ LockDecision(p) \/ RefuseVariance(p) \/ Abandon(p)
      PROVE  DocsFit'
  BY <1>1, <1>3, Statements, FitKept
<1>4. ASSUME NEW p \in Proc, CommitDocument(p) PROVE DocsFit'
  BY <1>4, FitCommitted
<1>5. CASE UNCHANGED <<docs, tx>>
  BY <1>5 DEF DocsFit, Active
<1>6. (\E d \in Decision : Supersede(d)) => UNCHANGED <<docs, tx>>
  BY DEF Supersede
<1> QED  BY <1>2, <1>3, <1>4, <1>5, <1>6, DocumentSteps

(* Documents, what calls ask and what they have done are well typed, and   *)
(* there are never more documents than calls were admitted for.            *)
THEOREM DocumentsTypeCorrect == DocumentsSpec => []DocumentsTypeOK
<1>1. DocumentsSpec => []DocsFit
  BY BillAlways, FitInit, FitStep, PTL DEF DocumentsSpec
<1>2. ASSUME BillInv, superseded \subseteq Decision, [DocumentsNext]_documentVars
      PROVE  (superseded \subseteq Decision)'
  <2>1. ASSUME NEW p \in Proc, CommitDocument(p) PROVE UNCHANGED superseded
    BY <2>1 DEF CommitDocument
  <2>2. ASSUME NEW d \in Decision, Supersede(d) PROVE superseded' \subseteq Decision
    BY <1>2, <2>2 DEF Supersede
  <2> QED  BY <1>2, <2>1, <2>2, Statements, DocumentSteps DEF BillInv
<1>3. DocumentsSpec => [](superseded \subseteq Decision)
  BY FitInit, <1>2, BillAlways, PTL DEF DocumentsSpec
<1>4. ASSUME BillInv, DocsFit, superseded \subseteq Decision PROVE DocumentsTypeOK
  <2>1. Cardinality(Active) \in Nat /\ Len(docs) \in Nat
    BY <1>4, FS_CardinalityType DEF DocsFit, BillInv, DocTypes
  <2> QED  BY <1>4, <2>1, BoundAssumption DEF DocsFit, BillInv, DocTypes, DocumentsTypeOK
<1> QED  BY <1>1, <1>3, <1>4, BillAlways, PTL

(* A bill that was voided or fully credited stays so: a correction that    *)
(* waited for its chain reads the status again before it adds one (commit, *)
(* which numbers the status event after those that were read).             *)
ReleasedIsFinal ==
  [][\A k \in DOMAIN docs :
       Bills(docs[k].type) /\ Releases(StatusOf(k)) => StatusOf(k)' = StatusOf(k)]_documentVars

THEOREM ReleasedStaysReleased == DocumentsSpec => ReleasedIsFinal
<1> DEFINE Stays == \A k \in DOMAIN docs :
             Bills(docs[k].type) /\ Releases(StatusOf(k)) => StatusOf(k)' = StatusOf(k)
<1>1. ASSUME BillInv, [DocumentsNext]_documentVars PROVE [Stays]_documentVars
  <2>1. UNCHANGED docs \/ \E p \in Proc : CommitDocument(p)
    BY <1>1, Statements, DocumentSteps DEF BillInv, Supersede
  <2>2. CASE UNCHANGED docs
    BY <2>2 DEF StatusOf
  <2>3. ASSUME NEW p \in Proc, CommitDocument(p), NEW k \in DOMAIN docs,
               Releases(StatusOf(k))
        PROVE  docs'[k].history = docs[k].history
    <3> DEFINE moved == [c \in DOMAIN docs |->
          IF c = tx[p].of THEN [docs[c] EXCEPT !.history = @ \o After(p)] ELSE docs[c]]
    <3>1. docs \in Seq(Document) /\ docs[k] \in Document
      BY <1>1 DEF BillInv, DocTypes
    <3>2. tx[p] # Absent /\ Read(p) /\ tx[p] \in Request /\ Shape(tx[p])
      BY <1>1, <2>3, DocTypesAt DEF CommitDocument, Read, BillInv, CallInv
    <3>3. k = tx[p].of => After(p) = <<>>
      <4>1. ASSUME k = tx[p].of PROVE Bills(tx[p].type)
        <5>1. Locked(tx[p])
          BY <1>1, <3>1, <3>2, <4>1, AbsentAssumption, DocTypesAt DEF Read, Locked, BillInv
        <5>2. StatusOf(k) \notin {"COMMITTED", "PARTIALLY_CREDITED"}
          BY <2>3 DEF Releases
        <5> QED  BY <3>2, <4>1, <5>1, <5>2 DEF Shape, Cancels
      <4> QED  BY <4>1 DEF Bills, After
    <3>4. moved[k].history = docs[k].history
      <4>1. docs[k].history \in Seq(DocStatus)
        BY <3>1 DEF Document
      <4> QED  BY <3>1, <3>3, <4>1 DEF Document
    <3>5. PICK new : docs' = Append(moved, new)
      BY <2>3 DEF CommitDocument
    <3>6. DOMAIN moved = 1..Len(docs) /\ Len(docs) \in Nat /\ k \in 1..Len(docs)
      BY <3>1
    <3> HIDE DEF moved
    <3>7. docs'[k] = moved[k]
      BY <3>5, <3>6
    <3> QED  BY <3>4, <3>7
  <2> QED  BY <2>1, <2>2, <2>3 DEF StatusOf
<1>2. DocumentsSpec => [][Stays]_documentVars
  BY <1>1, BillAlways, PTL DEF DocumentsSpec
<1> QED  BY <1>2 DEF ReleasedIsFinal

-----------------------------------------------------------------------------
(* No deadlock                                                             *)
(*                                                                         *)
(* That every call ends is beyond these provers; that the calls in         *)
(* progress never all wait for each other is not.                          *)

(* The guards of LockNext, of AppendDecision or RefuseSuccessor, and of    *)
(* Commit: c has a step of its own to take.                                *)
CanLock(c) == \E k \in Missing(c) : (\A l \in Missing(c) : Before(k, l)) /\ Free(k)
CanDecide(c) ==
  /\ Missing(c) = {}
  /\ Supersedes[c] # None => Superseded(Supersedes[c]) \/ Alone(c)
CanCommit(c) ==
  \A k \in Own(c) \cup Withdrawn(c) : held[c][k].seq + 1 = Len(log[k]) + 1
CanProceed(c) ==
  \/ step[c] = "locking" /\ (CanLock(c) \/ CanDecide(c))
  \/ step[c] = "appended" /\ CanCommit(c)

Running == {c \in Call : step[c] \in {"locking", "appended"}}
NoDeadlock == Running # {} => \E c \in Running : CanProceed(c)

(* What a call holds comes before all it has yet to lock.                  *)
InOrder == \A c \in Call : \A k \in Holds(c), l \in Missing(c) : Before(k, l)
SeqIsLength == \A k \in Key : snapshot[k].seq = Len(log[k])
WaitInv == InOrder /\ SeqIsLength /\ IsFiniteSet(Running)

LEMMA WaitInit == Init => WaitInv
<1> SUFFICES ASSUME Init PROVE WaitInv
  OBVIOUS
<1>1. \A c \in Call : Holds(c) = {}
  BY DEF Init, Holds, Nothing
<1>2. Running = {} /\ IsFiniteSet({})
  BY FS_EmptySet DEF Init, Running
<1>3. SeqIsLength
  BY DEF Init, SeqIsLength
<1> QED  BY <1>1, <1>2, <1>3 DEF WaitInv, InOrder

(* At most one call begins in a step.                                      *)
LEMMA RunningStaysFinite ==
  ASSUME Inv, IsFiniteSet(Running), [Next]_vars
  PROVE  IsFiniteSet(Running')
<1>1. \/ UNCHANGED step
      \/ \E c \in Call : \E to : step' = [step EXCEPT ![c] = to]
  BY DEF Next, Begin, Proceed, LockNext, AppendDecision, RefuseSuccessor, Commit,
         Fail, End, Check, Admit, FailAdmission, Report, Quote, vars
<1>2. ASSUME NEW c \in Call, NEW to, step' = [step EXCEPT ![c] = to]
      PROVE  Running' \subseteq Running \cup {c}
  BY <1>2 DEF Running, Inv, TypeOK
<1>3. \A c : IsFiniteSet(Running \cup {c})
  BY FS_AddElement
<1>4. UNCHANGED step => Running' = Running
  BY DEF Running
<1> QED  BY <1>1, <1>2, <1>3, <1>4, FS_Subset

(* A step that changes what no call holds, or only lets go.                *)
LEMMA OrderKept ==
  ASSUME InOrder, \A c \in Call : held'[c] = held[c] \/ Holds(c)' = {}
  PROVE  InOrder'
<1>1. ASSUME NEW c \in Call, NEW k \in Holds(c)', NEW l \in Missing(c)'
      PROVE  Before(k, l)
  <2>1. held'[c] = held[c]
    BY <1>1
  <2>2. Holds(c)' = Holds(c) /\ Missing(c)' = Missing(c)
    BY <2>1 DEF Holds, Missing, Needs, Bound
  <2> QED  BY <1>1, <2>2 DEF InOrder
<1> QED  BY <1>1 DEF InOrder, Before

LEMMA OrderStep ==
  ASSUME Inv, InOrder, [Next]_vars
  PROVE  InOrder'
<1>0. TypeOK
  BY DEF Inv
<1>1. CASE UNCHANGED held
  BY <1>1, OrderKept
<1>2. ASSUME NEW c \in Call, NEW to, End(c, to) PROVE InOrder'
  <2>1. Holds(c)' = {} /\ \A d \in Call : d # c => held'[d] = held[d]
    BY <1>0, <1>2 DEF End, TypeOK, Holds, Nothing
  <2> QED  BY <2>1, OrderKept
<1>3. ASSUME NEW c \in Call, LockNext(c) PROVE InOrder'
  <2>1. PICK k \in Missing(c) :
          /\ \A l \in Missing(c) : Before(k, l)
          /\ held' = [held EXCEPT ![c][k] = snapshot[k]]
    BY <1>3 DEF LockNext
  <2>2. k \in Key /\ snapshot[k] # None
    BY <1>0, <2>1, KeysNeeded, NoneAssumption DEF TypeOK, Missing
  <2>3. /\ \A l \in Key : held'[c][l] = IF l = k THEN snapshot[k] ELSE held[c][l]
        /\ \A d \in Call : d # c => held'[d] = held[d]
    BY <1>0, <2>1, <2>2 DEF TypeOK
  <2>4. Holds(c)' = Holds(c) \cup {k} /\ Missing(c)' = Missing(c) \ {k}
    <3>1. Holds(c)' = Holds(c) \cup {k}
      BY <2>2, <2>3 DEF Holds
    <3> QED  BY <3>1 DEF Missing, Needs, Bound
  <2>5. \A d \in Call : d # c => Holds(d)' = Holds(d) /\ Missing(d)' = Missing(d)
    BY <2>3 DEF Holds, Missing, Needs, Bound
  <2>6. ASSUME NEW d \in Call, NEW j \in Holds(d)', NEW l \in Missing(d)'
        PROVE  Before(j, l)
    BY <2>1, <2>4, <2>5, <2>6 DEF InOrder
  <2> QED  BY <2>6 DEF InOrder, Before
<1> QED
  BY <1>1, <1>2, <1>3
  DEF Next, Begin, Proceed, AppendDecision, RefuseSuccessor, Commit, Fail,
      Check, Admit, FailAdmission, Report, Quote, vars

LEMMA SeqStep ==
  ASSUME Inv, SeqIsLength, [Next]_vars
  PROVE  SeqIsLength'
<1>1. ASSUME NEW c \in Call, Commit(c), NEW k \in Key
      PROVE  snapshot'[k].seq = Len(log'[k])
  <2>1. CASE k \in Touched(c)
    <3>1. /\ log[k] \in Seq(Entry) /\ Contributes(c, k) \in Entry
          /\ log'[k] = Append(log[k], Contributes(c, k))
          /\ snapshot[k].seq + 1 = Len(log[k]) + 1
          /\ snapshot'[k] = Apply(k, snapshot[k], Contribution(c, k))
      BY <1>1, <2>1, CommitMoves
    <3>2. Len(log'[k]) = Len(log[k]) + 1
      BY <3>1
    <3> QED  BY <3>1, <3>2 DEF Apply
  <2>2. CASE k \notin Touched(c)
    BY <1>1, <2>2, CommitMoves DEF SeqIsLength
  <2> QED  BY <2>1, <2>2
<1>2. CASE UNCHANGED <<decided, log, snapshot, crossing>>
  BY <1>2 DEF SeqIsLength
<1> QED  BY <1>1, <1>2, BooksOrCommit DEF SeqIsLength

LEMMA WaitAlways == Spec => []WaitInv
<1>1. ASSUME Inv, WaitInv, [Next]_vars PROVE WaitInv'
  BY <1>1, RunningStaysFinite, OrderStep, SeqStep DEF WaitInv
<1> QED  BY <1>1, WaitInit, Inductive, PTL DEF Spec

(* The key LockNext takes next.                                            *)
LEMMA FirstKey ==
  ASSUME NEW M, M \subseteq Key, M # {}
  PROVE  \E k \in M : \A l \in M : Before(k, l)
<1> DEFINE Bs == {k[1] : k \in M}
<1>0. \A k \in M : k[1] \in Nat /\ k[2] \in Nat
  BY OrderAssumption DEF Key
<1>1. PICK b \in Bs : \A c \in Bs : b <= c
  BY <1>0, LeastExists
<1> DEFINE Ms == {k[2] : k \in {l \in M : l[1] = b}}
<1>2. Ms \subseteq Nat /\ Ms # {}
  BY <1>0, <1>1
<1>3. PICK m \in Ms : \A n \in Ms : m <= n
  <2> HIDE DEF Ms
  <2> QED  BY <1>2, LeastExists
<1>4. PICK k \in M : k[1] = b /\ k[2] = m
  BY <1>3
<1>5. ASSUME NEW l \in M PROVE Before(k, l)
  <2>1. b <= l[1]
    BY <1>1
  <2>2. l[1] = b => m <= l[2]
    BY <1>3
  <2> QED  BY <1>0, <1>4, <2>1, <2>2 DEF Before
<1> QED  BY <1>5

Sooner(k, l) == k[1] < l[1] \/ (k[1] = l[1] /\ k[2] < l[2])

LEMMA SoonerIsStrict ==
  ASSUME NEW j \in Key, NEW k \in Key, NEW l \in Key
  PROVE  /\ ~Sooner(k, k)
         /\ Sooner(j, k) /\ Sooner(k, l) => Sooner(j, l)
         /\ Before(k, l) /\ k # l => Sooner(k, l)
<1>1. /\ j[1] \in Nat /\ j[2] \in Nat /\ k[1] \in Nat /\ k[2] \in Nat
      /\ l[1] \in Nat /\ l[2] \in Nat
  BY OrderAssumption DEF Key
<1>2. k = <<k[1], k[2]>> /\ l = <<l[1], l[2]>>
  BY DEF Key
<1> QED  BY <1>1, <1>2 DEF Sooner, Before

(* However calls that lock accumulators of several months and corrections  *)
(* of one decision meet, some call in progress has a step to take: the     *)
(* locks are taken in one order, and whoever makes an insert wait holds    *)
(* all it needs (LockAll, LockOrder).                                      *)
THEOREM SomeCallProceeds == Spec => []NoDeadlock
<1>1. ASSUME Inv, WaitInv, Running # {}, \A c \in Running : ~CanProceed(c) PROVE FALSE
  <2>0. TypeOK /\ LockInv
    BY <1>1 DEF Inv
  <2>1. ASSUME NEW c \in Running PROVE step[c] = "locking"
    <3> SUFFICES ASSUME step[c] = "appended" PROVE FALSE
      BY DEF Running
    <3>1. ASSUME NEW k \in Own(c) \cup Withdrawn(c)
          PROVE  held[c][k].seq + 1 = Len(log[k]) + 1
      <4>1. k \in Key /\ k \in Holds(c)
        BY <2>0, KeysNeeded DEF LockInv, HoldsAll, Running
      <4> QED  BY <1>1, <2>0, <4>1 DEF LockInv, HeldIsCurrent, WaitInv, SeqIsLength, Running
    <3> QED  BY <1>1, <3>1 DEF CanProceed, CanCommit
  <2>2. ASSUME NEW c \in Running PROVE Missing(c) # {}
    <3>1. \A d \in Call : step[d] # "appended"
      BY <2>1 DEF Running
    <3> QED  BY <1>1, <2>1, <3>1 DEF CanProceed, CanDecide, Alone
  <2> DEFINE Wants(c) == CHOOSE k \in Missing(c) : \A l \in Missing(c) : Before(k, l)
  <2>3. ASSUME NEW c \in Running
        PROVE  /\ Wants(c) \in Missing(c) /\ Wants(c) \in Key
               /\ \E d \in Running : Wants(c) \in Holds(d)
    <3>1. c \in Call /\ Missing(c) \subseteq Key
      BY KeysNeeded DEF Running, Missing
    <3>2. Wants(c) \in Missing(c) /\ \A l \in Missing(c) : Before(Wants(c), l)
      BY <2>2, <3>1, FirstKey
    <3> HIDE DEF Wants
    <3>3. ~Free(Wants(c))
      BY <1>1, <2>1, <3>2 DEF CanProceed, CanLock
    <3>4. PICK d \in Call : Wants(c) \in Holds(d)
      BY <3>3 DEF Free
    <3>5. step[d] \notin {"idle", "over"}
      BY <2>0, <3>4 DEF TypeOK, Holds, Nothing
    <3>6. d \in Running
      BY <2>0, <3>5 DEF TypeOK, Running
    <3> QED  BY <3>1, <3>2, <3>4, <3>6
  <2> HIDE DEF Wants
  <2> DEFINE R == {p \in Running \X Running : Sooner(Wants(p[1]), Wants(p[2]))}
  <2>4. /\ \A c \in Running : <<c, c>> \notin R
        /\ \A b, c, d \in Running : <<b, c>> \in R /\ <<c, d>> \in R => <<b, d>> \in R
    <3>1. \A c, d \in Running : <<c, d>> \in R <=> Sooner(Wants(c), Wants(d))
      OBVIOUS
    <3> HIDE DEF R
    <3> QED  BY <2>3, <3>1, SoonerIsStrict
  <2>5. PICK c \in Running : \A d \in Running : <<c, d>> \notin R
    <3>1. IsFiniteSet(Running)
      BY <1>1 DEF WaitInv
    <3> HIDE DEF R
    <3> QED  BY <1>1, <2>4, <3>1, LastExists
  <2>6. PICK d \in Running : Wants(c) \in Holds(d)
    BY <2>3
  <2>7. Before(Wants(c), Wants(d)) /\ Wants(c) # Wants(d)
    BY <1>1, <2>3, <2>6 DEF WaitInv, InOrder, Missing, Running
  <2>8. Sooner(Wants(c), Wants(d))
    BY <2>3, <2>7, SoonerIsStrict
  <2> QED  BY <2>5, <2>8
<1>2. Inv /\ WaitInv => NoDeadlock
  BY <1>1 DEF NoDeadlock
<1> QED  BY <1>2, Inductive, WaitAlways, PTL

(* The same of calls about documents: the next statement of p is enabled   *)
(* (LockChain, LockDecision, and CommitDocument or RefuseVariance).        *)
CanStep(p) ==
  \/ AwaitsChain(p) /\ ChainFree(p)
  \/ Read(p) /\ Bills(tx[p].type) /\ Unbilled(p) # {} /\ DecisionFree(p, NextDecision(p))
  \/ /\ Read(p) /\ (Bills(tx[p].type) => Unbilled(p) = {})
     /\ Agrees(p) /\ After(p) # <<>> => Len(docs[tx[p].of].history) = tx[p].seq

NoBillingDeadlock == Active # {} => \E p \in Active : CanStep(p)

(* Chains are locked before decisions, decisions in the order of their     *)
(* ids, and the history of a locked chain's document is the one read.      *)
Queued(r) ==
  /\ r.of # Absent /\ r.seq = 0 => r.checked = {}
  /\ \A i \in DOMAIN r.lines : \A d \in r.checked :
       r.lines[i].decision \notin r.checked => d < r.lines[i].decision
  /\ Locked(r) => Len(docs[r.of].history) = r.seq
QueueInv == \A p \in Proc : tx[p] # Absent => Queued(tx[p])

LEMMA QueueInit == DocumentsInit => QueueInv
  BY DEF DocumentsInit, QueueInv

LEMMA QueueMoves ==
  ASSUME DocTypes, QueueInv, UNCHANGED docs, NEW p \in Proc,
         \A q \in Proc : q # p => tx'[q] = tx[q],
         tx'[p] = Absent \/ Queued(tx'[p])
  PROVE  QueueInv'
<1>1. \A r : Queued(r) => Queued(r)'
  BY DEF Queued, Locked
<1>2. ASSUME NEW q \in Proc, NEW s, s = tx'[q], s # Absent PROVE Queued(s)'
  BY <1>1, <1>2 DEF QueueInv
<1> QED  BY <1>2 DEF QueueInv, Queued, Locked

LEMMA QueueStep ==
  ASSUME BillInv, QueueInv, [DocumentsNext]_documentVars
  PROVE  QueueInv'
<1>0. /\ DocTypes /\ tx \in [Proc -> Request \cup {Absent}] /\ Absent \notin Request
  BY AbsentAssumption DEF BillInv, DocTypes
<1>1. ASSUME NEW p \in Proc, Issue(p) \/ Correct(p) PROVE QueueInv'
  <2>1. PICK type, k, chosen, lines : Ask(p, type, k, chosen, lines)
    BY <1>0, <1>1, Statements
  <2> DEFINE r == [type |-> type, of |-> k, chosen |-> chosen,
                   lines |-> lines, seq |-> 0, checked |-> {}]
  <2>2. r.checked = {} /\ r.seq = 0
    OBVIOUS
  <2>3. tx' = [tx EXCEPT ![p] = r] /\ UNCHANGED docs
    BY <2>1 DEF Ask
  <2> HIDE DEF r
  <2>4. Queued(r)
    BY <2>2 DEF Queued, Locked
  <2>5. tx'[p] = r /\ \A q \in Proc : q # p => tx'[q] = tx[q]
    BY <1>0, <2>3
  <2> QED  BY <1>0, <2>3, <2>4, <2>5, QueueMoves
<1>2. ASSUME NEW p \in Proc, UNCHANGED docs, tx' = [tx EXCEPT ![p] = Absent]
      PROVE  QueueInv'
  <2>1. tx'[p] = Absent /\ \A q \in Proc : q # p => tx'[q] = tx[q]
    BY <1>0, <1>2
  <2> QED  BY <1>0, <1>2, <2>1, QueueMoves
<1>3. ASSUME NEW p \in Proc, LockChain(p) PROVE QueueInv'
  <2> DEFINE r == tx[p]
             n == Len(docs[r.of].history)
  <2>1. r \in Request /\ Queued(r) /\ Shape(r) /\ AwaitsChain(p)
    BY <1>0, <1>3 DEF LockChain, AwaitsChain, QueueInv, BillInv, CallInv
  <2>2. CASE tx' = [tx EXCEPT ![p] = Absent]
    BY <1>2, <1>3, <2>2 DEF LockChain
  <2>3. ASSUME NEW lines,
               tx' = [tx EXCEPT ![p] = [@ EXCEPT !.seq = n, !.lines = lines]]
        PROVE  QueueInv'
    <3> DEFINE s == [r EXCEPT !.seq = n, !.lines = lines]
    <3>1. s.seq = n /\ s.lines = lines /\ s.of = r.of /\ s.checked = r.checked
      BY <2>1 DEF Request
    <3>2. tx'[p] = s /\ \A q \in Proc : q # p => tx'[q] = tx[q]
      BY <1>0, <2>3
    <3>3. r.checked = {} /\ r.of \in DOMAIN docs
      BY <2>1 DEF Queued, AwaitsChain, Shape
    <3> HIDE DEF s
    <3>4. Queued(s)
      BY <3>1, <3>3 DEF Queued, Locked
    <3> QED  BY <1>0, <1>3, <3>2, <3>4, QueueMoves DEF LockChain
  <2> QED  BY <1>3, <2>2, <2>3 DEF LockChain
<1>4. ASSUME NEW p \in Proc, LockDecision(p) PROVE QueueInv'
  <2> DEFINE r == tx[p]
             d == NextDecision(p)
  <2>1. r \in Request /\ Queued(r) /\ Read(p)
    BY <1>0, <1>4 DEF LockDecision, Read, QueueInv
  <2>2. d \in Unbilled(p) /\ \A e \in Unbilled(p) : d <= e
    BY <1>4, <2>1, NextIsLeast DEF LockDecision
  <2>3. Unbilled(p) \subseteq Nat
    BY <2>1, NextIsLeast
  <2> HIDE DEF d
  <2>4. CASE tx' = [tx EXCEPT ![p] = Absent]
    BY <1>2, <1>4, <2>4 DEF LockDecision
  <2>5. CASE tx' = [tx EXCEPT ![p] = [r EXCEPT !.checked = @ \cup {d}]]
    <3> DEFINE s == [r EXCEPT !.checked = @ \cup {d}]
    <3>1. s.seq = r.seq /\ s.lines = r.lines /\ s.of = r.of /\ s.checked = r.checked \cup {d}
      BY <2>1 DEF Request
    <3>2. tx'[p] = s /\ \A q \in Proc : q # p => tx'[q] = tx[q]
      BY <1>0, <2>5
    <3> HIDE DEF s
    <3>3. ASSUME NEW i \in DOMAIN s.lines, NEW c \in s.checked,
                 s.lines[i].decision \notin s.checked
          PROVE  c < s.lines[i].decision
      <4>1. s.lines[i].decision \in Unbilled(p) /\ s.lines[i].decision # d
        BY <3>1, <3>3 DEF Unbilled, Pinned
      <4>2. CASE c = d
        BY <2>2, <2>3, <4>1, <4>2
      <4>3. CASE c \in r.checked
        BY <2>1, <3>1, <3>3, <4>3 DEF Queued
      <4> QED  BY <3>1, <4>2, <4>3
    <3>4. Queued(s)
      BY <2>1, <3>1, <3>3 DEF Queued, Locked, Read
    <3> QED  BY <1>0, <1>4, <3>2, <3>4, QueueMoves DEF LockDecision
  <2>6. \/ tx' = [tx EXCEPT ![p] = Absent]
        \/ tx' = [tx EXCEPT ![p] = [r EXCEPT !.checked = @ \cup {d}]]
    BY <1>4 DEF LockDecision, d
  <2> QED  BY <2>4, <2>5, <2>6
<1>5. ASSUME NEW p \in Proc, RefuseVariance(p) \/ Abandon(p) PROVE QueueInv'
  BY <1>2, <1>5 DEF RefuseVariance, Abandon
<1>6. ASSUME NEW p \in Proc, CommitDocument(p) PROVE QueueInv'
  <2>0. tx[p] # Absent
    BY <1>6 DEF CommitDocument, Read
  <2>1. /\ tx' = [tx EXCEPT ![p] = Absent]
        /\ tx[p].of # Absent => Locked(tx[p])
        /\ \A k \in DOMAIN docs :
             docs'[k].history = IF k = tx[p].of THEN docs[k].history \o After(p)
                                ELSE docs[k].history
    BY <1>6, NewDocument
  <2>2. tx'[p] = Absent /\ \A q \in Proc : q # p => tx'[q] = tx[q]
    BY <1>0, <2>1
  <2>3. ASSUME NEW q \in Proc, q # p, NEW s, s = tx[q], s # Absent
        PROVE  Queued(s)'
    <3>1. Queued(s) /\ Shape(s) /\ Apart(tx[p], s)
      BY <2>0, <2>3 DEF QueueInv, BillInv, CallInv
    <3>2. Locked(s) => docs'[s.of].history = docs[s.of].history
      <4> SUFFICES ASSUME Locked(s) PROVE docs'[s.of].history = docs[s.of].history
        OBVIOUS
      <4>1. s.of \in DOMAIN docs /\ s.of # tx[p].of
        BY <2>1, <3>1 DEF Shape, Apart, Locked
      <4> QED  BY <2>1, <4>1
    <3> QED  BY <3>1, <3>2 DEF Queued, Locked
  <2>4. ASSUME NEW q \in Proc, NEW s, s = tx'[q], s # Absent PROVE Queued(s)'
    BY <2>2, <2>3, <2>4
  <2> QED  BY <2>4 DEF QueueInv, Queued, Locked
<1>7. CASE UNCHANGED <<docs, tx>>
  BY <1>7 DEF QueueInv, Queued, Locked
<1>8. (\E d \in Decision : Supersede(d)) => UNCHANGED <<docs, tx>>
  BY DEF Supersede
<1> QED  BY <1>1, <1>3, <1>4, <1>5, <1>6, <1>7, <1>8, DocumentSteps

(* However invoices, corrections and rebills that share chains and         *)
(* decisions meet, some call has a step to take: a chain's lock is taken   *)
(* before any other, and the decisions' in one order (decisionsOf, which   *)
(* sorts them).                                                            *)
THEOREM SomeBillProceeds == DocumentsSpec => []NoBillingDeadlock
<1>1. ASSUME BillInv, QueueInv, DocsFit, Active # {}, \A p \in Active : ~CanStep(p)
      PROVE  FALSE
  <2> DEFINE Readers == {p \in Active : Read(p)}
  <2>0. ASSUME NEW p \in Active
        PROVE  /\ p \in Proc /\ tx[p] # Absent /\ tx[p] \in Request
               /\ Shape(tx[p]) /\ Queued(tx[p])
    BY <1>1, DocTypesAt DEF Active, BillInv, CallInv, QueueInv
  <2>1. Readers # {}
    <3> SUFFICES ASSUME \A p \in Active : ~Read(p) PROVE FALSE
      OBVIOUS
    <3>1. PICK p : p \in Active
      BY <1>1
    <3>2. \A q \in Active : AwaitsChain(q)
      BY <2>0 DEF Read, AwaitsChain, Request
    <3>3. ChainFree(p)
      BY <3>2 DEF ChainFree, AwaitsChain
    <3> QED  BY <1>1, <3>1, <3>2, <3>3 DEF CanStep
  <2>2. ASSUME NEW p \in Readers
        PROVE  Bills(tx[p].type) /\ Unbilled(p) # {} /\ ~DecisionFree(p, NextDecision(p))
    <3>1. After(p) # <<>> => Locked(tx[p])
      <4>1. After(p) # <<>> => tx[p].type \in {"VOID", "CREDIT_NOTE"}
        BY AfterIs
      <4> QED  BY <2>0, <2>2, <4>1 DEF Shape, Read, Locked
    <3>2. After(p) # <<>> => Len(docs[tx[p].of].history) = tx[p].seq
      BY <2>0, <2>2, <3>1 DEF Queued
    <3> QED  BY <1>1, <2>2, <3>2 DEF CanStep
  <2>3. ASSUME NEW p \in Readers
        PROVE  /\ NextDecision(p) \in Unbilled(p) /\ NextDecision(p) \in Nat
               /\ \E q \in Readers : NextDecision(p) \in tx[q].checked
    <3>1. NextDecision(p) \in Unbilled(p) /\ Unbilled(p) \subseteq Nat
      BY <2>0, <2>2, <2>3, NextIsLeast
    <3>2. PICK q \in Active : NextDecision(p) \in tx[q].checked
      BY <2>2, <2>3 DEF DecisionFree
    <3>3. Read(q)
      BY <2>0, <3>2 DEF Queued, Read, Request
    <3> QED  BY <3>1, <3>2, <3>3
  <2> DEFINE R == {x \in Readers \X Readers : NextDecision(x[1]) < NextDecision(x[2])}
  <2>4. IsFiniteSet(Readers)
    BY <1>1, FS_Subset DEF DocsFit
  <2> HIDE DEF Readers
  <2>5. \A p, q \in Readers : <<p, q>> \in R <=> NextDecision(p) < NextDecision(q)
    OBVIOUS
  <2> HIDE DEF R
  <2>6. \A p \in Readers : NextDecision(p) \in Nat
    BY <2>3
  <2>7. /\ \A p \in Readers : <<p, p>> \notin R
        /\ \A p, q, r \in Readers : <<p, q>> \in R /\ <<q, r>> \in R => <<p, r>> \in R
    <3>1. \A p \in Readers : <<p, p>> \notin R
      BY <2>5, <2>6
    <3>2. ASSUME NEW p \in Readers, NEW q \in Readers, NEW r \in Readers,
                 <<p, q>> \in R, <<q, r>> \in R
          PROVE  <<p, r>> \in R
      BY <2>5, <2>6, <3>2
    <3> QED  BY <3>1, <3>2
  <2>8. PICK p \in Readers : \A q \in Readers : <<p, q>> \notin R
    BY <2>1, <2>4, <2>7, LastExists
  <2>9. PICK q \in Readers : NextDecision(p) \in tx[q].checked
    BY <2>3
  <2>10. NextDecision(p) < NextDecision(q)
    <3>1. Queued(tx[q])
      BY <2>0 DEF Readers
    <3>2. NextDecision(q) \in Unbilled(q)
      BY <2>3
    <3> QED  BY <2>9, <3>1, <3>2 DEF Queued, Unbilled, Pinned
  <2> QED  BY <2>5, <2>8, <2>10
<1>2. BillInv /\ QueueInv /\ DocsFit => NoBillingDeadlock
  BY <1>1 DEF NoBillingDeadlock
<1>3. DocumentsSpec => []QueueInv
  BY BillAlways, QueueInit, QueueStep, PTL DEF DocumentsSpec
<1>4. DocumentsSpec => []DocsFit
  BY BillAlways, FitInit, FitStep, PTL DEF DocumentsSpec
<1> QED  BY <1>2, <1>3, <1>4, BillAlways, PTL
================================================================================
