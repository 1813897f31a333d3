-------------------------------- MODULE Merkle --------------------------------
(***************************************************************************)
(* The Merkle tree of internal/platform/canonical/digest.go: its root, the *)
(* audit path of a leaf, and the verifier's climb from a leaf to the root. *)
(* A hash is the term it is the hash of, so two hashes are equal exactly   *)
(* when what was hashed is.  Indices count from 0, as in the code.         *)
(***************************************************************************)
EXTENDS Naturals, SequencesExt

leafHash(x) == <<"leaf", x>>
interiorHash(left, right) == <<"interior", left, right>>
Empty == <<"empty">>

\* Nodes are hashed in pairs; an odd one is promoted unchanged.
NextLevel(level) ==
  [i \in 1..((Len(level) + 1) \div 2) |->
     IF 2*i > Len(level) THEN level[2*i - 1]
     ELSE interiorHash(level[2*i - 1], level[2*i])]

\* The levels from the leaves up.  There are never more than leaves, and the
\* level of the root repeats.
Above(level) == IF Len(level) = 1 THEN level ELSE NextLevel(level)

Levels(leaves) ==
  LET at[h \in 0..Len(leaves)] ==
        IF h = 0 THEN [i \in DOMAIN leaves |-> leafHash(leaves[i])] ELSE Above(at[h - 1])
  IN  at

MerkleRoot(leaves) ==
  IF leaves = <<>> THEN Empty ELSE Levels(leaves)[Len(leaves)][1]

Sibling(index) == IF index % 2 = 0 THEN index + 1 ELSE index - 1

\* The prover notes the sibling at each level; a promoted node has none.
Note(c, level) ==
  LET sibling == Sibling(c.index)
  IN  [index |-> c.index \div 2,
       path |-> IF sibling < Len(level) THEN Append(c.path, level[sibling + 1]) ELSE c.path]

Noted(leaves, index) ==
  LET at[h \in 0..Len(leaves)] ==
        IF h = 0 THEN [index |-> index, path |-> <<>>]
        ELSE Note(at[h - 1], Levels(leaves)[h - 1])
  IN  at

InclusionProof(leaves, index) == Noted(leaves, index)[Len(leaves)].path

\* The node at index has a sibling in a level of that size.
Takes(index, size) == index % 2 = 1 \/ index + 1 < size

\* The verifier uses the path up, from first to last, on the way to the root.
Up(c, path) ==
  LET sib == path[c.used + 1]
  IN  IF c.size <= 1 \/ ~c.ok THEN c
      ELSE IF Takes(c.index, c.size) /\ c.used = Len(path) THEN [c EXCEPT !.ok = FALSE]
      ELSE [node |-> IF ~Takes(c.index, c.size) THEN c.node
                     ELSE IF c.index % 2 = 1 THEN interiorHash(sib, c.node)
                     ELSE interiorHash(c.node, sib),
            used |-> IF Takes(c.index, c.size) THEN c.used + 1 ELSE c.used,
            index |-> c.index \div 2, size |-> (c.size + 1) \div 2, ok |-> TRUE]

Climb(leaf, index, size, path) ==
  LET at[h \in 0..size] ==
        IF h = 0 THEN [node |-> leafHash(leaf), used |-> 0, index |-> index, size |-> size,
                       ok |-> index < size]
        ELSE Up(at[h - 1], path)
  IN  at

VerifyInclusion(leaf, index, size, path, root) ==
  LET end == Climb(leaf, index, size, path)[size]
  IN  end.ok /\ end.used = Len(path) /\ end.node = root

(***************************************************************************)
(* RFC 6962: a tree of more than one leaf splits at the largest power of   *)
(* two below its size.                                                     *)
(***************************************************************************)
Power[e \in Nat] == IF e = 0 THEN 1 ELSE 2 * Power[e - 1]

Split(n) == CHOOSE k \in 1..(n - 1) : (\E e \in 0..n : k = Power[e]) /\ 2*k >= n

\* tree[n][lo] is the tree of the n leaves after the first lo.
Tree(leaves) ==
  LET tree[n \in 1..Len(leaves)] ==
        [lo \in 0..(Len(leaves) - n) |->
           IF n = 1 THEN leafHash(leaves[lo + 1])
           ELSE interiorHash(tree[Split(n)][lo], tree[n - Split(n)][lo + Split(n)])]
  IN  tree

MTH(leaves) == IF leaves = <<>> THEN Empty ELSE Tree(leaves)[Len(leaves)][0]

\* The root of n leaves is RFC 6962's, and the path of a leaf proves it and no
\* other leaf in its place.
TreeIsRFC6962(n) ==
  LET leaves == [i \in 1..n |-> i]
  IN  /\ MerkleRoot(leaves) = MTH(leaves)
      /\ \A i, j \in 0..(n - 1) :
           VerifyInclusion(leaves[j + 1], i, n, InclusionProof(leaves, i), MTH(leaves)) <=> i = j
================================================================================
