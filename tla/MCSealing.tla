------------------------------ MODULE MCSealing ------------------------------
(* Three decisions and two sealers; periods may meet, overlap and repeat.    *)
EXTENDS Sealing, TLC

MCSymmetry == Permutations(Sealer)

\* Every tree of at most seventeen leaves, evaluated before the run.
ASSUME TreesAreRFC6962 == \A n \in 0..17 : TreeIsRFC6962(n)

================================================================================
