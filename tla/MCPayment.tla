------------------------------ MODULE MCPayment ------------------------------
(* Two people, two payee versions, a figure with nothing to pay and one    *)
(* with something: two instructions and two submissions let a second of    *)
(* each meet every end of the first.                                       *)
EXTENDS Payment, TLC

MCSymmetry == Permutations(Payee)
==============================================================================
