------------------------------ MODULE MCLedger ------------------------------
(* Two decisions, corrected into each other's month; the first correction  *)
(* is corrected again and named by a commit as well; two refunds of the    *)
(* first decision.                                                         *)
EXTENDS Ledger, TLC

CONSTANTS c1, c2, a1, a2, a3, s1, r1, r2

MCCall == {c1, c2, a1, a2, a3, s1}
MCAdjusting == {a1, a2, a3}
MCSupersedes ==
  c1 :> None @@ c2 :> None @@ a1 :> c1 @@ a2 :> c2 @@ a3 :> a1 @@ s1 :> a1
MCMonthOf == c1 :> 1 @@ c2 :> 2 @@ a1 :> 2 @@ a2 :> 1 @@ a3 :> 2 @@ s1 :> 1
MCAmount ==
  c1 :> <<10>> @@ c2 :> <<4, 1>> @@ a1 :> <<6>> @@ a2 :> <<10>> @@ a3 :> <<3>>
    @@ s1 :> <<2>>
MCLimit == 1 :> {10} @@ 2 :> {}
MCTax == [c \in MCCall |-> IF c = s1 THEN 0 ELSE 2]
MCRefund == {r1, r2}
MCRefundOf == [r \in MCRefund |-> c1]
MCRefundAmount == r1 :> 1 @@ r2 :> 2
=============================================================================
