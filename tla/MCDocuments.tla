------------------------------ MODULE MCDocuments ------------------------------
(* Two decisions.  Drafts present the first whole, on two lines, on two     *)
(* lines of which one is negative, with the second in either order, and one *)
(* cent short.  Four documents are an invoice credited in two parts and     *)
(* billed again.                                                            *)
EXTENDS Documents

MCTax == <<2, 1>>
MCLine(d, a) == [decision |-> d, amount |-> a]
MCDraft ==
  {<<MCLine(1, 2)>>, <<MCLine(1, 1), MCLine(1, 1)>>, <<MCLine(1, 3), MCLine(1, -1)>>,
   <<MCLine(1, 2), MCLine(2, 1)>>, <<MCLine(2, 1), MCLine(1, 2)>>, <<MCLine(1, 1)>>}

================================================================================
