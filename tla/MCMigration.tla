------------------------------ MODULE MCMigration ------------------------------
(* The mappings put two codes in one slot and apart.  The records convert, or *)
(* repeat an identifier, name an unmapped code, lie outside the period, do    *)
(* not add up, or cannot be read.  The first snapshot reconciles under one    *)
(* mapping, with a HIGH exception; the second, with two records left out that *)
(* cancel; the third, never.                                                  *)
EXTENDS Migration

CONSTANT EUR

MCRec(source, total, code) ==
  [source |-> source, currency |-> EUR, total |-> total, inPeriod |-> TRUE,
   components |-> <<[code |-> code, amount |-> total]>>]
MCClean == MCRec("a", 1, "VAT")
MCBoth == [MCRec("b", 2, "VAT") EXCEPT
  !.components = <<[code |-> "LEVY", amount |-> 1], [code |-> "VAT", amount |-> 1]>>]
MCUnmapped(source, total) == MCRec(source, total, "OTHER")
MCLate(source) == [MCRec(source, 1, "VAT") EXCEPT !.inPeriod = FALSE]
MCUnreadable == [MCRec("b", 1, "VAT") EXCEPT !.components = <<[code |-> "VAT", amount |-> None]>>]

MCSnapshot(records, declared) == [records |-> records, declared |-> [c \in Currency |-> declared]]
MCSources ==
  {MCSnapshot(<<MCClean, MCBoth, MCRec("a", 2, "VAT")>>, 3),
   MCSnapshot(<<MCClean, MCLate("b"), MCUnmapped("c", -1)>>, 1),
   MCSnapshot(<<MCLate("a"), MCUnreadable>>, 0)}
MCMappings ==
  {[c \in {"VAT", "LEVY"} |-> "TAX"],
   [c \in {"VAT", "LEVY"} |-> IF c = "VAT" THEN "TAX" ELSE "LEVY"]}
=============================================================================
