------------------------------ MODULE SealAtOnce ------------------------------
(***************************************************************************)
(* What evidence seals promise, with no clock, lock or failure in sight: a *)
(* period is sealed at once, by a statement of exactly the decisions the   *)
(* table has in it, and no decision enters a sealed period afterwards.     *)
(***************************************************************************)
EXTENDS Naturals, Sequences

CONSTANTS Decision, Instant, Digest(_)

VARIABLES table,       \* the decisions recorded, each with its instant
          statements   \* one of each period sealed, in the order they were made

vars == <<table, statements>>

Init == table = {} /\ statements = <<>>

(* A decision is recorded once, at an instant no statement is about.       *)
Record ==
  \E d \in Decision, t \in Instant :
    /\ \A l \in table : l.decision # d
    /\ \A k \in DOMAIN statements : t < statements[k].start \/ statements[k].end <= t
    /\ table' = table \cup {[decision |-> d, recordedAt |-> t]}
    /\ UNCHANGED statements

Between(start, end) == {l \in table : start <= l.recordedAt /\ l.recordedAt < end}

(* A period is stated once, apart from those stated before.                *)
Seal ==
  \E start \in Instant, end \in Instant :
    /\ start < end
    /\ \A k \in DOMAIN statements :
         statements[k].end <= start \/ end <= statements[k].start
    /\ statements' = Append(statements,
         [start |-> start, end |-> end, says |-> Digest(Between(start, end))])
    /\ UNCHANGED table

Next == Record \/ Seal

Spec == Init /\ [][Next]_vars
=============================================================================
