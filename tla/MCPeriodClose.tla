--------------------------- MODULE MCPeriodClose ---------------------------
(* Two corrections, each of a decision in one period by one in the other,  *)
(* and two officers who transition, request and approve.                   *)
EXTENDS PeriodClose

CONSTANTS p1, p2, j1, j2, j3, j4, t1, t2, u1, u2, q1

MCPeriods == {p1, p2}
MCJournals == {j1, j2, j3, j4}
MCPeriodOf == [j \in MCJournals |-> IF j \in {j1, j4} THEN p1 ELSE p2]
MCAdjusting == {j4}
MCPostings == {t1, t2}
MCJournalsOf == [t \in MCPostings |->
                   IF t = t1 THEN <<j1, j2>> ELSE <<j3, j4>>]
MCUsers == {u1, u2}
MCRequests == {q1}
MCTried == [p \in MCPeriods |->
              IF p = p1 THEN States \ {"REOPENED"} ELSE {"HARD_CLOSE"}]
MCEvents == [p \in MCPeriods |-> IF p = p1 THEN 4 ELSE 1]
=============================================================================
