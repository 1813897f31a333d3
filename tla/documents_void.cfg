SPECIFICATION DocumentsSpec
CONSTANTS
  Absent = Absent
  Proc = {p1, p2}
  Decision = {1, 2}
  DecisionTax <- MCTax
  Draft <- MCDraft
  MaxDocs = 4
INVARIANT CancellationAgrees
CHECK_DEADLOCK FALSE
