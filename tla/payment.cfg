SPECIFICATION Spec
CONSTANTS
  None = None
  User = {u1, u2}
  Operator = {u1}
  Figure = {0, 1}
  Positive = {1}
  Payee = {p1, p2}
  MaxInstructions = 2
  MaxPayments = 2
INVARIANTS PaidOnce PaidByOthers PaidBySettlement
SYMMETRY MCSymmetry
