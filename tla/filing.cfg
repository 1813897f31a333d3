SPECIFICATION Spec
CONSTANTS
  None = None
  User = {u1, u2}
  Operator = {u1, u2}
  Figure = {1, 2}
  MaxAttempts = 2
INVARIANTS
  NoSecondFiling SubmittedAsApproved ActedOnFigureIsLive EvidenceBehindStatus
PROPERTY UncertainLeavesForOutcome
