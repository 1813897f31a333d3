CONSTANTS
  Decision = {1, 2, 3}
  Sealer = {s1, s2}
  Settle = 1
  Longest = 1
  MaxTime = 3
  None = None
SPECIFICATION Spec
SYMMETRY MCSymmetry
INVARIANTS SealsStayValid InclusionProves
PROPERTIES SealsAtOnce
