SPECIFICATION Spec
SYMMETRY Symmetry
CHECK_DEADLOCK FALSE
CONSTANTS
  None = None
  Creators = {c1}
  Payers = {p1, p2}
  Expected = {2, 3}
  Amounts = {1, 2, 3}
  MaxAborts = 0
INVARIANT FeesWithinExpected
