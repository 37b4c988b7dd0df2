SPECIFICATION Spec
SYMMETRY Symmetry
CONSTRAINT OneInstance
CHECK_DEADLOCK FALSE
CONSTANTS
  None = None
  Users = {u1, u2}
  Slots = {t1, t2}
  Sessions = {s1, s2}
  Calls = {c1, c2, c3}
  Bookers = {b1, b2}
  Admins = {a1}
  MaxCloses = 1
INVARIANT AgendaSafe
INVARIANT OneCallOfTheAssignee
PROPERTY BookedOutsideVisits
INVARIANT RebookingKeepsACall
