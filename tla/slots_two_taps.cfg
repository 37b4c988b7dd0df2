SPECIFICATION Spec
SYMMETRY Symmetry
CHECK_DEADLOCK FALSE
CONSTANTS
  None = None
  Users = {u1, u2}
  Slots = {t1, t2}
  Sessions = {s1}
  Calls = {c1, c2, c3}
  Bookers = {b1, b2}
  Admins = {}
  MaxCloses = 0
INVARIANT BookingIsIdempotent
