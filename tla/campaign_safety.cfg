SPECIFICATION Spec
CONSTANTS
  Recipients = {r1, r2, r3}
  Workers = {w1, w2}
  Launchers = {l1}
  Cancellers = {c1}
  Retriers = {t1}
  Hooks = {h1}
  None = None
  BatchSize = 2
  MaxLaunches = 1
  MaxCancels = 1
  MaxRetries = 1
  MaxAborts = 1
  MaxLapses = 1
SYMMETRY Symmetry
CONSTRAINT OneInstance
CHECK_DEADLOCK FALSE
INVARIANTS
  CancelLeaksOneBatch
  DispatchSafe
  OneMessagePerRecipient
  CompletedForgetsNobody
