SPECIFICATION FairSpec
CONSTANTS
  Recipients = {r1, r2}
  Workers = {w1, w2}
  Launchers = {l1, l2}
  Cancellers = {}
  Retriers = {}
  Hooks = {}
  None = None
  BatchSize = 1
  MaxLaunches = 2
  MaxCancels = 0
  MaxRetries = 0
  MaxAborts = 1
  MaxLapses = 0
CHECK_DEADLOCK FALSE
PROPERTIES
  PendingIsDispatched
  BuildingEnds
  CampaignEnds
