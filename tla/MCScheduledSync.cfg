SPECIFICATION FairSpec
CONSTANTS
  c1 = c1
  c2 = c2
  c3 = c3
  v1 = v1
  v2 = v2
  k1 = k1
  Servers = {v1, v2}
  Configs = {c1, c2, c3}
  ServerOf <- MCServerOf
  Clicks = {k1}
  MaxRuns = 2
  MaxManual = 1
  MaxFaults = 1
INVARIANTS TypeOK HistoryFollowsRuns
PROPERTIES ImportSpec LockReleased Arrives
CHECK_DEADLOCK FALSE
