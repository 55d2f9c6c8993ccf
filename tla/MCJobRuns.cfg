SPECIFICATION FairSpec
CONSTANTS
  i1 = i1
  i2 = i2
  r1 = r1
  r2 = r2
  b1 = b1
  s1 = s1
  s2 = s2
  Jobs = {i1, i2, r1, r2, b1}
  Servers = {s1, s2}
  Install = {i1, i2}
  Recovery = {r1, r2}
  Backup = {b1}
  ServerOf <- MCServerOf
  MaxStarts = 2
  MaxFaults = 2
  MaxCrashes = 1
INVARIANTS TypeOK RunningHasTask EndedIsReported
PROPERTIES LedgerSpec RunningEnds
CHECK_DEADLOCK FALSE
