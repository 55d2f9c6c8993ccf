SPECIFICATION Spec
CONSTANTS
  c1 = c1
  c2 = c2
  c3 = c3
  v1 = v1
  v2 = v2
  k1 = k1
  Servers = {v1, v2}
  Configs = {c1, c2, c3}
  ServerOf <- MCServerOf
  Clicks = {}
  MaxRuns = 2
  MaxManual = 1
  MaxFaults = 0
INVARIANT NoDuplicateImport
CHECK_DEADLOCK FALSE
