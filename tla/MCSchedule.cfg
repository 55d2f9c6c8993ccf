SPECIFICATION Spec
CONSTANTS
  h1 = h1
  h2 = h2
  r1 = r1
  r2 = r2
  Handlers = {h1, h2}
  Runs = {r1, r2}
  MaxChanges = 2
  MaxRequests = 3
  MaxFirings = 2
  MaxTroubles = 1
SYMMETRY Symmetry
INVARIANTS
  TypeOK
  SettledInstallIsLive
  OrphanTaskExplained
  ForeignReportExplained
PROPERTIES
  SilenceExplained
CHECK_DEADLOCK FALSE
