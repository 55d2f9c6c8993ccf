SPECIFICATION FairSpec
CONSTANTS
  r1 = r1
  r2 = r2
  r3 = r3
  Runs = {r1, r2, r3}
  MaxSilent = 1
INVARIANTS TypeOK VerdictIsOwn ExecutesOwnPlan
PROPERTIES ScriptEndEndsRun
CHECK_DEADLOCK FALSE
