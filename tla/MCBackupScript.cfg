SPECIFICATION FairSpec
CONSTANTS
  MaxDests = 4
INVARIANTS TypeOK AlertNotTooGood RowNotTooGood VerdictMatchesAlert
PROPERTIES Imported
CHECK_DEADLOCK FALSE
