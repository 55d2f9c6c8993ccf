SPECIFICATION Spec
CONSTANTS
  j1 = j1
  j2 = j2
  Jobs = {j1, j2}
  MaxTroubles = 1
INVARIANTS
  TypeOK
  InstallTruth
  RecoveryTruth
  SuccessNeedsBothSecrets
  StalePinHasACause
PROPERTIES
  DiskClaimSpec
  JobsEnd
CHECK_DEADLOCK FALSE
