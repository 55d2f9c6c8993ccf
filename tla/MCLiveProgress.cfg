SPECIFICATION Spec
CONSTANTS
  q1 = q1
  q2 = q2
  Polls <- MCPolls
  Total = 1
  Period = 1
  Threshold = 2
  Skew = 0
  MaxDelay = 1
  MaxTroubles = 1
INVARIANTS
  TypeOK
  NoFalseStall
  BytesWereSent
PROPERTIES
  PageMovesOn
