SPECIFICATION Spec
CONSTANTS
  u1 = u1
  u2 = u2
  m1 = m1
  m2 = m2
  h1 = h1
  h2 = h2
  Users <- MCUsers
  Machines <- MCMachines
  Unaddressed = {m2}
  Handlers <- MCHandlers
  MaxProviders = 2
  MaxServers = 3
  MaxStorages = 2
  MaxActs = 4
SYMMETRY MCSymmetry
INVARIANTS
  TypeOK
  RowsFitMachines
  SecondAdminExplained
  BadCredsExplained
  SecretKept
CHECK_DEADLOCK FALSE
