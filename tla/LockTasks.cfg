SPECIFICATION Spec
CONSTANTS
  t1 = t1
  t2 = t2
  Locks = {k1, k2}
  Deployer = deployer
  Beneficiary = beneficiary
  Multisig = multisig
  Terminals = {t1, t2}
  AccountOf <- MCAccountOf
  NumLines = 2
  MaxSent = 2
  MaxFunded = 1
SYMMETRY LockSymmetry
INVARIANTS ReportsTrue RecordedLocksInitialized
PROPERTIES AcceptedKeepsTokens
CHECK_DEADLOCK FALSE
