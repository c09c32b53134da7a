SPECIFICATION Spec
CONSTANTS
  Address = {a1}
  ZeroAddress = Zero
  Schedules <- WalletSchedules
  Supply = 4
  MaxTime = 6
  Managers = {m1}
  ProtocolContracts = {staking}
  NoTarget = NoTarget
  Sigs = {stake, withdraw}
  OutflowSigs = {stake}
  InflowSigs = {withdraw}
INVARIANTS
  WalletOutstandingCovered
  UsedWithinVested
  UsedTracksHeld
PROPERTIES
  WalletVestedKept
  ImplementsEscrow
CHECK_DEADLOCK FALSE
