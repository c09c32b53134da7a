SPECIFICATION Spec
CONSTANTS
  Address = {a1}
  ZeroAddress = Zero
  Schedules <- OneVesting
  Supply = 3
  MaxTime = 6
  Managers = {m1}
  ProtocolContracts = {staking}
  NoTarget = NoTarget
  Sigs = {stake, withdraw}
  OutflowSigs = {stake}
  InflowSigs = {withdraw}
INVARIANTS
  UnvestedRevocable
CHECK_DEADLOCK FALSE
