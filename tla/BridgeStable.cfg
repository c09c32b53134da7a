SPECIFICATION StableSpec
CONSTANTS
  w1 = w1
  w2 = w2
  L1Wallets = {w1, w2}
  L1Managers = {m1}
  L1Owners = {o1}
  L2Managers = {n1}
  L2Accounts = {a1}
  Implementations = {impl}
  l2Implementation = impl
  ZeroAddress = Zero
  MaxETH = 2
  ScheduleOf <- ShortForAll
  Supply = 3
  MaxTime = 4
  MaxMessages = 3
INVARIANTS
  SurplusOnlyFromExtra
  RecordedAddressIsTheWallet
  ETHKeptApart
CHECK_DEADLOCK FALSE
