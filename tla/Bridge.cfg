SPECIFICATION Spec
CONSTANTS
  w1 = w1
  w2 = w2
  L1Wallets = {w1}
  L1Managers = {m1}
  L1Owners = {o1}
  L2Managers = {n1, n2}
  L2Accounts = {a1, a2}
  Implementations = {impl, impl2}
  l2Implementation = impl
  ZeroAddress = Zero
  MaxETH = 1
  ScheduleOf <- ShortForAll
  Supply = 2
  MaxTime = 4
  MaxMessages = 2
INVARIANTS
  TypeOK
  TokensStayWithTheirLock
  LockedAcrossChains
  ManualExcludesTransfer
  TicketsRedeemable
PROPERTIES
  L2AddressFixed
SYMMETRY Symmetry
CHECK_DEADLOCK FALSE
