SPECIFICATION Spec
CONSTANTS
  Wallets = {k1, k2, k3}
  RPCConcurrency = 2
  BLOCK_DRIFT = 1
  Managed = 1
  MaxBlocks = 4
SYMMETRY WalletSymmetry
INVARIANTS RowsAddUp SummaryOfBlock PendingComplete
CHECK_DEADLOCK FALSE
