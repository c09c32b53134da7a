SPECIFICATION Spec
CONSTANTS
  ZeroAddress = zero
  l1 = l1
  l2 = l2
  l3 = l3
  l4 = l4
  e1 = e1
  e2 = e2
  bad = bad
  a1 = a1
  a2 = a2
  Address = {a1, a2}
  Entries <- MCEntries
  RefusedEntries = {bad}
  AmountOf <- MCAmountOf
  Implementations = {i1, i2}
  Manager = m
  Deployer = a1
  Concurrency = 2
  Lines = {l1, l2, l3, l4}
  EntryOf <- MCEntryOf
  Files <- MCFiles
  MaxSent = 2
  Supply = 3
INVARIANTS FundedExactly ResultsTrue CheckedFundsSuffice BatchFundsItself
CHECK_DEADLOCK FALSE
