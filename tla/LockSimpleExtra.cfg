SPECIFICATION SimpleSpec
CONSTANTS
  Address = {a1}
  ZeroAddress = Zero
  Schedules <- OneDisproportioned
  Supply = 5
  MaxTime = 6
INVARIANTS
  ExtraFundsWithdrawable
CHECK_DEADLOCK FALSE
