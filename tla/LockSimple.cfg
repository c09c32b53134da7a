SPECIFICATION SimpleFairSpec
CONSTANTS
  Address = {a1, a2}
  ZeroAddress = Zero
  Schedules <- SafetySchedules
  Supply = 7
  MaxTime = 8
INVARIANTS
  SimpleTypeOK
  ReleasedWithinSchedule
  SurplusOnlyFromExtra
  OutstandingCovered
PROPERTIES
  VestedKept
  PaidInFull
  SimpleImplementsEscrow
CHECK_DEADLOCK FALSE
