SPECIFICATION ScheduleSpec
CONSTANTS
  MaxManaged = 5
  MaxEnd = 7
  MaxPeriods = 5
INVARIANTS
  StepAtEachPeriodEnd
  FreeAmountNeverAhead
  NextTimeIsNextRelease
CHECK_DEADLOCK FALSE
