--------------------------- MODULE MCLockSchedule ---------------------------
(***************************************************************************)
(* The schedule arithmetic, the contract's and that of the reports, against*)
(* each other and a reference: every schedule of a bounded set that        *)
(* initialize() accepts, at every time up to past its end.                 *)
(***************************************************************************)
EXTENDS ReportSchedule, FiniteSets

CONSTANTS MaxManaged, MaxEnd, MaxPeriods

ASSUME BoundsAssumption ==
  MaxManaged \in Nat /\ MaxEnd \in Nat /\ MaxPeriods \in Nat

VARIABLES schedule, time

Candidates ==
  [managedAmount    : 0 .. MaxManaged,
   startTime        : 0 .. 2,
   endTime          : 1 .. MaxEnd,
   periods          : 0 .. MaxPeriods,
   releaseStartTime : {0, 4},
   vestingCliffTime : {0, 3},
   revocable        : Revocability]

ScheduleInit == schedule \in {c \in Candidates : ValidSchedule(c)} /\ time = 0

ScheduleNext == time <= MaxEnd /\ time' = time + 1 /\ UNCHANGED schedule

ScheduleSpec == ScheduleInit /\ [][ScheduleNext]_<<schedule, time>>

(* availableAmount() is a staircase: until the end of the schedule every   *)
(* row of contracts:schedule that is due adds amountPerPeriod, the running *)
(* period nothing; after the end everything is available.                  *)
StepAtEachPeriodEnd ==
  Proportioned(schedule) =>
    AvailableAmount(schedule, time) =
      IF time > schedule.endTime THEN schedule.managedAmount
      ELSE AmountPerPeriod(schedule)
             * Cardinality({row \in ScheduleRows(schedule) : row.time <= time})

(* The free amount of the reports, with its own arithmetic, is never ahead *)
(* of what the contract has unlocked, nor of the managed amount where the  *)
(* contract's sum of periods runs past it; and it is the same to the token *)
(* if the periods divide the duration.                                     *)
FreeAmountNeverAhead ==
  \A free \in FreeAmount(schedule, time) :
    /\ 0 <= free /\ free <= schedule.managedAmount
    /\ ~AvailableReverts(schedule, time) => free <= UnlockedAmount(schedule, time)
    /\ Duration(schedule) % schedule.periods = 0 =>
         free = UnlockedAmount(schedule, time)

(* Until the last period has ended, the next date that contracts:show      *)
(* prints is when the available amount next grows, by the amount printed.  *)
NextTimeIsNextRelease ==
  /\ Proportioned(schedule)
  /\ time < schedule.startTime + schedule.periods * PeriodDuration(schedule)
  =>
    /\ NextTime(schedule, time) > time
    /\ \A u \in time .. NextTime(schedule, time) - 1 :
         AvailableAmount(schedule, u) = AvailableAmount(schedule, time)
    /\ AvailableAmount(schedule, NextTime(schedule, time))
         = AvailableAmount(schedule, time) + AmountPerPeriod(schedule)
=============================================================================
