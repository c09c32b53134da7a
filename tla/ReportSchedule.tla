-------------------------- MODULE ReportSchedule --------------------------
(***************************************************************************)
(* The schedule as the reporting tasks compute it (ops/info.ts), apart     *)
(* from the contract: the free amount of the wallet lists, in JavaScript   *)
(* numbers, and the dates of contracts:show and contracts:schedule.        *)
(***************************************************************************)
EXTENDS LockSchedule

(* Mutation: the period that is running is rounded to the nearest one. *)
ReportedPeriodsRounded(s, t) ==
  {(2 * SinceStartTime(s, t) * s.periods + Duration(s)) \div (2 * Duration(s))}

(* passedPeriods: floor(since / periodDuration + 1) - 1, the duration being*)
(* a floating-point number.  Where it is not exact and a period ends at    *)
(* this very second, the quotient may come out just below the whole number.*)
ReportedPeriods(s, t) ==
  LET elapsed == SinceStartTime(s, t) * s.periods
      passed  == elapsed \div Duration(s)
  IN  {passed} \cup
      {k \in {passed - 1} : /\ elapsed > 0
                            /\ elapsed % Duration(s) = 0
                            /\ Duration(s) % s.periods # 0}

(* What getAvailableAmount() may return. *)
ReportedAvailable(s, t) ==
  IF t < s.startTime THEN {0}
  ELSE IF t > s.endTime THEN {s.managedAmount}
  ELSE {AmountPerPeriod(s) * k : k \in ReportedPeriods(s, t)}

(* What getFreeAmount() may return. *)
FreeAmount(s, t) ==
  IF BeforeRelease(s, t) THEN {0}
  ELSE IF s.revocable = "Enabled" /\ BeforeCliff(s, t) THEN {0}
  ELSE ReportedAvailable(s, t)

(* currentPeriod() of the contract. *)
CurrentPeriod(s, t) == PassedPeriods(s, t) + 1

(* Mutation: the date at which the current period has begun. *)
NextTimeOfPassed(s, t) == s.startTime + PassedPeriods(s, t) * PeriodDuration(s)

(* nextTime of contracts:show, next to which it prints amountPerPeriod.    *)
NextTime(s, t) == s.startTime + CurrentPeriod(s, t) * PeriodDuration(s)

(* Mutation: the periods are counted from zero. *)
ScheduleRowsFromZero(s) ==
  {[time   |-> s.startTime + (Duration(s) \div s.periods) * (i - 1),
    period |-> i] : i \in 1 .. s.periods}

(* The rows of contracts:schedule, each with the same amountPerPeriod; the *)
(* ones in the past are printed.                                           *)
ScheduleRows(s) ==
  {[time   |-> s.startTime + (Duration(s) \div s.periods) * i,
    period |-> i] : i \in 1 .. s.periods}
=============================================================================
