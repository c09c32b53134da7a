--------------------------- MODULE LockSchedule ---------------------------
(***************************************************************************)
(* The release schedule of a token lock: the view functions of             *)
(* GraphTokenLock.sol as operators over a schedule s (the values that      *)
(* _initialize writes once) and a block timestamp t.  uint256 division is  *)
(* \div; SafeMath's reverts (a division by zero, an underflow) are named   *)
(* predicates that the actions of GraphTokenLock.tla take as guards.       *)
(***************************************************************************)
EXTENDS Integers

Revocability == {"NotSet", "Enabled", "Disabled"}

Schedule == [managedAmount    : Nat,
             startTime        : Nat,
             endTime          : Nat,
             periods          : Nat,
             releaseStartTime : Nat,
             vestingCliffTime : Nat,
             revocable        : Revocability]

(* Storage of a contract nobody has initialized. *)
NoSchedule == [managedAmount    |-> 0,
               startTime        |-> 0,
               endTime          |-> 0,
               periods          |-> 0,
               releaseStartTime |-> 0,
               vestingCliffTime |-> 0,
               revocable        |-> "NotSet"]

(* The require() clauses of _initialize that read the schedule. *)
ValidSchedule(s) ==
  /\ s.managedAmount > 0
  /\ s.startTime # 0
  /\ s.startTime < s.endTime
  /\ s.periods >= 1
  /\ s.revocable # "NotSet"
  /\ s.releaseStartTime < s.endTime
  /\ s.vestingCliffTime < s.endTime

min(a, b) == IF a < b THEN a ELSE b

Duration(s) == s.endTime - s.startTime

SinceStartTime(s, t) == IF t <= s.startTime THEN 0 ELSE t - s.startTime

AmountPerPeriod(s) == s.managedAmount \div s.periods

PeriodDuration(s) == Duration(s) \div s.periods

(* passedPeriods() is currentPeriod() - MIN_PERIOD, the two constants      *)
(* cancelling out.                                                         *)
PassedPeriods(s, t) == SinceStartTime(s, t) \div PeriodDuration(s)

(* passedPeriods() divides by a period of zero seconds: the call reverts. *)
AvailableReverts(s, t) ==
  /\ s.startTime <= t
  /\ t <= s.endTime
  /\ PeriodDuration(s) = 0

(* Mutation: tokens that the division by periods rounds away are never     *)
(* handed out, the end of the schedule being just the end of its last      *)
(* period.                                                                 *)
AvailableByPeriodsOnly(s, t) ==
  IF t < s.startTime THEN 0
  ELSE IF t > s.endTime THEN s.periods * AmountPerPeriod(s)
  ELSE PassedPeriods(s, t) * AmountPerPeriod(s)

AvailableAmount(s, t) ==
  IF t < s.startTime THEN 0
  ELSE IF t > s.endTime THEN s.managedAmount
  ELSE PassedPeriods(s, t) * AmountPerPeriod(s)

BeforeRelease(s, t) == s.releaseStartTime > 0 /\ t < s.releaseStartTime

BeforeCliff(s, t) == s.vestingCliffTime > 0 /\ t < s.vestingCliffTime

VestedReverts(s, t) ==
  /\ s.revocable # "Disabled"
  /\ ~BeforeCliff(s, t)
  /\ AvailableReverts(s, t)

VestedAmount(s, t) ==
  IF s.revocable = "Disabled" THEN s.managedAmount
  ELSE IF BeforeCliff(s, t) THEN 0
  ELSE AvailableAmount(s, t)

(* The time conditions under which releasableAmount() is zero. *)
ReleaseBlocked(s, t) ==
  \/ BeforeRelease(s, t)
  \/ s.revocable = "Enabled" /\ BeforeCliff(s, t)

-----------------------------------------------------------------------------
(***************************************************************************)
(* Not code: the notions in which the properties are stated.               *)
(***************************************************************************)

(* The schedule never counts more periods than it was given: no period is  *)
(* rounded to zero seconds, and no extra one fits before the end.  The     *)
(* contract does not check this, and a schedule for which it fails makes   *)
(* more than managedAmount available just before endTime.                  *)
Proportioned(s) ==
  /\ ValidSchedule(s)
  /\ PeriodDuration(s) > 0
  /\ Duration(s) \div PeriodDuration(s) = s.periods

(* What the schedule lets the beneficiary have taken out by time t. *)
UnlockedAmount(s, t) ==
  IF ReleaseBlocked(s, t) THEN 0 ELSE AvailableAmount(s, t)
=============================================================================
