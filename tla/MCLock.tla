------------------------------- MODULE MCLock -------------------------------
(***************************************************************************)
(* Small schedules that the model-checking instances of the locks share.   *)
(***************************************************************************)
EXTENDS LockSchedule

MakeSchedule(managed, start, end, n, release, cliff, revocability) ==
  [managedAmount    |-> managed,
   startTime        |-> start,
   endTime          |-> end,
   periods          |-> n,
   releaseStartTime |-> release,
   vestingCliffTime |-> cliff,
   revocable        |-> revocability]

(* Revocable, two periods of two seconds; one token is lost to rounding    *)
(* until the end has passed.  The cliff falls in the middle of    *)
(* the second period.                                                      *)
Vesting == MakeSchedule(3, 1, 5, 2, 0, 4, "Enabled")

(* Non-revocable, with a first release after one period has passed. *)
TimeLock == MakeSchedule(3, 1, 5, 2, 4, 0, "Disabled")

(* Four seconds in three periods: the period is one second, a fourth one   *)
(* fits before the end.                                                    *)
Disproportioned == MakeSchedule(3, 1, 5, 3, 0, 0, "Enabled")

(* More periods than seconds: the period is zero seconds. *)
ZeroPeriod == MakeSchedule(2, 2, 4, 3, 0, 0, "Enabled")

(* Arguments that initialize() refuses. *)
NoRevocability == MakeSchedule(3, 1, 5, 2, 0, 0, "NotSet")
CliffAtEnd     == MakeSchedule(3, 1, 5, 2, 0, 5, "Enabled")
=============================================================================
