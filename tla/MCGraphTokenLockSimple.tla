---------------------- MODULE MCGraphTokenLockSimple ----------------------
EXTENDS GraphTokenLockSimple, MCLock

(* Three periods, a release start after the cliff, two tokens lost to      *)
(* rounding until the end.                                                 *)
LongVesting == MakeSchedule(5, 1, 7, 3, 5, 2, "Enabled")

SafetySchedules == {Vesting, LongVesting, TimeLock, Disproportioned, ZeroPeriod,
                    NoRevocability, CliffAtEnd}

OneDisproportioned == {[Disproportioned EXCEPT !.revocable = "Disabled"]}
=============================================================================
