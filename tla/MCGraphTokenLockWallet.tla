---------------------- MODULE MCGraphTokenLockWallet ----------------------
EXTENDS GraphTokenLockWallet, MCLock

WalletSchedules == {Vesting, TimeLock, Disproportioned, ZeroPeriod,
                    NoRevocability}

OneVesting == {Vesting}
=============================================================================
