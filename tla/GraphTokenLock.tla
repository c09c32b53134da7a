-------------------------- MODULE GraphTokenLock --------------------------
(***************************************************************************)
(* The abstract contract GraphTokenLock.sol: its storage, and one action   *)
(* per operation.  GraphTokenLockSimple.tla and GraphTokenLockWallet.tla   *)
(* extend it as the contracts do and give the initial state and the        *)
(* next-state relation.  A transaction that reverts is a transaction that  *)
(* leaves no trace: every require() and every SafeMath or ERC20 revert is  *)
(* a conjunct of the action's guard.                                       *)
(***************************************************************************)
EXTENDS Ownable, LockSchedule

CONSTANTS Schedules,   \* schedules that initialize() is called with
          Supply,      \* bound: tokens that are ever sent to the contract
          MaxTime      \* bound: last block timestamp

ASSUME SchedulesAssumption == Schedules \subseteq Schedule
ASSUME BoundsAssumption == Supply \in Nat /\ MaxTime \in Nat

VARIABLES
  now,             \* block.timestamp
  schedule,        \* managedAmount, startTime, ..., revocable
  beneficiary,
  isInitialized,
  isAccepted,
  isRevoked,
  releasedAmount,
  revokedAmount,
  balance,         \* token.balanceOf(address(this))
  \* History of the token's transfers, for the properties only:
  received,        \* sum of the transfers to the contract
  withdrawn,       \* sum of the transfers of withdrawSurplus()
  cancelled        \* sum of the transfers of cancelLock()

roles    == <<owner, beneficiary>>
config   == <<schedule, isInitialized>>
status   == <<isAccepted, isRevoked>>
paid     == <<releasedAmount, revokedAmount, withdrawn, cancelled>>
accounts == <<balance, received>>

lockVars == <<now, roles, config, status, paid, accounts>>

LockTypeOK ==
  /\ now \in 0 .. MaxTime
  /\ schedule \in Schedule
  /\ isInitialized \in BOOLEAN
  /\ isInitialized => ValidSchedule(schedule) /\ beneficiary # ZeroAddress
  /\ ~isInitialized => schedule = NoSchedule /\ beneficiary = ZeroAddress
  /\ owner \in AnyAddress
  /\ beneficiary \in AnyAddress
  /\ isAccepted \in BOOLEAN
  /\ isRevoked \in BOOLEAN
  /\ releasedAmount \in Nat
  /\ revokedAmount \in Nat
  /\ balance \in Nat
  /\ received \in Nat
  /\ withdrawn \in Nat
  /\ cancelled \in Nat

-----------------------------------------------------------------------------
(* Storage of a freshly created contract, except for its owner. *)
LockInit ==
  /\ now = 0
  /\ schedule = NoSchedule
  /\ beneficiary = ZeroAddress
  /\ isInitialized = FALSE
  /\ isAccepted = FALSE
  /\ isRevoked = FALSE
  /\ releasedAmount = 0
  /\ revokedAmount = 0
  /\ balance = 0
  /\ received = 0
  /\ withdrawn = 0
  /\ cancelled = 0

OnlyBeneficiary(caller) == beneficiary = caller

(* _initialize().  The token is a non-zero constant of the deployment. *)
Initialize(newOwner, newBeneficiary, newSchedule) ==
  /\ ~isInitialized
  /\ newOwner # ZeroAddress
  /\ newBeneficiary # ZeroAddress
  /\ ValidSchedule(newSchedule)
  /\ isInitialized' = TRUE
  /\ owner' = newOwner
  /\ beneficiary' = newBeneficiary
  /\ schedule' = newSchedule
  /\ UNCHANGED <<now, status, paid, accounts>>

ChangeBeneficiary(caller, newBeneficiary) ==
  /\ OnlyBeneficiary(caller)
  /\ newBeneficiary # ZeroAddress
  /\ beneficiary' = newBeneficiary
  /\ UNCHANGED <<now, owner, config, status, paid, accounts>>

AcceptLock(caller) ==
  /\ OnlyBeneficiary(caller)
  /\ isAccepted' = TRUE
  /\ UNCHANGED <<now, roles, config, isRevoked, paid, accounts>>

(* Before initialization the token is the zero address, and asking it for  *)
(* a balance reverts.                                                      *)
CancelLock(caller) ==
  /\ OnlyOwner(caller)
  /\ isInitialized
  /\ ~isAccepted
  /\ balance' = 0
  /\ cancelled' = cancelled + balance
  /\ UNCHANGED <<now, roles, config, status, releasedAmount, revokedAmount,
                 withdrawn, received>>

-----------------------------------------------------------------------------
(* Mutation: the amounts released before are forgotten. *)
ReleasableIgnoringReleased ==
  IF ReleaseBlocked(schedule, now) THEN 0
  ELSE min(balance, AvailableAmount(schedule, now))

(* releasableAmount() where it does not divide by zero.  If less is        *)
(* available than was released the contract's subtraction reverts; here    *)
(* the result is negative, which Release refuses as well.                  *)
ReleasableAmount ==
  IF ReleaseBlocked(schedule, now) THEN 0
  ELSE min(balance, AvailableAmount(schedule, now) - releasedAmount)

ReleasableReverts ==
  ~ReleaseBlocked(schedule, now) /\ AvailableReverts(schedule, now)

(* release(), for the amount that the contract's own (virtual)             *)
(* releasableAmount() returns.                                             *)
Release(caller, amountToRelease) ==
  /\ OnlyBeneficiary(caller)
  /\ amountToRelease > 0
  /\ releasedAmount' = releasedAmount + amountToRelease
  /\ balance' = balance - amountToRelease
  /\ UNCHANGED <<now, roles, config, status, revokedAmount, withdrawn,
                 cancelled, received>>

(* Mutation: nothing is outstanding any more once the schedule has ended. *)
OutstandingUntilEnd ==
  IF now > schedule.endTime THEN 0
  ELSE schedule.managedAmount - releasedAmount - revokedAmount

TotalOutstandingAmount ==
  schedule.managedAmount - releasedAmount - revokedAmount

(* Mutation: tokens that were released already are counted as surplus. *)
SurplusCountingReleased ==
  IF balance + releasedAmount > TotalOutstandingAmount
  THEN balance + releasedAmount - TotalOutstandingAmount ELSE 0

SurplusAmount ==
  IF balance > TotalOutstandingAmount
  THEN balance - TotalOutstandingAmount ELSE 0

(* withdrawSurplus(); totalOutstandingAmount() reverts when it underflows. *)
WithdrawSurplus(caller, amount) ==
  /\ OnlyBeneficiary(caller)
  /\ amount > 0
  /\ TotalOutstandingAmount >= 0
  /\ SurplusAmount >= amount
  /\ withdrawn' = withdrawn + amount
  /\ balance' = balance - amount
  /\ UNCHANGED <<now, roles, config, status, releasedAmount, revokedAmount,
                 cancelled, received>>

(* Mutation: the owner takes back whatever was not released yet. *)
UnreleasedAmount == schedule.managedAmount - releasedAmount

UnvestedAmount == schedule.managedAmount - VestedAmount(schedule, now)

(* Mutation: the revocation is not remembered, and may be repeated. *)
RevokeForgotten(caller) ==
  /\ OnlyOwner(caller)
  /\ schedule.revocable = "Enabled"
  /\ ~isRevoked
  /\ ~VestedReverts(schedule, now)
  /\ UnvestedAmount \in 1 .. balance
  /\ revokedAmount' = UnvestedAmount
  /\ balance' = balance - UnvestedAmount
  /\ UNCHANGED <<now, roles, config, status, releasedAmount, withdrawn,
                 cancelled, received>>

(* revoke(): the transfer reverts if the contract holds less. *)
Revoke(caller) ==
  /\ OnlyOwner(caller)
  /\ schedule.revocable = "Enabled"
  /\ ~isRevoked
  /\ ~VestedReverts(schedule, now)
  /\ UnvestedAmount > 0
  /\ UnvestedAmount <= balance
  /\ revokedAmount' = UnvestedAmount
  /\ isRevoked' = TRUE
  /\ balance' = balance - UnvestedAmount
  /\ UNCHANGED <<now, roles, config, isAccepted, releasedAmount, withdrawn,
                 cancelled, received>>

(* transferOwnership() and renounceOwnership() of Ownable.sol. *)
ChangeOwner(caller) ==
  /\ \/ \E newOwner \in AnyAddress : TransferOwnership(caller, newOwner)
     \/ RenounceOwnership(caller)
  /\ UNCHANGED <<now, beneficiary, config, status, paid, accounts>>

-----------------------------------------------------------------------------
(* Anybody may transfer tokens to the contract, at any time: the funding   *)
(* by the manager or the deployer, before or after initialization, and     *)
(* extra funds later.                                                      *)
Deposit(amount) ==
  /\ received + amount <= Supply
  /\ balance' = balance + amount
  /\ received' = received + amount
  /\ UNCHANGED <<now, roles, config, status, paid>>

Tick ==
  /\ now < MaxTime
  /\ now' = now + 1
  /\ UNCHANGED <<roles, config, status, paid, accounts>>

(* The operations that a lock inherits unchanged, called by anyone. *)
InheritedCall(caller) ==
  \/ \E newBeneficiary \in AnyAddress :
       ChangeBeneficiary(caller, newBeneficiary)
  \/ AcceptLock(caller)
  \/ CancelLock(caller)
  \/ \E amount \in 1 .. Supply : WithdrawSurplus(caller, amount)
  \/ Revoke(caller)
  \/ ChangeOwner(caller)

(* What happens around the contract. *)
Environment ==
  \/ \E amount \in 1 .. Supply : Deposit(amount)
  \/ Tick

-----------------------------------------------------------------------------
(***************************************************************************)
(* Properties that the contracts built on this one share.                  *)
(***************************************************************************)

(* The promise of TokenEscrow.tla, as a lock with this schedule makes it:  *)
(* nothing before initialization, and no limit but the tokens themselves   *)
(* for a schedule that is not proportioned.                                *)
EscrowLimit ==
  IF ~isInitialized THEN 0
  ELSE IF Proportioned(schedule) THEN UnlockedAmount(schedule, now) ELSE Supply

(* The managed amount has been sent to the contract and never taken back   *)
(* by cancelLock().                                                        *)
Funded ==
  /\ isInitialized
  /\ received >= schedule.managedAmount
  /\ cancelled = 0

(* What the owner can no longer take away: the vested amount, frozen by a  *)
(* revocation at what was vested then.                                     *)
Committed ==
  IF isRevoked THEN schedule.managedAmount - revokedAmount
  ELSE VestedAmount(schedule, now)

EscrowCommitted ==
  IF isInitialized /\ Proportioned(schedule) THEN Committed ELSE 0

(* However release() calls, deposits, surplus withdrawals and the clock    *)
(* interleave, the beneficiary has never been given more by release() than *)
(* the schedule, its release start and its cliff had unlocked.             *)
ReleasedWithinSchedule ==
  isInitialized /\ Proportioned(schedule)
    => releasedAmount <= UnlockedAmount(schedule, now)

(* withdrawSurplus() never hands out managed tokens: whatever was taken as *)
(* a surplus had been received on top of the managed amount.               *)
SurplusOnlyFromExtra ==
  withdrawn > 0 => withdrawn + schedule.managedAmount <= received

(* A funded lock always holds what it still owes: neither a surplus        *)
(* withdrawal nor a revocation can eat into the outstanding amount.        *)
OutstandingCovered ==
  Funded => balance >= TotalOutstandingAmount

(* Whenever the owner takes tokens out of a funded lock that was accepted, *)
(* the tokens left and those released before still cover what is vested.   *)
VestedKept ==
  [][ isAccepted /\ Funded
        /\ revokedAmount' + cancelled' > revokedAmount + cancelled
      => balance' + releasedAmount' >= VestedAmount(schedule, now) ]_lockVars

(* No call and no passing of time makes the beneficiary's claim smaller:   *)
(* not a second initialize(), not a revocation, not the end of the         *)
(* schedule.                                                               *)
CommittedNeverShrinks ==
  [][ isInitialized /\ Proportioned(schedule)
      => Committed' >= Committed ]_lockVars

(* A funded lock that was accepted pays out: released and revoked tokens   *)
(* together reach the managed amount, including what the division into     *)
(* periods rounds away.                                                    *)
PaidInFull ==
  (Funded /\ isAccepted)
    ~> (releasedAmount + revokedAmount >= schedule.managedAmount)

(***************************************************************************)
(* A statement of the documentation that the code does not keep, the       *)
(* subject of a run that must find a violation.                            *)
(***************************************************************************)

(* Tokens over the outstanding amount can be withdrawn at any time: the    *)
(* computation of the surplus does not revert while there is one.          *)
ExtraFundsWithdrawable ==
  Funded /\ balance > 0 /\ balance > TotalOutstandingAmount
    => TotalOutstandingAmount >= 0
=============================================================================
