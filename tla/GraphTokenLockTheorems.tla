---------------------- MODULE GraphTokenLockTheorems ----------------------
(***************************************************************************)
(* Proofs about the operations of GraphTokenLock.tla, for use by the       *)
(* contracts built on it: what each operation does to the invariant that   *)
(* the locks share.                                                        *)
(***************************************************************************)
EXTENDS GraphTokenLockSimple, GraphTokenLockWallet, ArithmeticTheorems

(* All that the contract holds and all that it ever paid out. *)
Accounted ==
  balance + releasedAmount + revokedAmount + withdrawn + cancelled

(* The inductive invariant.  The typing conjunct and SurplusOnlyFromExtra  *)
(* are what a reader cares about; the rest makes them inductive: nothing   *)
(* was paid before initialization or by a revocation that has not          *)
(* happened, and the contract never accounts for more than it received     *)
(* (tokens in the protocol make the difference).                           *)
LockInv ==
  /\ LockTypeOK
  /\ ~isInitialized => releasedAmount = 0 /\ withdrawn = 0
  /\ ~isRevoked => revokedAmount = 0
  /\ Accounted <= received
  /\ SurplusOnlyFromExtra

(* What every operation of the lock does to the accounts: it moves tokens  *)
(* between the columns, and only a deposit adds any.                       *)
Balanced == Accounted' - received' = Accounted - received

(* Arithmetic, stated for constants so that it can be cited for the values *)
(* of the columns after a step.                                            *)
LEMMA FiveNats == \A a, b, c, d, e \in Nat : a + b + c + d + e \in Nat
  OBVIOUS

LEMMA SameDifference ==
  \A a, b, c, d \in Nat : a - b = c - d => (a = b <=> c = d)
  OBVIOUS

(* The columns add up to a natural number, before and after a step. *)
LEMMA AccountedType ==
  ASSUME LockInv
  PROVE  Accounted \in Nat /\ received \in Nat
  BY DEF LockInv, LockTypeOK, Accounted

LEMMA AccountedTypeNext ==
  ASSUME LockInv'
  PROVE  Accounted' \in Nat /\ received' \in Nat
<1>1. /\ balance' \in Nat /\ releasedAmount' \in Nat /\ revokedAmount' \in Nat
      /\ withdrawn' \in Nat /\ cancelled' \in Nat /\ received' \in Nat
  BY DEF LockInv, LockTypeOK
<1> QED
  BY <1>1, FiveNats DEF Accounted

LEMMA InitInv ==
  ASSUME LockInit, owner \in AnyAddress
  PROVE  LockInv /\ Accounted = 0 /\ received = 0
<1>1. NoSchedule \in Schedule
  BY DEF NoSchedule, Schedule, Revocability
<1>2. LockTypeOK
  <2>1. now \in 0 .. MaxTime
    BY BoundsAssumption DEF LockInit
  <2>2. /\ releasedAmount \in Nat /\ revokedAmount \in Nat /\ balance \in Nat
        /\ received \in Nat /\ withdrawn \in Nat /\ cancelled \in Nat
    BY DEF LockInit
  <2>3. /\ isInitialized = FALSE /\ isAccepted = FALSE /\ isRevoked = FALSE
        /\ schedule = NoSchedule /\ beneficiary = ZeroAddress
    BY DEF LockInit
  <2>4. beneficiary \in AnyAddress
    BY <2>3 DEF AnyAddress
  <2> QED
    BY <1>1, <2>1, <2>2, <2>3, <2>4, Zenon DEF LockTypeOK
<1>3. Accounted = 0 /\ received = 0
  BY DEF LockInit, Accounted
<1> QED
  BY <1>2, <1>3 DEF LockInit, LockInv, SurplusOnlyFromExtra

(* initialize() writes a valid schedule once. *)
LEMMA InitializeInv ==
  ASSUME LockInv,
         NEW newOwner \in AnyAddress, NEW newBeneficiary \in AnyAddress,
         NEW newSchedule \in Schedules,
         Initialize(newOwner, newBeneficiary, newSchedule)
  PROVE  LockInv' /\ Balanced
<1>1. newSchedule \in Schedule
  BY SchedulesAssumption
<1> QED
  BY <1>1 DEF LockInv, LockTypeOK, Initialize, Accounted, Balanced,
              SurplusOnlyFromExtra, status, paid, accounts

(* The surplus is what the balance has over the outstanding amount, so     *)
(* taking it leaves the managed amount untouched.                          *)
LEMMA WithdrawSurplusInv ==
  ASSUME LockInv, NEW caller \in Address, NEW amount \in 1 .. Supply,
         WithdrawSurplus(caller, amount)
  PROVE  LockInv' /\ Balanced
<1> USE BoundsAssumption
    DEF LockInv, LockTypeOK, WithdrawSurplus, Accounted, roles, config, status
<1>1. schedule.managedAmount \in Nat
  BY DEF Schedule
<1>2. amount <= balance - TotalOutstandingAmount
  BY <1>1 DEF SurplusAmount, TotalOutstandingAmount
<1>3. balance' \in Nat /\ withdrawn' \in Nat
  BY <1>1, <1>2 DEF TotalOutstandingAmount
<1>4. Balanced
  BY <1>3 DEF Balanced
<1>5. withdrawn' + schedule'.managedAmount <= received'
  BY <1>1, <1>2, <1>3 DEF TotalOutstandingAmount
<1>6. isInitialized
  BY ZeroAddressAssumption DEF OnlyBeneficiary
<1> QED
  BY <1>3, <1>4, <1>5, <1>6 DEF Balanced, SurplusOnlyFromExtra

LEMMA CancelLockInv ==
  ASSUME LockInv, NEW caller \in Address, CancelLock(caller)
  PROVE  LockInv' /\ Balanced
  BY DEF LockInv, LockTypeOK, CancelLock, Accounted, Balanced,
         SurplusOnlyFromExtra, roles, config, status

LEMMA RevokeInv ==
  ASSUME LockInv, NEW caller \in Address, Revoke(caller)
  PROVE  LockInv' /\ Balanced
<1> USE DEF LockInv, LockTypeOK, Revoke, roles, config
<1>1. schedule.managedAmount \in Nat /\ isInitialized
  BY DEF Schedule, NoSchedule
<1>2. UnvestedAmount \in Int
  BY <1>1, VestedType DEF UnvestedAmount
<1> QED
  BY <1>1, <1>2 DEF Accounted, Balanced, SurplusOnlyFromExtra

LEMMA RolesInv ==
  ASSUME LockInv, NEW caller \in Address,
         \/ \E newBeneficiary \in AnyAddress :
              ChangeBeneficiary(caller, newBeneficiary)
         \/ AcceptLock(caller)
         \/ ChangeOwner(caller)
  PROVE  LockInv' /\ Balanced
<1> USE DEF LockInv, LockTypeOK, Accounted, Balanced, SurplusOnlyFromExtra,
            roles, config, status, paid, accounts
<1>1. CASE \E newBeneficiary \in AnyAddress :
             ChangeBeneficiary(caller, newBeneficiary)
  BY <1>1, ZeroAddressAssumption DEF ChangeBeneficiary, OnlyBeneficiary
<1>2. CASE AcceptLock(caller)
  BY <1>2 DEF AcceptLock
<1>3. CASE ChangeOwner(caller)
  BY <1>3 DEF ChangeOwner, TransferOwnership, RenounceOwnership, AnyAddress
<1> QED
  BY <1>1, <1>2, <1>3

LEMMA InheritedCallInv ==
  ASSUME LockInv, NEW caller \in Address, InheritedCall(caller)
  PROVE  LockInv' /\ Balanced
  BY WithdrawSurplusInv, CancelLockInv, RevokeInv, RolesInv DEF InheritedCall

LEMMA EnvironmentInv ==
  ASSUME LockInv, Environment
  PROVE  LockInv' /\ Balanced
<1> USE BoundsAssumption
    DEF LockInv, LockTypeOK, Accounted, Balanced, SurplusOnlyFromExtra,
        roles, config, status, paid, accounts
<1>1. ASSUME NEW amount \in 1 .. Supply, Deposit(amount)
      PROVE  LockInv' /\ Balanced
  <2>1. schedule.managedAmount \in Nat
    BY DEF Schedule
  <2> QED
    BY <1>1, <2>1 DEF Deposit
<1>2. CASE Tick
  BY <1>2 DEF Tick
<1> QED
  BY <1>1, <1>2 DEF Environment

(* release() for any amount between one and the balance. *)
LEMMA ReleaseInv ==
  ASSUME LockInv, NEW caller \in Address, NEW amount \in Int,
         amount <= balance, Release(caller, amount)
  PROVE  LockInv' /\ Balanced
<1>1. isInitialized
  BY ZeroAddressAssumption DEF LockInv, LockTypeOK, Release, OnlyBeneficiary
<1> QED
  BY <1>1 DEF LockInv, LockTypeOK, Release, Accounted, Balanced,
              SurplusOnlyFromExtra, roles, config, status

(* The amount that releasableAmount() returns is one of these.  What the   *)
(* wallet keeps back for the protocol is the parameter.                    *)
LEMMA ReleasableType ==
  ASSUME LockInv, isInitialized, ~ReleasableReverts
  PROVE  ReleasableAmount \in Int /\ ReleasableAmount <= balance
<1>1. CASE ReleaseBlocked(schedule, now)
  BY <1>1 DEF ReleasableAmount, LockInv, LockTypeOK
<1>2. CASE ~ReleaseBlocked(schedule, now)
  <2>1. AvailableAmount(schedule, now) \in Nat
    BY <1>2, AvailableType, BoundsAssumption
    DEF LockInv, LockTypeOK, ReleasableReverts
  <2> QED
    BY <1>2, <2>1 DEF ReleasableAmount, min, LockInv, LockTypeOK
<1> QED
  BY <1>1, <1>2

-----------------------------------------------------------------------------
(***************************************************************************)
(* GraphTokenLockSimple, for every set of accounts, of schedules, every    *)
(* supply and every length of time.                                        *)
(***************************************************************************)
(* The inductive invariant of the simple lock: its tokens are nowhere but  *)
(* on its own balance, and releases keep within the schedule.              *)
SimpleInv ==
  /\ LockInv
  /\ Accounted = received
  /\ ReleasedWithinSchedule

-----------------------------------------------------------------------------
(* Operations that balance keep all of the lock's tokens in view. *)
LEMMA BalancedSimple ==
  ASSUME SimpleInv, LockInv', Balanced
  PROVE  Accounted' = received'
  BY AccountedType, AccountedTypeNext, SameDifference DEF SimpleInv, Balanced

(* release() stays within what the schedule has unlocked. *)
LEMMA ReleaseWithinSchedule ==
  ASSUME SimpleInv, NEW caller \in Address, SimpleRelease(caller)
  PROVE  SimpleInv'
<1>1. isInitialized
  BY ZeroAddressAssumption
  DEF SimpleInv, LockInv, LockTypeOK, SimpleRelease, OnlyBeneficiary
<1>2. ReleasableAmount \in Int /\ ReleasableAmount <= balance
  BY <1>1, ReleasableType DEF SimpleInv, SimpleRelease
<1>3. LockInv' /\ Balanced
  BY <1>2, ReleaseInv DEF SimpleInv, SimpleRelease
<1>4. Accounted' = received'
  BY <1>3, BalancedSimple
<1>5. now \in Nat /\ schedule \in Schedule /\ releasedAmount \in Nat
  BY BoundsAssumption DEF SimpleInv, LockInv, LockTypeOK
<1>6. ASSUME Proportioned(schedule)
      PROVE  releasedAmount' <= UnlockedAmount(schedule, now)
  <2>1. UnlockedAmount(schedule, now) \in Nat
    BY <1>5, <1>6, UnlockedMonotone
  <2>2. ReleasableAmount > 0 /\ releasedAmount' = releasedAmount + ReleasableAmount
    BY DEF SimpleRelease, Release
  <2>3. /\ UnlockedAmount(schedule, now) = AvailableAmount(schedule, now)
        /\ ReleasableAmount <= AvailableAmount(schedule, now) - releasedAmount
    <3>1. ~ReleaseBlocked(schedule, now)
      BY <2>2 DEF ReleasableAmount
    <3>2. UnlockedAmount(schedule, now) = AvailableAmount(schedule, now)
      BY <3>1 DEF UnlockedAmount
    <3>3. balance \in Nat
      BY DEF SimpleInv, LockInv, LockTypeOK
    <3> QED
      BY <1>5, <2>1, <3>1, <3>2, <3>3 DEF ReleasableAmount, min
  <2> QED
    BY <1>2, <1>5, <2>1, <2>2, <2>3
<1>7. ReleasedWithinSchedule'
  BY <1>6 DEF ReleasedWithinSchedule, SimpleRelease, Release, config
<1> QED
  BY <1>3, <1>4, <1>7 DEF SimpleInv

(* Of the other operations only the clock and initialize() touch what      *)
(* ReleasedWithinSchedule speaks of.                                       *)
LEMMA OtherStepsWithinSchedule ==
  ASSUME SimpleInv, LockInv',
         \/ \E caller \in Address :
              SimpleInitialize(caller) \/ InheritedCall(caller)
         \/ Environment
         \/ UNCHANGED lockVars
  PROVE  ReleasedWithinSchedule'
<1>1. now \in Nat /\ schedule \in Schedule /\ releasedAmount \in Nat
  BY BoundsAssumption DEF SimpleInv, LockInv, LockTypeOK
<1>2. CASE \E caller \in Address : SimpleInitialize(caller)
  <2>1. releasedAmount' = 0
    BY <1>2 DEF SimpleInitialize, Initialize, SimpleInv, LockInv, paid
  <2>2. ASSUME Proportioned(schedule')
        PROVE  UnlockedAmount(schedule', now') \in Nat
    <3>1. now' \in Nat /\ schedule' \in Schedule
      BY BoundsAssumption DEF LockInv, LockTypeOK
    <3> QED
      BY <2>2, <3>1, UnlockedMonotone
  <2> QED
    BY <2>1, <2>2 DEF ReleasedWithinSchedule
<1>3. CASE UNCHANGED <<now, config, releasedAmount>>
  BY <1>3 DEF SimpleInv, ReleasedWithinSchedule, config
<1>4. CASE Tick
  <2>1. /\ now' = now + 1 /\ releasedAmount' = releasedAmount
        /\ schedule' = schedule /\ isInitialized' = isInitialized
    BY <1>4 DEF Tick, config, paid
  <2>2. ASSUME isInitialized, Proportioned(schedule)
        PROVE  releasedAmount' <= UnlockedAmount(schedule, now')
    <3>1. /\ UnlockedAmount(schedule, now) \in Nat
          /\ UnlockedAmount(schedule, now + 1) \in Nat
          /\ UnlockedAmount(schedule, now) <= UnlockedAmount(schedule, now + 1)
      BY <1>1, <2>2, UnlockedMonotone
    <3> QED
      BY <1>1, <2>1, <2>2, <3>1 DEF SimpleInv, ReleasedWithinSchedule
  <2> QED
    BY <2>1, <2>2 DEF ReleasedWithinSchedule
<1>5. ASSUME NEW caller \in Address, InheritedCall(caller)
      PROVE  UNCHANGED <<now, config, releasedAmount>>
  BY <1>5 DEF InheritedCall, ChangeBeneficiary, AcceptLock, CancelLock,
              WithdrawSurplus, Revoke, ChangeOwner, config, paid
<1>6. ASSUME NEW amount \in 1 .. Supply, Deposit(amount)
      PROVE  UNCHANGED <<now, config, releasedAmount>>
  BY <1>6 DEF Deposit, config, paid
<1>7. CASE UNCHANGED lockVars
  BY <1>3, <1>7 DEF lockVars, config, paid
<1> QED
  BY <1>2, <1>3, <1>4, <1>5, <1>6, <1>7 DEF Environment

-----------------------------------------------------------------------------
LEMMA SimpleInvInitially == SimpleInit => SimpleInv
<1> SUFFICES ASSUME SimpleInit PROVE SimpleInv
  OBVIOUS
<1>1. LockInv /\ Accounted = 0 /\ received = 0
  BY InitInv DEF SimpleInit, AnyAddress
<1>2. ~isInitialized
  BY DEF SimpleInit, LockInit
<1> QED
  BY <1>1, <1>2 DEF SimpleInv, ReleasedWithinSchedule

LEMMA SimpleInvPreserved == SimpleInv /\ [SimpleNext]_lockVars => SimpleInv'
<1> SUFFICES ASSUME SimpleInv, [SimpleNext]_lockVars PROVE SimpleInv'
  OBVIOUS
<1>1. CASE \E caller \in Address : SimpleRelease(caller)
  BY <1>1, ReleaseWithinSchedule
<1>2. CASE \/ \E caller \in Address :
                SimpleInitialize(caller) \/ InheritedCall(caller)
           \/ Environment
           \/ UNCHANGED lockVars
  <2>1. LockInv' /\ Balanced
    <3>1. ASSUME NEW caller \in Address, SimpleInitialize(caller)
          PROVE  LockInv' /\ Balanced
      BY <3>1, InitializeInv DEF SimpleInitialize, SimpleInv
    <3>2. CASE UNCHANGED lockVars
      BY <3>2 DEF lockVars, SimpleInv, LockInv, LockTypeOK, Accounted, Balanced,
                  SurplusOnlyFromExtra, roles, config, status, paid, accounts
    <3> QED
      BY <1>2, <3>1, <3>2, InheritedCallInv, EnvironmentInv DEF SimpleInv
  <2>2. Accounted' = received'
    BY <2>1, BalancedSimple
  <2>3. ReleasedWithinSchedule'
    BY <1>2, <2>1, OtherStepsWithinSchedule
  <2> QED
    BY <2>1, <2>2, <2>3 DEF SimpleInv
<1> QED
  BY <1>1, <1>2 DEF SimpleNext

(* The invariant of the simple lock holds after any calls by anyone.       *)
THEOREM SimpleInvariant == SimpleSpec => []SimpleInv
  BY SimpleInvInitially, SimpleInvPreserved, PTL DEF SimpleSpec

-----------------------------------------------------------------------------
(* No reachable state has a variable outside its type, a balance           *)
(* overdrawn, or an initialized lock without a valid schedule.             *)
THEOREM TypeCorrectness == SimpleSpec => []SimpleTypeOK
<1>1. SimpleInv => SimpleTypeOK
  BY DEF SimpleInv, LockInv, SimpleTypeOK
<1> QED
  BY <1>1, SimpleInvariant, PTL

(* Surplus withdrawals never touch the managed amount. *)
THEOREM SurplusIsExtra == SimpleSpec => []SurplusOnlyFromExtra
<1>1. SimpleInv => SurplusOnlyFromExtra
  BY DEF SimpleInv, LockInv
<1> QED
  BY <1>1, SimpleInvariant, PTL

(* No release runs ahead of a proportioned schedule. *)
THEOREM ReleaseSafety == SimpleSpec => []ReleasedWithinSchedule
<1>1. SimpleInv => ReleasedWithinSchedule
  BY DEF SimpleInv
<1> QED
  BY <1>1, SimpleInvariant, PTL

(* A funded lock always holds what it still owes: this follows from the    *)
(* accounts and from the withdrawn surplus being extra.                    *)
LEMMA CoveredByAccounts == SimpleInv => OutstandingCovered
<1> SUFFICES ASSUME SimpleInv, Funded PROVE balance >= TotalOutstandingAmount
  BY DEF OutstandingCovered
<1>1. schedule.managedAmount \in Nat
  BY DEF SimpleInv, LockInv, LockTypeOK, Schedule
<1> QED
  BY <1>1 DEF SimpleInv, LockInv, LockTypeOK, Accounted, SurplusOnlyFromExtra,
              Funded, TotalOutstandingAmount

(* A funded lock holds what totalOutstandingAmount() says it still owes,   *)
(* after any surplus withdrawals, releases and revocations.                *)
THEOREM OutstandingSafety == SimpleSpec => []OutstandingCovered
  BY CoveredByAccounts, SimpleInvariant, PTL

-----------------------------------------------------------------------------
(* Only cancelLock() and revoke() pay the owner. *)
LEMMA OwnerPayments ==
  ASSUME [SimpleNext]_lockVars,
         ~\E caller \in Address : CancelLock(caller) \/ Revoke(caller)
  PROVE  revokedAmount' = revokedAmount /\ cancelled' = cancelled
  BY DEF SimpleNext, SimpleInitialize, Initialize, SimpleRelease, Release,
         InheritedCall, ChangeBeneficiary, AcceptLock, WithdrawSurplus,
         ChangeOwner, Environment, Deposit, Tick, lockVars, paid

(* A revocation of a funded lock leaves what is vested: the balance covers *)
(* the outstanding amount before it, and it takes just the unvested part.  *)
LEMMA RevokeKeepsVested ==
  ASSUME SimpleInv, Funded, NEW caller \in Address, Revoke(caller)
  PROVE  balance' + releasedAmount' >= VestedAmount(schedule, now)
<1>1. balance >= TotalOutstandingAmount
  BY CoveredByAccounts DEF OutstandingCovered
<1>2. schedule.managedAmount \in Nat /\ now \in Nat
  BY BoundsAssumption DEF SimpleInv, LockInv, LockTypeOK, Schedule
<1>3. VestedAmount(schedule, now) \in Nat
  BY <1>2, VestedType DEF SimpleInv, LockInv, LockTypeOK, Funded, Revoke
<1>4. revokedAmount = 0 /\ releasedAmount \in Nat /\ balance \in Nat
  BY DEF SimpleInv, LockInv, LockTypeOK, Revoke
<1>5. /\ balance' = balance - (schedule.managedAmount - VestedAmount(schedule, now))
      /\ releasedAmount' = releasedAmount
  BY DEF Revoke, UnvestedAmount
<1>6. balance >= schedule.managedAmount - releasedAmount
  BY <1>1, <1>2, <1>4 DEF TotalOutstandingAmount
<1>7. balance - (schedule.managedAmount - VestedAmount(schedule, now))
        + releasedAmount >= VestedAmount(schedule, now)
  BY <1>2, <1>3, <1>4, <1>6
<1> QED
  BY <1>5, <1>7

(* The owner can never take from a funded, accepted lock what is vested.   *)
THEOREM VestedSafety == SimpleSpec => VestedKept
<1> DEFINE OwnerPaid ==
      /\ isAccepted /\ Funded
      /\ revokedAmount' + cancelled' > revokedAmount + cancelled
<1>1. ASSUME SimpleInv, [SimpleNext]_lockVars, OwnerPaid
      PROVE  balance' + releasedAmount' >= VestedAmount(schedule, now)
  <2>1. CASE \E caller \in Address : CancelLock(caller)
    BY <1>1, <2>1 DEF CancelLock
  <2>2. CASE \E caller \in Address : Revoke(caller)
    BY <1>1, <2>2, RevokeKeepsVested
  <2>3. CASE ~\E caller \in Address : CancelLock(caller) \/ Revoke(caller)
    <3>1. revokedAmount' = revokedAmount /\ cancelled' = cancelled
      BY <1>1, <2>3, OwnerPayments
    <3>2. revokedAmount + cancelled > revokedAmount + cancelled
      BY <1>1, <3>1
    <3>3. revokedAmount \in Nat /\ cancelled \in Nat
      BY <1>1 DEF SimpleInv, LockInv, LockTypeOK
    <3> QED
      BY <3>2, <3>3
  <2> QED
    BY <2>1, <2>2, <2>3
<1>2. SimpleInv /\ [SimpleNext]_lockVars
        => [ OwnerPaid => balance' + releasedAmount'
               >= VestedAmount(schedule, now) ]_lockVars
  BY <1>1
<1> QED
  BY <1>2, SimpleInvariant, PTL DEF SimpleSpec, VestedKept

-----------------------------------------------------------------------------
(* The beneficiary's claim grows with time and survives a revocation.      *)
LEMMA CommittedStep ==
  ASSUME SimpleInv, SimpleNext, isInitialized, Proportioned(schedule)
  PROVE  Committed' >= Committed
<1>1. /\ now \in Nat /\ schedule \in Schedule /\ schedule.managedAmount \in Nat
      /\ revokedAmount \in Nat
  BY BoundsAssumption DEF SimpleInv, LockInv, LockTypeOK, Schedule
<1>2. VestedAmount(schedule, now) \in Nat /\ Committed \in Int
  BY <1>1, VestedMonotone DEF Committed
<1>3. CASE \E caller \in Address : Revoke(caller)
  <2>1. /\ ~isRevoked /\ isRevoked' = TRUE /\ schedule' = schedule
        /\ revokedAmount' = schedule.managedAmount - VestedAmount(schedule, now)
    BY <1>3 DEF Revoke, UnvestedAmount, config
  <2>2. /\ Committed = VestedAmount(schedule, now)
        /\ Committed' = schedule.managedAmount
             - (schedule.managedAmount - VestedAmount(schedule, now))
    BY <2>1 DEF Committed
  <2>3. schedule.managedAmount
          - (schedule.managedAmount - VestedAmount(schedule, now))
          >= VestedAmount(schedule, now)
    BY <1>1, <1>2
  <2> QED
    BY <2>2, <2>3
<1>4. CASE Tick
  <2>1. /\ now' = now + 1 /\ schedule' = schedule
        /\ isRevoked' = isRevoked /\ revokedAmount' = revokedAmount
    BY <1>4 DEF Tick, config, status, paid
  <2>2. VestedAmount(schedule, now) <= VestedAmount(schedule, now + 1)
        /\ VestedAmount(schedule, now + 1) \in Nat
    BY <1>1, VestedMonotone
  <2>3. CASE isRevoked
    BY <1>1, <2>1, <2>3 DEF Committed
  <2>4. CASE ~isRevoked
    <3>1. /\ Committed = VestedAmount(schedule, now)
          /\ Committed' = VestedAmount(schedule, now + 1)
      BY <2>1, <2>4 DEF Committed
    <3> QED
      BY <1>2, <2>2, <3>1
  <2> QED
    BY <2>3, <2>4
<1>5. CASE ~Tick /\ ~\E caller \in Address : Revoke(caller)
  <2>1. UNCHANGED <<now, schedule, isRevoked, revokedAmount>>
    BY <1>5 DEF SimpleNext, SimpleInitialize, Initialize, SimpleRelease, Release,
                InheritedCall, ChangeBeneficiary, AcceptLock, CancelLock,
                WithdrawSurplus, ChangeOwner, Environment, Deposit,
                config, status, paid
  <2>2. Committed' = Committed
    BY <2>1 DEF Committed
  <2> QED
    BY <1>2, <2>2
<1> QED
  BY <1>3, <1>4, <1>5

(* For a proportioned schedule, what the owner can no longer take away     *)
(* never shrinks, by no call and by no passing of time.                    *)
THEOREM CommittedSafety == SimpleSpec => CommittedNeverShrinks
<1>1. SimpleInv /\ [SimpleNext]_lockVars
        => [ isInitialized /\ Proportioned(schedule)
               => Committed' >= Committed ]_lockVars
  BY CommittedStep
<1> QED
  BY <1>1, SimpleInvariant, PTL DEF SimpleSpec, CommittedNeverShrinks

-----------------------------------------------------------------------------
(* The refinement needs, besides SimpleInv, the bound on the tokens ever   *)
(* sent, and that there is nothing to revoke before initialization.        *)
EscrowInv ==
  /\ SimpleInv
  /\ received <= Supply
  /\ ~isInitialized => ~isRevoked

LEMMA EscrowInvariant == SimpleSpec => []EscrowInv
<1>1. SimpleInit => EscrowInv
  BY SimpleInvInitially, BoundsAssumption DEF SimpleInit, LockInit, EscrowInv
<1>2. EscrowInv /\ [SimpleNext]_lockVars => EscrowInv'
  <2> SUFFICES ASSUME EscrowInv, [SimpleNext]_lockVars PROVE EscrowInv'
    OBVIOUS
  <2>1. ASSUME NEW caller \in Address, Revoke(caller) PROVE isInitialized'
    BY <2>1 DEF Revoke, EscrowInv, SimpleInv, LockInv, LockTypeOK, NoSchedule, config
  <2>2. ASSUME NEW amount \in 1 .. Supply, Deposit(amount)
        PROVE  received' <= Supply /\ UNCHANGED <<isInitialized, isRevoked>>
    BY <2>2 DEF Deposit, config, status
  <2>3. received' <= Supply
    BY <2>2 DEF EscrowInv, SimpleNext, SimpleInitialize, Initialize, SimpleRelease, Release,
       InheritedCall, ChangeBeneficiary, AcceptLock, CancelLock, WithdrawSurplus,
       Revoke, ChangeOwner, Environment, Tick, lockVars, accounts
  <2>4. ~isInitialized' => ~isRevoked'
    BY <2>1, <2>2 DEF EscrowInv, SimpleNext, SimpleInitialize, Initialize, SimpleRelease,
       Release, InheritedCall, ChangeBeneficiary, AcceptLock, CancelLock,
       WithdrawSurplus, ChangeOwner, Environment, Tick, lockVars, config, status
  <2> QED
    BY <2>3, <2>4, SimpleInvPreserved DEF EscrowInv
<1> QED
  BY <1>1, <1>2, PTL DEF SimpleSpec

(* The values that the abstract machine is given. *)
LEMMA EscrowTypes ==
  ASSUME EscrowInv
  PROVE  /\ now \in Nat /\ schedule \in Schedule /\ schedule.managedAmount \in Nat
         /\ isInitialized => schedule.managedAmount > 0 /\ ValidSchedule(schedule)
         /\ ~isInitialized => schedule.managedAmount = 0
         /\ isInitialized /\ Proportioned(schedule) =>
              /\ UnlockedAmount(schedule, now) \in Nat
              /\ VestedAmount(schedule, now) \in Nat
         /\ balance \in Nat /\ received \in Nat /\ releasedAmount \in Nat
         /\ revokedAmount \in Nat /\ withdrawn \in Nat /\ cancelled \in Nat
<1>1. /\ now \in Nat /\ schedule \in Schedule
      /\ balance \in Nat /\ received \in Nat /\ releasedAmount \in Nat
      /\ revokedAmount \in Nat /\ withdrawn \in Nat /\ cancelled \in Nat
  BY BoundsAssumption DEF EscrowInv, SimpleInv, LockInv, LockTypeOK
<1>2. schedule.managedAmount \in Nat
  BY <1>1 DEF Schedule
<1>3. isInitialized => schedule.managedAmount > 0 /\ ValidSchedule(schedule)
  BY DEF EscrowInv, SimpleInv, LockInv, LockTypeOK, ValidSchedule
<1>4. ~isInitialized => schedule.managedAmount = 0
  BY DEF EscrowInv, SimpleInv, LockInv, LockTypeOK, NoSchedule
<1>5. Proportioned(schedule) => /\ UnlockedAmount(schedule, now) \in Nat
                                /\ VestedAmount(schedule, now) \in Nat
  BY <1>1, UnlockedMonotone, VestedMonotone
<1> QED
  BY <1>1, <1>2, <1>3, <1>4, <1>5

(* Calls that leave everything that the abstract machine sees as it is. *)
LEMMA SameEscrow ==
  ASSUME UNCHANGED <<now, schedule, isInitialized, isAccepted, isRevoked,
                     releasedAmount, revokedAmount, balance, received,
                     withdrawn, cancelled>>
  PROVE  UNCHANGED SimpleEscrow!escrowVars
  BY DEF SimpleEscrow!escrowVars, SimpleEscrow!promise, SimpleEscrow!status, EscrowLimit,
         EscrowCommitted, Committed

LEMMA InitializeIsPromise ==
  ASSUME EscrowInv, EscrowInv', NEW caller \in Address, SimpleInitialize(caller)
  PROVE  SimpleEscrow!Promise
<1>1. PICK newOwner, newBeneficiary \in AnyAddress, newSchedule \in Schedules :
        Initialize(newOwner, newBeneficiary, newSchedule)
  BY DEF SimpleInitialize
<1>2. /\ ~isInitialized /\ isInitialized' /\ ~isRevoked' /\ schedule' = newSchedule
      /\ now' = now
      /\ UNCHANGED <<isAccepted, isRevoked, releasedAmount, revokedAmount,
                     balance, received, withdrawn, cancelled>>
  BY <1>1 DEF Initialize, status, paid, accounts, EscrowInv
<1>3. schedule.managedAmount = 0 /\ newSchedule.managedAmount > 0 /\ now \in Nat
  BY <1>1, <1>2, EscrowTypes DEF Initialize, ValidSchedule
<1>4. newSchedule \in Schedule
  BY SchedulesAssumption
<1>5. EscrowLimit' >= 0 /\ EscrowCommitted' >= 0
  <2>1. Proportioned(newSchedule) => /\ UnlockedAmount(newSchedule, now) >= 0
                                     /\ VestedAmount(newSchedule, now) >= 0
    BY <1>3, <1>4, UnlockedMonotone, VestedMonotone
  <2>2. Supply >= 0
    BY BoundsAssumption
  <2> QED
    BY <1>2, <2>1, <2>2 DEF EscrowLimit, EscrowCommitted, Committed
<1> QED
  BY <1>2, <1>3, <1>5 DEF SimpleEscrow!Promise, SimpleEscrow!status

LEMMA TickIsPass ==
  ASSUME EscrowInv, Tick
  PROVE  SimpleEscrow!Pass
<1>1. /\ now' = now + 1
      /\ UNCHANGED <<schedule, isInitialized, isAccepted, isRevoked,
                     releasedAmount, revokedAmount, balance, received,
                     withdrawn, cancelled>>
  BY DEF Tick, config, status, paid, accounts
<1>2. now \in Nat /\ schedule \in Schedule /\ schedule.managedAmount \in Nat
        /\ revokedAmount \in Nat
  BY EscrowTypes
<1>3. ASSUME Proportioned(schedule)
      PROVE  /\ UnlockedAmount(schedule, now + 1) >= UnlockedAmount(schedule, now)
             /\ VestedAmount(schedule, now + 1) >= VestedAmount(schedule, now)
  BY <1>2, <1>3, UnlockedMonotone, VestedMonotone
<1>4. EscrowLimit' >= EscrowLimit
  BY <1>1, <1>3, BoundsAssumption DEF EscrowLimit
<1>5. EscrowCommitted' >= EscrowCommitted
  BY <1>1, <1>2, <1>3 DEF EscrowCommitted, Committed
<1> QED
  BY <1>1, <1>4, <1>5 DEF SimpleEscrow!Pass, SimpleEscrow!status

LEMMA ReleaseIsRelease ==
  ASSUME EscrowInv, EscrowInv', NEW caller \in Address, SimpleRelease(caller)
  PROVE  SimpleEscrow!Release
<1>1. isInitialized
  BY ZeroAddressAssumption
     DEF EscrowInv, SimpleInv, LockInv, LockTypeOK, SimpleRelease, OnlyBeneficiary
<1>2. ReleasableAmount \in Int /\ ReleasableAmount <= balance /\ ReleasableAmount > 0
  BY <1>1, ReleasableType DEF EscrowInv, SimpleInv, SimpleRelease, Release
<1>3. /\ releasedAmount' = releasedAmount + ReleasableAmount
      /\ balance' = balance - ReleasableAmount
      /\ UNCHANGED <<now, schedule, isInitialized, isAccepted, isRevoked,
                     revokedAmount, received, withdrawn, cancelled>>
  BY DEF SimpleRelease, Release, config, status
<1>4. UNCHANGED <<EscrowLimit, EscrowCommitted>>
  BY <1>3 DEF EscrowLimit, EscrowCommitted, Committed
<1>5. releasedAmount' <= EscrowLimit
  <2>1. CASE Proportioned(schedule)
    BY <1>1, <1>3, <2>1
       DEF EscrowInv, SimpleInv, ReleasedWithinSchedule, EscrowLimit
  <2>2. CASE ~Proportioned(schedule)
    <3>1. balance + releasedAmount <= received
      BY EscrowTypes DEF EscrowInv, SimpleInv, Accounted
    <3> QED
      BY <1>1, <1>2, <1>3, <2>2, <3>1, EscrowTypes, BoundsAssumption
         DEF EscrowLimit, EscrowInv
  <2> QED
    BY <2>1, <2>2
<1> QED
  BY <1>2, <1>3, <1>4, <1>5, EscrowTypes
     DEF SimpleEscrow!Release, SimpleEscrow!promise, SimpleEscrow!status

LEMMA WithdrawIsPayExtra ==
  ASSUME EscrowInv, EscrowInv', NEW caller \in Address, NEW amount \in 1 .. Supply,
         WithdrawSurplus(caller, amount)
  PROVE  SimpleEscrow!PayExtra
<1>1. /\ withdrawn' = withdrawn + amount /\ balance' = balance - amount
      /\ amount > 0 /\ amount \in Int /\ SurplusAmount >= amount
      /\ TotalOutstandingAmount >= 0
      /\ UNCHANGED <<now, schedule, isInitialized, isAccepted, isRevoked,
                     releasedAmount, revokedAmount, received, cancelled>>
  BY DEF WithdrawSurplus, config, status
<1>2. UNCHANGED <<EscrowLimit, EscrowCommitted>>
  BY <1>1 DEF EscrowLimit, EscrowCommitted, Committed
<1>3. withdrawn' > withdrawn /\ withdrawn' > 0
  BY <1>1, EscrowTypes
<1>4. withdrawn' + schedule.managedAmount <= received
  BY <1>1, <1>3 DEF EscrowInv, SimpleInv, LockInv, SurplusOnlyFromExtra
<1>5. balance - amount >= 0
  BY <1>1, EscrowTypes DEF SurplusAmount, TotalOutstandingAmount
<1>6. balance - amount = balance - ((withdrawn + amount) - withdrawn)
  BY <1>1, EscrowTypes
<1> QED
  BY <1>1, <1>2, <1>3, <1>4, <1>5, <1>6
     DEF SimpleEscrow!PayExtra, SimpleEscrow!promise, SimpleEscrow!status

LEMMA RevokeIsRevoke ==
  ASSUME EscrowInv, NEW caller \in Address, Revoke(caller)
  PROVE  SimpleEscrow!Revoke
<1>1. /\ ~isRevoked /\ isRevoked' = TRUE /\ revokedAmount' = UnvestedAmount
      /\ balance' = balance - UnvestedAmount
      /\ UnvestedAmount > 0 /\ UnvestedAmount <= balance
      /\ ~VestedReverts(schedule, now)
      /\ UNCHANGED <<now, schedule, isInitialized, isAccepted, releasedAmount,
                     received, withdrawn, cancelled>>
  BY DEF Revoke, config
<1>2. isInitialized
  BY DEF Revoke, EscrowInv, SimpleInv, LockInv, LockTypeOK, NoSchedule
<1>3. VestedAmount(schedule, now) \in Nat
  BY <1>1, <1>2, EscrowTypes, VestedType
<1>4. UnvestedAmount = schedule.managedAmount - VestedAmount(schedule, now)
        /\ UnvestedAmount \in Int
  BY <1>3, EscrowTypes DEF UnvestedAmount
<1>5. EscrowLimit' = EscrowLimit
  BY <1>1 DEF EscrowLimit
<1>6. EscrowCommitted' = EscrowCommitted
  <2>1. Committed = VestedAmount(schedule, now)
    BY <1>1 DEF Committed
  <2>2. Committed' = schedule.managedAmount - UnvestedAmount
    BY <1>1 DEF Committed
  <2>3. schedule.managedAmount - UnvestedAmount = VestedAmount(schedule, now)
    BY <1>3, <1>4, EscrowTypes
  <2> QED
    BY <1>1, <2>1, <2>2, <2>3 DEF EscrowCommitted
<1>7. UnvestedAmount + EscrowCommitted <= schedule.managedAmount
  BY <1>1, <1>3, <1>4, EscrowTypes DEF EscrowCommitted, Committed
<1>8. revokedAmount = 0 /\ balance - UnvestedAmount >= 0
  BY <1>1, <1>4, EscrowTypes DEF EscrowInv, SimpleInv, LockInv
<1> QED
  BY <1>1, <1>5, <1>6, <1>7, <1>8
     DEF SimpleEscrow!Revoke, SimpleEscrow!promise

LEMMA CancelIsCancel ==
  ASSUME EscrowInv, NEW caller \in Address, CancelLock(caller)
  PROVE  SimpleEscrow!Cancel
<1>1. /\ isInitialized /\ ~isAccepted
      /\ balance' = 0 /\ cancelled' = cancelled + balance
      /\ UNCHANGED <<now, schedule, isInitialized, isAccepted, isRevoked,
                     releasedAmount, revokedAmount, received, withdrawn>>
  BY DEF CancelLock, config, status
<1>2. UNCHANGED <<EscrowLimit, EscrowCommitted>>
  BY <1>1 DEF EscrowLimit, EscrowCommitted, Committed
<1> QED
  BY <1>1, <1>2, EscrowTypes DEF SimpleEscrow!Cancel, SimpleEscrow!promise, SimpleEscrow!status

LEMMA DepositIsReceive ==
  ASSUME EscrowInv, NEW amount \in 1 .. Supply, Deposit(amount)
  PROVE  SimpleEscrow!Receive
<1>1. /\ balance' = balance + amount /\ received' = received + amount
      /\ amount > 0 /\ amount \in Int
      /\ UNCHANGED <<now, schedule, isInitialized, isAccepted, isRevoked,
                     releasedAmount, revokedAmount, withdrawn, cancelled>>
  BY DEF Deposit, config, status, paid
<1>2. UNCHANGED <<EscrowLimit, EscrowCommitted>>
  BY <1>1 DEF EscrowLimit, EscrowCommitted, Committed
<1> QED
  BY <1>1, <1>2, EscrowTypes DEF SimpleEscrow!Receive, SimpleEscrow!promise, SimpleEscrow!status

(* Every step of the lock is a step of the escrow or none at all. *)
LEMMA EscrowStep ==
  EscrowInv /\ EscrowInv' /\ [SimpleNext]_lockVars => [SimpleEscrow!Next]_(SimpleEscrow!escrowVars)
<1> SUFFICES ASSUME EscrowInv, EscrowInv', [SimpleNext]_lockVars
             PROVE  [SimpleEscrow!Next]_(SimpleEscrow!escrowVars)
  OBVIOUS
<1> USE DEF SimpleEscrow!Next
<1>1. ASSUME NEW caller \in Address, SimpleInitialize(caller)
      PROVE  SimpleEscrow!Next
  BY <1>1, InitializeIsPromise
<1>2. ASSUME NEW caller \in Address, SimpleRelease(caller)
      PROVE  SimpleEscrow!Next
  BY <1>2, ReleaseIsRelease
<1>3. ASSUME NEW caller \in Address, InheritedCall(caller)
      PROVE  SimpleEscrow!Next \/ UNCHANGED SimpleEscrow!escrowVars
  <2>1. CASE \/ \E newBeneficiary \in AnyAddress :
                  ChangeBeneficiary(caller, newBeneficiary)
             \/ ChangeOwner(caller)
    BY <2>1, SameEscrow
       DEF ChangeBeneficiary, ChangeOwner, config, status, paid, accounts
  <2>2. CASE AcceptLock(caller)
    <3>1. isInitialized
      BY <2>2, ZeroAddressAssumption
         DEF EscrowInv, SimpleInv, LockInv, LockTypeOK, AcceptLock, OnlyBeneficiary
    <3>2. /\ isAccepted' = TRUE
          /\ UNCHANGED <<now, schedule, isInitialized, isRevoked, releasedAmount,
                         revokedAmount, balance, received, withdrawn, cancelled>>
      BY <2>2 DEF AcceptLock, config, paid, accounts
    <3>3. UNCHANGED <<EscrowLimit, EscrowCommitted>>
      BY <3>2 DEF EscrowLimit, EscrowCommitted, Committed
    <3> QED
      BY <3>1, <3>2, <3>3, EscrowTypes DEF SimpleEscrow!Accept, SimpleEscrow!promise
  <2>3. CASE CancelLock(caller)
    BY <2>3, CancelIsCancel
  <2>4. CASE \E amount \in 1 .. Supply : WithdrawSurplus(caller, amount)
    BY <2>4, WithdrawIsPayExtra
  <2>5. CASE Revoke(caller)
    BY <2>5, RevokeIsRevoke
  <2> QED
    BY <1>3, <2>1, <2>2, <2>3, <2>4, <2>5 DEF InheritedCall
<1>4. CASE Environment
  BY <1>4, DepositIsReceive, TickIsPass DEF Environment
<1>5. CASE UNCHANGED lockVars
  BY <1>5, SameEscrow DEF lockVars, config, status, paid, accounts
<1> QED
  BY <1>1, <1>2, <1>3, <1>4, <1>5 DEF SimpleNext

(* The simple lock implements the escrow. *)
THEOREM SimpleEscrowRefinement == SimpleSpec => SimpleImplementsEscrow
<1>1. SimpleInit => SimpleEscrow!Init
  BY DEF SimpleInit, LockInit, NoSchedule, SimpleEscrow!Init, EscrowLimit, EscrowCommitted
<1> QED
  BY <1>1, EscrowStep, EscrowInvariant, PTL DEF SimpleSpec, SimpleImplementsEscrow, SimpleEscrow!Spec

-----------------------------------------------------------------------------
(* The types of what the wallet adds to the lock.  Without an owner, an    *)
(* uninitialized wallet cannot be given a manager by setManager().         *)
WalletTypeOK ==
  /\ allowList \in [Managers -> AllowList]
  /\ manager \in Managers \cup {ZeroAddress}
  /\ isInitialized <=> manager \in Managers
  /\ ~isInitialized => owner = ZeroAddress
  /\ approved \in SUBSET ProtocolContracts
  /\ usedAmount \in Nat
  /\ held \in Nat
  /\ rewards \in Nat

(* The wallet's tokens are on its own balance or in the protocol. *)
WalletAccounted == Accounted + held = received

(* UsedTracksHeld needs the first conjunct when initialize() makes the     *)
(* wallet revocable: what is in the protocol by then was staked for it.    *)
UsedInv ==
  /\ ~isInitialized => usedAmount = 0 /\ held <= rewards
  /\ UsedTracksHeld
  /\ UsedWithinVested

(* The inductive invariant of the wallet. *)
WalletInv ==
  /\ LockInv
  /\ WalletTypeOK
  /\ WalletAccounted
  /\ ReleasedWithinSchedule
  /\ UsedInv

LEMMA WalletInvInitially == Init => WalletInv
<1> SUFFICES ASSUME Init PROVE WalletInv
  OBVIOUS
<1>1. LockInv /\ Accounted = 0 /\ received = 0
  BY InitInv DEF Init, AnyAddress
<1>2. ~isInitialized /\ schedule = NoSchedule /\ usedAmount = 0 /\ held = 0
        /\ rewards = 0
  BY DEF Init, LockInit
<1>3. WalletTypeOK
  <2>1. allowList \in [Managers -> AllowList]
    BY DEF Init, EmptyAllowList, AllowList
  <2>2. ZeroAddress \notin Managers
    BY ManagersAssumption
  <2>3. manager = ZeroAddress /\ owner = ZeroAddress /\ approved = {}
    BY DEF Init
  <2>4. approved \in SUBSET ProtocolContracts
    BY <2>3
  <2> QED
    BY <1>2, <2>1, <2>2, <2>3, <2>4 DEF WalletTypeOK
<1>4. ~Enabled
  BY <1>2 DEF Enabled, NoSchedule
<1> QED
  BY <1>1, <1>2, <1>3, <1>4
     DEF WalletInv, WalletAccounted, ReleasedWithinSchedule, UsedInv,
         UsedTracksHeld, UsedWithinVested

-----------------------------------------------------------------------------
(* An operation of the lock that balances leaves the wallet accounted for. *)
LEMMA BalancedWallet ==
  ASSUME WalletInv, LockInv', Balanced, UNCHANGED held
  PROVE  WalletAccounted'
<1>1. Accounted \in Nat /\ received \in Nat /\ Accounted' \in Nat /\ received' \in Nat
  BY AccountedType, AccountedTypeNext DEF WalletInv
<1>2. held \in Nat
  BY DEF WalletInv, WalletTypeOK
<1>3. ASSUME NEW x \in Nat, NEW y \in Nat, x - y = Accounted - received
      PROVE  x + held = y
  <2>1. Accounted \in Nat /\ received \in Nat /\ Accounted + held = received
    BY <1>1 DEF WalletInv, WalletAccounted
  <2> QED
    BY <1>2, <1>3, <2>1
<1>4. Accounted' + held = received'
  BY <1>1, <1>3, Zenon DEF Balanced
<1> QED
  BY <1>4, Zenon DEF WalletAccounted

(* The types of the wallet's own state, where the step leaves it alone. *)
LEMMA SameWallet ==
  ASSUME WalletInv, UNCHANGED <<walletVars, allowList, isInitialized>>,
         owner' = owner \/ \E caller \in Address : OnlyOwner(caller)
  PROVE  WalletTypeOK'
<1>1. ~isInitialized => owner' = ZeroAddress
  BY ZeroAddressAssumption DEF WalletInv, WalletTypeOK, OnlyOwner
<1> QED
  BY <1>1 DEF WalletInv, WalletTypeOK, walletVars

(* What was released and what is used stay within bounds that only grow,   *)
(* as long as neither is added to.                                         *)
LEMMA BoundsGrow ==
  ASSUME WalletInv, UNCHANGED <<schedule, isInitialized, releasedAmount,
                                usedAmount, held, rewards>>,
         now' = now \/ now' = now + 1
  PROVE  ReleasedWithinSchedule' /\ UsedInv'
<1>1. /\ now \in Nat /\ now' \in Nat /\ now <= now' /\ schedule \in Schedule
      /\ releasedAmount \in Nat /\ usedAmount \in Nat
  BY BoundsAssumption DEF WalletInv, LockInv, LockTypeOK, WalletTypeOK
<1>2. ASSUME Proportioned(schedule)
      PROVE  /\ UnlockedAmount(schedule, now) \in Nat
             /\ UnlockedAmount(schedule, now') \in Nat
             /\ UnlockedAmount(schedule, now) <= UnlockedAmount(schedule, now')
             /\ VestedAmount(schedule, now) \in Nat
             /\ VestedAmount(schedule, now') \in Nat
             /\ VestedAmount(schedule, now) <= VestedAmount(schedule, now')
  BY <1>1, <1>2, UnlockedMonotone, VestedMonotone
<1>3. ReleasedWithinSchedule'
  BY <1>1, <1>2 DEF WalletInv, ReleasedWithinSchedule
<1>4. UsedWithinVested'
  BY <1>1, <1>2 DEF WalletInv, UsedInv, UsedWithinVested, Enabled
<1>5. UsedTracksHeld'
  BY DEF WalletInv, UsedInv, UsedTracksHeld, Enabled
<1> QED
  BY <1>3, <1>4, <1>5 DEF WalletInv, UsedInv

-----------------------------------------------------------------------------
LEMMA InheritedWallet ==
  ASSUME WalletInv, NEW caller \in Address, InheritedCall(caller),
         UNCHANGED <<walletVars, allowList>>
  PROVE  WalletInv'
<1>1. LockInv' /\ Balanced
  BY InheritedCallInv DEF WalletInv
<1>2. UNCHANGED <<now, schedule, isInitialized, releasedAmount>>
  BY DEF InheritedCall, ChangeBeneficiary, AcceptLock, CancelLock,
         WithdrawSurplus, Revoke, ChangeOwner, config, paid
<1>3. owner' = owner \/ OnlyOwner(caller)
  BY DEF InheritedCall, ChangeBeneficiary, AcceptLock, CancelLock,
         WithdrawSurplus, Revoke, ChangeOwner, TransferOwnership,
         RenounceOwnership, roles
<1>4. WalletTypeOK'
  BY <1>2, <1>3, SameWallet
<1>5. WalletAccounted'
  BY <1>1, BalancedWallet DEF walletVars
<1>6. ReleasedWithinSchedule' /\ UsedInv'
  BY <1>2, BoundsGrow DEF walletVars
<1> QED
  BY <1>1, <1>4, <1>5, <1>6 DEF WalletInv

LEMMA EnvironmentWallet ==
  ASSUME WalletInv, Environment, UNCHANGED <<walletVars, allowList>>
  PROVE  WalletInv'
<1>1. LockInv' /\ Balanced
  BY EnvironmentInv DEF WalletInv
<1>2. /\ UNCHANGED <<schedule, isInitialized, releasedAmount, owner>>
      /\ now' = now \/ now' = now + 1
  BY DEF Environment, Deposit, Tick, config, paid, roles
<1>3. WalletTypeOK'
  BY <1>2, SameWallet
<1>4. WalletAccounted'
  BY <1>1, BalancedWallet DEF walletVars
<1>5. ReleasedWithinSchedule' /\ UsedInv'
  BY <1>2, BoundsGrow DEF walletVars
<1> QED
  BY <1>1, <1>3, <1>4, <1>5 DEF WalletInv

(* Nothing was released and nothing is used when the schedule is written.  *)
LEMMA InitializeWallet ==
  ASSUME WalletInv, WalletInitialize PROVE WalletInv'
<1>1. PICK newManager \in Managers \cup AnyAddress,
           newOwner, newBeneficiary \in AnyAddress,
           newSchedule \in Schedules :
        /\ Initialize(newOwner, newBeneficiary, newSchedule)
        /\ IsManagerContract(newManager)
        /\ manager' = newManager
        /\ UNCHANGED <<usedAmount, approved, held, rewards, allowList>>
  BY DEF WalletInitialize
<1>2. LockInv' /\ Balanced
  BY <1>1, InitializeInv DEF WalletInv
<1>3. /\ isInitialized' = TRUE /\ ~isInitialized /\ schedule' = newSchedule
      /\ now' = now /\ releasedAmount' = releasedAmount
  BY <1>1 DEF Initialize, paid
<1>4. /\ releasedAmount = 0 /\ usedAmount = 0 /\ held <= rewards
      /\ held \in Nat /\ rewards \in Nat
  BY <1>3 DEF WalletInv, LockInv, UsedInv, WalletTypeOK
<1>5. WalletTypeOK'
  BY <1>1, <1>3 DEF IsManagerContract, WalletInv, WalletTypeOK
<1>6. WalletAccounted'
  BY <1>1, <1>2, BalancedWallet
<1>7. ASSUME Proportioned(schedule')
      PROVE  /\ UnlockedAmount(schedule', now') \in Nat
             /\ VestedAmount(schedule', now') \in Nat
  <2>1. now' \in Nat /\ schedule' \in Schedule
    BY <1>2, BoundsAssumption DEF LockInv, LockTypeOK
  <2> QED
    BY <1>7, <2>1, UnlockedMonotone, VestedMonotone
<1>8. ReleasedWithinSchedule'
  BY <1>3, <1>4, <1>7 DEF ReleasedWithinSchedule
<1>9. UsedInv'
  BY <1>1, <1>3, <1>4, <1>7 DEF UsedInv, UsedTracksHeld, UsedWithinVested, Enabled
<1> QED
  BY <1>2, <1>5, <1>6, <1>8, <1>9 DEF WalletInv

-----------------------------------------------------------------------------
(* setManager() and the approvals. *)
LEMMA AttachmentWallet ==
  ASSUME WalletInv, NEW caller \in Address,
         \/ \E newManager \in Managers \cup AnyAddress : SetManager(caller, newManager)
         \/ ApproveProtocol(caller)
         \/ RevokeProtocol(caller)
  PROVE  WalletInv'
<1>1. UNCHANGED <<lockVars, usedAmount, held, rewards, allowList>>
  BY DEF SetManager, ApproveProtocol, RevokeProtocol
<1>2. isInitialized
  BY ZeroAddressAssumption
     DEF WalletInv, LockInv, LockTypeOK, WalletTypeOK, SetManager,
         ApproveProtocol, RevokeProtocol, OnlyOwner, OnlyBeneficiary
<1>3. manager' \in Managers
  BY <1>2 DEF WalletInv, WalletTypeOK, SetManager, IsManagerContract,
     ApproveProtocol, RevokeProtocol
<1>4. approved' \in SUBSET ProtocolContracts
  <2>1. allowList[manager].tokenDestinations \in SUBSET ProtocolContracts
    BY <1>2 DEF WalletInv, WalletTypeOK, AllowList
  <2> QED
    BY <2>1 DEF WalletInv, WalletTypeOK, SetManager, ApproveProtocol, RevokeProtocol
<1>5. LockInv' /\ Balanced
  BY <1>1 DEF WalletInv, LockInv, LockTypeOK, Accounted, Balanced,
     SurplusOnlyFromExtra, lockVars, roles, config, status, paid, accounts
<1>6. WalletTypeOK'
  BY <1>1, <1>2, <1>3, <1>4
     DEF WalletInv, WalletTypeOK, lockVars, roles, config
<1>7. WalletAccounted'
  BY <1>1, <1>5, BalancedWallet
<1>8. ReleasedWithinSchedule' /\ UsedInv'
  BY <1>1, BoundsGrow DEF lockVars, config, paid
<1> QED
  BY <1>5, <1>6, <1>7, <1>8 DEF WalletInv

(* The amount that the wallet lets out is within the balance and within    *)
(* what is unlocked and was not released.                                  *)
LEMMA WalletReleasableBounds ==
  ASSUME WalletInv, isInitialized, ~ReleasableReverts, WalletReleasableAmount > 0
  PROVE  /\ WalletReleasableAmount \in Int
         /\ WalletReleasableAmount <= balance
         /\ releasedAmount + WalletReleasableAmount
              <= UnlockedAmount(schedule, now)
<1>1. /\ schedule \in Schedule /\ ValidSchedule(schedule) /\ now \in Nat
      /\ balance \in Nat /\ releasedAmount \in Nat /\ usedAmount \in Nat
  BY BoundsAssumption DEF WalletInv, LockInv, LockTypeOK, WalletTypeOK
<1>2. ~ReleaseBlocked(schedule, now)
  BY DEF WalletReleasableAmount, ReleasableAmount
<1>3. AvailableAmount(schedule, now) \in Nat
  BY <1>1, <1>2, AvailableType DEF ReleasableReverts
<1>4. UnlockedAmount(schedule, now) = AvailableAmount(schedule, now)
  BY <1>2 DEF UnlockedAmount
<1>5. WalletReleasableAmount =
        min(balance, AvailableAmount(schedule, now) - releasedAmount
                       - IF Enabled THEN usedAmount ELSE 0)
  BY <1>1, <1>2, <1>3 DEF WalletReleasableAmount, ReleasableAmount
<1> QED
  BY <1>1, <1>3, <1>4, <1>5 DEF min

LEMMA ReleaseWallet ==
  ASSUME WalletInv, NEW caller \in Address, WalletRelease(caller)
  PROVE  WalletInv'
<1>1. isInitialized
  BY ZeroAddressAssumption
     DEF WalletInv, LockInv, LockTypeOK, WalletRelease, OnlyBeneficiary
<1>2. /\ ~ReleasableReverts /\ WalletReleasableAmount > 0
      /\ Release(caller, WalletReleasableAmount)
      /\ UNCHANGED <<walletVars, allowList>>
  BY DEF WalletRelease, Release
<1>3. /\ WalletReleasableAmount \in Int
      /\ WalletReleasableAmount <= balance
      /\ releasedAmount + WalletReleasableAmount <= UnlockedAmount(schedule, now)
  BY <1>1, <1>2, WalletReleasableBounds
<1>4. LockInv' /\ Balanced
  BY <1>2, <1>3, ReleaseInv DEF WalletInv
<1>5. UNCHANGED <<now, roles, config>>
        /\ releasedAmount' = releasedAmount + WalletReleasableAmount
  BY <1>2 DEF Release
<1>6. WalletTypeOK'
  BY <1>2, <1>5, SameWallet DEF roles, config
<1>7. WalletAccounted'
  BY <1>2, <1>4, BalancedWallet DEF walletVars
<1>8. ReleasedWithinSchedule'
  BY <1>3, <1>5 DEF ReleasedWithinSchedule, config
<1>9. UsedInv'
  BY <1>2, <1>5 DEF WalletInv, UsedInv, UsedTracksHeld, UsedWithinVested,
     Enabled, walletVars, config
<1> QED
  BY <1>4, <1>6, <1>7, <1>8, <1>9 DEF WalletInv

-----------------------------------------------------------------------------
(* A forwarded call moves tokens between balance and protocol.             *)
LEMMA ProtocolCallMoves ==
  ASSUME WalletInv, NEW sig \in Sigs, NEW target, ProtocolCall(sig, target)
  PROVE  /\ balance' \in Nat /\ held' \in Nat
         /\ balance' + held' = balance + held
<1>1. balance \in Nat /\ held \in Nat
  BY DEF WalletInv, LockInv, LockTypeOK, WalletTypeOK
<1> QED
  BY <1>1 DEF ProtocolCall

(* usedAmount follows held up, and down to zero. *)
LEMMA UsedFollows ==
  ASSUME NEW used \in Nat, NEW h \in Nat, NEW r \in Nat, NEW b \in Nat,
         NEW newB \in Nat, NEW newH \in Nat, newB + newH = b + h,
         used <= h, h <= used + r
  PROVE  LET newUsed == IF newB < b THEN used + (b - newB)
                        ELSE IF newB - b >= used THEN 0 ELSE used - (newB - b)
         IN  newUsed \in Nat /\ newUsed <= newH /\ newH <= newUsed + r
  OBVIOUS

LEMMA ForwardCallWallet ==
  ASSUME WalletInv, NEW caller \in Address, NEW sig \in Sigs,
         ForwardCall(caller, sig)
  PROVE  WalletInv'
<1>1. PICK target : ProtocolCall(sig, target)
  BY DEF ForwardCall
<1>2. /\ balance' \in Nat /\ held' \in Nat
      /\ balance' + held' = balance + held
  BY <1>1, ProtocolCallMoves
<1>3. UNCHANGED <<now, roles, config, status, paid, received, manager,
                  approved, rewards, allowList>>
  BY DEF ForwardCall
<1>4. isInitialized
  BY ZeroAddressAssumption
     DEF WalletInv, LockInv, LockTypeOK, ForwardCall, OnlyBeneficiary
<1>5. /\ balance \in Nat /\ held \in Nat /\ usedAmount \in Nat /\ rewards \in Nat
      /\ releasedAmount \in Nat /\ revokedAmount \in Nat /\ withdrawn \in Nat
      /\ cancelled \in Nat /\ received \in Nat
  BY DEF WalletInv, LockInv, LockTypeOK, WalletTypeOK
<1>6. WalletAccounted' /\ Accounted' <= received'
  <2>1. /\ Accounted' = balance' + releasedAmount + revokedAmount + withdrawn
                          + cancelled
        /\ received' = received
    BY <1>3 DEF Accounted, paid
  <2>2. balance + releasedAmount + revokedAmount + withdrawn + cancelled + held
          = received
    BY DEF WalletInv, WalletAccounted, Accounted
  <2>3. ASSUME NEW newB \in Nat, NEW newH \in Nat, newB + newH = balance + held
        PROVE  /\ newB + releasedAmount + revokedAmount + withdrawn + cancelled
                    + newH = received
               /\ newB + releasedAmount + revokedAmount + withdrawn + cancelled
                    <= received
    BY <1>5, <2>2, <2>3
  <2>4. /\ balance' + releasedAmount + revokedAmount + withdrawn + cancelled
             + held' = received
        /\ balance' + releasedAmount + revokedAmount + withdrawn + cancelled
             <= received
    BY <1>2, <2>3, Zenon
  <2> QED
    BY <2>1, <2>4, Zenon DEF WalletAccounted
<1>7. LockInv'
  BY <1>2, <1>3, <1>6 DEF WalletInv, LockInv, LockTypeOK, SurplusOnlyFromExtra,
     roles, config, status, paid
<1>8. usedAmount' \in Nat /\ UsedTracksHeld'
  <2>1. CASE Enabled
    <3>1. usedAmount' = UsedAmountAfter(balance')
      BY <2>1 DEF ForwardCall
    <3>2. usedAmount <= held /\ held <= usedAmount + rewards
      BY <2>1 DEF WalletInv, UsedInv, UsedTracksHeld
    <3>3. ASSUME NEW newB \in Nat, NEW newH \in Nat, newB + newH = balance + held
          PROVE  /\ UsedAmountAfter(newB) \in Nat /\ UsedAmountAfter(newB) <= newH
                 /\ newH <= UsedAmountAfter(newB) + rewards
      BY <1>5, <3>2, <3>3, UsedFollows DEF UsedAmountAfter
    <3>4. usedAmount' \in Nat /\ usedAmount' <= held'
            /\ held' <= usedAmount' + rewards
      BY <1>2, <3>1, <3>3, Zenon
    <3> QED
      BY <1>3, <3>4 DEF UsedTracksHeld
  <2>2. CASE ~Enabled
    BY <1>3, <1>5, <2>2 DEF ForwardCall, UsedTracksHeld, Enabled, config
  <2> QED
    BY <2>1, <2>2
<1>9. UsedWithinVested'
  <2> SUFFICES ASSUME Enabled PROVE usedAmount' <= VestedAmount(schedule, now)
    BY <1>3 DEF UsedWithinVested, Enabled, config
  <2> QED
    BY DEF ForwardCall, MayUse
<1>10. WalletTypeOK'
  BY <1>2, <1>3, <1>4, <1>8 DEF WalletInv, WalletTypeOK, roles, config
<1>11. ReleasedWithinSchedule'
  BY <1>3 DEF WalletInv, ReleasedWithinSchedule, config, paid
<1> QED
  BY <1>3, <1>4, <1>6, <1>7, <1>8, <1>9, <1>10, <1>11
     DEF WalletInv, UsedInv, config

LEMMA StakeToWallet ==
  ASSUME WalletInv, NEW amount \in 1 .. Supply, StakeTo(amount)
  PROVE  WalletInv'
<1>1. /\ held' = held + amount /\ rewards' = rewards + amount
      /\ received' = received + amount /\ amount \in Nat
      /\ UNCHANGED <<now, roles, config, status, paid, balance, manager,
                     usedAmount, approved, allowList>>
  BY BoundsAssumption DEF StakeTo
<1>2. /\ held \in Nat /\ rewards \in Nat /\ received \in Nat
      /\ usedAmount \in Nat /\ Accounted \in Nat /\ withdrawn \in Nat
      /\ schedule.managedAmount \in Nat
  BY AccountedType
     DEF WalletInv, WalletTypeOK, LockInv, LockTypeOK, Schedule
<1>3. Accounted' = Accounted
  BY <1>1 DEF Accounted, paid
<1>4. WalletAccounted' /\ Accounted' <= received'
  BY <1>1, <1>2, <1>3 DEF WalletInv, WalletAccounted
<1>5. SurplusOnlyFromExtra'
  <2>1. withdrawn' = withdrawn /\ schedule' = schedule
    BY <1>1 DEF config, paid
  <2> QED
    BY <1>1, <1>2, <2>1 DEF WalletInv, LockInv, SurplusOnlyFromExtra
<1>6. held' \in Nat /\ rewards' \in Nat /\ received' \in Nat
  BY <1>1, <1>2
<1>7. LockInv'
  BY <1>1, <1>4, <1>5, <1>6
     DEF WalletInv, LockInv, LockTypeOK, roles, config, status, paid
<1>8. WalletTypeOK'
  BY <1>1, <1>6 DEF WalletInv, WalletTypeOK, roles, config
<1>9. ReleasedWithinSchedule' /\ UsedWithinVested'
  BY <1>1 DEF WalletInv, UsedInv, ReleasedWithinSchedule, UsedWithinVested,
     Enabled, config, paid
<1>10. UsedTracksHeld' /\ (~isInitialized' => usedAmount' = 0 /\ held' <= rewards')
  <2>1. UNCHANGED <<Enabled, isInitialized, usedAmount>>
    BY <1>1 DEF Enabled, config
  <2> QED
    BY <1>1, <1>2, <2>1 DEF WalletInv, UsedInv, UsedTracksHeld
<1> QED
  BY <1>4, <1>7, <1>8, <1>9, <1>10 DEF WalletInv, UsedInv

(* The owner of a manager changes nothing but the lists. *)
LEMMA ManagerCallWallet ==
  ASSUME WalletInv, NEW m \in Managers, ManagerCall(m)
  PROVE  WalletInv'
<1> DEFINE list == allowList[m]
<1>1. UNCHANGED <<lockVars, walletVars>>
  BY DEF ManagerCall
<1>2. list \in AllowList
  BY DEF WalletInv, WalletTypeOK
<1>3. PICK newList \in AllowList : SetList(m, newList)
  <2>1. ASSUME NEW sig \in Sigs, NEW target \in ProtocolContracts
        PROVE  WithAuthFunctionCall(list, sig, target) \in AllowList
    BY <1>2 DEF WithAuthFunctionCall, AllowList
  <2>2. ASSUME NEW sigs \in SUBSET Sigs, NEW targets \in [sigs -> ProtocolContracts]
        PROVE  WithAuthFunctionCalls(list, targets) \in AllowList
    <3> DEFINE calls == [sig \in Sigs |-> IF sig \in DOMAIN targets THEN targets[sig]
                                          ELSE list.authFnCalls[sig]]
    <3>1. calls \in [Sigs -> ProtocolContracts \cup {NoTarget}]
      BY <1>2 DEF AllowList
    <3>2. WithAuthFunctionCalls(list, targets) = [list EXCEPT !.authFnCalls = calls]
      BY DEF WithAuthFunctionCalls
    <3> QED
      BY <1>2, <3>1, <3>2 DEF AllowList
  <2>3. ASSUME NEW sig \in Sigs
        PROVE  WithoutAuthFunctionCall(list, sig) \in AllowList
    BY <1>2 DEF WithoutAuthFunctionCall, AllowList
  <2>4. ASSUME NEW dst \in ProtocolContracts
        PROVE  /\ WithTokenDestination(list, dst) \in AllowList
               /\ WithoutTokenDestination(list, dst) \in AllowList
    BY <1>2 DEF WithTokenDestination, WithoutTokenDestination, AllowList
  <2> HIDE DEF list
  <2> QED
    BY <2>1, <2>2, <2>3, <2>4 DEF ManagerCall, list
<1>4. allowList' \in [Managers -> AllowList]
  BY <1>3 DEF SetList, WalletInv, WalletTypeOK
<1>5. LockInv' /\ Balanced
  BY <1>1 DEF WalletInv, LockInv, LockTypeOK, Accounted, Balanced,
     SurplusOnlyFromExtra, lockVars, roles, config, status, paid, accounts
<1>6. WalletTypeOK'
  BY <1>1, <1>4 DEF WalletInv, WalletTypeOK, lockVars, walletVars, roles, config
<1>7. WalletAccounted'
  BY <1>1, <1>5, BalancedWallet DEF walletVars
<1>8. ReleasedWithinSchedule' /\ UsedInv'
  BY <1>1, BoundsGrow DEF lockVars, walletVars, config, paid
<1> QED
  BY <1>5, <1>6, <1>7, <1>8 DEF WalletInv

LEMMA WalletInvPreserved == WalletInv /\ [Next]_vars => WalletInv'
<1> SUFFICES ASSUME WalletInv, [Next]_vars PROVE WalletInv'
  OBVIOUS
<1>1. CASE WalletInitialize
  BY <1>1, InitializeWallet
<1>2. ASSUME NEW caller \in Address, WalletRelease(caller)
      PROVE  WalletInv'
  BY <1>2, ReleaseWallet
<1>3. ASSUME NEW caller \in Address, InheritedCall(caller),
             UNCHANGED <<walletVars, allowList>>
      PROVE  WalletInv'
  BY <1>3, InheritedWallet
<1>4. ASSUME NEW caller \in Address,
             \/ \E newManager \in Managers \cup AnyAddress :
                  SetManager(caller, newManager)
             \/ ApproveProtocol(caller)
             \/ RevokeProtocol(caller)
      PROVE  WalletInv'
  BY <1>4, AttachmentWallet
<1>5. ASSUME NEW caller \in Address, NEW sig \in Sigs, ForwardCall(caller, sig)
      PROVE  WalletInv'
  BY <1>5, ForwardCallWallet
<1>6. CASE Environment /\ UNCHANGED <<walletVars, allowList>>
  BY <1>6, EnvironmentWallet
<1>7. ASSUME NEW amount \in 1 .. Supply, StakeTo(amount)
      PROVE  WalletInv'
  BY <1>7, StakeToWallet
<1>8. ASSUME NEW m \in Managers, ManagerCall(m)
      PROVE  WalletInv'
  BY <1>8, ManagerCallWallet
<1>9. CASE UNCHANGED vars
  <2>1. LockInv' /\ Balanced
    BY <1>9 DEF WalletInv, LockInv, LockTypeOK, Accounted, Balanced,
       SurplusOnlyFromExtra, vars, lockVars, roles, config, status, paid, accounts
  <2>2. WalletTypeOK'
    BY <1>9, SameWallet DEF vars, lockVars, roles, config
  <2>3. WalletAccounted'
    BY <1>9, <2>1, BalancedWallet DEF vars, walletVars
  <2>4. ReleasedWithinSchedule' /\ UsedInv'
    BY <1>9, BoundsGrow DEF vars, lockVars, walletVars, config, paid
  <2> QED
    BY <2>1, <2>2, <2>3, <2>4 DEF WalletInv
<1> QED
  BY <1>1, <1>2, <1>3, <1>4, <1>5, <1>6, <1>7, <1>8, <1>9 DEF Next

(* The invariant of the wallet holds after any calls by anyone, whatever   *)
(* the managers' lists and the protocol do.                                *)
THEOREM WalletInvariant == Spec => []WalletInv
  BY WalletInvInitially, WalletInvPreserved, PTL DEF Spec

-----------------------------------------------------------------------------
(* No reachable state has a variable outside its type, and an initialized  *)
(* wallet is always attached to a manager contract.                        *)
THEOREM WalletTypeCorrectness == Spec => []TypeOK
<1>1. WalletInv => TypeOK
  BY DEF WalletInv, LockInv, WalletTypeOK, TypeOK
<1> QED
  BY <1>1, WalletInvariant, PTL

(* No release runs ahead of a proportioned schedule, whatever is staked.   *)
THEOREM WalletReleaseSafety == Spec => []ReleasedWithinSchedule
<1>1. WalletInv => ReleasedWithinSchedule
  BY DEF WalletInv
<1> QED
  BY <1>1, WalletInvariant, PTL

(* Surplus withdrawals never touch the managed amount.                     *)
THEOREM WalletSurplusIsExtra == Spec => []SurplusOnlyFromExtra
<1>1. WalletInv => SurplusOnlyFromExtra
  BY DEF WalletInv, LockInv
<1> QED
  BY <1>1, WalletInvariant, PTL

(* usedAmount is a sound account of the tokens in the protocol.            *)
THEOREM WalletUsedTracksHeld == Spec => []UsedTracksHeld
<1>1. WalletInv => UsedTracksHeld
  BY DEF WalletInv, UsedInv
<1> QED
  BY <1>1, WalletInvariant, PTL

(* No more is used in the protocol than is vested, at any time.            *)
THEOREM WalletUsedWithinVested == Spec => []UsedWithinVested
<1>1. WalletInv => UsedWithinVested
  BY DEF WalletInv, UsedInv
<1> QED
  BY <1>1, WalletInvariant, PTL

(* A funded wallet has what it still owes, counting the protocol.          *)
LEMMA WalletCovered == WalletInv => WalletOutstandingCovered
<1> SUFFICES ASSUME WalletInv, Funded
             PROVE  balance + held >= TotalOutstandingAmount
  BY DEF WalletOutstandingCovered
<1>1. schedule.managedAmount \in Nat /\ held \in Nat
  BY DEF WalletInv, WalletTypeOK, LockInv, LockTypeOK, Schedule
<1> QED
  BY <1>1 DEF WalletInv, WalletAccounted, LockInv, LockTypeOK, Accounted,
              SurplusOnlyFromExtra, Funded, TotalOutstandingAmount

(* A funded wallet, with what the protocol holds for it, has what          *)
(* totalOutstandingAmount() says it still owes.                            *)
THEOREM WalletOutstandingSafety == Spec => []WalletOutstandingCovered
  BY WalletCovered, WalletInvariant, PTL

-----------------------------------------------------------------------------
(* Only cancelLock() and revoke() pay the owner. *)
LEMMA WalletOwnerPayments ==
  ASSUME [Next]_vars,
         ~\E caller \in Address : CancelLock(caller) \/ Revoke(caller)
  PROVE  revokedAmount' = revokedAmount /\ cancelled' = cancelled
  BY DEF Next, WalletInitialize, Initialize, WalletRelease, Release,
         InheritedCall, ChangeBeneficiary, AcceptLock, WithdrawSurplus,
         ChangeOwner, SetManager, ApproveProtocol, RevokeProtocol, ForwardCall,
         StakeTo, ManagerCall, Environment, Deposit, Tick, vars, lockVars, paid

(* A revocation takes the unvested part of what wallet and protocol cover. *)
LEMMA WalletRevokeKeepsVested ==
  ASSUME WalletInv, Funded, NEW caller \in Address, Revoke(caller),
         UNCHANGED held
  PROVE  balance' + held' + releasedAmount' >= VestedAmount(schedule, now)
<1>1. balance + held >= TotalOutstandingAmount
  BY WalletCovered DEF WalletOutstandingCovered
<1>2. schedule.managedAmount \in Nat /\ now \in Nat
  BY BoundsAssumption DEF WalletInv, LockInv, LockTypeOK, Schedule
<1>3. VestedAmount(schedule, now) \in Nat
  BY <1>2, VestedType DEF WalletInv, LockInv, LockTypeOK, Funded, Revoke
<1>4. /\ revokedAmount = 0 /\ releasedAmount \in Nat /\ balance \in Nat
      /\ held \in Nat
  BY DEF WalletInv, WalletTypeOK, LockInv, LockTypeOK, Revoke
<1>5. /\ balance' = balance - (schedule.managedAmount - VestedAmount(schedule, now))
      /\ releasedAmount' = releasedAmount
  BY DEF Revoke, UnvestedAmount
<1>6. balance + held >= schedule.managedAmount - releasedAmount
  BY <1>1, <1>2, <1>4 DEF TotalOutstandingAmount
<1>7. balance - (schedule.managedAmount - VestedAmount(schedule, now)) + held
        + releasedAmount >= VestedAmount(schedule, now)
  BY <1>2, <1>3, <1>4, <1>6
<1> QED
  BY <1>5, <1>7

(* The owner can never take from a funded, accepted wallet what is vested. *)
THEOREM WalletVestedSafety == Spec => WalletVestedKept
<1> DEFINE OwnerPaid ==
      /\ isAccepted /\ Funded
      /\ revokedAmount' + cancelled' > revokedAmount + cancelled
<1>1. ASSUME WalletInv, [Next]_vars, OwnerPaid
      PROVE  balance' + held' + releasedAmount' >= VestedAmount(schedule, now)
  <2>1. ASSUME NEW caller \in Address, CancelLock(caller) PROVE FALSE
    BY <1>1, <2>1 DEF CancelLock
  <2>2. ASSUME NEW caller \in Address, Revoke(caller) PROVE UNCHANGED held
    <3>1. revokedAmount' # revokedAmount
      <4>1. revokedAmount = 0 /\ revokedAmount' = UnvestedAmount /\ UnvestedAmount > 0
        BY <1>1, <2>2 DEF WalletInv, LockInv, Revoke
      <4> QED
        BY <4>1
    <3> QED
      BY <1>1, <3>1
         DEF Next, WalletInitialize, Initialize, WalletRelease, Release,
             SetManager, ApproveProtocol, RevokeProtocol, ForwardCall, StakeTo,
             ManagerCall, Environment, walletVars, vars, lockVars, paid
  <2>3. CASE \E caller \in Address : Revoke(caller)
    BY <1>1, <2>2, <2>3, WalletRevokeKeepsVested
  <2>4. CASE ~\E caller \in Address : CancelLock(caller) \/ Revoke(caller)
    <3>1. revokedAmount' = revokedAmount /\ cancelled' = cancelled
      BY <1>1, <2>4, WalletOwnerPayments
    <3>2. revokedAmount + cancelled > revokedAmount + cancelled
      BY <1>1, <3>1
    <3>3. revokedAmount \in Nat /\ cancelled \in Nat
      BY <1>1 DEF WalletInv, LockInv, LockTypeOK
    <3> QED
      BY <3>2, <3>3
  <2> QED
    BY <2>1, <2>3, <2>4
<1>2. WalletInv /\ [Next]_vars
        => [ OwnerPaid => balance' + held' + releasedAmount'
               >= VestedAmount(schedule, now) ]_vars
  BY <1>1
<1> QED
  BY <1>2, WalletInvariant, PTL DEF Spec, WalletVestedKept

-----------------------------------------------------------------------------
(* The wallet implements TokenEscrow.tla; in escrow is what it holds and    *)
(* what the protocol holds for it.  Besides WalletInv a step needs that the *)
(* tokens received are bounded, and that a revocation implies a promise.    *)
WalletEscrowInv ==
  /\ WalletInv
  /\ received <= Supply
  /\ ~isInitialized => ~isRevoked

LEMMA WalletEscrowInvariant == Spec => []WalletEscrowInv
<1>1. Init => WalletEscrowInv
  BY WalletInvInitially, BoundsAssumption DEF Init, LockInit, WalletEscrowInv
<1>2. WalletEscrowInv /\ [Next]_vars => WalletEscrowInv'
  <2> SUFFICES ASSUME WalletEscrowInv, [Next]_vars PROVE WalletEscrowInv'
    OBVIOUS
  <2>1. ASSUME NEW caller \in Address, Revoke(caller) PROVE isInitialized'
    BY <2>1, ZeroAddressAssumption
       DEF Revoke, OnlyOwner, WalletEscrowInv, WalletInv, WalletTypeOK, config
  <2>2. received' <= Supply
    BY DEF WalletEscrowInv, Next, WalletInitialize, Initialize, WalletRelease,
       Release, InheritedCall, ChangeBeneficiary, AcceptLock, CancelLock,
       WithdrawSurplus, Revoke, ChangeOwner, SetManager, ApproveProtocol,
       RevokeProtocol, ForwardCall, StakeTo, ManagerCall, Environment, Deposit,
       Tick, vars, lockVars, accounts
  <2>3. ~isInitialized' => ~isRevoked'
    BY <2>1 DEF WalletEscrowInv, Next, WalletInitialize, Initialize, WalletRelease,
       Release, InheritedCall, ChangeBeneficiary, AcceptLock, CancelLock,
       WithdrawSurplus, ChangeOwner, SetManager, ApproveProtocol, RevokeProtocol,
       ForwardCall, StakeTo, ManagerCall, Environment, Deposit, Tick, vars,
       lockVars, config, status
  <2> QED
    BY <2>2, <2>3, WalletInvPreserved DEF WalletEscrowInv
<1> QED
  BY <1>1, <1>2, PTL DEF Spec

(* The values that the abstract machine is given. *)
LEMMA WalletEscrowTypes ==
  ASSUME WalletInv
  PROVE  /\ now \in Nat /\ schedule \in Schedule /\ schedule.managedAmount \in Nat
         /\ isInitialized => schedule.managedAmount > 0 /\ ValidSchedule(schedule)
         /\ ~isInitialized => schedule.managedAmount = 0
         /\ balance \in Nat /\ held \in Nat /\ received \in Nat
         /\ releasedAmount \in Nat /\ revokedAmount \in Nat
         /\ withdrawn \in Nat /\ cancelled \in Nat
<1>1. /\ now \in Nat /\ schedule \in Schedule
      /\ balance \in Nat /\ held \in Nat /\ received \in Nat
      /\ releasedAmount \in Nat /\ revokedAmount \in Nat
      /\ withdrawn \in Nat /\ cancelled \in Nat
  BY BoundsAssumption DEF WalletInv, WalletTypeOK, LockInv, LockTypeOK
<1>2. schedule.managedAmount \in Nat
  BY <1>1 DEF Schedule
<1>3. isInitialized => schedule.managedAmount > 0 /\ ValidSchedule(schedule)
  BY DEF WalletInv, LockInv, LockTypeOK, ValidSchedule
<1>4. ~isInitialized => schedule.managedAmount = 0
  BY DEF WalletInv, LockInv, LockTypeOK, NoSchedule
<1> QED
  BY <1>1, <1>2, <1>3, <1>4

(* Calls that leave everything that the abstract machine sees as it is. *)
LEMMA SameWalletEscrow ==
  ASSUME UNCHANGED <<now, schedule, isInitialized, isAccepted, isRevoked,
                     releasedAmount, revokedAmount, received, withdrawn,
                     cancelled>>,
         balance' + held' = balance + held
  PROVE  UNCHANGED Escrow!escrowVars
BY DEF Escrow!escrowVars, Escrow!promise, Escrow!status, EscrowLimit,
       EscrowCommitted, Committed

LEMMA WalletInitializeIsPromise ==
  ASSUME WalletEscrowInv, WalletInitialize
  PROVE  Escrow!Promise
<1>1. PICK newOwner, newBeneficiary \in AnyAddress, newSchedule \in Schedules :
        Initialize(newOwner, newBeneficiary, newSchedule)
  BY DEF WalletInitialize
<1>2. /\ ~isInitialized /\ isInitialized' /\ ~isRevoked' /\ schedule' = newSchedule
      /\ now' = now
      /\ UNCHANGED <<isAccepted, isRevoked, releasedAmount, revokedAmount,
                     balance, received, withdrawn, cancelled>>
  BY <1>1 DEF Initialize, status, paid, accounts, WalletEscrowInv
<1>3. held' = held
  BY DEF WalletInitialize
<1>4. schedule.managedAmount = 0 /\ newSchedule.managedAmount > 0 /\ now \in Nat
  BY <1>1, <1>2, WalletEscrowTypes DEF Initialize, ValidSchedule, WalletEscrowInv
<1>5. newSchedule \in Schedule
  BY SchedulesAssumption
<1>6. EscrowLimit' >= 0 /\ EscrowCommitted' >= 0
  <2>1. Proportioned(newSchedule) => /\ UnlockedAmount(newSchedule, now) >= 0
                                     /\ VestedAmount(newSchedule, now) >= 0
    BY <1>4, <1>5, UnlockedMonotone, VestedMonotone
  <2>2. Supply >= 0
    BY BoundsAssumption
  <2> QED
    BY <1>2, <2>1, <2>2 DEF EscrowLimit, EscrowCommitted, Committed
<1> QED
  BY <1>2, <1>3, <1>4, <1>6 DEF Escrow!Promise, Escrow!status

LEMMA WalletTickIsPass ==
  ASSUME WalletEscrowInv, Tick, UNCHANGED held
  PROVE  Escrow!Pass
<1>1. /\ now' = now + 1
      /\ UNCHANGED <<schedule, isInitialized, isAccepted, isRevoked,
                     releasedAmount, revokedAmount, balance, received,
                     withdrawn, cancelled>>
  BY DEF Tick, config, status, paid, accounts
<1>2. now \in Nat /\ schedule \in Schedule /\ schedule.managedAmount \in Nat
        /\ revokedAmount \in Nat
  BY WalletEscrowTypes DEF WalletEscrowInv
<1>3. ASSUME Proportioned(schedule)
      PROVE  /\ UnlockedAmount(schedule, now + 1) >= UnlockedAmount(schedule, now)
             /\ VestedAmount(schedule, now + 1) >= VestedAmount(schedule, now)
  BY <1>2, <1>3, UnlockedMonotone, VestedMonotone
<1>4. EscrowLimit' >= EscrowLimit
  BY <1>1, <1>3, BoundsAssumption DEF EscrowLimit
<1>5. EscrowCommitted' >= EscrowCommitted
  BY <1>1, <1>2, <1>3 DEF EscrowCommitted, Committed
<1> QED
  BY <1>1, <1>4, <1>5 DEF Escrow!Pass, Escrow!status

LEMMA WalletReleaseIsRelease ==
  ASSUME WalletEscrowInv, WalletInv', NEW caller \in Address, WalletRelease(caller)
  PROVE  Escrow!Release
<1>1. isInitialized
  BY ZeroAddressAssumption
     DEF WalletEscrowInv, WalletInv, LockInv, LockTypeOK, WalletRelease,
         OnlyBeneficiary
<1>2. /\ WalletReleasableAmount \in Int /\ WalletReleasableAmount <= balance
      /\ WalletReleasableAmount > 0
  BY <1>1, WalletReleasableBounds DEF WalletEscrowInv, WalletRelease, Release
<1>3. /\ releasedAmount' = releasedAmount + WalletReleasableAmount
      /\ balance' = balance - WalletReleasableAmount
      /\ UNCHANGED <<now, schedule, isInitialized, isAccepted, isRevoked,
                     revokedAmount, received, withdrawn, cancelled, held>>
  BY DEF WalletRelease, Release, config, status, walletVars
<1>4. UNCHANGED <<EscrowLimit, EscrowCommitted>>
  BY <1>3 DEF EscrowLimit, EscrowCommitted, Committed
<1>5. releasedAmount' <= EscrowLimit
  <2>1. CASE Proportioned(schedule)
    BY <1>1, <1>3, <2>1
       DEF WalletInv, ReleasedWithinSchedule, EscrowLimit
  <2>2. CASE ~Proportioned(schedule)
    <3>1. balance + releasedAmount <= received
      BY WalletEscrowTypes
         DEF WalletEscrowInv, WalletInv, WalletAccounted, Accounted
    <3> QED
      BY <1>1, <1>2, <1>3, <2>2, <3>1, WalletEscrowTypes, BoundsAssumption
         DEF EscrowLimit, WalletEscrowInv
  <2> QED
    BY <2>1, <2>2
<1> QED
  BY <1>2, <1>3, <1>4, <1>5, WalletEscrowTypes
     DEF Escrow!Release, Escrow!promise, Escrow!status, WalletEscrowInv

LEMMA WalletWithdrawIsPayExtra ==
  ASSUME WalletEscrowInv, WalletInv', NEW caller \in Address,
         NEW amount \in 1 .. Supply, WithdrawSurplus(caller, amount),
         UNCHANGED held
  PROVE  Escrow!PayExtra
<1>1. /\ withdrawn' = withdrawn + amount /\ balance' = balance - amount
      /\ amount > 0 /\ amount \in Int /\ SurplusAmount >= amount
      /\ TotalOutstandingAmount >= 0
      /\ UNCHANGED <<now, schedule, isInitialized, isAccepted, isRevoked,
                     releasedAmount, revokedAmount, received, cancelled>>
  BY DEF WithdrawSurplus, config, status
<1>2. UNCHANGED <<EscrowLimit, EscrowCommitted>>
  BY <1>1 DEF EscrowLimit, EscrowCommitted, Committed
<1>3. withdrawn' > withdrawn /\ withdrawn' > 0
  BY <1>1, WalletEscrowTypes DEF WalletEscrowInv
<1>4. withdrawn' + schedule.managedAmount <= received
  BY <1>1, <1>3 DEF WalletInv, LockInv, SurplusOnlyFromExtra
<1>5. amount <= balance
  BY <1>1, WalletEscrowTypes
     DEF SurplusAmount, TotalOutstandingAmount, WalletEscrowInv
<1>6. /\ balance' + held' = (balance + held) - (withdrawn' - withdrawn)
      /\ balance' + held' >= 0
  BY <1>1, <1>5, WalletEscrowTypes DEF WalletEscrowInv
<1> QED
  BY <1>1, <1>2, <1>3, <1>4, <1>5, <1>6
     DEF Escrow!PayExtra, Escrow!promise, Escrow!status

LEMMA WalletRevokeIsRevoke ==
  ASSUME WalletEscrowInv, NEW caller \in Address, Revoke(caller), UNCHANGED held
  PROVE  Escrow!Revoke
<1>1. /\ ~isRevoked /\ isRevoked' = TRUE /\ revokedAmount' = UnvestedAmount
      /\ balance' = balance - UnvestedAmount
      /\ UnvestedAmount > 0 /\ UnvestedAmount <= balance
      /\ ~VestedReverts(schedule, now)
      /\ UNCHANGED <<now, schedule, isInitialized, isAccepted, releasedAmount,
                     received, withdrawn, cancelled>>
  BY DEF Revoke, config
<1>2. isInitialized
  BY ZeroAddressAssumption
     DEF Revoke, OnlyOwner, WalletEscrowInv, WalletInv, WalletTypeOK
<1>3. VestedAmount(schedule, now) \in Nat
  BY <1>1, <1>2, WalletEscrowTypes, VestedType DEF WalletEscrowInv
<1>4. UnvestedAmount = schedule.managedAmount - VestedAmount(schedule, now)
        /\ UnvestedAmount \in Int
  BY <1>3, WalletEscrowTypes DEF UnvestedAmount, WalletEscrowInv
<1>5. EscrowLimit' = EscrowLimit
  BY <1>1 DEF EscrowLimit
<1>6. EscrowCommitted' = EscrowCommitted
  <2>1. Committed = VestedAmount(schedule, now)
    BY <1>1 DEF Committed
  <2>2. Committed' = schedule.managedAmount - UnvestedAmount
    BY <1>1 DEF Committed
  <2>3. schedule.managedAmount - UnvestedAmount = VestedAmount(schedule, now)
    BY <1>3, <1>4, WalletEscrowTypes DEF WalletEscrowInv
  <2> QED
    BY <1>1, <2>1, <2>2, <2>3 DEF EscrowCommitted
<1>7. UnvestedAmount + EscrowCommitted <= schedule.managedAmount
  BY <1>1, <1>3, <1>4, WalletEscrowTypes
     DEF EscrowCommitted, Committed, WalletEscrowInv
<1>8. /\ revokedAmount = 0
      /\ balance' + held' >= 0
      /\ balance' + held' = (balance + held) - revokedAmount'
  BY <1>1, <1>4, WalletEscrowTypes DEF WalletEscrowInv, WalletInv, LockInv
<1> QED
  BY <1>1, <1>5, <1>6, <1>7, <1>8
     DEF Escrow!Revoke, Escrow!promise

(* cancelLock() leaves behind what is in the protocol. *)
LEMMA WalletCancelIsCancel ==
  ASSUME WalletEscrowInv, NEW caller \in Address, CancelLock(caller),
         UNCHANGED held
  PROVE  Escrow!Cancel
<1>1. /\ isInitialized /\ ~isAccepted
      /\ balance' = 0 /\ cancelled' = cancelled + balance
      /\ UNCHANGED <<now, schedule, isInitialized, isAccepted, isRevoked,
                     releasedAmount, revokedAmount, received, withdrawn>>
  BY DEF CancelLock, config, status
<1>2. UNCHANGED <<EscrowLimit, EscrowCommitted>>
  BY <1>1 DEF EscrowLimit, EscrowCommitted, Committed
<1> QED
  BY <1>1, <1>2, WalletEscrowTypes
     DEF Escrow!Cancel, Escrow!promise, Escrow!status, WalletEscrowInv

(* Tokens sent to the wallet, and tokens staked for it, come in. *)
LEMMA WalletReceives ==
  ASSUME WalletEscrowInv, NEW amount \in 1 .. Supply,
         \/ Deposit(amount) /\ UNCHANGED held
         \/ StakeTo(amount)
  PROVE  Escrow!Receive
<1>1. /\ received' = received + amount /\ amount > 0 /\ amount \in Int
      /\ \/ balance' = balance + amount /\ held' = held
         \/ balance' = balance /\ held' = held + amount
      /\ UNCHANGED <<now, schedule, isInitialized, isAccepted, isRevoked,
                     releasedAmount, revokedAmount, withdrawn, cancelled>>
  BY DEF Deposit, StakeTo, config, status, paid
<1>2. UNCHANGED <<EscrowLimit, EscrowCommitted>>
  BY <1>1 DEF EscrowLimit, EscrowCommitted, Committed
<1>3. received' > received /\ balance' + held' = balance + held + (received' - received)
  BY <1>1, WalletEscrowTypes DEF WalletEscrowInv
<1> QED
  BY <1>1, <1>2, <1>3
     DEF Escrow!Receive, Escrow!promise, Escrow!status

LEMMA WalletAcceptIsAccept ==
  ASSUME WalletEscrowInv, NEW caller \in Address, AcceptLock(caller),
         UNCHANGED held
  PROVE  Escrow!Accept
<1>1. isInitialized
  BY ZeroAddressAssumption
     DEF WalletEscrowInv, WalletInv, LockInv, LockTypeOK, AcceptLock, OnlyBeneficiary
<1>2. /\ isAccepted' = TRUE
      /\ UNCHANGED <<now, schedule, isInitialized, isRevoked, releasedAmount,
                     revokedAmount, balance, received, withdrawn, cancelled>>
  BY DEF AcceptLock, config, paid, accounts
<1>3. UNCHANGED <<EscrowLimit, EscrowCommitted>>
  BY <1>2 DEF EscrowLimit, EscrowCommitted, Committed
<1> QED
  BY <1>1, <1>2, <1>3, WalletEscrowTypes
     DEF Escrow!Accept, Escrow!promise, WalletEscrowInv

(* Every step of the wallet is a step of the escrow or none at all. *)
LEMMA WalletEscrowStep ==
  WalletEscrowInv /\ WalletEscrowInv' /\ [Next]_vars
    => [Escrow!Next]_(Escrow!escrowVars)
<1> SUFFICES ASSUME WalletEscrowInv, WalletEscrowInv', [Next]_vars
             PROVE  [Escrow!Next]_(Escrow!escrowVars)
  OBVIOUS
<1> USE DEF Escrow!Next
<1>1. CASE WalletInitialize
  BY <1>1, WalletInitializeIsPromise
<1>2. ASSUME NEW caller \in Address, WalletRelease(caller)
      PROVE  Escrow!Next
  BY <1>2, WalletReleaseIsRelease DEF WalletEscrowInv
<1>3. ASSUME NEW caller \in Address, InheritedCall(caller),
             UNCHANGED <<walletVars, allowList>>
      PROVE  Escrow!Next \/ UNCHANGED Escrow!escrowVars
  <2>0. UNCHANGED held
    BY <1>3 DEF walletVars
  <2>1. CASE \/ \E newBeneficiary \in AnyAddress :
                  ChangeBeneficiary(caller, newBeneficiary)
             \/ ChangeOwner(caller)
    BY <2>0, <2>1, SameWalletEscrow
       DEF ChangeBeneficiary, ChangeOwner, config, status, paid, accounts
  <2>2. CASE AcceptLock(caller)
    BY <2>0, <2>2, WalletAcceptIsAccept
  <2>3. CASE CancelLock(caller)
    BY <2>0, <2>3, WalletCancelIsCancel
  <2>4. CASE \E amount \in 1 .. Supply : WithdrawSurplus(caller, amount)
    BY <2>0, <2>4, WalletWithdrawIsPayExtra DEF WalletEscrowInv
  <2>5. CASE Revoke(caller)
    BY <2>0, <2>5, WalletRevokeIsRevoke
  <2> QED
    BY <1>3, <2>1, <2>2, <2>3, <2>4, <2>5 DEF InheritedCall
<1>4. ASSUME NEW caller \in Address,
             \/ \E newManager \in Managers \cup AnyAddress :
                  SetManager(caller, newManager)
             \/ ApproveProtocol(caller)
             \/ RevokeProtocol(caller)
      PROVE  UNCHANGED Escrow!escrowVars
  BY <1>4, SameWalletEscrow
     DEF SetManager, ApproveProtocol, RevokeProtocol, lockVars, config, status,
         paid, accounts
<1>5. ASSUME NEW caller \in Address, NEW sig \in Sigs, ForwardCall(caller, sig)
      PROVE  UNCHANGED Escrow!escrowVars
  <2>1. balance' + held' = balance + held
    BY <1>5, ProtocolCallMoves DEF ForwardCall, WalletEscrowInv
  <2> QED
    BY <1>5, <2>1, SameWalletEscrow DEF ForwardCall, config, status, paid
<1>6. CASE Environment /\ UNCHANGED <<walletVars, allowList>>
  <2>1. UNCHANGED held
    BY <1>6 DEF walletVars
  <2> QED
    BY <1>6, <2>1, WalletReceives, WalletTickIsPass DEF Environment
<1>7. ASSUME NEW amount \in 1 .. Supply, StakeTo(amount)
      PROVE  Escrow!Next
  BY <1>7, WalletReceives
<1>8. ASSUME NEW m \in Managers, ManagerCall(m)
      PROVE  UNCHANGED Escrow!escrowVars
  BY <1>8, SameWalletEscrow
     DEF ManagerCall, lockVars, walletVars, config, status, paid, accounts
<1>9. CASE UNCHANGED vars
  BY <1>9, SameWalletEscrow
     DEF vars, lockVars, walletVars, config, status, paid, accounts
<1> QED
  BY <1>1, <1>2, <1>3, <1>4, <1>5, <1>6, <1>7, <1>8, <1>9 DEF Next

(* The wallet implements the escrow, wherever its tokens are. *)
THEOREM WalletImplementsEscrow == Spec => ImplementsEscrow
<1>1. Init => Escrow!Init
  BY DEF Init, LockInit, NoSchedule, Escrow!Init, EscrowLimit, EscrowCommitted
<1> QED
  BY <1>1, WalletEscrowStep, WalletEscrowInvariant, PTL
     DEF Spec, ImplementsEscrow, Escrow!Spec
=============================================================================
