-------------------------- MODULE TransferBridge --------------------------
(***************************************************************************)
(* Locked tokens that move between the chains: token lock wallets on L1,   *)
(* the L1 transfer tool, the two gateways with the messages between them,  *)
(* the L2 managers with their wallets, and the L2 transfer tool.  Messages *)
(* to L2 are retryable tickets and messages to L1 are outbox entries: they *)
(* are executed once each, in any order and as late as anybody likes.      *)
(*                                                                         *)
(* The L1 wallets are initialized, accepted and not revocable (the tool    *)
(* refuses revocable ones), each with a schedule of its own; of their      *)
(* operations the module has those that move tokens or change what the     *)
(* tool reads.  GraphTokenLockWallet.tla has the others.                   *)
(***************************************************************************)
EXTENDS L2GraphTokenLockManager, Functions

CONSTANTS ScheduleOf,  \* the schedule of each L1 wallet
          Supply,      \* bound on what an L1 wallet is sent from outside
          MaxTime,     \* bound on the clock, which both chains share
          MaxMessages  \* bound on the messages ever sent

ASSUME ScheduleAssumption ==
  /\ ScheduleOf \in [L1Wallets -> Schedule]
  /\ \A w \in L1Wallets : /\ ValidSchedule(ScheduleOf[w])
                          /\ ScheduleOf[w].revocable = "Disabled"
ASSUME BridgeBoundsAssumption ==
  Supply \in Nat /\ MaxTime \in Nat /\ MaxMessages \in Nat

VARIABLES
  now,
  owner,         \* of each L1 wallet
  manager,       \* of each L1 wallet
  balance,       \* of each L1 wallet
  released,      \* releasedAmount of each L1 wallet
  toL2,          \* tickets that were not redeemed yet
  toL1,          \* withdrawals that were not executed yet
  nextSeqNum,    \* number of messages sent, and the number of the next one
  received,      \* history: tokens sent to each L1 wallet from outside
  withdrawn,     \* history: surplus withdrawn for each L1 wallet, on both chains
  netETH         \* history: ETH deposited for each L1 wallet less what its own
                 \*   calls, or Staking's for it, took out of the tool

walletVars  == <<owner, manager, balance, released>>
messageVars == <<toL2, toL1, nextSeqNum>>
history     == <<received, withdrawn, netETH>>

vars == <<toolVars, l2Vars, walletVars, messageVars, history, now>>

WalletOf(w) == [owner    |-> owner[w],
                manager  |-> manager[w],
                schedule |-> ScheduleOf[w],
                balance  |-> balance[w]]

BridgeInit ==
  /\ ToolInit
  /\ L2Init
  /\ now = 0
  /\ owner \in [L1Wallets -> L1Owners]
  /\ manager \in [L1Wallets -> L1Managers]
  /\ balance = [w \in L1Wallets |-> 0]
  /\ released = [w \in L1Wallets |-> 0]
  /\ toL2 = {}
  /\ toL1 = {}
  /\ nextSeqNum = 0
  /\ received = [w \in L1Wallets |-> 0]
  /\ withdrawn = [w \in L1Wallets |-> 0]
  /\ netETH = [w \in L1Wallets |-> 0]

-----------------------------------------------------------------------------
(* The operations of an L1 wallet, for the caller they accept. *)
Fund(w, amount) ==
  /\ received[w] + amount <= Supply
  /\ balance' = [balance EXCEPT ![w] = @ + amount]
  /\ received' = [received EXCEPT ![w] = @ + amount]
  /\ UNCHANGED <<toolVars, l2Vars, messageVars, owner, manager, released,
                 withdrawn, netETH, now>>

L1Releasable(w) ==
  IF ReleaseBlocked(ScheduleOf[w], now) THEN 0
  ELSE min(balance[w], AvailableAmount(ScheduleOf[w], now) - released[w])

L1Release(w) ==
  /\ ~AvailableReverts(ScheduleOf[w], now)
  /\ L1Releasable(w) > 0
  /\ balance' = [balance EXCEPT ![w] = @ - L1Releasable(w)]
  /\ released' = [released EXCEPT ![w] = @ + L1Releasable(w)]
  /\ UNCHANGED <<toolVars, l2Vars, messageVars, owner, manager, history, now>>

L1Outstanding(w) == ScheduleOf[w].managedAmount - released[w]

L1WithdrawSurplus(w, amount) ==
  /\ amount > 0
  /\ L1Outstanding(w) >= 0
  /\ L1Outstanding(w) + amount <= balance[w]
  /\ balance' = [balance EXCEPT ![w] = @ - amount]
  /\ withdrawn' = [withdrawn EXCEPT ![w] = @ + amount]
  /\ UNCHANGED <<toolVars, l2Vars, messageVars, owner, manager, released,
                 received, netETH, now>>

L1TransferOwnership(w, newOwner) ==
  /\ owner' = [owner EXCEPT ![w] = newOwner]
  /\ UNCHANGED <<toolVars, l2Vars, messageVars, history, manager, balance,
                 released, now>>

L1SetManager(w, newManager) ==
  /\ manager' = [manager EXCEPT ![w] = newManager]
  /\ UNCHANGED <<toolVars, l2Vars, messageVars, history, owner, balance,
                 released, now>>

-----------------------------------------------------------------------------
(* depositToL2Locked() called through wallet w.  The L1 gateway takes the  *)
(* tokens into escrow and creates a retryable ticket; it wants a           *)
(* submission fee.                                                         *)
SendToL2(w, amount, newBeneficiary, expectedEth) ==
  /\ nextSeqNum < MaxMessages
  /\ expectedEth > 0
  /\ DepositToL2Locked(w, WalletOf(w), amount, newBeneficiary, expectedEth, now)
  /\ balance' = [balance EXCEPT ![w] = @ - amount]
  /\ toL2' = toL2 \cup
       {[seqNum |-> nextSeqNum, to |-> L2ManagerOf(WalletOf(w)),
         amount |-> amount,
         data |-> EncodedData(w, WalletOf(w), newBeneficiary)]}
  /\ nextSeqNum' = nextSeqNum + 1
  /\ netETH' = [netETH EXCEPT ![w] = @ - expectedEth]
  /\ UNCHANGED <<l2Vars, owner, manager, released, toL1, received, withdrawn, now>>

(* The ticket is redeemed: the L2 gateway mints the tokens to the manager  *)
(* and calls it.                                                           *)
Redeem(ticket) ==
  /\ toL2' = toL2 \ {ticket}
  /\ OnTokenTransfer(ticket.to, ticket.data, ticket.amount)
  /\ UNCHANGED <<toolVars, walletVars, toL1, nextSeqNum, history, now>>

(* withdrawToL1Locked() called through L2 wallet a. *)
SendToL1(a, amount) ==
  /\ nextSeqNum < MaxMessages
  /\ WithdrawToL1Locked(a, amount)
  /\ toL1' = toL1 \cup
       {[seqNum |-> nextSeqNum, to |-> L1WalletOf(a), amount |-> amount]}
  /\ nextSeqNum' = nextSeqNum + 1
  /\ UNCHANGED <<toolVars, walletVars, toL2, history, now>>

(* The withdrawal is executed through the outbox: the L1 gateway pays the  *)
(* tokens out of its escrow.                                               *)
ExecuteWithdrawal(message) ==
  /\ toL1' = toL1 \ {message}
  /\ balance' = [balance EXCEPT ![message.to] = @ + message.amount]
  /\ UNCHANGED <<toolVars, l2Vars, owner, manager, released, toL2, nextSeqNum,
                 history, now>>

ToolCall(w) ==
  /\ \/ \E amount \in 1 .. MaxETH :
          /\ DepositETH(w, amount)
          /\ netETH' = [netETH EXCEPT ![w] = @ + amount]
     \/ \E amount \in 1 .. MaxETH :
          /\ \/ WithdrawETH(w, amount)
             \/ PullETH(w, amount)
          /\ netETH' = [netETH EXCEPT ![w] = @ - amount]
     \/ \E l2Wallet \in L2Accounts \cup {ZeroAddress} :
          /\ SetL2WalletAddressManually(w, WalletOf(w), l2Wallet, now)
          /\ UNCHANGED netETH
  /\ UNCHANGED <<l2Vars, walletVars, messageVars, received, withdrawn, now>>

L2WalletCall(a) ==
  \/ /\ L2Release(a, now)
     /\ UNCHANGED <<toolVars, walletVars, messageVars, history, now>>
  \/ \E amount \in 1 .. Supply :
       /\ L2WithdrawSurplus(a, amount)
       /\ withdrawn' = [withdrawn EXCEPT ![a.salt.l1Address] = @ + amount]
       /\ UNCHANGED <<toolVars, walletVars, messageVars, received, netETH, now>>

Tick ==
  /\ now < MaxTime
  /\ now' = now + 1
  /\ UNCHANGED <<toolVars, l2Vars, walletVars, messageVars, history>>

(* What wallets and messages do while the two ends stay as configured. *)
Usage ==
  \/ \E w \in L1Wallets :
       \/ \E amount \in 1 .. Supply : Fund(w, amount)
       \/ L1Release(w)
       \/ \E amount \in 1 .. Supply : L1WithdrawSurplus(w, amount)
       \/ \E amount \in 1 .. Supply, expectedEth \in 0 .. MaxETH,
             newBeneficiary \in L2Accounts \cup L1Wallets \cup {ZeroAddress} :
            SendToL2(w, amount, newBeneficiary, expectedEth)
       \/ ToolCall(w)
  \/ \E ticket \in toL2 : Redeem(ticket)
  \/ \E a \in DOMAIN l2Wallets :
       \/ L2WalletCall(a)
       \/ \E amount \in 1 .. Supply : SendToL1(a, amount)
  \/ \E message \in toL1 : ExecuteWithdrawal(message)
  \/ Tick

(* What the owners of wallets, tool and L2 managers may change meanwhile. *)
WalletReconfiguration ==
  \/ \E w \in L1Wallets :
       \/ \E newOwner \in WalletOwners : L1TransferOwnership(w, newOwner)
       \/ \E newManager \in L1Managers : L1SetManager(w, newManager)
  \/ /\ \E a \in DOMAIN l2Wallets, m \in L2Managers : L2SetManager(a, m)
     /\ UNCHANGED <<toolVars, walletVars, messageVars, history, now>>

BridgeReconfiguration ==
  \/ /\ \/ \E l1Manager \in L1Managers, l2Manager \in L2Managers \cup {ZeroAddress} :
             SetL2LockManager(l1Manager, l2Manager)
        \/ \E l1Owner \in WalletOwners, l2Owner \in L2Accounts \cup {ZeroAddress} :
             SetL2WalletOwner(l1Owner, l2Owner)
     /\ UNCHANGED <<l2Vars, walletVars, messageVars, history, now>>
  \/ /\ \E m \in L2Managers, i \in Implementations : SetMasterCopy(m, i)
     /\ UNCHANGED <<toolVars, walletVars, messageVars, history, now>>

Init == BridgeInit /\ Unconfigured

Next == Usage \/ WalletReconfiguration \/ BridgeReconfiguration

Spec == Init /\ [][Next]_vars

(* The owners have set both mappings, one way or another, before the       *)
(* wallets are used, and change nothing any more.                          *)
ConfiguredInit ==
  /\ BridgeInit
  /\ l2LockManager \in [L1Managers -> L2Managers \cup {ZeroAddress}]
  /\ l2WalletOwner \in [WalletOwners -> L2Accounts \cup {ZeroAddress}]

StableSpec == ConfiguredInit /\ [][Usage]_vars

-----------------------------------------------------------------------------
TicketsOf(w)   == {ticket \in toL2 : ticket.data.l1Address = w}
L2WalletsOf(w) == {a \in DOMAIN l2Wallets : a.salt.l1Address = w}
ReturnsTo(w)   == {message \in toL1 : message.to = w}

Amounts(messages)  == [message \in messages |-> message.amount]
ReleasedOnL2(w)    == SumFunction([a \in L2WalletsOf(w) |-> l2Wallets[a].released])

(* Where the tokens of a lock are that were not paid out: on L1, under way *)
(* in either direction, and on L2.                                         *)
HeldFor(w) ==
  balance[w] + SumFunction(Amounts(TicketsOf(w)))
             + SumFunction([a \in L2WalletsOf(w) |-> l2Wallets[a].balance])
             + SumFunction(Amounts(ReturnsTo(w)))

WalletTypeOK ==
  /\ owner \in [L1Wallets -> WalletOwners]
  /\ manager \in [L1Wallets -> L1Managers]
  /\ balance \in [L1Wallets -> Nat]
  /\ released \in [L1Wallets -> Nat]
  /\ received \in [L1Wallets -> Nat]
  /\ withdrawn \in [L1Wallets -> Nat]
  /\ netETH \in [L1Wallets -> Int]

MessageTypeOK ==
  /\ nextSeqNum \in Nat
  /\ \A ticket \in toL2 :
       ticket \in [seqNum : 0 .. nextSeqNum - 1, to : L2Managers,
                  amount : Nat \ {0}, data : WalletData]
  /\ \A message \in toL1 :
       message \in [seqNum : 0 .. nextSeqNum - 1, to : L1Wallets,
                   amount : Nat \ {0}]

(* Every variable keeps its type; a sequence number is used once. *)
TypeOK == ToolTypeOK /\ L2TypeOK /\ WalletTypeOK /\ MessageTypeOK /\ now \in Nat

(* The tokens of a lock are never lost, duplicated or mixed with those of  *)
(* another lock, in whatever order tickets and withdrawals are executed    *)
(* and however the two ends are reconfigured meanwhile.                    *)
TokensStayWithTheirLock ==
  \A w \in L1Wallets :
    HeldFor(w) + released[w] + ReleasedOnL2(w) + withdrawn[w] = received[w]

(* Moving tokens to L2 and back does not unlock them: until the end of the *)
(* schedule both chains together have released what it has unlocked.       *)
LockedAcrossChains ==
  \A w \in L1Wallets :
    Proportioned(ScheduleOf[w]) /\ now < ScheduleOf[w].endTime
      => released[w] + ReleasedOnL2(w) <= UnlockedAmount(ScheduleOf[w], now)

(* What was withdrawn as a surplus, on either chain, had been sent on top  *)
(* of the managed amount, although each chain sees only its own part.      *)
SurplusOnlyFromExtra ==
  \A w \in L1Wallets :
    withdrawn[w] > 0 => withdrawn[w] + ScheduleOf[w].managedAmount <= received[w]

(* A wallet whose L2 address was set by hand has nothing on L2 that the    *)
(* tool created, and nothing under way there.                              *)
ManualExcludesTransfer ==
  \A w \in L1Wallets :
    l2WalletAddressSetManually[w] => TicketsOf(w) = {} /\ L2WalletsOf(w) = {}

(* No ticket is stuck: either the wallet is known to the manager, or its   *)
(* address is free.                                                        *)
TicketsRedeemable ==
  \A ticket \in toL2 :
    l1WalletToL2Wallet[ticket.to][ticket.data.l1Address] = ZeroAddress
      => CanDeploy(DeploymentAddress(ticket.data, masterCopy[ticket.to], ticket.to),
                   DOMAIN l2Wallets)

(* No token lock spends the ETH of another, with withdrawals, with the     *)
(* pulls of Staking for it or with the fees of its tickets: its account is *)
(* what was deposited for it and not yet spent for it, that is never a     *)
(* debt, and the tool holds the ETH of all accounts.                       *)
ETHKeptApart ==
  /\ \A w \in L1Wallets : tokenLockETHBalances[w] = netETH[w] /\ netETH[w] >= 0
  /\ SumFunction(tokenLockETHBalances) = ethBalance

(* The L2 address of a lock is set once, by a transfer or by hand, and     *)
(* never changes.                                                          *)
L2AddressFixed ==
  [][ \A w \in L1Wallets :
        l2WalletAddress[w] # ZeroAddress
          => l2WalletAddress'[w] = l2WalletAddress[w] ]_vars

(* The address recorded on L1 is that of the wallet that the tokens reach  *)
(* on L2.  The code keeps this as long as nothing is reconfigured between  *)
(* the first transfer and the arrival of a ticket.                         *)
RecordedAddressIsTheWallet ==
  \A w \in L1Wallets, m \in L2Managers :
    l1WalletToL2Wallet[m][w] # ZeroAddress
      => l1WalletToL2Wallet[m][w] = l2WalletAddress[w]
=============================================================================
