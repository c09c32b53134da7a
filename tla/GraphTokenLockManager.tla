----------------------- MODULE GraphTokenLockManager -----------------------
(***************************************************************************)
(* GraphTokenLockManager.sol as a factory: it holds a pool of tokens, and  *)
(* its owner has it create wallets that it funds from the pool.  Its lists *)
(* are in ManagerAllowList.tla.  The arguments of a creation are an entry; *)
(* their hash is the salt, so the entry is the salt.                       *)
(***************************************************************************)
EXTENDS Ownable, Integers, FiniteSetsExt, Functions, TLC, MinimalProxyFactory

CONSTANTS Entries,          \* arguments of createTokenLockWallet()
          RefusedEntries,   \* those that the wallet's initialize() refuses
          AmountOf,         \* the managed amount of each entry
          Implementations,  \* contracts that may be the master copy
          Manager,          \* the manager's own address
          Supply            \* bound on the tokens ever deposited

ASSUME EntriesAssumption ==
  /\ RefusedEntries \subseteq Entries
  /\ AmountOf \in [Entries -> Nat]
  /\ \A e \in Entries \ RefusedEntries : AmountOf[e] > 0
ASSUME SupplyAssumption == Supply \in Nat

VARIABLES
  masterCopy,
  pool,       \* tokens that the manager holds
  wallets,    \* created wallets, and the tokens that each got from the manager
  deposited,  \* history: sum of the deposits,
  withdrawn   \*   and of the owner's withdrawals

managerVars == <<owner, masterCopy, pool, wallets, deposited, withdrawn>>

WalletAddresses ==
  [salt : Entries, implementation : Implementations, deployer : {Manager}]

(* The deployer's constructor arguments are the first master copy. *)
ManagerInit ==
  /\ owner \in Address
  /\ masterCopy \in Implementations
  /\ pool = 0
  /\ wallets = [a \in {} |-> 0]
  /\ deposited = 0
  /\ withdrawn = 0

(* The address that the task reports, and the factory uses, for an entry. *)
AddressOf(e) == DeploymentAddress(e, masterCopy, Manager)

-----------------------------------------------------------------------------
(* A transfer to the manager, by deposit() or without it. *)
Deposit(amount) ==
  /\ deposited + amount <= Supply
  /\ pool' = pool + amount
  /\ deposited' = deposited + amount
  /\ UNCHANGED <<owner, masterCopy, wallets, withdrawn>>

Withdraw(caller, amount) ==
  /\ OnlyOwner(caller)
  /\ 0 < amount /\ amount <= pool
  /\ pool' = pool - amount
  /\ withdrawn' = withdrawn + amount
  /\ UNCHANGED <<owner, masterCopy, wallets, deposited>>

SetMasterCopy(caller, newMasterCopy) ==
  /\ OnlyOwner(caller)
  /\ masterCopy' = newMasterCopy
  /\ UNCHANGED <<owner, pool, wallets, deposited, withdrawn>>

ChangeOwner(caller) ==
  /\ \/ \E newOwner \in AnyAddress : TransferOwnership(caller, newOwner)
     \/ RenounceOwnership(caller)
  /\ UNCHANGED <<masterCopy, pool, wallets, deposited, withdrawn>>

(* Mutation: the proxy is deployed at an address that has code. *)
CanCreateAgain(caller, e) ==
  /\ OnlyOwner(caller)
  /\ AmountOf[e] <= pool
  /\ e \notin RefusedEntries

(* A creation reverts without these. *)
CanCreate(caller, e) ==
  /\ OnlyOwner(caller)
  /\ AmountOf[e] <= pool
  /\ CanDeploy(AddressOf(e), DOMAIN wallets)
  /\ e \notin RefusedEntries

(* What the manager has sent to an address so far. *)
SentTo(a) == IF a \in DOMAIN wallets THEN wallets[a] ELSE 0

(* createTokenLockWallet(): deployment, initialize() and funding are one   *)
(* transaction.  Funding is a transfer: it adds to what is there.          *)
CreateTokenLockWallet(caller, e) ==
  /\ CanCreate(caller, e)
  /\ wallets' = [a \in DOMAIN wallets \cup {AddressOf(e)} |->
                   SentTo(a) + (IF a = AddressOf(e) THEN AmountOf[e] ELSE 0)]
  /\ pool' = pool - AmountOf[e]
  /\ UNCHANGED <<owner, masterCopy, deposited, withdrawn>>

(* What happens to the manager besides creations. *)
ManagerCall ==
  \/ \E amount \in 1 .. Supply : Deposit(amount)
  \/ \E caller \in Address :
       \/ \E amount \in 1 .. Supply : Withdraw(caller, amount)
       \/ \E newMasterCopy \in Implementations : SetMasterCopy(caller, newMasterCopy)
       \/ ChangeOwner(caller)

-----------------------------------------------------------------------------
(* Every wallet that the manager created was sent its managed amount, once,*)
(* and nothing was created from refused arguments.                         *)
FundedOnce ==
  \A a \in DOMAIN wallets :
    a.salt \notin RefusedEntries /\ wallets[a] = AmountOf[a.salt]

(* The deposits are in the pool, in the wallets or withdrawn: creations and*)
(* withdrawals compete for the pool and never take what is not there.      *)
PoolCovers ==
  pool >= 0 /\ pool + SumFunction(wallets) + withdrawn = deposited

(* The pool pays every wallet once, and only what it has: single creations,*)
(* batches and withdrawals together.                                       *)
FundedExactly == FundedOnce /\ PoolCovers
=============================================================================
