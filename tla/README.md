# Token distribution contracts: models, checks and proofs

This directory holds a TLA+ development of the token distribution contracts in
`src/contracts` and of the scripts around them in `src/ops` and `src/deploy`:
modules that model them, TLC configurations that check them on small instances,
and theorems that TLAPS proves for every instance.

## 1. The system and its parts

The contracts lock tokens for beneficiaries and release them by a schedule.
Every operation is a transaction: it runs to its end or reverts without a
trace, so a contract is a sequential state machine; what is concurrent are the
*callers* (owner, beneficiary, anybody with tokens, the manager's owner, the
protocol), whose transactions interleave freely, and the clock. The bridge
between the two chains and the deployment scripts are asynchronous as well.

| Part | State | Operations | Interacts with | What makes it correct |
|---|---|---|---|---|
| Release schedule (`GraphTokenLock.sol` 170-333) | seven values written by `_initialize` | `availableAmount`, `vestedAmount`, `releasableAmount`, ... | block time | a staircase that reaches the managed amount, never goes back, never exceeds it |
| `GraphTokenLock` (abstract), `Ownable` | owner, beneficiary, flags, released and revoked amounts | initialize, accept, cancel, release, withdrawSurplus, revoke, changeBeneficiary, ownership | ERC20 balance, which anybody can raise | releases follow the schedule, the surplus is really extra, what is vested stays |
| `GraphTokenLockSimple` | as above | `initialize` by the deployer | as above | as above; a funded lock pays out |
| `GraphTokenLockWallet` | manager, `usedAmount`, allowances | `setManager`, `approveProtocol`, `revokeProtocol`, fallback | manager's lists, protocol contracts | vested limit on what is used, used tokens accounted for |
| `GraphTokenLockManager`, `MinimalProxyFactory` | pool, master copy, call targets, token destinations | create wallets, deposit, withdraw, edit the lists | wallets (creation, list look-ups) | each wallet created once and funded out of a pool that is never overdrawn, lists only by the owner |
| `GraphTokenDistributor` | assigned amounts, lock flag, pool | add, sub, lock, withdraw, claim | ERC20 balance | each assignment is paid at most once |
| `L1GraphTokenLockTransferTool` | ETH balances, L2 beneficiary, L2 address, manager and owner maps | deposit and withdraw ETH, `depositToL2Locked`, `setL2WalletAddressManually` | wallets, L1 gateway | the recorded L2 address is the wallet that holds the funds; no lock spends another's ETH |
| `L2GraphTokenLockManager`, `L2GraphTokenLockWallet` | L1-to-L2 wallet maps | `onTokenTransfer`, `initializeFromL1` | L2 gateway | one L2 wallet per L1 wallet, all transfers reach it |
| `L2GraphTokenLockTransferTool` | none | `withdrawToL1Locked` | L2 gateway, L2 manager | tokens return to the L1 wallet they came from |
| `ops/create.ts`: `create-token-locks` | deploy and result file, transactions in flight, saved batches | deploy a batch of locks, resume, build a batch for a multisig | manager, multisig | no entry funded twice, the result file true, the checked funds enough |
| `ops/create.ts`: `create-token-locks-simple`, `ops/delete.ts`, `ops/beneficiary.ts` | what a task has read before it asks for confirmation | deploy simple locks, cancel, accept | single locks, multisig | stale looks do no harm, reports and records are true |
| `ops/manager.ts` | the calls still to be sent | set up call targets, deposit, withdraw, transfer | managers, deployment records | a set-up is not split and can be completed, deposits find their allowance |
| `ops/info.ts` | answers collected so far | lists and summaries | subgraph, contracts | rows that account for all tokens of a wallet, sums that add up, no pending lock missed, schedule numbers not ahead of the contract |
| `deploy/` | deployment records by name | deploy and record contracts, fund managers | records, chain | one master copy on L2, managers that are funded |
| test mocks, hardhat configuration | none of their own | | | |

The hard behaviours: the order of owner's and beneficiary's calls around the
period boundaries, the cliff and the end; tokens that arrive when nobody
expects them; integer division; checks against a vested amount that changes
later; lists that change between two calls that depend on them; bridge messages
that arrive late or in another order; scripts that stop half-way.
`PROJECT.json` lists them one by one under `hazards`, each at its line.

## 2. Modules

| Module | Models | State and actions |
|---|---|---|
| `LockSchedule` | the view functions of the schedule | operators over a schedule record and a time; `...Reverts` predicates say where SafeMath reverts |
| `Ownable` | `Ownable.sol` | `owner`; `TransferOwnership`, `RenounceOwnership` |
| `GraphTokenLock` | the abstract contract | one action per external function; `Deposit` (an ERC20 transfer by anyone) and `Tick` are the environment |
| `GraphTokenLockSimple` | `GraphTokenLockSimple.sol` | constructor, `SimpleInitialize`, `SimpleRelease`, and everything inherited |
| `ManagerAllowList` | the manager's two lists | operators over a record of the lists |
| `GraphTokenLockWallet` | `GraphTokenLockWallet.sol` with managers and protocol | `WalletInitialize`, `SetManager`, `ApproveProtocol`, `RevokeProtocol`, `WalletRelease`, `ForwardCall` (the fallback), `ManagerCall`, `StakeTo` |
| `MinimalProxyFactory` | `MinimalProxyFactory.sol` | `DeploymentAddress`: an address is the record of salt, implementation and deployer it was computed from; `CanDeploy` |
| `GraphTokenLockManager` | the manager as a factory with a pool | `CreateTokenLockWallet`, `Deposit`, `Withdraw`, `SetMasterCopy`, ownership; wallets by address, with what they hold: each creation adds its transfer |
| `CreateTokenLocks` | `create-token-locks` with the manager it uses | `StartRun`, `Send`, `SendFails`, `SaveDeployResult`, `GiveUp`, `FinishRun`, `KillRun`; `BuildBatch`, and `ExecuteBatch` by the multisig; `Mine` is the chain |
| `LockTasks` | `cancel-token-lock`, `beneficiary-accept-lock`, `create-token-locks-simple` at several terminals | one action per step between two waits: `StartCancel`, `SendCancel`, `SaveBatch`, `ReportCancelled`, `StartAccept`, ..., `DeploySimple`, `InitializeSimple`, `SaveSimple`, `SkipLine`; `Stop` |
| `ManagerTasks` | `ops/manager.ts` | a command is the list of its calls: `StartManagerTask`, `SendCall`, `Stop`; `Mine` is one of the two chains, each with its own transactions, in the order of nonces, and tokens |
| `DeployScripts` | `deploy/2_` to `6_`, with `ManagerTasks` at the same terminal | `StartScript`, `RunDeployStep`: deploy, deploy a proxy, record |
| `WalletReports` | the concurrent queries of `ops/info.ts` | `StartReport`, `BeginQuery`, one action per kind of answer, `QueryFails`, `FinishReport`; `blocks` keeps the wallets as of each block, and `Accept`, `Use` and `Release` are the chain moving on |
| `ReportSchedule` | the schedule arithmetic of `ops/info.ts` | operators; what floating point may make of a quotient is a set |
| `TokenEscrow` | nothing in the code: the promise | `Promise`, `Pass`, `Accept`, `Receive`, `Release`, `PayExtra`, `Cancel`, `Revoke` |
| `GraphTokenDistributor` | `GraphTokenDistributor.sol` | one action per external function; arrays of the Multi calls are batches |
| `L1GraphTokenLockTransferTool` | the tool on L1 | its mappings and ETH accounts; one operator per external function, over a record of what it reads from the calling wallet |
| `L2GraphTokenLockManager` | `L2GraphTokenLockManager.sol`, `L2GraphTokenLockWallet.sol`, `L2GraphTokenLockTransferTool.sol` | the two maps of each L2 manager, the L2 wallets; `OnTokenTransfer`, the wallet's payments, `WithdrawToL1Locked` |
| `TransferBridge` | both ends, L1 wallets and the gateways | composes the two; tickets and withdrawals are sets, so delivery is late and in any order |
| `MC...` | | instances for TLC |
| `ArithmeticTheorems` | | lemmas on the schedule, and on sums over functions and sets |
| `GraphTokenLockTheorems`, `GraphTokenDistributorTheorems`, `TransferBridgeTheorems`, `CreateTokenLocksTheorems`, `LockTasksTheorems`, `ReportsTheorems`, `DeployScriptsTheorems` | | proofs about the module of that name; that about locks covers the simple lock, the wallet and the refinement, that about reports `WalletReports` and the `schedule` run, that about scripts `ManagerTasks` too |

Conventions:

- A transaction that reverts is an action that is not enabled. `require`, an
  underflow or a division by zero in SafeMath, and an ERC20 transfer of more
  than the balance are conjuncts of the guard.
- `msg.sender` ranges over `Address`; `ZeroAddress` never sends.
- The ERC20 token is the variable `balance` of the contract in question. The
  variables `received`, `withdrawn`, `cancelled` (and `rewards` in the wallet)
  are history: sums of transfers that the contract does not store, in which the
  properties are stated. No guard of a contract reads them; `Supply` bounds
  `received`. `netETH` in `TransferBridge` is one as well: the ETH deposited for
  a lock less what calls for this lock have taken, whichever account the tool
  charges. So is `checked` in `CreateTokenLocks`: the wallets and the withdrawals
  when the run checked the balance.
- Amounts are natural numbers: the supply of the token is far below 2^256, so
  no sum of balances wraps.
- The token address is a constant of the deployment. A contract that is not
  initialized has no token, so asking it for its balance reverts.
- Definitions whose comment starts with "Mutation" are plausible bugs. No
  specification uses them; they are substituted, one at a time, for the
  definition that follows them to see that a property notices.

Abstractions of the wallet: the protocol is one total `held` of the wallet's
tokens over all protocol contracts, so a call may return tokens that another
contract holds, which allows more than the real contracts do; how long unstaked
tokens thaw does not matter to the wallet. A forwarded call either takes tokens
(needing the target's allowance), or brings some back, or moves none; a
protocol contract pulls tokens only when the wallet calls it. The owner of a
manager may change its lists between any two calls; who that is plays no role
here. The lists point to protocol contracts only, as the manager's owner is to
know the targets (`GraphTokenLockManager.sol` 263-264).

Abstractions of the bridge: `src` has mocks of the gateways only, so
`TransferBridge` takes from the code what it hands over and expects back. The L1
gateway keeps tokens in escrow and wants a submission fee
(`contracts/tests/L1TokenGatewayMock.sol`); a ticket is executed at most once,
in any order, and does not expire; the L2 gateway passes on only what the
tool sent, which is the caller check of `onTokenTransfer`. Both chains share a
clock. L1 wallets are initialized, accepted and not revocable, and an address of
an L2 wallet holds the data the wallet was initialized from, as the salt does.
Tokens from outside arrive on L1 only. A wallet's use of tokens in the protocol
is `GraphTokenLockWallet` on either chain and is not repeated here. Any call
that an owner may make at any time (maps of the tool, master copies, managers of
L2 wallets) is left to chance. The `Staking` contract only pulls ETH.

Abstractions of `create-token-locks`: addresses in the file are valid, the owner
argument and the manager are the same in every run. The chain may execute
pending transactions in any order, which is more than the nonces allow. A node
whose estimate reverts or that is not reached, and a receipt that never comes,
are the choices `SendFails` and `GiveUp`. Two runs at a time are not modelled. A
run's checks up to the confirmation are one step, and so is building a batch,
although it reads the result file before and the balance after the confirmation;
the last batch saved is the one the multisig may execute.

Abstractions of `LockTasks`: of a lock only its stage, owner, acceptance and
balance are kept. In `create-token-locks-simple` a transaction and its receipt
are one step: before it is initialized nobody but the task can do anything with
the lock. The other tasks send and wait separately.

Abstractions of `ManagerTasks` and `DeployScripts`: one operator with one
account, so each of the two chains executes in the order of sending, while
nothing orders the one against the other; two protocol functions
stand for the eight that `manager-setup-auth` lists; an address of a contract is
its number in the order of deployment. Tokens, gateways and staking addresses
that the operator types are left out; the wallet copy typed into script 4 is
any copy that exists. `deploy()` keeps a recorded contract with the same
arguments, as hardhat-deploy does; the bytecode does not change.

Abstractions of `WalletReports`: tokens used and the balance stand for the
numbers read from the chain, tokens released for those from the subgraph, which
knows all wallets of the block or has no answer. Wallets are
revocable, as only these count the tokens they use (`GraphTokenLockWallet.sol:182`);
each has been sent its managed tokens and no more, has made no profit and is not
revoked, so that what it has released, used and kept is what it manages. Blocks are numbered from 1; a list of the
first `BLOCK_DRIFT` blocks finds no wallets.

## 3. What is checked

`Proportioned(s)` marks the schedules for which the division into periods comes
out: a period lasts at least one second and no more than `periods` of them fit
before the end. The contract does not check it; properties that fail without it
carry it as a premise, and the runs include schedules that violate it so that
the other properties are known not to need it.

| Run | Question | Bounds |
|---|---|---|
| `schedule` | Is the arithmetic a staircase with one step at each row that `contracts:schedule` prints, complete after the end? Are the free amount and the next date of the reports, computed apart from the contract, never ahead of it? | every valid schedule with up to 5 tokens, 5 periods, end at most 7, with and without cliff and release start; all times to 8 |
| `simple` | Can any order of calls release early, withdraw managed tokens as surplus, leave a funded lock short, or take vested tokens from an accepted lock? Does the lock implement `TokenEscrow`? Does a funded, accepted lock pay out? | 2 accounts, supply 7, time to 8, four valid kinds of schedule (cliff, release start, remainder, too many periods) and two that must be refused |
| `wallet` | The same safety questions, the refinement included, while tokens move in and out of the protocol, and: is the vested limit kept, is `usedAmount` a right account? | one account, supply 4, time to 6, one manager, one protocol contract |
| `bridge` | Wherever tickets and withdrawals are delayed or reordered and whatever is reconfigured meanwhile: are tokens lost, duplicated or unlocked early, may a ticket get stuck, do manual and computed addresses exclude each other, does a computed address ever change? | one lock with 2 tokens and two periods, 2 messages, time to 4, two L2 managers and two implementations; its owner may be nobody, and the tool may have an L2 owner for nobody |
| `bridge_stable` | With two locks on a bridge left as configured: does each spend only its own ETH and never more than it has, is a surplus really extra over both chains, is the recorded address the wallet? | two locks, up to 3 tokens each, 2 of ETH, 3 messages, one L2 manager |
| `distributor` | Is every assignment claimed or taken back once, every token paid out once, and none that the distributor does not have? | 2 accounts, amounts to 2, batches of up to two pairs |
| `create_locks` | However runs are killed and repeated, batches executed late, and whatever the manager's owner does: is each wallet sent its amount exactly once and the pool never overdrawn, is the result file true? Does the balance checked by a run suffice for concurrent creations and leftovers of killed runs, and the deposit in a batch for the batch? | three files: two lines, two lines with the same entry, of which one is also in the first file, and a line that is refused (its amount is 0), 2 workers, 2 transactions, supply 3, two master copies |
| `lock_tasks` | Owner and beneficiary look, confirm, send and report while the other does the same and a batch waits: does an accepted lock ever lose tokens, does a task ever report or record something false? | two locks, two terminals (deployer, beneficiary) and a multisig, 2 lines, 2 transactions |
| `wallet_reports` | Does each row account for the tokens of its wallet although the list reads them one after another while they move, do sums add up, is the list of pending locks complete and not stale, whatever the order of answers and failures? | three wallets of a token each, two queries at a time, four blocks, a list that reads the block before the one it names |
| `deployment` | With scripts and manager tasks in any order, under names the operator types, stopped anywhere: do all L2 managers share the recorded copy, is a set-up never split and always completed, does a deposit find its allowance? | 4 commands, 5 contracts, two networks with their own queues and tokens, two functions, two targets, two names per kind |
| `simple_extra_funds`, `wallet_revocable` | two statements of documentation and tests that do not hold, see section 5 | smallest that show it |

Why the bounds are enough: the schedules have two or three periods, tokens lost
to rounding and times before, inside and after each of start, release start,
cliff and end, so every branch of the arithmetic is taken at every stage; the
supply exceeds the managed amount, so that surplus, late funding and partial
funding occur; a single account in the wallet run plays owner and beneficiary
and so may do what any two accounts may (guards only compare the caller with
the stored address). Two accounts in the `simple` runs let the roles move.

On the bridge two messages are what it takes for two tickets to be redeemed in
the wrong order or for tokens to go there and back; a second lock matters only
where locks could be mixed up, so reconfiguration (one lock) and separation (two
locks) are separate runs. For the task, two transactions let a killed run
leave one behind and the next run, or a batch, create the same entry; two
workers are enough for two creations to compete, where the code has six. A
report with three wallets and two workers has a query that waits, two that
overlap, and both orders of their answers, where the code has ten workers; with
four blocks the chain is behind and ahead of what a list reads. For
the scripts, four commands are two set-ups cut short and repeated, or two copies
and two managers, or a script that funds and a deposit that overlaps it.

Deadlock is not checked: a lock that nobody initializes, or one that has paid
out at the last time of the bound, has nothing left to do; nor has a bridge, a
task or a chain of commands that has used up its bound.

`StableSpec` of the bridge leaves out the calls of owners that change its
configuration, and starts with one; it assumes nothing about timing. Every other
run is of the full `Spec`.

`TokenEscrow` is the promise that a lock makes, without contracts, roles or
arithmetic: tokens are promised once and leave in four ways, each within its own
limit. `ImplementsEscrow` says that a lock is such an escrow: `held` is the
balance (for a wallet, with what the protocol holds for it), `limit` is what is
unlocked by now and `committed` what is vested, or was when the lock was revoked
(`EscrowLimit`, `EscrowCommitted`; both say nothing of a schedule that is not
proportioned). That a release follows the schedule, that a surplus is extra,
that a claim never shrinks and that the vested amount never drops are limits of
the escrow, so the `wallet` run does not list them once more. It, `lock_tasks`
and `wallet_reports` do not list their `TypeOK` either: it is proved.

Fairness (`SimpleFairSpec` of `GraphTokenLockSimple`): time passes, and `release()` is
called by the beneficiary if it stays possible. The contract cannot make anybody
call it; the assumption says what the beneficiary has to do, and the property
that this is all that is needed: no funding order, revocation, or rounding leaves
a part that no `release()` ever reaches.

## 4. What is proved

For every set of accounts, schedules, managers, lines, wallets and terminals,
every supply, and every length of time.

**Arithmetic.** `ArithmeticTheorems` takes the schedule apart: four lemmas on
`\div` and multiplication, then types, then `AvailableMonotone`,
`VestedMonotone` and `UnlockedMonotone` for proportioned schedules (monotone in
time, at most the managed amount), and `WholePeriods`: a duration that is a
multiple of the periods makes a schedule proportioned. Its second part is about
`SumFunction`: what becomes of a sum when a term is changed, added or taken
away, and that a sum over fewer terms is no more. The fold is defined by a
recursive function; the induction over it is written out as an argument from a
least counterexample, so it needs no induction theorem.

**Locks.** `GraphTokenLockTheorems` proves for each operation of the base
contract that it preserves `LockInv` and is `Balanced`. `LockInv` is the typing
invariant and `SurplusOnlyFromExtra`, strengthened by three facts: nothing was
paid before initialization, `revokedAmount` is zero before a revocation, and
what the contract holds and has paid together is at most what it received.
Without the last one a surplus could not be told from managed tokens; without
the first two `initialize()` and `revoke()` would break the sum.

For the simple lock the equation (all tokens are on the contract's own balance)
and `ReleasedWithinSchedule` are added; the conjunction `SimpleInv` is
inductive. From it follow `TypeCorrectness`, `ReleaseSafety`, `SurplusIsExtra`
and `OutstandingSafety` directly, and `VestedSafety` and `CommittedSafety` step
by step.

For the wallet, `WalletInv` is `LockInv`, with the tokens in the protocol added
to the equation, and the account of used tokens: `usedAmount` at most `held`,
`held` at most `usedAmount` and the profits, and no more used than vested. It
also needs that an uninitialized wallet has no owner (else `setManager()` could
attach it to a manager) and has used nothing (else `initialize()` could start it
with a debt). `InheritedWallet` reuses the lemmas of the base contract: an
inherited call that is `Balanced` leaves the wallet accounted for. The theorems
are those of the simple lock, and `WalletUsedTracksHeld` and
`WalletUsedWithinVested`.

**Refinement.** `SimpleEscrowRefinement` and `WalletImplementsEscrow`: each lock
implements `TokenEscrow`, with one lemma per operation that names the step it
maps to (`ReleaseIsRelease`, `RevokeIsRevoke`, ...). Calls that only move roles,
lists, allowances, or tokens between wallet and protocol map to no step. The
invariants are strengthened by the bound on the tokens received, and by the
fact that only an initialized lock can be revoked.

**Bridge.** `TransferBridgeTheorems` has one inductive invariant, `BridgeInv`,
for any number of locks, managers and messages and any reconfiguration. To the
properties of the run it adds what they rest on: the data in a ticket, in a
recorded wallet and in an address are those of the lock (`DataInv`); the maps of
each L2 manager lead to wallets that exist, at the address computed from
their data, and back (`RecordsInv`); a lock that has sent anything to
L2, or whose address was set by hand, has an address on record (`AddressInv`); and neither end has released
ahead of its schedule (`SchedulesInv`). `HeldFor(w)` sums over tickets,
L2 wallets and returns; one lemma per operation says which of these columns
moves (`ConservationSafety`). `LockedAcrossSafety` needs that an L2 wallet
releases nothing before the end, so that only L1 has to keep to the staircase. `ManualSafety`, `RedeemableSafety`, `EthSafety` and `BridgeSurplusIsExtra`
follow, and `AddressSafety` step by step.

`StableInv` is `BridgeInv` for a bridge left as configured: all managers use the
implementation that L1 computes with, each recorded address is the computed one,
and each ticket is addressed to it. The wallet that the first delivery creates is
then at the recorded address whichever ticket comes first
(`RecordedAddressSafety`); for `Spec` this is not true, see section 5.

`EthSafety` compares the tool's accounts with `netETH`: every operation charges
the account of the lock it serves and no other, and only what the account has.

**Distributor.** `AssignedSafety` and `PoolSafety`, for any accounts and any
arrays. The loops of the Multi calls add to one entry after another, and an array
may name an account several times: `PlusTotal` and `MinusTotal` say that a loop
adds to each account the total of its entries, and that no entry is negative on
the way. `PoolSafety` sums the claims of all accounts, and says that no claim or
withdrawal takes more than there is.

**Scripts.** `CreateTokenLocksTheorems`: `FundedExactlyAlways` and
`ResultsTrueAlways` however often the task is killed and whatever batches are
executed. `CreateInv` adds what transactions carry: each creates the wallet whose
address it was computed for, and each result that a run has collected is that of
a transaction that was mined. A creation adds its amount to what is at the
address, so that the wallets and the pool account for all deposits
(`PoolCovers`) only because an address in use is refused, the pool is checked,
and the lines of a batch have different addresses (`FundedOnce`).

`FundsInv` is about the funds. `BatchTrue`: what was deposited, less what had
left the pool when the batch was built, and the deposit of the batch cover its
lines (`BatchFundsSafety`). `FundsTrue`: under any master copy that may have
created all wallets, the pool covers the entries of the file that have none yet;
it has to be said of every implementation because the master copy may change and
change back. `CheckedFundsSafety` states what a run may rely on: since its check
the owner has withdrawn nothing, only entries of its file were created, and one
master copy served all creations. `checked` records the moment of the check.

`LockTasksTheorems`: `TasksInv` adds the types, that a transaction that succeeded
has done what it was sent for, and what each terminal remembers of its lock;
`LocksAdvance` (a lock's stage and acceptance only advance) carries what was
seen before a wait over to after it. From it follow `ReportsSafety`,
`RecordsSafety` and, for each step, `AcceptedSafety`.

`ReportsTheorems`: `ReportsInv` says that each wallet is still queued, being
asked, has answered or failed (the queue loses none), that what the subgraph and
the chain have told are of the block that the report reads, which no later block
changes, that a summary's count and total are those of the wallets that have
answered (`SummaryTrue`), and that an answer about acceptance is still accounted
for; the list of pending locks is complete because nothing is left of the queue
when it is printed. The module also proves the three properties of the
`schedule` run for every bound on the schedules: the contract's staircase has
its steps at the rows of `contracts:schedule`, and the free amount and the next
date that the reports compute on their own are not ahead of the contract. The
free amount is an argument about quotients: rounding down the duration of a
period, as the contract does, never makes fewer periods pass.

`DeployScriptsTheorems`: `DeployInv` is about the queue of transactions, because a
command that is stopped leaves what it has sent. What a deposit or a destination
relies on has been executed or is right before it in the queue of its network
(`PendingTrue`); the command at the terminal sends its calls in their order, to
managers of the network it runs on, and has waited for what it waits for
(`CommandTrue`); what is recorded as a manager of a network is one
(`RecordsTrue`), or a call might join the queue of the other network. From it follow `DepositSafety`, `TargetSafety`
and, for each step, `SetupSafety`. `MasterCopySafety` needs that a copy is recorded
before a manager that uses it is deployed, and that a record of it is not
replaced (`CopyRecorded`).

Assumptions: the named `ASSUME`s of the modules, among them
`ZeroAddressAssumption`, `SchedulesAssumption` (the arguments of `initialize()`
are schedules of natural numbers), `ManagersAssumption` (a manager is a contract,
not an account), `SigsAssumption`, `AddressesAssumption` (contracts and accounts of
the bridge are not the same), `EntriesAssumption` (the manager refuses amounts of
zero), `NoTargetAssumption`, and bounds that are natural numbers. Where a sum is
taken, its set is finite: the locks of the bridge, the lines of a file, the
wallets of a report, the accounts of the distributor. These are what the types of
the source give. `Proportioned` is a premise where it appears in the property and
not an assumption.

Only model-checked: `PaidInFull`. It is a liveness property: it needs fairness
and enabledness, beyond the prover. Every other property of a passing run is a
theorem. What the theorems do not show is what only the runs can: that the
premises of the properties are met and every action and disjunct is taken.

## 5. Where code and documents disagree

Each is a run that finds a violation, with the lines quoted in `PROJECT.json`.

1. `simple_extra_funds`: if the duration is not a multiple of the periods, one
   more period than configured may pass before the end and more than the managed
   amount is released. The outstanding amount is then negative, its computation
   reverts, and extra funds cannot be withdrawn.
2. `wallet_revocable`: the limit on used tokens ignores released ones. Release,
   then stake, and `revoke()` fails for lack of balance.

Noted without a run:

- `contracts:list` prints one block and lists another: the header names block
  `N` (`ops/info.ts:366`) and `tokensAvailable` is computed for the time of `N`
  (438), while everything else in a row is of block `N - BLOCK_DRIFT` (24, 365).
  No document promises otherwise; `RowsAddUp` is about the block that is read
  and leaves the column of the available tokens out.
- `revokeProtocol()` revokes the allowances of the current destinations of the
  current manager, not those that were given.
- The L2 address recorded on L1 comes from the first message sent, the wallet
  from the first redeemed. A change of the owner between two deposits makes them
  differ, and the recorded address stays empty. `bridge_stable` shows that they
  agree as long as the configuration is left alone.
- For `create-token-locks` "already deployed" means recorded. An entry that was
  created in a run that was killed is counted and sent again in every later run;
  its creation reverts.
- A revocation does not stop the schedule: tokens that arrive after it are
  released as if they were the revoked ones, although a test is called "should
  release only vested amount after being revoked".
- `L1GraphTokenLockTransferTool.sol:27-28` says that all transfers of a wallet
  reach the same L2 wallet. They do as long as its L2 manager stays the same;
  the `bridge` run contains the second wallet and shows that tokens stay with
  their lock nevertheless.
- `README.md:115` of the repository allows one line per contract; two equal lines
  are one salt and get one contract.
- `README.md:80` says that the L2 beneficiary argument is only used if it was not
  set before; the code also refuses a different one (`BeneficiaryAccepted`).
- `beneficiary-accept-lock` succeeds on a lock that `cancelLock()` has just
  emptied: both tasks report the truth, and the accepted lock is empty.
- After the last period `contracts:show` prints a next date past the end.

## 6. Not modelled

- Dry runs, and tasks that only read and print: `manager-balance`,
  `beneficiary-vesting-info`, `scan-token-locks-balances`; of `ops/info.ts` the
  curators' overview, the look-up of prices, the constants of the general summary
  and the layout of the output. They keep no state, and what they print are
  values read from the chain or the formulas of `ReportSchedule`.
- `deploy/1_test.ts`, `hardhat.config.ts`, the test mocks (except as the
  environment of the contracts), the GraphQL queries, gas.
- The use of the protocol by an L2 wallet, and deposits from outside on L2:
  `GraphTokenLockWallet` has them for one chain, and the product of both state
  spaces is out of TLC's reach.
- Two runs of `create-token-locks` at a time, and upgrades of the contracts' code
  between two deployment scripts.

Hazards seen and left out of `PROJECT.json`, because no document promises
anything about them or nothing in the models could tell:

- tokens slashed in the protocol (`GraphTokenLockWallet.sol:156`): `usedAmount`
  stays, and blocks that part of `releasableAmount()`;
- a deployer who renounces ownership before `initialize()`
  (`GraphTokenLockSimple.sol:33`): tokens sent before are stuck;
- the limit of 3000 wallets and an error answer that reads as no wallets
  (`ops/info.ts:180`);
- reads without a block in `contracts:show` (`ops/info.ts:567`): a release in
  between shows balances that do not add up;
- scripts 2, 3 and 4 run again: the new contract replaces the record of the
  first, which stays in use where its address was typed or stored.
