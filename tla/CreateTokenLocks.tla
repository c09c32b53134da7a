------------------------- MODULE CreateTokenLocks -------------------------
(***************************************************************************)
(* The task create-token-locks (ops/create.ts) against the manager that it *)
(* deploys with: a run loads the entries, drops those with a line in the   *)
(* result file, checks owner and funds, and sends one creation per entry,  *)
(* several at a time.  A run may be killed at any point; the result file   *)
(* and the transactions on their way survive it, and a later run picks up. *)
(* With --tx-builder the task saves a batch for a multisig instead, which  *)
(* executes it later, all of it or nothing.                                *)
(*                                                                         *)
(* In the file each line has a number, and its addresses are valid (the    *)
(* task exits otherwise).  The owner given to the task and the manager are *)
(* the same in every run.                                                  *)
(***************************************************************************)
EXTENDS GraphTokenLockManager, Sequences

CONSTANTS Lines,        \* of the deploy files
          Files,        \* the deploy files: their lines
          EntryOf,      \* the entry of each line
          Deployer,     \* the account that runs the task
          Concurrency,  \* PQueue's concurrency
          MaxSent       \* bound on the transactions ever sent

ASSUME TaskAssumption ==
  /\ Files \subseteq SUBSET Lines
  /\ \A lines \in Files : IsFiniteSet(lines)
  /\ EntryOf \in [Lines -> Entries]
  /\ Deployer \in Address
  /\ Concurrency \in Nat \ {0}
  /\ MaxSent \in Nat

VARIABLES
  file,      \* the file of the run that has checked the balance and works on
             \*   its queue; empty if there is no run
  checked,   \* history: what was known of the manager when that run checked
  todo,      \* lines in the queue of the run
  waiting,   \* lines in work, with the transaction whose receipt they await
  sent,      \* transactions by number: line and status
  results,   \* lines of the result file: entry and address
  batch      \* the batch that was saved last

taskVars == <<file, checked, todo, waiting, sent, results, batch>>

vars == <<managerVars, taskVars>>

Transactions == [line : Lines, status : {"pending", "succeeded", "failed"},
                 address : WalletAddresses \cup {ZeroAddress}]

(* Wallets and withdrawals at the time of the check. *)
NoCheck == [wallets |-> {}, withdrawn |-> 0]

NoBatch == [lines |-> {}, deposit |-> 0, drawn |-> 0]

Init ==
  /\ ManagerInit
  /\ owner = Deployer
  /\ file = {}
  /\ checked = NoCheck
  /\ todo = {}
  /\ waiting = [l \in {} |-> 0]
  /\ sent = << >>
  /\ results = {}
  /\ batch = NoBatch

-----------------------------------------------------------------------------
DeployedEntries == {result.entry : result \in results}

(* calculateSalt() hashes what createTokenLockWallet() will hash. *)
Salt(l) == EntryOf[l]

NewLines(lines) == {l \in lines : Salt(l) \notin DeployedEntries}

TotalAmount(lines) == SumFunction([l \in lines |-> AmountOf[Salt(l)]])

(* Mutation: each entry alone is compared with the balance. *)
FundedOneByOne(lines) == \A l \in lines : pool >= AmountOf[Salt(l)]

(* The balance of the manager covers all the entries. *)
Funded(lines) == pool >= TotalAmount(lines)

(* The task up to the confirmation of the operator.  It exits if there is  *)
(* nothing to do, if the deployer is not the owner, or if the manager is   *)
(* underfunded.                                                            *)
StartRun(lines) ==
  /\ file = {}
  /\ NewLines(lines) # {}
  /\ owner = Deployer
  /\ Funded(NewLines(lines))
  /\ file' = lines
  /\ checked' = [wallets |-> DOMAIN wallets, withdrawn |-> withdrawn]
  /\ todo' = NewLines(lines)
  /\ UNCHANGED <<managerVars, waiting, sent, results, batch>>

(* A worker of the queue sends the creation of a line.                     *)
Send(l) ==
  /\ Cardinality(DOMAIN waiting) < Concurrency
  /\ Len(sent) < MaxSent
  /\ l \in todo
  /\ todo' = todo \ {l}
  /\ sent' = Append(sent, [line |-> l, status |-> "pending",
                           address |-> ZeroAddress])
  /\ waiting' = [k \in DOMAIN waiting \cup {l} |->
                   IF k = l THEN Len(sent') ELSE waiting[k]]
  /\ UNCHANGED <<managerVars, file, checked, results, batch>>

(* Sending fails: the node is not reached, or foresees that the creation   *)
(* reverts.  The error is logged, and the worker goes on with another line.*)
SendFails(l) ==
  /\ Cardinality(DOMAIN waiting) < Concurrency
  /\ l \in todo
  /\ todo' = todo \ {l}
  /\ UNCHANGED <<managerVars, file, checked, waiting, sent, results, batch>>

(* The chain executes a pending transaction, whether a run waits for it or *)
(* not.                                                                    *)
Mine(n) ==
  LET e == Salt(sent[n].line) IN
  /\ sent[n].status = "pending"
  /\ \/ /\ CreateTokenLockWallet(Deployer, e)
        /\ sent' = [sent EXCEPT ![n].status = "succeeded",
                                ![n].address = AddressOf(e)]
     \/ /\ ~CanCreate(Deployer, e)
        /\ sent' = [sent EXCEPT ![n].status = "failed"]
        /\ UNCHANGED managerVars
  /\ UNCHANGED <<file, checked, todo, waiting, results, batch>>

Done(l) == waiting' = [k \in DOMAIN waiting \ {l} |-> waiting[k]]

(* Mutation: the line is written as soon as the transaction was sent. *)
SaveDeployResultEarly(l) ==
  /\ results' = results \cup {[entry |-> Salt(l),
                               address |-> AddressOf(Salt(l))]}
  /\ Done(l)
  /\ UNCHANGED <<managerVars, file, checked, todo, sent, batch>>

(* The receipt arrives and the line is appended to the file, one step of   *)
(* the task.                                                               *)
SaveDeployResult(l) ==
  /\ sent[waiting[l]].status = "succeeded"
  /\ results' = results \cup {[entry |-> Salt(l),
                               address |-> sent[waiting[l]].address]}
  /\ Done(l)
  /\ UNCHANGED <<managerVars, file, checked, todo, sent, batch>>

(* The receipt says that the transaction failed, or waiting for it does.   *)
(* The error is logged and the line is left to the next run.               *)
GiveUp(l) ==
  /\ Done(l)
  /\ UNCHANGED <<managerVars, file, checked, todo, sent, results, batch>>

FinishRun ==
  /\ file # {}
  /\ todo = {}
  /\ waiting = [l \in {} |-> 0]
  /\ file' = {}
  /\ checked' = NoCheck
  /\ UNCHANGED <<managerVars, todo, waiting, sent, results, batch>>

KillRun ==
  /\ file # {}
  /\ file' = {}
  /\ checked' = NoCheck
  /\ todo' = {}
  /\ waiting' = [l \in {} |-> 0]
  /\ UNCHANGED <<managerVars, sent, results, batch>>

(* What has left the pool so far. *)
Drawn == deposited - pool

(* Mutation: the batch deposits the total only if the pool is empty. *)
DepositIfEmpty(lines) == IF pool = 0 THEN TotalAmount(lines) ELSE 0

(* The batch brings the tokens that the pool lacks when it is built. *)
DepositMissing(lines) ==
  IF pool < TotalAmount(lines) THEN TotalAmount(lines) - pool ELSE 0

(* --tx-builder: approve() and deposit() if needed, then a creation for    *)
(* each entry, are written to a file.                                      *)
BuildBatch(lines) ==
  /\ NewLines(lines) # {}
  /\ batch' = [lines   |-> NewLines(lines),
               deposit |-> DepositMissing(NewLines(lines)),
               drawn   |-> Drawn]
  /\ UNCHANGED <<managerVars, file, checked, todo, waiting, sent, results>>

(* One transaction: it reverts if any of its calls does. *)
CanExecuteBatch ==
  /\ \A l, k \in batch.lines : AddressOf(Salt(l)) = AddressOf(Salt(k)) => l = k
  /\ \A l \in batch.lines : /\ Salt(l) \notin RefusedEntries
                              /\ CanDeploy(AddressOf(Salt(l)), DOMAIN wallets)
  /\ TotalAmount(batch.lines) <= pool + batch.deposit

(* The owner has its tokens for the deposit.  The result file is not       *)
(* written: later runs of the task find these entries undeployed.          *)
ExecuteBatch ==
  /\ batch # NoBatch
  /\ owner \in Address
  /\ CanExecuteBatch
  /\ deposited + batch.deposit <= Supply
  /\ deposited' = deposited + batch.deposit
  /\ pool' = pool + batch.deposit - TotalAmount(batch.lines)
  /\ wallets' = [a \in DOMAIN wallets \cup {AddressOf(Salt(l)) : l \in batch.lines} |->
                   SentTo(a) + TotalAmount({l \in batch.lines : AddressOf(Salt(l)) = a})]
  /\ batch' = NoBatch
  /\ UNCHANGED <<owner, masterCopy, withdrawn, file, checked, todo,
                 waiting, sent, results>>

Next ==
  \/ \E lines \in Files : StartRun(lines) \/ BuildBatch(lines)
  \/ \E l \in todo : Send(l) \/ SendFails(l)
  \/ \E n \in DOMAIN sent : Mine(n)
  \/ \E l \in DOMAIN waiting : SaveDeployResult(l) \/ GiveUp(l)
  \/ FinishRun
  \/ KillRun
  \/ ExecuteBatch
  \/ ManagerCall /\ UNCHANGED taskVars

Spec == Init /\ [][Next]_vars

-----------------------------------------------------------------------------
(* A line of the result file is true: the wallet at its address exists, was*)
(* created from its entry and holds what the manager sent for it, whatever *)
(* was killed, retried or executed in another order than sent              *)
(* (saveDeployResult after waitTransaction).                               *)
ResultsTrue ==
  \A result \in results :
    /\ result.address.salt = result.entry
    /\ result.address \in DOMAIN wallets
    /\ wallets[result.address] = AmountOf[result.entry]

(* Entries of the file of the run that have no wallet yet: those in its    *)
(* queue, those that it or an earlier run has sent, and those given up.    *)
UnfundedEntries ==
  {e \in {Salt(l) : l \in file} :
     e \notin RefusedEntries /\ AddressOf(e) \notin DOMAIN wallets}

(* The balance is checked once, before the first creation is sent.  The    *)
(* creations draw from it several at a time, next to those that a killed   *)
(* run left behind and to batches, and the pool covers what the file still *)
(* lacks, as long as, since the check, the owner has taken nothing out and *)
(* nothing but entries of the file was created, and one master copy has    *)
(* served all creations.                                                   *)
CheckedFundsSuffice ==
  /\ file # {}
  /\ withdrawn = checked.withdrawn
  /\ \A a \in DOMAIN wallets \ checked.wallets : a.salt \in {Salt(l) : l \in file}
  /\ \A a \in DOMAIN wallets : a.implementation = masterCopy
  => SumFunction([e \in UnfundedEntries |-> AmountOf[e]]) <= pool

(* A batch carries what the pool lacked when it was built: if nothing has  *)
(* left the pool since, it does not fail for want of funds, even though a  *)
(* run of the task works on the same pool and deposits come and go into it.*)
BatchFundsItself ==
  batch # NoBatch /\ Drawn = batch.drawn
    => TotalAmount(batch.lines) <= pool + batch.deposit
=============================================================================
