---------------------------- MODULE ManagerTasks ----------------------------
(***************************************************************************)
(* The tasks of ops/manager.ts: an operator sets up, funds and hands over  *)
(* managers from one terminal, with the deployer's account.  A task is a   *)
(* list of calls; it sends each one as a transaction and waits for its     *)
(* receipt.  It may be stopped anywhere, and what it has sent stays on its *)
(* way: a chain executes the transactions of one account in the order of   *)
(* their nonces, which is the order in which they were sent.  A task runs  *)
(* on one of the two networks; each has its own transactions and tokens.   *)
(***************************************************************************)
EXTENDS ManagerAllowList, Integers, SequencesExt

CONSTANTS ManagerNames,  \* names under which a manager may be recorded
          Owners,        \* accounts that may own a manager
          Deployer,
          Amounts,       \* amounts of tokens given to the tasks
          Purse,         \* tokens that the deployer has on each network
          MaxCommands    \* bound on the commands ever started

Networks == {"L1", "L2"}

ASSUME ManagerTasksAssumption ==
  /\ \A name \in ManagerNames : name.network \in Networks
  /\ Deployer \in Owners
  /\ Amounts \subseteq Nat \ {0}
  /\ Purse \in Nat
  /\ MaxCommands \in Nat

VARIABLES
  managers,  \* deployed managers by address
  purse,     \* tokens of the deployer on each network
  records,   \* deployment records: address by name
  terminal,  \* the calls that the running command has yet to send, and where
  pending,   \* transactions of the deployer on their way on each network
  commands   \* history: number of commands started

chainVars == <<managers, purse>>

NewManager(network) ==
  [network |-> network, owner |-> Deployer, pool |-> 0, allowance |-> 0,
   list |-> EmptyAllowList]

Idle == [network |-> "none", calls |-> << >>, waits |-> TRUE, waiting |-> FALSE]

Calls == {"approve", "deposit", "withdraw", "auth", "destination", "transfer"}

Call(do, name, arg) == [do |-> do, name |-> name, arg |-> arg]

(* What the transaction of a call to the manager m needs to succeed; funds *)
(* are the tokens of the deployer.                                         *)
Succeeds(do, m, arg, funds) ==
  CASE do = "approve"     -> TRUE
    [] do = "deposit"     -> arg <= m.allowance /\ arg <= funds
    [] do = "withdraw"    -> m.owner = Deployer /\ arg <= m.pool
    [] do = "destination" -> m.owner = Deployer /\ CanAddTokenDestination(m.list, arg)
    [] OTHER              -> m.owner = Deployer

After(do, m, arg) ==
  CASE do = "approve"     -> [m EXCEPT !.allowance = arg]
    [] do = "deposit"     -> [m EXCEPT !.allowance = @ - arg, !.pool = @ + arg]
    [] do = "withdraw"    -> [m EXCEPT !.pool = @ - arg]
    [] do = "auth"        -> [m EXCEPT !.list = WithAuthFunctionCalls(@, arg)]
    [] do = "destination" -> [m EXCEPT !.list = WithTokenDestination(@, arg)]
    [] do = "transfer"    -> [m EXCEPT !.owner = arg]

FundsAfter(do, arg, funds) ==
  CASE do = "deposit" -> funds - arg [] do = "withdraw" -> funds + arg [] OTHER -> funds

-----------------------------------------------------------------------------
Start(network, calls, waits) ==
  /\ terminal = Idle
  /\ commands < MaxCommands
  /\ terminal' = [network |-> network, calls |-> calls, waits |-> waits, waiting |-> FALSE]
  /\ commands' = commands + 1
  /\ UNCHANGED <<chainVars, records, pending>>

(* Mutation: the destination is added first. *)
SetupAuthCallsSwapped(name, target) ==
  <<Call("destination", name, target), Call("auth", name, [s \in Sigs |-> target])>>

(* Mutation: each signature is authorized by a transaction of its own. *)
SetupAuthCallsOneByOne(name, target) ==
  Append(SetToSeq({Call("auth", name, s :> target) : s \in Sigs}),
         Call("destination", name, target))

(* One transaction authorizes all signatures. *)
SetupAuthCalls(name, target) ==
  <<Call("auth", name, [s \in Sigs |-> target]), Call("destination", name, target)>>

(* getTokenLockManagerOrFail(): the task ends without a record, or without *)
(* code at its address.                                                    *)
HasManager(name) == name \in DOMAIN records /\ records[name] \in DOMAIN managers

(* Mutation: an allowance that a stopped run left behind is used again. *)
DepositCallsReusing(name, amount) ==
  IF HasManager(name) /\ managers[records[name]].allowance > 0
  THEN <<Call("deposit", name, amount)>>
  ELSE <<Call("approve", name, amount), Call("deposit", name, amount)>>

DepositCalls(name, amount) ==
  <<Call("approve", name, amount), Call("deposit", name, amount)>>

WithdrawCalls(name, amount) == <<Call("withdraw", name, amount)>>

(* The task looks at the owner first, and does not wait for its call. *)
MayTransfer(name) == managers[records[name]].owner = Deployer

TransferCalls(name, newOwner) == <<Call("transfer", name, newOwner)>>

StartManagerTask ==
  \E name \in ManagerNames :
    /\ HasManager(name)
    /\ \/ \E target \in ProtocolContracts : Start(name.network, SetupAuthCalls(name, target), TRUE)
       \/ \E amount \in Amounts :
            \/ Start(name.network, DepositCalls(name, amount), TRUE)
            \/ Start(name.network, WithdrawCalls(name, amount), TRUE)
       \/ /\ MayTransfer(name)
          /\ \E newOwner \in Owners : Start(name.network, TransferCalls(name, newOwner), FALSE)

(* The command sends its next call; the last one may be left unwatched. *)
SendCall ==
  /\ terminal.calls # << >>
  /\ ~terminal.waiting
  /\ LET call == Head(terminal.calls)
         rest == Tail(terminal.calls)
     IN /\ call.do \in Calls
        /\ HasManager(call.name)
        /\ pending' = [pending EXCEPT ![terminal.network] =
                         Append(@, [do  |-> call.do,
                                    to  |-> records[call.name],
                                    arg |-> call.arg])]
        /\ terminal' = IF rest = << >> /\ ~terminal.waits THEN Idle
                       ELSE [terminal EXCEPT !.calls = rest, !.waiting = terminal.waits]
  /\ UNCHANGED <<chainVars, records, commands>>

(* The command has waited for the transaction that network has executed.   *)
Confirms(network) ==
  terminal.waiting /\ terminal.network = network /\ pending'[network] = << >>

(* A chain executes the next transaction.  If it is the one that the       *)
(* command waits for, the command goes on, or ends with an error.          *)
Mine(network) ==
  /\ pending[network] # << >>
  /\ LET tx == Head(pending[network])
         m  == managers[tx.to]
         ok == Succeeds(tx.do, m, tx.arg, purse[network])
     IN /\ IF ok
           THEN /\ managers' = [managers EXCEPT ![tx.to] = After(tx.do, m, tx.arg)]
                /\ purse' = [purse EXCEPT ![network] = FundsAfter(tx.do, tx.arg, @)]
           ELSE UNCHANGED chainVars
        /\ pending' = [pending EXCEPT ![network] = Tail(@)]
        /\ terminal' = IF Confirms(network)
                       THEN IF ok /\ terminal.calls # << >>
                            THEN [terminal EXCEPT !.waiting = FALSE] ELSE Idle
                       ELSE terminal
  /\ UNCHANGED <<records, commands>>

(* The operator declines or stops the command, or sending fails, for       *)
(* example because the node foresees that the call reverts.                *)
Stop ==
  /\ terminal # Idle
  /\ terminal' = Idle
  /\ UNCHANGED <<chainVars, records, pending, commands>>

ManagerTaskStep ==
  \/ StartManagerTask \/ SendCall \/ Stop
  \/ \E network \in Networks : Mine(network)

-----------------------------------------------------------------------------
(* However the set-ups of different targets are cut short, repeated and    *)
(* overlapped, a wallet never finds its protocol functions split between   *)
(* two targets (signatures and targets of manager-setup-auth).             *)
OneTarget ==
  \A a \in DOMAIN managers : \A s1, s2 \in Sigs :
    AuthFunctionCallTarget(managers[a].list, s1)
      = AuthFunctionCallTarget(managers[a].list, s2)

MinesDestination(network, m) ==
  /\ pending[network] # << >>
  /\ pending'[network] = Tail(pending[network])
  /\ Head(pending[network]).do = "destination"
  /\ Head(pending[network]).to = m

(* When the second transaction of a set-up is executed, the manager is set *)
(* up for its target, whether this transaction succeeds or fails because   *)
(* an earlier, unfinished run had added the destination: running the task  *)
(* again always completes it, as long as the deployer owns the manager.    *)
SetupCompletes ==
  [][ \A network \in Networks, m \in DOMAIN managers :
        MinesDestination(network, m) /\ managers[m].owner = Deployer
          => LET target == Head(pending[network]).arg
             IN /\ target \in managers'[m].list.tokenDestinations
                /\ \A s \in Sigs :
                     AuthFunctionCallTarget(managers'[m].list, s) = target ]_<<managers, pending>>

(* A deposit finds its allowance when it is executed, whatever allowances  *)
(* and transactions stopped runs of manager-deposit, or a deploy script    *)
(* that does not wait, have left behind.                                   *)
DepositsAllowed ==
  \A network \in Networks :
    pending[network] # << >> /\ Head(pending[network]).do = "deposit"
      => managers[Head(pending[network]).to].allowance >= Head(pending[network]).arg
=============================================================================
