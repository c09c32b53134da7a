--------------------------- MODULE DeployScripts ---------------------------
(***************************************************************************)
(* The scripts of deploy/: each deploys contracts of the lock system and   *)
(* records their addresses under names that the operator may choose.  The  *)
(* operator runs them from the terminal of ManagerTasks, in any order and  *)
(* any number of times, on L1 and L2, which have records of their own; a   *)
(* script may be stopped between two of its steps.                         *)
(*                                                                         *)
(* A script waits for what it deploys, so deployments are steps of the     *)
(* command; the calls that fund a new manager are not waited for.          *)
(***************************************************************************)
EXTENDS ManagerTasks, FiniteSets

CONSTANTS MaxContracts,  \* bound on the contracts ever deployed
          FundAmount     \* tokens that a script puts into a new manager

VARIABLE contracts  \* deployed contracts by address

vars == <<managers, purse, records, terminal, pending, commands, contracts>>

(* The other kinds are "L1Copy", "L2Copy", "L1Tool" and "L2Tool".       *)
ManagerKinds == {"L1Manager", "L2Manager"}

(* Where a contract of a kind is deployed. *)
NetworkOf(kind) == IF kind \in {"L1Copy", "L1Manager", "L1Tool"} THEN "L1" ELSE "L2"

(* A name is proposed by the script, or another one typed by the operator. *)
(* Each network has its own records.                                       *)
Name(kind, typed) == [network |-> NetworkOf(kind), kind |-> kind, typed |-> typed]
Names(kind) == {Name(kind, typed) : typed \in BOOLEAN}
Default(kind) == Name(kind, FALSE)

AllManagerNames == UNION {Names(kind) : kind \in ManagerKinds}

ASSUME DeployScriptsAssumption ==
  /\ ManagerNames \subseteq AllManagerNames
  /\ MaxContracts \in Nat
  /\ FundAmount \in Nat \ {0}

NoCopy == 0

Init ==
  /\ contracts = << >>
  /\ managers = [a \in {} |-> NewManager("none")]
  /\ purse = [network \in Networks |-> Purse]
  /\ records = [n \in {} |-> NoCopy]
  /\ terminal = Idle
  /\ pending = [network \in Networks |-> << >>]
  /\ commands = 0

-----------------------------------------------------------------------------
(* The function f with the value v at x. *)
With(f, x, v) == [y \in DOMAIN f \cup {x} |-> IF y = x THEN v ELSE f[y]]

(* hardhat-deploy's deploy(): a contract recorded under the name is kept if*)
(* it was deployed with the same arguments.                                *)
Deploy(name, copy) ==
  LET new == [kind |-> name.kind, copy |-> copy]
      address == Len(contracts) + 1
  IN IF name \in DOMAIN records /\ contracts[records[name]] = new
     THEN UNCHANGED <<contracts, records, managers>>
     ELSE /\ pending[name.network] = << >>
          /\ address <= MaxContracts
          /\ contracts' = Append(contracts, new)
          /\ records' = With(records, name, address)
          /\ managers' = IF name.kind \in ManagerKinds
                         THEN With(managers, address, NewManager(name.network))
                         ELSE managers

(* The calls of a script that deploy: a copy, a manager of a copy, a proxy.*)
DeployCopy(name)            == [do |-> "deployCopy", name |-> name]
DeployManager(name, copyAt) == [do |-> "deployManager", name |-> name, copyAt |-> copyAt]
DeployProxy(implementation) == [do |-> "deployProxy", copy |-> implementation]
Save(name)                  == [do |-> "save", name |-> name]

(* approve() and deposit(), neither of them waited for. *)
Fund(name) == DepositCalls(name, FundAmount)

(* 2_l1_manager_wallet.ts *)
L1ManagerScript(copyName, name, funds) ==
  <<DeployCopy(copyName), DeployManager(name, copyName)>>
     \o IF funds THEN Fund(name) ELSE << >>

(* 3_l2_wallet.ts *)
L2WalletScript(copyName) == <<DeployCopy(copyName)>>

(* 4_l1_transfer_tool.ts: the operator types the address of a wallet copy; *)
(* what is recorded is the proxy.                                          *)
L1ToolScript(implementation, name) == <<DeployProxy(implementation), Save(name)>>

(* Mutation: the manager gets a copy of its own, as on L1. *)
L2ManagerScriptOwnCopy(name, funds) ==
  <<DeployCopy(Name("L2Copy", name.typed)), DeployManager(name, Name("L2Copy", name.typed))>>
     \o IF funds THEN Fund(name) ELSE << >>

(* 5_l2_manager.ts: the copy is the one recorded under the proposed name. *)
L2ManagerScript(name, funds) ==
  <<DeployManager(name, Default("L2Copy"))>> \o IF funds THEN Fund(name) ELSE << >>

(* 6_l2_transfer_tool.ts *)
L2ToolScript(name) == <<DeployProxy(NoCopy), Save(name)>>

(* A script ends at a prompt that is not answered with an address: it has  *)
(* not begun here.                                                         *)
StartScript ==
  \/ \E copyName \in Names("L1Copy"), name \in Names("L1Manager"), funds \in BOOLEAN :
       Start("L1", L1ManagerScript(copyName, name, funds), FALSE)
  \/ \E copyName \in Names("L2Copy") : Start("L2", L2WalletScript(copyName), FALSE)
  \/ \E a \in DOMAIN contracts, name \in Names("L1Tool") :
       contracts[a].kind = "L2Copy" /\ Start("L1", L1ToolScript(a, name), FALSE)
  \/ \E name \in Names("L2Manager"), funds \in BOOLEAN :
       Start("L2", L2ManagerScript(name, funds), FALSE)
  \/ \E name \in Names("L2Tool") : Start("L2", L2ToolScript(name), FALSE)

DeployStep(step) ==
  \/ /\ step.do = "deployCopy"
     /\ Deploy(step.name, NoCopy)
  \/ /\ step.do = "deployManager"
     /\ step.copyAt \in DOMAIN records  \* deployments.get() throws otherwise
     /\ Deploy(step.name, records[step.copyAt])
  \/ /\ step.do = "deployProxy"
     /\ pending[terminal.network] = << >>
     /\ Len(contracts) < MaxContracts
     /\ contracts' = Append(contracts, [kind |-> IF step.copy = NoCopy THEN "L2Tool" ELSE "L1Tool",
                                        copy |-> step.copy])
     /\ UNCHANGED <<records, managers>>
  \/ /\ step.do = "save"
     /\ records' = With(records, step.name, Len(contracts))
     /\ UNCHANGED <<contracts, managers>>

RunDeployStep ==
  /\ terminal.calls # << >>
  /\ ~terminal.waiting
  /\ DeployStep(Head(terminal.calls))
  /\ terminal' = IF Len(terminal.calls) = 1 THEN Idle
                 ELSE [terminal EXCEPT !.calls = Tail(@)]
  /\ UNCHANGED <<purse, pending, commands>>

Next ==
  \/ (StartScript \/ ManagerTaskStep) /\ UNCHANGED contracts
  \/ RunDeployStep

Spec == Init /\ [][Next]_vars

-----------------------------------------------------------------------------
(* "Make sure all of them use the same wallet master copy in L2"           *)
(* (DEPLOYMENT.md): whatever names are typed, however often scripts are run*)
(* and wherever they are stopped, all L2 managers share one copy, the one  *)
(* recorded under the proposed name, which the L1 tool is to be given.     *)
OneMasterCopyOnL2 ==
  \A a \in DOMAIN managers :
    contracts[a].kind = "L2Manager" =>
      /\ Default("L2Copy") \in DOMAIN records
      /\ contracts[a].copy = records[Default("L2Copy")]
=============================================================================
