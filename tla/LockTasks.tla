----------------------------- MODULE LockTasks -----------------------------
(***************************************************************************)
(* The tasks that work on single locks: cancel-token-lock (ops/delete.ts), *)
(* beneficiary-accept-lock (ops/beneficiary.ts) and                        *)
(* create-token-locks-simple (ops/create.ts), run at terminals of their    *)
(* own by the deployer and the beneficiary.  A task looks at the lock,     *)
(* asks for a confirmation, sends its transaction, waits, and reports; the *)
(* lock may change between any two of these steps, a task may be stopped   *)
(* anywhere, and a cancellation may be saved as a batch for a multisig.    *)
(*                                                                         *)
(* Of a lock (GraphTokenLock.tla has all of it) only acceptance and balance*)
(* matter here.                                                            *)
(***************************************************************************)
EXTENDS Integers, Sequences, TLC

CONSTANTS Locks,        \* addresses of locks
          Deployer, Beneficiary, Multisig,
          Terminals,
          AccountOf,    \* the account that a terminal signs with
          NumLines,     \* lines of the file of create-token-locks-simple
          MaxSent,      \* bound on the transactions ever sent
          MaxFunded     \* bound on the balance of a lock

ASSUME LockTasksAssumption ==
  /\ AccountOf \in [Terminals -> {Deployer, Beneficiary, Multisig}]
  /\ NumLines \in Nat /\ MaxSent \in Nat /\ MaxFunded \in Nat \ {0}

VARIABLES
  locks,      \* the locks on the chain
  terminals,  \* what runs at each terminal
  sent,       \* transactions by number
  batches,    \* locks with a saved batch that cancels them
  results,    \* lines of the result file: line of the deploy file and lock
  said,       \* what the tasks have reported
  emptied     \* history: locks that were ever cancelled

vars == <<locks, terminals, sent, batches, results, said, emptied>>

Owners == {Deployer, Multisig}

NoLock == [stage |-> "none", line |-> 0, owner |-> Deployer, accepted |-> FALSE, balance |-> 0]

(* A lock that a manager has created and funded. *)
ManagerLock(owner) == [NoLock EXCEPT !.stage = "initialized", !.owner = owner, !.balance = 1]

Free == [task |-> "none", at |-> "free", lock |-> 0, line |-> 0, tx |-> 0]

Init ==
  /\ locks \in [Locks -> {NoLock} \cup {ManagerLock(o) : o \in Owners}]
  /\ terminals = [t \in Terminals |-> Free]
  /\ sent = << >>
  /\ batches = {}
  /\ results = {}
  /\ said = {}
  /\ emptied = {}

-----------------------------------------------------------------------------
(* The contract. *)

(* Mutation: acceptance is left to the task to check. *)
CanCancelUnchecked(k, account) ==
  locks[k].stage = "initialized" /\ locks[k].owner = account

CanCancel(k, account) ==
  locks[k].stage = "initialized" /\ locks[k].owner = account /\ ~locks[k].accepted

Cancel(k) == /\ locks' = [locks EXCEPT ![k].balance = 0]
             /\ emptied' = emptied \cup {k}

(* acceptLock() looks at nothing but the caller. *)
CanAccept(k, account) == locks[k].stage = "initialized" /\ account = Beneficiary

Accept(k) == /\ locks' = [locks EXCEPT ![k].accepted = TRUE]
             /\ UNCHANGED emptied

Fund(k) ==
  /\ locks[k].stage # "none"
  /\ locks[k].balance < MaxFunded
  /\ locks' = [locks EXCEPT ![k].balance = @ + 1]
  /\ UNCHANGED <<terminals, sent, batches, results, said, emptied>>

(* The chain executes a transaction that was sent. *)
Mine(n) ==
  LET k == sent[n].lock
      cancels == sent[n].do = "cancel"
      can == IF cancels THEN CanCancel(k, sent[n].account) ELSE CanAccept(k, sent[n].account)
  IN
  /\ sent[n].status = "pending"
  /\ sent' = [sent EXCEPT ![n].status = IF can THEN "succeeded" ELSE "failed"]
  /\ IF can THEN IF cancels THEN Cancel(k) ELSE Accept(k) ELSE UNCHANGED <<locks, emptied>>
  /\ UNCHANGED <<terminals, batches, results, said>>

(* The multisig executes a saved batch, some time. *)
ExecuteBatch(k) ==
  /\ CanCancel(k, Multisig)
  /\ Cancel(k)
  /\ UNCHANGED <<terminals, sent, batches, results, said>>

-----------------------------------------------------------------------------
Begin(t, task, k) ==
  /\ terminals[t] = Free
  /\ terminals' = [terminals EXCEPT ![t] = [Free EXCEPT !.task = task, !.at = "confirm", !.lock = k]]
  /\ UNCHANGED <<locks, sent, batches, results, said, emptied>>

(* The transaction is sent after the confirmation. *)
Send(t, do) ==
  /\ Len(sent) < MaxSent
  /\ sent' = Append(sent, [do |-> do, lock |-> terminals[t].lock,
                           account |-> AccountOf[t], status |-> "pending"])
  /\ terminals' = [terminals EXCEPT ![t].at = "sent", ![t].tx = Len(sent')]
  /\ UNCHANGED <<locks, batches, results, said, emptied>>

At(t, task, at) == terminals[t].task = task /\ terminals[t].at = at

Succeeded(t) == sent[terminals[t].tx].status = "succeeded"

Report(t, what) ==
  /\ said' = said \cup {[what |-> what, lock |-> terminals[t].lock]}
  /\ terminals' = [terminals EXCEPT ![t] = Free]
  /\ UNCHANGED <<locks, sent, batches, results, emptied>>

(* cancel-token-lock: a lock that is deployed and not accepted. *)
StartCancel(t, k) ==
  /\ locks[k].stage # "none"
  /\ ~locks[k].accepted
  /\ Begin(t, "cancel", k)

SendCancel(t) ==
  /\ At(t, "cancel", "confirm")
  /\ locks[terminals[t].lock].owner = AccountOf[t]
  /\ Send(t, "cancel")

(* txBuilder: the owner is not checked. *)
SaveBatch(t) ==
  /\ At(t, "cancel", "confirm")
  /\ batches' = batches \cup {terminals[t].lock}
  /\ terminals' = [terminals EXCEPT ![t] = Free]
  /\ UNCHANGED <<locks, sent, results, said, emptied>>

(* Mutation: the report does not wait for the receipt. *)
ReportCancelledEarly(t) == At(t, "cancel", "sent") /\ Report(t, "cancelled")

ReportCancelled(t) ==
  /\ At(t, "cancel", "sent")
  /\ Succeeded(t)
  /\ Report(t, "cancelled")

(* beneficiary-accept-lock, for the beneficiary. *)
StartAccept(t, k) ==
  /\ locks[k].stage = "initialized"
  /\ ~locks[k].accepted
  /\ AccountOf[t] = Beneficiary
  /\ Begin(t, "accept", k)

SendAccept(t) == At(t, "accept", "confirm") /\ Send(t, "accept")

(* The task reads isAccepted() again before it reports. *)
ReportAccepted(t) ==
  /\ At(t, "accept", "sent")
  /\ Succeeded(t)
  /\ Report(t, IF locks[terminals[t].lock].accepted THEN "accepted" ELSE "unknown error")

-----------------------------------------------------------------------------
(* create-token-locks-simple: line after line, each lock deployed, then    *)
(* initialized, then recorded.  The result file is not read.  A transaction*)
(* and its receipt are one step: until it is initialized nobody else can   *)
(* do anything with the lock.                                              *)
StartSimple(t) ==
  /\ terminals[t] = Free
  /\ AccountOf[t] = Deployer
  /\ NumLines > 0
  /\ terminals' = [terminals EXCEPT ![t] = [Free EXCEPT !.task = "simple", !.at = "line", !.line = 1]]
  /\ UNCHANGED <<locks, sent, batches, results, said, emptied>>

DeploySimple(t, k) ==
  /\ At(t, "simple", "line")
  /\ locks[k] = NoLock
  /\ locks' = [locks EXCEPT ![k].stage = "deployed", ![k].line = terminals[t].line]
  /\ terminals' = [terminals EXCEPT ![t].at = "deployed", ![t].lock = k]
  /\ UNCHANGED <<sent, batches, results, said, emptied>>

InitializeSimple(t) ==
  /\ At(t, "simple", "deployed")
  /\ \E o \in Owners :
       locks' = [locks EXCEPT ![terminals[t].lock].stage = "initialized",
                              ![terminals[t].lock].owner = o]
  /\ terminals' = [terminals EXCEPT ![t].at = "initialized"]
  /\ UNCHANGED <<sent, batches, results, said, emptied>>

NextLine(t) ==
  LET line == terminals[t].line IN
  terminals' = [terminals EXCEPT ![t] =
    IF line = NumLines THEN Free
    ELSE [@ EXCEPT !.at = "line", !.lock = 0, !.line = line + 1]]

(* Mutation: the line is written before initialize() is waited for. *)
SaveSimpleEarly(t) ==
  /\ terminals[t].task = "simple" /\ terminals[t].at \in {"deployed", "initialized"}
  /\ results' = results \cup {[line |-> terminals[t].line, lock |-> terminals[t].lock]}
  /\ NextLine(t)
  /\ UNCHANGED <<locks, sent, batches, said, emptied>>

SaveSimple(t) ==
  /\ At(t, "simple", "initialized")
  /\ results' = results \cup {[line |-> terminals[t].line, lock |-> terminals[t].lock]}
  /\ NextLine(t)
  /\ UNCHANGED <<locks, sent, batches, said, emptied>>

(* An error is logged, and the task goes on with the next line. *)
SkipLine(t) ==
  /\ terminals[t].task = "simple"
  /\ NextLine(t)
  /\ UNCHANGED <<locks, sent, batches, results, said, emptied>>

(* The operator declines or stops a task, or it ends with an error: the    *)
(* owner is another, sending fails, the transaction does.                  *)
Stop(t) ==
  /\ terminals[t] # Free
  /\ terminals' = [terminals EXCEPT ![t] = Free]
  /\ UNCHANGED <<locks, sent, batches, results, said, emptied>>

Next ==
  \/ \E k \in Locks : Fund(k)
  \/ \E k \in batches : ExecuteBatch(k)
  \/ \E n \in DOMAIN sent : Mine(n)
  \/ \E t \in Terminals :
       \/ \E k \in Locks : StartCancel(t, k) \/ StartAccept(t, k) \/ DeploySimple(t, k)
       \/ SendCancel(t) \/ SaveBatch(t) \/ ReportCancelled(t)
       \/ SendAccept(t) \/ ReportAccepted(t)
       \/ StartSimple(t) \/ InitializeSimple(t) \/ SaveSimple(t) \/ SkipLine(t)
       \/ Stop(t)

Spec == Init /\ [][Next]_vars

-----------------------------------------------------------------------------
(* Every variable keeps its type; a task that waits, waits for a           *)
(* transaction that was sent, and what is recorded is a line of the file.  *)
TypeOK ==
  /\ \A k \in Locks :
       /\ locks[k].stage \in {"none", "deployed", "initialized"}
       /\ locks[k].line \in 0 .. NumLines /\ locks[k].owner \in Owners
       /\ locks[k].accepted \in BOOLEAN /\ locks[k].balance \in 0 .. MaxFunded
  /\ \A t \in Terminals : terminals[t].at = "sent" => terminals[t].tx \in DOMAIN sent
  /\ Len(sent) <= MaxSent
  /\ batches \subseteq Locks
  /\ results \subseteq [line : 1 .. NumLines, lock : Locks]
  /\ said \subseteq [what : {"cancelled", "accepted", "unknown error"}, lock : Locks]
  /\ emptied \subseteq Locks

(* Both sides decide on what they saw before the confirmation, and a batch *)
(* is executed long after it was built.  Once a lock is accepted, no stale *)
(* check, leftover transaction or old batch takes its tokens to the owner. *)
AcceptedKeepsTokens ==
  [][ \A k \in Locks : locks[k].accepted => locks'[k].balance >= locks[k].balance ]_vars

(* The reports are true: a lock reported as cancelled did return its       *)
(* tokens, one reported as accepted is, and the task never runs into its   *)
(* "Lock not accepted! Unknown error".                                     *)
ReportsTrue ==
  \A s \in said :
    \/ s.what = "cancelled" /\ s.lock \in emptied
    \/ s.what = "accepted" /\ locks[s.lock].accepted

(* Each lock in the result file is initialized from the line it is recorded*)
(* for, and from no other, whatever failed or was stopped and run again.   *)
RecordedLocksInitialized ==
  \A r \in results : locks[r.lock].stage = "initialized" /\ locks[r.lock].line = r.line
=============================================================================
