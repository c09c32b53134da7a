----------------------- MODULE GraphTokenDistributor -----------------------
(***************************************************************************)
(* GraphTokenDistributor.sol: the owner assigns amounts to accounts, adds  *)
(* to them and takes from them; each account claims what is assigned to it *)
(* at that moment, while the distributor is unlocked.                      *)
(***************************************************************************)
EXTENDS Ownable, Integers, SequencesExt

CONSTANTS Distributor,  \* the contract's own address
          MaxAmount,    \* bound on the amount of one call
          MaxAssigned,  \* bound on what is ever added for an account
          MaxBatch,     \* bound on the length of the arrays of the Multi calls
          Supply        \* bound on what is ever deposited

ASSUME DistributorAssumption ==
  /\ Distributor \notin Address \cup {ZeroAddress}
  /\ IsFiniteSet(Address)  \* an address has 20 bytes
ASSUME DistributorBoundsAssumption ==
  /\ MaxAmount \in Nat /\ MaxAssigned \in Nat
  /\ MaxBatch \in Nat /\ Supply \in Nat

VARIABLES
  locked,
  beneficiaries,  \* amount assigned to each account and not claimed yet
  balance,        \* tokens that the distributor holds
  added,          \* history, by account: sum of what was assigned,
  subtracted,     \*   of what was taken back,
  claimed,        \*   and of what was claimed
  deposited,      \* history: sum of the deposits,
  withdrawn,      \*   of the owner's withdrawals,
  kept            \*   and of the claims sent to the distributor itself

assignments == <<beneficiaries, added, subtracted, claimed>>
funds       == <<balance, deposited, withdrawn, kept>>

vars == <<owner, locked, assignments, funds>>

Init ==
  /\ owner \in Address
  /\ locked = TRUE
  /\ beneficiaries = [a \in AnyAddress |-> 0]
  /\ added = [a \in AnyAddress |-> 0]
  /\ subtracted = [a \in AnyAddress |-> 0]
  /\ claimed = [a \in AnyAddress |-> 0]
  /\ balance = 0
  /\ deposited = 0
  /\ withdrawn = 0
  /\ kept = 0

-----------------------------------------------------------------------------
(* The arrays of a call: pairs of an account and an amount.  One pair is   *)
(* addBeneficiaryTokens() or subBeneficiaryTokens(); an account may occur  *)
(* more than once.                                                         *)
Batches == UNION {[1 .. n -> AnyAddress \X (0 .. MaxAmount)] : n \in 0 .. MaxBatch}

(* Mutation: the amounts are read before the loop writes any. *)
PlusStale(amounts, batch) ==
  FoldLeft(LAMBDA acc, pair : [acc EXCEPT ![pair[1]] = amounts[pair[1]] + pair[2]],
           amounts, batch)

(* The loop reads each amount where the previous rounds left it. *)
Plus(amounts, batch) ==
  FoldLeft(LAMBDA acc, pair : [acc EXCEPT ![pair[1]] = @ + pair[2]], amounts, batch)

Minus(amounts, batch) ==
  FoldLeft(LAMBDA acc, pair : [acc EXCEPT ![pair[1]] = @ - pair[2]], amounts, batch)

(* What a batch names in all for each account. *)
Total(batch) ==
  LET Naming(a) == {i \in DOMAIN batch : batch[i][1] = a}
  IN [a \in AnyAddress |-> SumFunction([i \in Naming(a) |-> batch[i][2]])]

AccountsSet(batch) == \A i \in DOMAIN batch : batch[i][1] # ZeroAddress

AddBeneficiaryTokens(caller, batch) ==
  /\ OnlyOwner(caller)
  /\ AccountsSet(batch)
  /\ \A a \in AnyAddress : added[a] + Total(batch)[a] <= MaxAssigned
  /\ beneficiaries' = Plus(beneficiaries, batch)
  /\ added' = [a \in AnyAddress |-> added[a] + Total(batch)[a]]
  /\ UNCHANGED <<owner, locked, subtracted, claimed, funds>>

(* One account with too little reverts the whole call: amounts only fall,  *)
(* so it is enough to look at the end of the loop.                         *)
SubBeneficiaryTokens(caller, batch) ==
  /\ OnlyOwner(caller)
  /\ AccountsSet(batch)
  /\ \A a \in AnyAddress : Minus(beneficiaries, batch)[a] >= 0
  /\ beneficiaries' = Minus(beneficiaries, batch)
  /\ subtracted' = [a \in AnyAddress |-> subtracted[a] + Total(batch)[a]]
  /\ UNCHANGED <<owner, locked, added, claimed, funds>>

SetLocked(caller, newLocked) ==
  /\ OnlyOwner(caller)
  /\ locked' = newLocked
  /\ UNCHANGED <<owner, assignments, funds>>

(* deposit(), or a plain transfer, by anybody. *)
Deposit(amount) ==
  /\ deposited + amount <= Supply
  /\ balance' = balance + amount
  /\ deposited' = deposited + amount
  /\ UNCHANGED <<owner, locked, assignments, withdrawn, kept>>

Withdraw(caller, amount) ==
  /\ OnlyOwner(caller)
  /\ amount <= balance
  /\ balance' = balance - amount
  /\ withdrawn' = withdrawn + amount
  /\ UNCHANGED <<owner, locked, assignments, deposited, kept>>

(* Mutation: a claim is paid whether the distributor has the tokens or not.*)
ClaimToBeyond(caller, to) ==
  /\ ~locked
  /\ beneficiaries[caller] > 0
  /\ to \notin {ZeroAddress, Distributor}
  /\ beneficiaries' = [beneficiaries EXCEPT ![caller] = 0]
  /\ claimed' = [claimed EXCEPT ![caller] = @ + beneficiaries[caller]]
  /\ balance' = balance - beneficiaries[caller]
  /\ UNCHANGED <<owner, locked, added, subtracted, deposited, withdrawn, kept>>

(* claimTo(), and claim() for the caller itself.  The token refuses the    *)
(* zero address, and a transfer beyond the balance.                        *)
ClaimTo(caller, to) ==
  LET claimableTokens == beneficiaries[caller] IN
  /\ ~locked
  /\ claimableTokens > 0
  /\ beneficiaries' = [beneficiaries EXCEPT ![caller] = 0]
  /\ to # ZeroAddress
  /\ claimableTokens <= balance
  /\ claimed' = [claimed EXCEPT ![caller] = @ + claimableTokens]
  /\ IF to = Distributor
     THEN kept' = kept + claimableTokens /\ UNCHANGED balance
     ELSE balance' = balance - claimableTokens /\ UNCHANGED kept
  /\ UNCHANGED <<owner, locked, added, subtracted, deposited, withdrawn>>

ChangeOwner(caller) ==
  /\ \/ \E newOwner \in AnyAddress : TransferOwnership(caller, newOwner)
     \/ RenounceOwnership(caller)
  /\ UNCHANGED <<locked, assignments, funds>>

Next ==
  \/ \E caller \in Address :
       \/ \E batch \in Batches : AddBeneficiaryTokens(caller, batch)
       \/ \E batch \in Batches : SubBeneficiaryTokens(caller, batch)
       \/ \E newLocked \in BOOLEAN : SetLocked(caller, newLocked)
       \/ \E amount \in 0 .. MaxAmount : Withdraw(caller, amount)
       \/ \E to \in AnyAddress \cup {Distributor} : ClaimTo(caller, to)
       \/ ChangeOwner(caller)
  \/ \E amount \in 0 .. MaxAmount : Deposit(amount)

Spec == Init /\ [][Next]_vars

-----------------------------------------------------------------------------
(* Each amount assigned to an account is claimed once, taken back once, or *)
(* still to be claimed, however claims, corrections in arrays that name an *)
(* account several times, locking and changes of the owner interleave.     *)
AssignedOnce ==
  \A a \in AnyAddress :
    /\ beneficiaries[a] >= 0
    /\ claimed[a] + subtracted[a] + beneficiaries[a] = added[a]

(* The tokens are where the calls moved them: claims and withdrawals       *)
(* compete for the balance, but no token is paid out twice, and none that  *)
(* the distributor does not have, even if more is assigned than deposited. *)
PoolAccounted ==
  /\ balance >= 0
  /\ balance + withdrawn + SumFunction(claimed) = deposited + kept
=============================================================================
