------------------------------ MODULE Ownable ------------------------------
(***************************************************************************)
(* Ownable.sol: one account at a time may call the guarded operations of a *)
(* contract.  The zero address stands for "no owner"; no message has it as *)
(* its sender, so msg.sender always ranges over Address.                   *)
(***************************************************************************)
CONSTANTS Address,       \* accounts that can send a transaction
          ZeroAddress

ASSUME ZeroAddressAssumption == ZeroAddress \notin Address

VARIABLE owner

AnyAddress == Address \cup {ZeroAddress}

OnlyOwner(caller) == owner = caller

TransferOwnership(caller, newOwner) ==
  /\ OnlyOwner(caller)
  /\ newOwner # ZeroAddress
  /\ owner' = newOwner

RenounceOwnership(caller) ==
  /\ OnlyOwner(caller)
  /\ owner' = ZeroAddress
=============================================================================
