------------------------ MODULE MinimalProxyFactory ------------------------
(***************************************************************************)
(* MinimalProxyFactory.sol: the address of a minimal proxy is the hash of  *)
(* its salt, of the implementation that its code forwards to, and of the   *)
(* contract that deploys it.  Hashes do not collide, so an address is the  *)
(* record of what it was computed from.                                    *)
(***************************************************************************)

DeploymentAddress(salt, implementation, deployer) ==
  [salt |-> salt, implementation |-> implementation, deployer |-> deployer]

(* CREATE2 refuses an address that has code. *)
CanDeploy(address, deployed) == address \notin deployed
=============================================================================
