-------------------------- MODULE MCDeployScripts --------------------------
(***************************************************************************)
(* An instance of DeployScripts for TLC: two protocol contracts as targets *)
(* and amounts of one and two tokens.                                      *)
(***************************************************************************)
EXTENDS DeployScripts
=============================================================================
