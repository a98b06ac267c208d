---------------------------- MODULE MCInfrastructure ----------------------------
(* Instance of Infrastructure for TLC: a RollupCreator with one part, and two   *)
(* deployments that share a signer.                                             *)
EXTENDS Infrastructure
=============================================================================
