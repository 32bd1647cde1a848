----------------------------- MODULE MCRpcClient -----------------------------
(***************************************************************************)
(* Model of RpcClient for TLC.                                             *)
(***************************************************************************)
EXTENDS RpcClient
==============================================================================
