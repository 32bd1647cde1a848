----------------------------- MODULE MCRpcServer -----------------------------
(***************************************************************************)
(* Model of one RpcServer connection for TLC.                              *)
(***************************************************************************)
EXTENDS RpcServer
==============================================================================
