--------------------------- MODULE MCTcpConnection ---------------------------
(***************************************************************************)
(* Model of TcpConnection for TLC.                                         *)
(***************************************************************************)
EXTENDS TcpConnection
==============================================================================
