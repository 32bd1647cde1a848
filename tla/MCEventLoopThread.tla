------------------------- MODULE MCEventLoopThread -------------------------
(***************************************************************************)
(* Model of EventLoopThread for TLC: the owner and one more thread.        *)
(***************************************************************************)
EXTENDS EventLoopThread
=============================================================================
