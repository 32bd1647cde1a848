---------------------------- MODULE MCEventLoop ----------------------------
(***************************************************************************)
(* Model of EventLoop for TLC: two threads queue work and quit the loop    *)
(* while it runs.                                                          *)
(***************************************************************************)
EXTENDS EventLoop
=============================================================================
