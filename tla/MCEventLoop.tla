----------------------------- MODULE MCEventLoop -----------------------------
(***************************************************************************)
(* The TLC instance of EventLoop (EventLoop.cfg).                          *)
(***************************************************************************)
EXTENDS EventLoop, TLC

CONSTANTS t1, t2

=============================================================================
