------------------------------- MODULE MCLogin -------------------------------
(***************************************************************************)
(* The TLC instance of Login (Login.cfg): persons and bots, every state of *)
(* tdlib at the start, three refusals, a line of up to two characters.     *)
(***************************************************************************)
EXTENDS Login, TLC

=============================================================================
