----------------------------- MODULE MCCommands -----------------------------
(***************************************************************************)
(* Instances of Commands for TLC.  Each configuration chooses who may type *)
(* what; the sets of line kinds are defined here.                          *)
(***************************************************************************)
EXTENDS Commands, TLC

Symmetry == Permutations(Cmd) \cup Permutations(Conn)

(* Lines that keep the discipline of reference counts: everything but what *)
(* the known defects need (see the configurations that expect a violation).*)
SafeConsole == (PlainLines \cup ChatLines) \ {"chat_history"}

(* One line of each way a command can travel, for the larger instances. *)
SocketMix == PlainLines \ {"empty", "timer", "quit"}
ConsoleMix == {"sync", "query", "main_session"}

(* Lines whose completion tdlib, a timer or a handler guarantees. *)
LiveConsole == {"sync", "message", "history", "load", "timer", "safe_quit"}

(* Everything, defects included. *)
AnyConsole == PlainLines \cup ChatLines \cup {"eof"}
AnyLimit   == {-1, 2}
=============================================================================
