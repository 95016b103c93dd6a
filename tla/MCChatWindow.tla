----------------------------- MODULE MCChatWindow -----------------------------
(***************************************************************************)
(* An instance of ChatWindow for TLC: a chat with up to two messages at    *)
(* first, and one that is empty at first.                                  *)
(***************************************************************************)
EXTENDS ChatWindow

CONSTANTS c, d

MCLengths == {[x \in {c, d} |-> IF x = c THEN n ELSE 0] : n \in 0..2}
=============================================================================
