------------------------------- MODULE MCInput --------------------------------
(***************************************************************************)
(* An instance of Input for TLC.                                           *)
(***************************************************************************)
EXTENDS Input, TLC

MCEscapes == [c \in Letters |-> NewLine]

Symmetry == Permutations(Quotes)
===============================================================================
