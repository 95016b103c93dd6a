------------------------------- MODULE MCPeers -------------------------------
(***************************************************************************)
(* An instance of Peers for TLC.                                           *)
(***************************************************************************)
EXTENDS Peers, TLC

Symmetry == Permutations(Titles) \cup Permutations(Users)
=============================================================================
