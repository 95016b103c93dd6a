----------------------------- MODULE MCDialogList -----------------------------
(***************************************************************************)
(* An instance of DialogList for TLC.                                      *)
(***************************************************************************)
EXTENDS DialogList

=============================================================================
