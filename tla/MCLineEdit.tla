------------------------------ MODULE MCLineEdit -----------------------------
(***************************************************************************)
(* An instance of LineEdit for TLC.                                        *)
(***************************************************************************)
EXTENDS LineEdit
=============================================================================
