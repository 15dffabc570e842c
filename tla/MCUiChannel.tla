---------------------------- MODULE MCUiChannel ----------------------------
(***************************************************************************)
(* Instances of UiChannel for TLC.                                         *)
(***************************************************************************)
EXTENDS UiChannel

CONSTANTS o1, none, warning
=============================================================================
