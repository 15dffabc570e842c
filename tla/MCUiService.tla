---------------------------- MODULE MCUiService ----------------------------
(***************************************************************************)
(* Instances of UiService for TLC: model values for owners, screens and    *)
(* lease targets.                                                          *)
(***************************************************************************)
EXTENDS UiServiceProps

CONSTANTS o1, o2, none, warning, menu, banner, map
=============================================================================
