-------------------------- MODULE MCLuaController --------------------------
(***************************************************************************)
(* Instances of LuaController for TLC.                                     *)
(***************************************************************************)
EXTENDS LuaController, TLC

CONSTANTS g1, w1, w2, o1, o2, p1, p2

Symmetry == Permutations({w1, w2}) \union Permutations({o1, o2}) \union Permutations({p1, p2})
=============================================================================
