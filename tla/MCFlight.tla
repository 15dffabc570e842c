------------------------------ MODULE MCFlight ------------------------------
(***************************************************************************)
(* Instances of Flight for TLC.                                            *)
(***************************************************************************)
EXTENDS Flight, TLC

CONSTANTS m1, m2

See(entity, world) == [NoSample EXCEPT !.entity = entity, !.world = world]

\* The player and the player after a replacement, another world, and the flags the
\* engine may set.
Views ==
  {See(1, 1), See(2, 1)} \union
  {[See(1, 1) EXCEPT !.disabled = TRUE], [See(1, 1) EXCEPT !.teleported = TRUE],
   [See(1, 1) EXCEPT !.keyframed = TRUE]}
=============================================================================
