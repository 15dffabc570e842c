---------------------------- MODULE MCPlayerLeases ----------------------------
(***************************************************************************)
(* Instances of what guests borrow of the game, for TLC: visibility and    *)
(* the skip of a movie.  They share no state: a behaviour is one of one    *)
(* part, and the other stays as it began.                                  *)
(***************************************************************************)
EXTENDS VisibilityLease, MediaSkip, TLC

VARIABLE part

LeasesInit ==
  /\ part \in {"media", "visibility"}
  /\ Init /\ MediaInit

LeasesNext ==
  \/ part = "visibility" /\ Next /\ UNCHANGED <<part, mediaVars>>
  \/ part = "media" /\ MediaNext /\ UNCHANGED <<part, vars>>

LeasesSpec == LeasesInit /\ [][LeasesNext]_<<part, vars, mediaVars>>

Symmetry == Permutations(Owners)
=============================================================================
