---------------------------- MODULE MCModStorage ----------------------------
(***************************************************************************)
(* Instances of ModStorage for TLC.                                        *)
(***************************************************************************)
EXTENDS ModStorage

CONSTANTS old, new

\* A first start finds an empty directory; later ones find what a session or a
\* crash left behind, and a file that is there may fail to be read.
FreshInit == Init /\ \A id \in Ids : target[id] = Absent /\ staging[id] = Absent

FreshFairSpec == FreshInit /\ [][Next]_vars /\ WF_vars(Worker) /\ WF_vars(Joined)
=============================================================================
