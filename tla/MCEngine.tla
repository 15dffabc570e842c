------------------------------ MODULE MCEngine ------------------------------
(***************************************************************************)
(* Instances of what the game's own callbacks feed, for TLC: the story     *)
(* restriction the engine asks about, the physics session, and drawing on  *)
(* the map.  They share no state: a behaviour is one of one part.          *)
(***************************************************************************)
EXTENDS StoryRestriction, PhysicsSession, Drawing, TLC

CONSTANTS x1, x2, x3

VARIABLE part

\* Two writers of the flag that may overlap; or a single write, while worlds and
\* players come and go, one event within another; status events one at a time.
Writes == Next /\ structural'.active = 0 /\ lifecycle'.active <= 1
Worlds == Next /\ lifecycle'.active <= 1 /\ \A w \in Writers :
            writer[w] = Idle /\ writer'[w] # Idle => sequence = 1 /\ \A v \in Writers : writer[v] = Idle

World(id) == [id |-> id, native |-> FALSE, editable |-> TRUE]
Slot(id) == [id |-> id, native |-> TRUE, editable |-> TRUE]
Offer(version, flags, items) == [version |-> version, flags |-> flags, items |-> items]

TwoVersions == {Offer(2, {"place", "create"}, {World(1)}), Offer(3, {"place", "native"}, {World(1), Slot(1)})}
ForKeys == {Offer(3, {"place"}, {World(1)}), Offer(3, {}, {World(1)})}
ForWaits == {Offer(3, {"place"}, {}), Offer(3, {}, {})}
AllOffers == TwoVersions \union ForKeys \union ForWaits

Within(pages, contexts) == page' <= pages /\ context' <= contexts /\ stream' <= contexts

\* One guest: sets of two versions, two projections, two revisions.
Notes == DrawingSteps({x1}, {}, TwoVersions, {1, 2}) /\ Within(1, 2)
\* Two guests that compete for the marker key, two documents, two projections.
Keys == DrawingSteps({x1, x2}, {}, ForKeys, {1}) /\ Within(2, 1)
\* Three guests that wait for one another.
Waits == DrawingSteps({x1, x2, x3}, {}, ForWaits, {1}) /\ Within(1, 1)
\* Two guests with three layers share two surfaces.
Surfaces == DrawingSteps({x1, x2}, Layers, {}, {}) /\ Within(2, 2)

EngineInit ==
  /\ part \in {"writes", "worlds", "physics", "notes", "keys", "waits", "surfaces"}
  /\ Init /\ SessionInit /\ DrawingInit

EngineNext ==
  \/ part = "writes" /\ Writes /\ UNCHANGED <<part, sessionVars, drawingVars>>
  \/ part = "worlds" /\ Worlds /\ UNCHANGED <<part, sessionVars, drawingVars>>
  \/ part = "physics" /\ SessionNext /\ UNCHANGED <<part, vars, drawingVars>>
  \/ part = "notes" /\ Notes /\ UNCHANGED <<part, vars, sessionVars>>
  \/ part = "keys" /\ Keys /\ UNCHANGED <<part, vars, sessionVars>>
  \/ part = "waits" /\ Waits /\ UNCHANGED <<part, vars, sessionVars>>
  \/ part = "surfaces" /\ Surfaces /\ UNCHANGED <<part, vars, sessionVars>>

EngineSpec == EngineInit /\ [][EngineNext]_<<part, vars, sessionVars, drawingVars>>

Symmetry == Permutations({x1, x2})
=============================================================================
