----------------------------- MODULE MCEndings -----------------------------
(***************************************************************************)
(* What must end, for TLC: a Lua package that nobody wants any more, a     *)
(* trial of a body's damping, and the hold of a released guest on the      *)
(* physics session.  They share no state: a behaviour is one of one part,  *)
(* under the fairness of that part.                                        *)
(***************************************************************************)
EXTENDS DampingTrial

CONSTANTS light, heavy, b1, g1, w1, o1, o2, p1, None, Free, Game, Cleaned, Lost

VARIABLES
  part,
  slots, luaSerial, halted, luaRevision, tearing, update, turn, op, world, home, registry, closes,
  shutdowns, acquired, broken,
  accepting, commands, owner, releasing, host, status, ui, search, selected, trial, after, sample,
  selections, watched, retired, serial, retiring, revision, hook, body, dispatch

luaVars == <<slots, luaSerial, halted, luaRevision, tearing, update, turn, op, world, home, registry, closes,
             shutdowns, acquired, broken>>
physicsVars == <<accepting, commands, owner, releasing, host, status, ui, search, selected, trial,
                 after, sample, selections, watched, retired, serial, retiring, revision, hook, body,
                 dispatch>>

\* One package, one VM and world, two script owners, one teardown.
Lua == INSTANCE LuaController WITH
  serial <- luaSerial, revision <- luaRevision,
  Ids <- {p1}, Capacity <- 1, Vms <- {g1}, Worlds <- {w1}, Owners <- {o1, o2}, References <- {1},
  MaxSerial <- 1, MaxTeardowns <- 1

\* One guest, one selection; what retires bodies is in MCEngine.
Physics == INSTANCE PhysicsSession WITH
  NoOwner <- NoBody, Owners <- {g1}, MaxSelections <- 1, MaxRetirements <- 0, MaxRejections <- 1

EndingsInit ==
  /\ part \in {"lua", "trial", "physics"} /\ Init /\ Lua!Init /\ Physics!SessionInit
  /\ part # "trial" => value = [b \in Bodies |-> light]

EndingsNext ==
  \/ part = "lua" /\ Lua!Next /\ UNCHANGED <<part, vars, physicsVars>>
  \/ part = "trial" /\ Next /\ UNCHANGED <<part, luaVars, physicsVars>>
  \/ part = "physics" /\ Physics!SessionNext /\ UNCHANGED <<part, vars, luaVars>>

EndingsFairness ==
  \/ part = "lua" /\ Lua!Fairness
  \/ part = "trial" /\ Fairness
  \/ part = "physics" /\ Physics!SessionFairness

EndingsSpec == EndingsInit /\ [][EndingsNext]_<<part, vars, luaVars, physicsVars>> /\ EndingsFairness
-----------------------------------------------------------------------------
\* What holds on to the game lets go: a trial ends, and a release of the physics session
\* is carried out.
HoldsEnd == TrialsEnd /\ Physics!ReleasesEnd

\* A package nobody wants any more gives back all it holds of the game.
UnwantedIsReleased == Lua!UnwantedIsReleased
=============================================================================
