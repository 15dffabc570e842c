---------------------------- MODULE DampingTrial ----------------------------
(***************************************************************************)
(* runtime/physics_trial.{h,cpp}: one temporary change of a body's linear  *)
(* damping that must be undone whatever happens.                           *)
(*                                                                         *)
(* apply() and poll() run inside the simulation callback, but the engine's *)
(* release and destroy hooks, and the game itself, are not stopped while   *)
(* they run.  So every access through the DampingBackend is a step of its  *)
(* own, and between any two of them the game may write the body's damping  *)
(* or release the body and put a new one behind the same handle.           *)
(*                                                                         *)
(* The backend (DampingBackend) is what the header says of it: it checks   *)
(* the identity and the expected value at the moment of the write, any     *)
(* read may be unavailable, and the result of a write is not to be         *)
(* believed: FALSE may have changed the value, TRUE may not have.          *)
(*                                                                         *)
(* An operator named Slip... is a plausible mistake in the definition that *)
(* follows it and is used nowhere; it shows that a property can fail.      *)
(***************************************************************************)
EXTENDS Naturals

CONSTANTS
  Bodies,           \* handles a trial can be aimed at
  Values,           \* damping values, all valid (finite and not negative)
  Durations,        \* durations asked for, in ticks (1..10000 ms)
  NoBody,           \* the default Target
  NoValue,          \* the cleared original_ and applied_
  MaxTime,          \* UINT64_MAX
  MaxIncarnations,  \* bound on the bodies that one handle has named
  MaxRewinds        \* bound on clock discontinuities

SentinelAssumption == NoBody \notin Bodies /\ NoValue \notin Values
TrialBounds ==
  /\ MaxTime \in Nat /\ MaxIncarnations \in Nat /\ MaxRewinds \in Nat
  /\ Durations \subseteq Nat \ {0}
ASSUME TrialAssumed == SentinelAssumption /\ TrialBounds

VARIABLES
  state,        \* state_
  target,       \* target_: a handle and the incarnation it named
  original,     \* original_
  applied,      \* applied_
  deadline,     \* deadline_
  last,         \* last_time_
  call,         \* which backend access the running callback makes next
  value,        \* the engine's linear damping of each body
  incarnation,  \* how often each handle's body has been replaced
  now,          \* GetTickCount64
  rewinds,      \* how often the clock has gone back
  game,         \* history: the value the game last gave each body
  mixed         \* history: bodies that the game gave the trial's own value

trialVars  == <<state, target, original, applied, deadline, last>>
engineVars == <<value, incarnation>>
clockVars  == <<now, rewinds>>
vars == <<trialVars, call, engineVars, clockVars, game, mixed>>

Targets  == [body : Bodies \union {NoBody}, incarnation : 0..MaxIncarnations]
NoTarget == [body |-> NoBody, incarnation |-> 0]
Calls    == {"none", "applying", "confirming", "reverting", "verifying"}

Pending == state # "idle"
Aimed(b) == target = [body |-> b, incarnation |-> incarnation[b]]
\* The target's body still is the one that was selected.
Living  == target.body # NoBody /\ Aimed(target.body)

Init ==
  /\ state = "idle" /\ target = NoTarget
  /\ original = NoValue /\ applied = NoValue
  /\ deadline = 0 /\ last = 0
  /\ call = "none"
  /\ value \in [Bodies -> Values]
  /\ incarnation = [b \in Bodies |-> 0]
  /\ now = 0 /\ rewinds = 0
  /\ game = value /\ mixed = {}

-----------------------------------------------------------------------------

\* clear: the trial drops its target and the callback returns.
Clear ==
  /\ state' = "idle" /\ target' = NoTarget
  /\ original' = NoValue /\ applied' = NoValue
  /\ deadline' = 0 /\ last' = 0
  /\ call' = "none"

\* Slip: a deadline past the end of the clock is accepted.
SlipNoOverflowCheck(b, wanted, duration) ==
  /\ call = "none" /\ ~Pending
  /\ value[b] # wanted
  /\ target' = [body |-> b, incarnation |-> incarnation[b]]
  /\ original' = value[b] /\ applied' = wanted
  /\ deadline' = now + duration /\ last' = now
  /\ state' = "restoring"
  /\ call' = "applying"
  /\ UNCHANGED <<engineVars, clockVars, game, mixed>>

\* apply, up to its first read: the value differs from the one wanted, and the
\* trial is ready to restore it before anything is written.
Apply(b, wanted, duration) ==
  /\ call = "none" /\ ~Pending
  /\ now + duration <= MaxTime
  /\ value[b] # wanted
  /\ target' = [body |-> b, incarnation |-> incarnation[b]]
  /\ original' = value[b] /\ applied' = wanted
  /\ deadline' = now + duration /\ last' = now
  /\ state' = "restoring"
  /\ call' = "applying"
  /\ UNCHANGED <<engineVars, clockVars, game, mixed>>

\* The backend's write: `expected` is compared and replaced, or nothing
\* happens.  Its answer decides whether the callback reads again or returns.
Write(expected, new, then) ==
  /\ \/ /\ Living /\ value[target.body] = expected
        /\ value' = [value EXCEPT ![target.body] = new]
        /\ call' \in {then, "none"}
     \/ /\ UNCHANGED value
        /\ call' \in IF Living /\ value[target.body] = expected THEN {then, "none"}
                     ELSE {"none"}
  /\ UNCHANGED <<trialVars, incarnation, clockVars, game, mixed>>

WriteApplied  == call = "applying" /\ Write(original, applied, "confirming")
WriteOriginal == call = "reverting" /\ Write(applied, original, "verifying")

\* The backend's read finds the body, finds another one in its place, or is
\* unavailable, which it may be in either case.
Found       == Living
Replaced    == ~Living

\* The read after apply's write.  Only the value that was written makes the
\* trial active; anything else ends it, and not knowing leaves it restoring.
ConfirmApplied ==
  /\ call = "confirming"
  /\ \/ /\ Replaced \/ (Found /\ value[target.body] # applied)
        /\ Clear
     \/ /\ Found /\ value[target.body] = applied
        /\ state' = "active" /\ call' = "none"
        /\ UNCHANGED <<target, original, applied, deadline, last>>
     \/ /\ call' = "none"
        /\ UNCHANGED trialVars
  /\ UNCHANGED <<engineVars, clockVars, game, mixed>>

\* Slips: the deadline does not end a trial; a trial that may stay becomes
\* active again.
SlipNoDeadline(keep) == IF ~keep \/ now < last THEN "restoring" ELSE state
SlipRenew(keep) == IF ~keep \/ now >= deadline \/ now < last THEN "restoring" ELSE "active"

\* Line 41: what the time and the caller ask of the trial.
Asked(keep) == IF ~keep \/ now >= deadline \/ now < last THEN "restoring" ELSE state

\* poll, up to its first read.
Poll(keep) ==
  /\ call = "none" /\ Pending
  /\ \/ /\ Replaced \/ (Found /\ value[target.body] # applied)
        /\ Clear
     \/ /\ Found /\ value[target.body] = applied
        /\ state' = Asked(keep) /\ last' = now
        /\ call' = IF Asked(keep) = "active" THEN "none" ELSE "reverting"
        /\ UNCHANGED <<target, original, applied, deadline>>
     \/ /\ state' = "restoring" /\ last' = now /\ call' = "none"
        /\ UNCHANGED <<target, original, applied, deadline>>
  /\ UNCHANGED <<engineVars, clockVars, game, mixed>>

\* Slip: the result of the restoring write is believed.
SlipBelieveRestore ==
  /\ call = "verifying" /\ Clear
  /\ UNCHANGED <<engineVars, clockVars, game, mixed>>

\* The read after poll's write.
VerifyOriginal ==
  /\ call = "verifying"
  /\ \/ /\ Replaced \/ (Found /\ value[target.body] # applied)
        /\ Clear
     \/ /\ call' = "none"
        /\ UNCHANGED trialVars
  /\ UNCHANGED <<engineVars, clockVars, game, mixed>>

-----------------------------------------------------------------------------
(* The engine and the clock.                                                *)

GameSets(b, v) ==
  /\ value' = [value EXCEPT ![b] = v]
  /\ game' = [game EXCEPT ![b] = v]
  /\ mixed' = IF Pending /\ Aimed(b) /\ v = applied THEN mixed \union {b} ELSE mixed \ {b}
  /\ UNCHANGED <<trialVars, call, incarnation, clockVars>>

\* The body is released and its handle names a new one.
Replace(b, v) ==
  /\ incarnation[b] < MaxIncarnations
  /\ incarnation' = [incarnation EXCEPT ![b] = @ + 1]
  /\ value' = [value EXCEPT ![b] = v]
  /\ game' = [game EXCEPT ![b] = v]
  /\ mixed' = mixed \ {b}
  /\ UNCHANGED <<trialVars, call, clockVars>>

Tick ==
  /\ now < MaxTime
  /\ now' = now + 1
  /\ UNCHANGED <<trialVars, call, engineVars, rewinds, game, mixed>>

Rewind ==
  /\ rewinds < MaxRewinds /\ now > 0
  /\ rewinds' = rewinds + 1
  /\ now' = now - 1
  /\ UNCHANGED <<trialVars, call, engineVars, game, mixed>>

\* The accesses of a callback that has begun.
Continue == WriteApplied \/ ConfirmApplied \/ WriteOriginal \/ VerifyOriginal
Callback == Continue \/ \E keep \in BOOLEAN : Poll(keep)

Engine ==
  \/ \E b \in Bodies, v \in Values : GameSets(b, v) \/ Replace(b, v)
  \/ Tick \/ Rewind

Next ==
  \/ \E b \in Bodies, wanted \in Values, duration \in Durations : Apply(b, wanted, duration)
  \/ Callback
  \/ Engine

Spec == Init /\ [][Next]_vars

\* Simulation callbacks keep coming and time passes.  An access that can
\* succeed again and again sometimes does: a poll sees the value that is there,
\* the engine obeys a restoring write, and a read after it finds it obeyed.
\* Nothing is asked of the owner: a restoration that Poll(TRUE) can start is one
\* that Poll(FALSE) starts in the same way.
Fairness ==
  /\ WF_vars(Tick) /\ WF_vars(Continue)
  /\ SF_vars(Poll(TRUE) /\ call' = "reverting")
  /\ SF_vars(Callback /\ state' = "idle")
  /\ SF_vars(WriteOriginal /\ value' # value)

FairSpec == Spec /\ Fairness

-----------------------------------------------------------------------------
(* Properties.                                                              *)

\* The trial's fields have their types; the deadline fits the clock.
TypeOK ==
  /\ state \in {"idle", "active", "restoring"}
  /\ target \in Targets
  /\ original \in Values \union {NoValue} /\ applied \in Values \union {NoValue}
  /\ deadline \in 0..MaxTime /\ last \in 0..MaxTime
  /\ call \in Calls
  /\ value \in [Bodies -> Values] /\ game \in [Bodies -> Values]
  /\ incarnation \in [Bodies -> 0..MaxIncarnations]
  /\ now \in 0..MaxTime /\ rewinds \in 0..MaxRewinds
  /\ mixed \subseteq Bodies

\* A body that holds another value than the game last gave it is the target of
\* a pending trial, which knows the value to restore.  So a finished trial has
\* left nothing behind, no uncertain write is forgotten, no other body and no
\* replacement is touched, and a different value written by the game is never
\* overwritten (docs/physics-trial.md:50).  Only a game that writes the very
\* value the trial applied cannot be told from the trial (`mixed`).
ChangesAreOwed ==
  \A b \in Bodies \ mixed : value[b] # game[b] =>
    /\ Pending /\ Aimed(b)
    /\ value[b] = applied /\ game[b] = original

\* A callback that could not see the body, a write whose result is in doubt, a
\* lost keep, a passed deadline or a clock gone back commits the trial to
\* restoration: no later callback renews it (physics_trial.cpp:39).
RestorationIsLatched ==
  [][state = "restoring" /\ call \notin {"applying", "confirming"} => state' # "active"]_vars

\* A change that a trial may have made is owed until it is read back, and once it is
\* to be restored no call renews it.
RestorationIsOwed == RestorationIsLatched /\ [][ChangesAreOwed']_vars

\* A trial ends, in spite of unavailable bodies, disobeyed writes and game
\* writes, and even if the owner wants to keep it.
TrialsEnd == Pending ~> ~Pending
=============================================================================
