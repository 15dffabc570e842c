----------------------------- MODULE ActionRules -----------------------------
(***************************************************************************)
(* runtime/action_rules.cpp: the guests' leases to ignore the restriction  *)
(* of an area for one player.  Guests set and release them under the lock; *)
(* the engine asks in the middle of a callback, first a hint without the   *)
(* lock (pending) and then with a lock it only tries (allowed).            *)
(*                                                                         *)
(* host is the guest call that has read the gate, the player and the clock *)
(* and waits for the lock.  What an answer may change in the game is       *)
(* StoryRestriction's.                                                     *)
(* An operator named Slip... is a plausible mistake in the definition that *)
(* follows it and is used nowhere; it shows that a property can fail.      *)
(***************************************************************************)
EXTENDS Naturals, FiniteSets, FiniteSetsExt

CONSTANTS
  Owners, NoOwner,
  Players,             \* identities: world, entity and lifetime
  Slots,               \* leases_ (32)
  Lifetime,            \* 500 ms of a lease
  MaxTime              \* bound

\* Some slots, in their order.
RulesAssumption == IsFiniteSet(Slots) /\ Slots # {} /\ Slots \subseteq Nat /\ Lifetime \in Nat
ASSUME RulesAssumed == RulesAssumption

VARIABLES time, player, leases, latest, available, host

rulesVars == <<time, player, leases, latest, available, host>>

NoLease == [owner |-> NoOwner, deadline |-> 0]
NoCall == [at |-> "idle"]

RulesInit ==
  /\ time = 0 /\ player \in Players
  /\ leases = [s \in Slots |-> NoLease] /\ latest = 0 /\ available = TRUE /\ host = NoCall

\* The first half of action_rule_set: gate, player and clock.
Begin(owner) ==
  /\ host = NoCall /\ available
  /\ host' = [at |-> "set", owner |-> owner, who |-> player, now |-> time]
  /\ UNCHANGED <<time, player, leases, latest, available>>

Own(owner) == {s \in Slots : leases[s].owner = owner}
Free(now) == {s \in Slots : leases[s].owner = NoOwner \/ now >= leases[s].deadline}
LatestOf(table) == Max({table[s].deadline : s \in Slots})
SlipGate == TRUE
StillOpen == available

\* The second half, under the lock: the first lease of the owner, or the first free.
SetRule ==
  /\ host.at = "set" /\ host' = NoCall
  /\ LET slots == IF Own(host.owner) # {} THEN Own(host.owner) ELSE Free(host.now)
         table == [leases EXCEPT ![Min(slots)] = [owner |-> host.owner, deadline |-> host.now + Lifetime,
                                                 who |-> host.who]] IN
     IF slots = {} \/ ~StillOpen THEN UNCHANGED <<leases, latest>>
     ELSE leases' = table /\ latest' = LatestOf(table)
  /\ UNCHANGED <<time, player, available>>

\* A request for no action, and the end of a guest.
Release(owner) ==
  /\ host = NoCall
  /\ leases' = [s \in Slots |-> IF leases[s].owner = owner THEN NoLease ELSE leases[s]]
  /\ latest' = LatestOf(leases')
  /\ UNCHANGED <<time, player, available, host>>

\* available(false); the gate closes before the lock is taken.
Close ==
  /\ available /\ available' = FALSE
  /\ leases' = [s \in Slots |-> NoLease] /\ latest' = 0
  /\ UNCHANGED <<time, player, host>>

\* The engine.
Replace ==
  /\ player' \in Players \ {player}
  /\ UNCHANGED <<time, leases, latest, available, host>>
Tick ==
  /\ time < MaxTime /\ time' = time + 1
  /\ UNCHANGED <<player, leases, latest, available, host>>

RulesNext ==
  \/ \E o \in Owners : Begin(o) \/ Release(o)
  \/ SetRule \/ Close \/ Replace \/ Tick

RulesSpec == RulesInit /\ [][RulesNext]_rulesVars
-----------------------------------------------------------------------------
RulePending(now) == now < latest
Allowed(who, now) == \E s \in Slots : leases[s].owner # NoOwner /\ now < leases[s].deadline /\ leases[s].who = who

\* The engine does not ask where the hint says there is nothing to ask, whatever guest
\* renewed, released or outlived its lease last; and a call that raced the closing of
\* the service leaves no lease behind it.
HintIsRight ==
  /\ Allowed(player, time) => RulePending(time)
  /\ ~available => \A s \in Slots : leases[s] = NoLease
=============================================================================
