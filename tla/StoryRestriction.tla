--------------------------- MODULE StoryRestriction ---------------------------
(***************************************************************************)
(* diagnostics/action_restriction_observer.cpp with applied_story_state.h, *)
(* structural_lifecycle.cpp and player_status_lifecycle.cpp: may the       *)
(* engine skip the story restriction of an area for this action?           *)
(*                                                                         *)
(* The engine asks in the middle of a callback and must never wait.  The   *)
(* answer rests on what other threads change meanwhile: what the last      *)
(* write of the story flag was made for, the player's entity and status,   *)
(* the reasons in force, and the leases of the guests (ActionRules; here   *)
(* any answer).  Each is a counter or a lock that is only tried, read      *)
(* again after it was used.                                                *)
(*                                                                         *)
(* Every read of a counter and every step of a write of the flag is an     *)
(* action; the two increments that open a write are one, and so are the    *)
(* two that close it: between them every reader refuses as after them.     *)
(* The player's world is always made at the same address.                  *)
(* applied is history: the reasons the flag really stands for.             *)
(* An operator named Slip... is a plausible mistake in the definition that *)
(* follows it and is used nowhere; it shows that a property can fail.      *)
(***************************************************************************)
EXTENDS Naturals, FiniteSets

CONSTANTS
  Writers,             \* engine threads that write the flag
  MaxWrites, MaxWorlds, MaxEntity, MaxStatus   \* bounds of the counters

ASSUME StoryAssumption ==
  IsFiniteSet(Writers) /\ {MaxWrites, MaxWorlds, MaxEntity, MaxStatus} \subseteq Nat

VARIABLES
  tracking,                          \* tracking_enabled
  sequence, active, record,          \* AppliedStoryState
  writer,                            \* forward_writer in each thread
  structural, lifecycle,             \* the two counters of engine events, and who is inside
  entity, flag, facts, applied,      \* the engine: player, story flag, reasons
  query                              \* the engine's question in progress

story   == <<sequence, active, record, writer>>
engine  == <<structural, lifecycle, entity, flag, facts, applied>>
vars    == <<tracking, story, engine, query>>

\* What a write was made for: its sequence, its context, its reasons.
NoRecord == [at |-> 0, who |-> <<0, 0>>, reasons |-> "unknown", unwinds |-> 0, lifecycle |-> 0]
\* The context a writer captured, if it could; a writer between two writes.
Unseen == [who |-> <<0, 0>>, unwinds |-> 0, structural |-> 0, lifecycle |-> 0]
Idle == [at |-> "idle", token |-> 0, reasons |-> "unknown", seen |-> Unseen]
\* The engine between two questions.
NoCounters == [sequence |-> 0, teardowns |-> 0, unwinds |-> 0, lifecycle |-> 0]
NoQuery == [at |-> "idle", counters |-> NoCounters, who |-> <<0, 0>>, facts |-> "none", first |-> 0,
            record |-> NoRecord, stood |-> "unknown"]

Init ==
  /\ tracking = TRUE /\ sequence = 1 /\ active = 0 /\ record = NoRecord
  /\ writer = [w \in Writers |-> Idle]
  /\ structural = [available |-> TRUE, active |-> 0, sequence |-> 0, teardowns |-> 0, unwinds |-> 0]
  /\ lifecycle = [available |-> TRUE, active |-> 0, sequence |-> 0]
  /\ entity = 1 /\ flag = FALSE /\ facts = "none" /\ applied = "unknown"
  /\ query = NoQuery
-----------------------------------------------------------------------------
(* Who is asked for: current_world, copy_action_context, and the counters. *)

Quiet(counter) == counter.available /\ counter.active = 0
Who == <<entity, structural.teardowns>>

\* stop_tracking
StopTracking ==
  /\ tracking /\ tracking' = FALSE
  /\ sequence' = sequence + 1
  /\ structural' = [structural EXCEPT !.available = FALSE]
  /\ lifecycle' = [lifecycle EXCEPT !.available = FALSE]
  /\ UNCHANGED <<active, record, writer, entity, flag, facts, applied, query>>
-----------------------------------------------------------------------------
(* A write of the flag: writer_dispatch, forward_writer, finish_writer.    *)

Move(w, step) == writer' = [writer EXCEPT ![w] = step]

\* writer_dispatch: once nothing is tracked, a write only ends what was noted.
Call(w) ==
  /\ writer[w] = Idle /\ sequence < MaxWrites
  /\ IF tracking THEN sequence' = sequence /\ Move(w, [Idle EXCEPT !.at = "called"])
     ELSE sequence' = sequence + 1 /\ Move(w, [Idle EXCEPT !.at = "untracked"])
  /\ UNCHANGED <<tracking, active, record, engine, query>>

\* forward_writer looks again whether writes are tracked; this one is made for the
\* reasons the manager evaluated, or for others.
Forward(w) ==
  /\ writer[w].at = "called"
  /\ IF tracking
     THEN /\ sequence' = sequence + 1 /\ active' = active + 1
          /\ \E reasons \in {facts, "unknown"} :
               Move(w, [Idle EXCEPT !.at = "token", !.token = sequence + 1, !.reasons = reasons])
     ELSE UNCHANGED <<sequence, active>> /\ Move(w, [Idle EXCEPT !.at = "untracked"])
  /\ UNCHANGED <<tracking, record, engine, query>>

\* The context and the reasons before the write: a candidate, or none.
Capture(w) ==
  /\ writer[w].at = "token"
  /\ LET context == [who |-> Who, unwinds |-> structural.unwinds,
                     structural |-> structural.sequence, lifecycle |-> lifecycle.sequence] IN
     Move(w, IF /\ writer[w].reasons = facts /\ entity # 0
                /\ Quiet(structural) /\ Quiet(lifecycle)
             THEN [writer[w] EXCEPT !.at = "ready", !.seen = context]
             ELSE [Idle EXCEPT !.at = "ready", !.reasons = writer[w].reasons])
  /\ UNCHANGED <<tracking, sequence, active, record, engine, query>>

Sound(step) == step.seen # Unseen
Fruitless == [Idle EXCEPT !.at = "verified"]

\* original_writer; it may unwind before or after its effect.
Write(w) ==
  /\ writer[w].at \in {"ready", "untracked"}
  /\ \E effect, returned \in BOOLEAN :
       /\ returned => effect
       /\ IF effect /\ entity # 0
          THEN /\ flag' \in IF writer[w].reasons = "unknown" THEN BOOLEAN ELSE {writer[w].reasons # "none"}
               /\ applied' = writer[w].reasons
          ELSE UNCHANGED <<flag, applied>>
       /\ Move(w, IF writer[w].at = "untracked" THEN Idle
                  ELSE IF Sound(writer[w]) /\ returned THEN [writer[w] EXCEPT !.at = "written"]
                  ELSE Fruitless)
  /\ UNCHANGED <<tracking, sequence, active, record, structural, lifecycle, entity, facts, query>>

Undisturbed(seen) ==
  /\ Quiet(structural) /\ structural.sequence = seen.structural
  /\ Quiet(lifecycle) /\ lifecycle.sequence = seen.lifecycle
Verify(w) ==
  /\ writer[w].at = "written"
  /\ Move(w, IF Who = writer[w].seen.who /\ Undisturbed(writer[w].seen) /\ flag = (writer[w].reasons # "none")
             THEN [writer[w] EXCEPT !.at = "verified"] ELSE Fruitless)
  /\ UNCHANGED <<tracking, sequence, active, record, engine, query>>

\* end_write, before it looks whether another write is in progress.
SlipOverlapped(step) == TRUE
Unbroken(step) == sequence = step.token
End(w) ==
  /\ writer[w].at = "verified" /\ sequence' = sequence + 1 /\ active' = active - 1
  /\ Move(w, IF Sound(writer[w]) /\ Unbroken(writer[w]) THEN [writer[w] EXCEPT !.at = "ended", !.token = sequence + 1] ELSE Idle)
  /\ UNCHANGED <<tracking, record, engine, query>>
\* The lock is only tried: a reader in its way leaves the old record.
Store(w) ==
  /\ writer[w].at = "ended" /\ Move(w, Idle)
  /\ \/ /\ active = 0
        /\ record' = [at |-> writer[w].token, who |-> writer[w].seen.who,
                      reasons |-> writer[w].reasons, unwinds |-> writer[w].seen.unwinds,
                      lifecycle |-> writer[w].seen.lifecycle]
     \/ (active # 0 \/ query.at = "first") /\ UNCHANGED record
  /\ UNCHANGED <<tracking, sequence, active, engine, query>>
-----------------------------------------------------------------------------
(* The engine's events, inside the hooks that count them.                  *)

\* enter and leave of both counters: an event is counted while they are available, and
\* then also when it ends; several may be in progress, one within another.
CountedIn(counter) ==
  IF counter.available THEN [counter EXCEPT !.active = @ + 1, !.sequence = @ + 1] ELSE counter
CountedOut(counter) == [counter EXCEPT !.active = @ - 1, !.sequence = @ + 1]

\* A flush of commands replaces the player; the end of the world removes it.
EnterStructural(teardown) ==
  /\ structural.sequence < 2 * MaxWorlds
  /\ structural' = [CountedIn(structural) EXCEPT
       !.teardowns = IF teardown /\ structural.available THEN @ + 1 ELSE @]
  /\ IF teardown THEN entity' = 0 ELSE entity' = entity + 1 /\ entity # 0 /\ entity < MaxEntity
  /\ flag' = FALSE /\ applied' = "unknown"
  /\ UNCHANGED <<tracking, story, lifecycle, facts, query>>
LeaveStructural ==
  /\ structural.active # 0
  /\ \E unwinds \in {structural.unwinds, structural.unwinds + 1} :
       structural' = [CountedOut(structural) EXCEPT !.unwinds = unwinds]
  /\ UNCHANGED <<tracking, story, lifecycle, entity, flag, facts, applied, query>>

\* A status component is initialised or copied: a new player in a new world, or
\* the same one again.
EnterStatus ==
  /\ lifecycle.sequence < 2 * MaxStatus /\ lifecycle' = CountedIn(lifecycle)
  /\ entity' = IF entity = 0 THEN 1 ELSE entity
  /\ flag' \in BOOLEAN /\ applied' = "unknown"
  /\ UNCHANGED <<tracking, story, structural, facts, query>>
LeaveStatus ==
  /\ lifecycle.active # 0 /\ lifecycle' = CountedOut(lifecycle)
  /\ UNCHANGED <<tracking, story, structural, entity, flag, facts, applied, query>>

FactsChange ==
  /\ \E reasons \in {"none", "area", "mixed"} \ {facts} : facts' = reasons
  /\ UNCHANGED <<tracking, story, structural, lifecycle, entity, flag, applied, query>>

-----------------------------------------------------------------------------
(* The question: native_exception and warning_dispatch.                    *)

Answer(step) == query' = step
\* The next step of the question if nothing speaks against it; no exception else.
Goes(condition, step) == Answer(IF condition THEN step ELSE NoQuery)
AsksOnly == UNCHANGED <<tracking, story, engine>>

\* A request is pending: the counters are read.
Ask ==
  /\ query = NoQuery /\ tracking
  /\ Quiet(structural) /\ Quiet(lifecycle)
  /\ LET read == [sequence |-> structural.sequence, teardowns |-> structural.teardowns,
                  unwinds |-> structural.unwinds, lifecycle |-> lifecycle.sequence] IN
     Answer([NoQuery EXCEPT !.at = "counters", !.counters = read])
  /\ AsksOnly

\* The player, the reasons in force, and the sequence of the last write.
First ==
  /\ query.at = "counters"
  /\ Goes(flag /\ entity # 0 /\ active = 0,
          [query EXCEPT !.at = "first", !.who = Who, !.facts = facts, !.first = sequence])
  /\ AsksOnly

\* AppliedStoryState::read
Read ==
  /\ query.at = "first"
  /\ Goes(/\ sequence = query.first /\ active = 0 /\ record.at = query.first
          /\ record.who = <<query.who[1], query.counters.teardowns>>
          /\ record.unwinds = query.counters.unwinds /\ record.lifecycle = query.counters.lifecycle
          /\ record.reasons = query.facts,
          [query EXCEPT !.at = "read", !.record = record])
  /\ AsksOnly

\* The end of qualified_context.
Current(r) == active = 0 /\ r.at = sequence
Qualify ==
  /\ query.at = "read"
  /\ Goes(/\ Who = query.who /\ flag /\ Undisturbed([structural |-> query.counters.sequence,
                                                     lifecycle |-> query.counters.lifecycle])
          /\ query.record.reasons = "area" /\ Current(query.record),
          [NoQuery EXCEPT !.at = "qualified", !.who = query.who, !.record = query.record])
  /\ AsksOnly

Policy ==
  /\ query.at = "qualified"
  /\ \E allowed \in BOOLEAN : Goes(allowed, [query EXCEPT !.at = "allowed"])
  /\ AsksOnly

\* stable_after_policy, but for its last read; stood is history.
Stable ==
  /\ query.at = "allowed"
  /\ Goes(/\ Quiet(structural) /\ Quiet(lifecycle) /\ structural.teardowns = query.who[2]
          /\ structural.unwinds = query.record.unwinds /\ lifecycle.sequence = query.record.lifecycle
          /\ entity = query.who[1] /\ flag /\ tracking,
          [query EXCEPT !.at = "stable", !.stood = applied])
  /\ AsksOnly

\* The last read of stable_after_policy decides.
Skips == query.at = "stable" /\ Current(query.record)
Decide ==
  /\ query.at = "stable" /\ Answer(NoQuery)
  /\ AsksOnly

Next ==
  \/ StopTracking
  \/ \E w \in Writers : Call(w) \/ Forward(w) \/ Capture(w) \/ Write(w) \/ Verify(w) \/ End(w) \/ Store(w)
  \/ \E teardown \in BOOLEAN : EnterStructural(teardown)
  \/ LeaveStructural \/ EnterStatus \/ LeaveStatus \/ FactsChange
  \/ Ask \/ First \/ Read \/ Qualify \/ Policy \/ Stable \/ Decide

Spec == Init /\ [][Next]_vars
-----------------------------------------------------------------------------
\* A restriction is only skipped when what is in force was applied for areas alone,
\* to this player in this world (docs/action-rules.md:29): no write that overlapped
\* another, that unwound or that an unknown caller made, no status that was replaced
\* and no world made anew at the old address passes for the one that was observed.
SkipsOnlyAreas == Skips => query.stood = "area"
=============================================================================
