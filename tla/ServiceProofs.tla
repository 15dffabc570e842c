----------------------------- MODULE ServiceProofs -----------------------------
(***************************************************************************)
(* Proofs about services that answer while others go on writing, for any   *)
(* number of guests, writers, writes, worlds, players, changes of status,  *)
(* documents, requests, revisions, movies and generations.                 *)
(*                                                                         *)
(* StoryRestriction: a restriction is only skipped when what is in force   *)
(* was applied for areas alone (SkipsOnlyAreas).  The code never holds a   *)
(* lock that would keep the record, the player and the flag together.  It  *)
(* holds because each can only move on: the sequence of writes, the        *)
(* lifecycle counter, and the pair of world and entity, in the order of    *)
(* worlds first (Past).  So whoever finds a noted context unchanged knows  *)
(* that nothing happened in between (Stands); and active, which counts the *)
(* writes in progress (CountOK), tells whether a write that has not been   *)
(* noted yet may be under way.                                             *)
(*                                                                         *)
(* ActionRules: the leases are the last thing the question rests on, and   *)
(* the hint read without the lock hides none (HintIsRight).                *)
(*                                                                         *)
(* ModPanel: what the player does in the panel takes effect at most once,  *)
(* and only on what he saw (ActsOnWhatWasSeen).  A change that is late     *)
(* carries the revision of what was seen; revisions only grow, so as long  *)
(* as it is the present one, so is what was seen with it (ValueStands,     *)
(* PageStands).  A change has a number of its own, is in the queue or in   *)
(* one request (IdsOK), and a request is served once (EffectsOK).          *)
(*                                                                         *)
(* MediaSkip: a skip ends the movie its guest saw, and promptly            *)
(* (SkipsItsMovie).  A movie nobody saw begin is younger than the last     *)
(* sample, or the sample is too old to be continued (SampleOK), so what    *)
(* can be skipped and goes on is what was sampled (SameMovie), and what a  *)
(* guest read of the same generation (SeenOK, WantedOK).  While it is      *)
(* asked for, a request is no older than the clock of the site that acts,  *)
(* or that site has yet to ask (PromptOK).                                 *)
(***************************************************************************)
EXTENDS StoryRestriction, ActionRules, ModPanel, MediaSkip, FiniteSetTheorems, TLAPS

Story    == {"none", "area", "mixed"}
Reasons  == Story \union {"unknown"}
Context  == [who : Nat \X Nat, unwinds : Nat, structural : Nat, lifecycle : Nat]
Step     == [at : {"idle", "called", "untracked", "token", "ready", "written", "verified", "ended"},
             token : Nat, reasons : Reasons, seen : Context]
Record   == [at : Nat, who : Nat \X Nat, reasons : Reasons, unwinds : Nat, lifecycle : Nat]
Counters == [sequence : Nat, teardowns : Nat, unwinds : Nat, lifecycle : Nat]
Question == [at : {"idle", "counters", "first", "read", "qualified", "allowed", "stable"},
             counters : Counters, who : Nat \X Nat, facts : Story, first : Nat,
             record : Record, stood : Reasons]

\* The counters are numbers and every read has its shape.
TypeOK ==
  /\ tracking \in BOOLEAN /\ sequence \in Nat \ {0} /\ active \in Nat /\ record \in Record
  /\ writer \in [Writers -> Step]
  /\ structural \in [available : BOOLEAN, active : Nat, sequence : Nat, teardowns : Nat, unwinds : Nat]
  /\ lifecycle \in [available : BOOLEAN, active : Nat, sequence : Nat]
  /\ entity \in Nat /\ flag \in BOOLEAN /\ facts \in Story /\ applied \in Reasons
  /\ query \in Question

\* Those between the two increments of a write; active counts them.
Inside(w) == writer[w].at \in {"token", "ready", "written", "verified"}
CountOK == active = Cardinality({w \in Writers : Inside(w)})

\* While the hooks are tracked, all of them are.
TrackingOK == tracking =>
  /\ structural.available /\ lifecycle.available
  /\ \A w \in Writers : writer[w].at # "untracked"

\* The player and the world a context names are not yet to come: they only move on, to
\* another entity in the same world, or to another world.
Past(who) == who[2] < structural.teardowns \/ (who[2] = structural.teardowns /\ who[1] <= entity)
Known(r) == Past(r.who) /\ r.lifecycle <= lifecycle.sequence
BehindOK ==
  /\ \A w \in Writers : writer[w].token <= sequence
  /\ record.at <= sequence /\ query.record.at <= sequence
  /\ tracking => /\ Known(record) /\ Known(query.record)
                 /\ \A w \in Writers : Known(writer[w].seen)

\* While nothing was written since, and player, world and status are what they were, the
\* flag stands for the reasons that were noted.
Stands(at, r, reasons) ==
  tracking /\ at = sequence /\ r.who = Who /\ r.lifecycle = lifecycle.sequence => applied = reasons
RecordsOK ==
  /\ active = 0 => Stands(record.at, record, record.reasons)
  /\ active = 0 => Stands(query.record.at, query.record, query.record.reasons)
\* A write alone in progress and the one that just ended are as good as a record.
WritersOK == \A w \in Writers :
  /\ writer[w].at \in {"written", "ended"} => Sound(writer[w])
  /\ Sound(writer[w]) => writer[w].seen.who[1] # 0
  /\ writer[w].at \in {"written", "verified"} /\ Sound(writer[w]) /\ active = 1 =>
       Stands(writer[w].token, writer[w].seen, writer[w].reasons)
  /\ writer[w].at = "ended" /\ active = 0 =>
       Stands(writer[w].token, writer[w].seen, writer[w].reasons)

\* What the question has read so far belongs together.
QueryOK ==
  /\ query.counters.sequence <= structural.sequence
  /\ query.at \in {"counters", "first", "read"} /\ query.counters.sequence = structural.sequence =>
       query.counters.teardowns = structural.teardowns
  /\ query.at = "read" => query.record.who = <<query.who[1], query.counters.teardowns>>
  /\ query.at \in {"qualified", "allowed", "stable"} =>
       query.record.who = query.who /\ query.record.reasons = "area"
  /\ query.at = "stable" /\ query.record.at = sequence /\ active = 0 => query.stood = "area"

StoryIInv == TypeOK /\ CountOK /\ TrackingOK /\ BehindOK /\ RecordsOK /\ WritersOK /\ QueryOK

-----------------------------------------------------------------------------
(* Shapes.                                                                 *)

LEMMA Shapes ==
  /\ Unseen \in Context /\ Idle \in Step /\ Fruitless \in Step /\ NoRecord \in Record
  /\ NoCounters \in Counters /\ NoQuery \in Question
  /\ Idle.at = "idle" /\ Idle.token = 0 /\ Idle.seen = Unseen
  /\ Fruitless.at = "verified" /\ Fruitless.token = 0 /\ Fruitless.seen = Unseen
<1>1. Unseen \in Context /\ NoRecord \in Record /\ NoCounters \in Counters
  BY DEF Unseen, NoRecord, NoCounters, Context, Record, Counters, Reasons, Story
<1>2. /\ Idle \in Step /\ Idle.at = "idle" /\ Idle.token = 0 /\ Idle.seen = Unseen
      /\ Idle.reasons = "unknown"
  BY <1>1 DEF Idle, Step, Reasons, Story
<1>3. /\ Fruitless \in Step /\ Fruitless.at = "verified" /\ Fruitless.token = 0
      /\ Fruitless.seen = Unseen
  BY <1>2 DEF Fruitless, Step
<1>4. NoQuery \in Question
  BY <1>1 DEF NoQuery, Question, Reasons, Story
<1> QED
  BY <1>1, <1>2, <1>3, <1>4

LEMMA WhoType ==
  ASSUME TypeOK
  PROVE  Who \in Nat \X Nat /\ Who[1] = entity /\ Who[2] = structural.teardowns
  BY DEF TypeOK, Who

LEMMA MoveIs ==
  ASSUME TypeOK, NEW w \in Writers, NEW step \in Step, Move(w, step)
  PROVE  /\ writer' \in [Writers -> Step] /\ writer'[w] = step
         /\ \A v \in Writers : v # w => writer'[v] = writer[v]
  BY DEF TypeOK, Move

-----------------------------------------------------------------------------
(* The count of the writes in progress.                                    *)

InsideSet == {w \in Writers : Inside(w)}

LEMMA InsideFinite ==
  /\ IsFiniteSet(InsideSet) /\ IsFiniteSet(InsideSet')
  /\ Cardinality(InsideSet) \in Nat /\ Cardinality(InsideSet') \in Nat
<1>1. IsFiniteSet(InsideSet) /\ IsFiniteSet(InsideSet')
  BY StoryAssumption, FS_Subset DEF InsideSet
<1> QED
  BY <1>1, FS_CardinalityType

\* Nobody is inside if none is counted, and nobody else if one is.
LEMMA Alone ==
  ASSUME CountOK, NEW w \in Writers, Inside(w)
  PROVE  /\ active # 0
         /\ active = 1 => \A v \in Writers : Inside(v) => v = w
<1>1. active = Cardinality(InsideSet) /\ w \in InsideSet
  BY DEF CountOK, InsideSet
<1>2. active # 0
  BY <1>1, InsideFinite, FS_EmptySet
<1>3. ASSUME active = 1, NEW v \in Writers, Inside(v) PROVE v = w
  <2>1. PICK x : InsideSet = {x}
    BY <1>1, <1>3, InsideFinite, FS_Singleton
  <2> QED
    BY <1>1, <1>3, <2>1 DEF InsideSet
<1> QED
  BY <1>2, <1>3

LEMMA CountSame ==
  ASSUME CountOK, active' = active, \A w \in Writers : Inside(w)' <=> Inside(w)
  PROVE  CountOK'
  BY DEF CountOK

LEMMA CountEnter ==
  ASSUME CountOK, NEW w \in Writers, ~Inside(w), Inside(w)', active' = active + 1,
         \A v \in Writers : v # w => (Inside(v)' <=> Inside(v))
  PROVE  CountOK'
<1>1. InsideSet' = InsideSet \union {w} /\ w \notin InsideSet
  BY DEF InsideSet
<1>2. Cardinality(InsideSet') = Cardinality(InsideSet) + 1
  BY <1>1, InsideFinite, FS_AddElement
<1> QED
  BY <1>2 DEF CountOK, InsideSet

LEMMA CountLeave ==
  ASSUME CountOK, NEW w \in Writers, Inside(w), ~Inside(w)', active' = active - 1,
         \A v \in Writers : v # w => (Inside(v)' <=> Inside(v))
  PROVE  CountOK'
<1>1. InsideSet' = InsideSet \ {w} /\ w \in InsideSet
  BY DEF InsideSet
<1>2. Cardinality(InsideSet') = Cardinality(InsideSet) - 1
  BY <1>1, InsideFinite, FS_RemoveElement
<1> QED
  BY <1>2 DEF CountOK, InsideSet

-----------------------------------------------------------------------------
(* The engine's events only move on.                                       *)

EngineEvent ==
  \/ \E teardown \in BOOLEAN : EnterStructural(teardown)
  \/ LeaveStructural \/ EnterStatus \/ LeaveStatus \/ FactsChange

EngineTypes ==
  /\ structural \in [available : BOOLEAN, active : Nat, sequence : Nat, teardowns : Nat, unwinds : Nat]
  /\ lifecycle \in [available : BOOLEAN, active : Nat, sequence : Nat]
  /\ entity \in Nat /\ flag \in BOOLEAN /\ facts \in Story /\ applied \in Reasons

\* What the applied reasons were noted for is still so, or will never be so again.
MovesOn ==
  \/ applied' = applied /\ Who' = Who /\ lifecycle'.sequence = lifecycle.sequence
  \/ \A who \in Nat \X Nat : Past(who) => who # Who'
  \/ lifecycle'.sequence > lifecycle.sequence

EngineResult ==
  /\ EngineTypes'
  /\ tracking => structural'.available /\ lifecycle'.available
  /\ tracking => \A who \in Nat \X Nat : Past(who) => Past(who)'
  /\ lifecycle'.sequence >= lifecycle.sequence /\ structural'.sequence >= structural.sequence
  /\ structural'.sequence = structural.sequence => structural'.teardowns = structural.teardowns
  /\ tracking => MovesOn

LEMMA EnterStructuralMoves ==
  ASSUME EngineTypes, tracking => structural.available /\ lifecycle.available,
         NEW teardown \in BOOLEAN, EnterStructural(teardown)
  PROVE  EngineResult
<1>1. /\ UNCHANGED <<lifecycle, facts>>
      /\ entity' = (IF teardown THEN 0 ELSE entity + 1) /\ entity' \in Nat
  BY DEF EnterStructural, EngineTypes
<1>a. flag' \in BOOLEAN /\ applied' \in Reasons
  BY DEF EnterStructural, Reasons
<1>2. CASE structural.available
  <2> DEFINE sequence1 == structural.sequence + 1
             active1 == structural.active + 1
             teardowns1 == IF teardown THEN structural.teardowns + 1 ELSE structural.teardowns
  <2>1. structural' = [structural EXCEPT !.active = active1, !.sequence = sequence1, !.teardowns = teardowns1]
    <3>1. structural' = [[structural EXCEPT !.active = active1, !.sequence = sequence1] EXCEPT !.teardowns = teardowns1]
      BY <1>2 DEF EnterStructural, CountedIn, EngineTypes
    <3> QED BY <3>1 DEF EngineTypes
  <2>2. sequence1 \in Nat /\ active1 \in Nat /\ teardowns1 \in Nat /\ sequence1 > structural.sequence
    BY DEF EngineTypes
  <2> HIDE DEF sequence1, active1
  <2>3. /\ structural' \in [available : BOOLEAN, active : Nat, sequence : Nat,
                            teardowns : Nat, unwinds : Nat]
        /\ structural'.available = structural.available
        /\ structural'.sequence = sequence1 /\ structural'.teardowns = teardowns1
    <3> HIDE DEF teardowns1
    <3> QED
      BY <2>1, <2>2 DEF EngineTypes
  <2>4. \A who \in Nat \X Nat : Past(who) => Past(who)' /\ who # Who'
    <3> SUFFICES ASSUME NEW p \in Nat, NEW t \in Nat, Past(<<p, t>>)
                 PROVE  Past(<<p, t>>)' /\ <<p, t>> # Who'
      OBVIOUS
    <3>1. t < structural.teardowns \/ (t = structural.teardowns /\ p <= entity)
      BY DEF Past
    <3>2. structural.teardowns \in Nat /\ entity \in Nat
      BY DEF EngineTypes
    <3>3. t < structural'.teardowns \/ (t = structural'.teardowns /\ p < entity')
      BY <1>1, <2>3, <3>1, <3>2
    <3> QED
      BY <1>1, <2>2, <2>3, <3>3 DEF Past, Who
  <2>5. EngineTypes'
    BY <1>1, <1>a, <2>3 DEF EngineTypes
  <2>6. MovesOn
    BY <2>4 DEF MovesOn
  <2>7. lifecycle'.sequence >= lifecycle.sequence /\ structural'.sequence > structural.sequence
    BY <1>1, <2>2, <2>3 DEF EngineTypes
  <2>8. structural'.sequence # structural.sequence /\ structural'.sequence >= structural.sequence
    BY <2>2, <2>3 DEF EngineTypes
  <2> QED
    BY <1>1, <2>3, <2>4, <2>5, <2>6, <2>7, <2>8 DEF EngineResult
<1>3. CASE ~structural.available
  <2>1. structural' = structural
    BY <1>3 DEF EnterStructural, CountedIn, EngineTypes
  <2>2. /\ structural' \in [available : BOOLEAN, active : Nat, sequence : Nat,
                            teardowns : Nat, unwinds : Nat]
        /\ structural'.sequence = structural.sequence /\ structural'.teardowns = structural.teardowns
    BY <2>1 DEF EngineTypes
  <2>3. EngineTypes'
    BY <1>1, <1>a, <2>2 DEF EngineTypes
  <2>4. lifecycle'.sequence >= lifecycle.sequence /\ structural'.sequence >= structural.sequence
    BY <1>1, <2>2 DEF EngineTypes
  <2> QED
    BY <1>3, <2>2, <2>3, <2>4 DEF EngineResult
<1> QED
  BY <1>2, <1>3

LEMMA LeaveStructuralMoves ==
  ASSUME EngineTypes, tracking => structural.available /\ lifecycle.available, LeaveStructural
  PROVE  EngineResult
<1>1. UNCHANGED <<lifecycle, entity, flag, facts, applied>>
  BY DEF LeaveStructural
<1>2. ASSUME NEW active1 \in Nat, NEW sequence1 \in Nat, NEW unwinds1 \in Nat,
             sequence1 >= structural.sequence,
             structural' = [structural EXCEPT !.active = active1, !.sequence = sequence1,
                                              !.unwinds = unwinds1]
      PROVE  /\ structural' \in [available : BOOLEAN, active : Nat, sequence : Nat,
                                 teardowns : Nat, unwinds : Nat]
             /\ structural'.available = structural.available
             /\ structural'.sequence >= structural.sequence
             /\ structural'.teardowns = structural.teardowns
             /\ structural'.sequence = sequence1
  BY <1>2 DEF EngineTypes
<1>3. structural.sequence + 1 \in Nat /\ structural.unwinds + 1 \in Nat /\ structural.unwinds \in Nat
      /\ structural.sequence + 1 >= structural.sequence /\ structural.active - 1 \in Nat
  BY DEF EngineTypes, LeaveStructural
<1>4. /\ structural' \in [available : BOOLEAN, active : Nat, sequence : Nat,
                          teardowns : Nat, unwinds : Nat]
      /\ structural'.available = structural.available
      /\ structural'.sequence >= structural.sequence /\ structural'.teardowns = structural.teardowns
  <2>1. PICK unwinds1 \in {structural.unwinds, structural.unwinds + 1} :
          structural' = [CountedOut(structural) EXCEPT !.unwinds = unwinds1]
    BY DEF LeaveStructural
  <2>2. structural' = [structural EXCEPT !.active = structural.active - 1,
                                         !.sequence = structural.sequence + 1, !.unwinds = unwinds1]
    BY <2>1 DEF CountedOut, EngineTypes
  <2> QED
    BY <1>2, <1>3, <2>2
<1>5. Who' = Who /\ \A who : Past(who)' <=> Past(who)
  BY <1>1, <1>4 DEF Who, Past
<1> QED
  BY <1>1, <1>4, <1>5 DEF EngineResult, EngineTypes, MovesOn

\* The lifecycle counter moves only while it is available.
LEMMA StatusMoves ==
  ASSUME EngineTypes, tracking => structural.available /\ lifecycle.available,
         EnterStatus \/ LeaveStatus
  PROVE  EngineResult
<1>1. UNCHANGED <<structural, facts>> /\ flag' \in BOOLEAN /\ applied' \in Reasons /\ entity' \in Nat
      /\ (entity' = entity \/ entity = 0)
  BY DEF EnterStatus, LeaveStatus, EngineTypes, Reasons, Story
<1> DEFINE sequence1 == lifecycle.sequence + 1
<1>2. \/ lifecycle' = lifecycle /\ ~lifecycle.available
      \/ lifecycle' = [lifecycle EXCEPT !.active = lifecycle.active + 1, !.sequence = sequence1]
      \/ /\ lifecycle.active # 0
         /\ lifecycle' = [lifecycle EXCEPT !.active = lifecycle.active - 1, !.sequence = sequence1]
  BY DEF EnterStatus, LeaveStatus, CountedIn, CountedOut, EngineTypes
<1>3. sequence1 \in Nat /\ sequence1 > lifecycle.sequence /\ lifecycle.sequence \in Nat
      /\ lifecycle.active + 1 \in Nat /\ (lifecycle.active # 0 => lifecycle.active - 1 \in Nat)
  BY DEF EngineTypes
<1> HIDE DEF sequence1
<1>4. /\ lifecycle' \in [available : BOOLEAN, active : Nat, sequence : Nat]
      /\ lifecycle'.available = lifecycle.available
      /\ lifecycle'.sequence >= lifecycle.sequence
      /\ lifecycle.available => lifecycle'.sequence > lifecycle.sequence
  <2>1. CASE lifecycle' = lifecycle /\ ~lifecycle.available
    BY <1>3, <2>1 DEF EngineTypes
  <2>2. ASSUME NEW active1 \in Nat,
               lifecycle' = [lifecycle EXCEPT !.active = active1, !.sequence = sequence1]
        PROVE  /\ lifecycle' \in [available : BOOLEAN, active : Nat, sequence : Nat]
               /\ lifecycle'.available = lifecycle.available
               /\ lifecycle'.sequence >= lifecycle.sequence
               /\ lifecycle'.sequence > lifecycle.sequence
    <3>1. /\ lifecycle' \in [available : BOOLEAN, active : Nat, sequence : Nat]
          /\ lifecycle'.available = lifecycle.available /\ lifecycle'.sequence = sequence1
      BY <1>3, <2>2 DEF EngineTypes
    <3> QED
      BY <1>3, <3>1
  <2>3. CASE lifecycle' = [lifecycle EXCEPT !.active = lifecycle.active + 1, !.sequence = sequence1]
    BY <1>3, <2>2, <2>3
  <2>4. CASE /\ lifecycle.active # 0
             /\ lifecycle' = [lifecycle EXCEPT !.active = lifecycle.active - 1, !.sequence = sequence1]
    BY <1>3, <2>2, <2>4
  <2> QED
    BY <1>2, <2>1, <2>3, <2>4
<1>5. \A who \in Nat \X Nat : Past(who) => Past(who)'
  <2> SUFFICES ASSUME NEW p \in Nat, NEW t \in Nat, Past(<<p, t>>)
               PROVE  Past(<<p, t>>)'
    OBVIOUS
  <2> QED
    BY <1>1 DEF Past, EngineTypes
<1> QED
  BY <1>1, <1>3, <1>4, <1>5 DEF EngineResult, EngineTypes, MovesOn

LEMMA FactsMove ==
  ASSUME EngineTypes, tracking => structural.available /\ lifecycle.available, FactsChange
  PROVE  EngineResult
<1>1. UNCHANGED <<structural, lifecycle, entity, flag, applied>> /\ facts' \in Story
  BY DEF FactsChange, Story
<1>2. Who' = Who /\ \A who : Past(who)' <=> Past(who)
  BY <1>1 DEF Who, Past
<1> QED
  BY <1>1, <1>2 DEF EngineResult, EngineTypes, MovesOn

\* What was noted of the past still stands after any of the engine's events.
LEMMA StandingMoves ==
  ASSUME EngineTypes, EngineResult, UNCHANGED <<tracking, sequence>>,
         NEW at \in Nat, NEW who \in Nat \X Nat, NEW lc \in Nat, NEW reasons,
         tracking => Past(who) /\ lc <= lifecycle.sequence,
         tracking /\ at = sequence /\ who = Who /\ lc = lifecycle.sequence => applied = reasons
  PROVE  tracking' /\ at = sequence' /\ who = Who' /\ lc = lifecycle'.sequence => applied' = reasons
<1> SUFFICES ASSUME tracking, at = sequence, who = Who', lc = lifecycle'.sequence
             PROVE  applied' = reasons
  OBVIOUS
<1>1. lifecycle.sequence \in Nat
  BY DEF EngineTypes
<1>2. ~(lifecycle'.sequence > lifecycle.sequence)
  BY <1>1
<1>3. applied' = applied /\ Who' = Who /\ lifecycle'.sequence = lifecycle.sequence
  BY <1>2 DEF EngineResult, MovesOn
<1> QED
  BY <1>3

LEMMA EngineKeeps ==
  ASSUME StoryIInv, EngineEvent
  PROVE  StoryIInv'
<1>1. TypeOK /\ EngineTypes
  BY DEF StoryIInv, TypeOK, EngineTypes
<1>2. tracking => structural.available /\ lifecycle.available
  BY DEF StoryIInv, TrackingOK
<1>3. EngineResult
  BY <1>1, <1>2, EnterStructuralMoves, LeaveStructuralMoves, StatusMoves, FactsMove DEF EngineEvent
<1>4. UNCHANGED <<tracking, story, query>>
  BY DEF EngineEvent, EnterStructural, LeaveStructural, EnterStatus, LeaveStatus, FactsChange, story
<1>5. TypeOK'
  BY <1>1, <1>3, <1>4 DEF TypeOK, EngineResult, EngineTypes, story
<1>6. CountOK' /\ TrackingOK'
  <2>1. CountOK'
    BY <1>4 DEF StoryIInv, CountOK, Inside, story
  <2>2. TrackingOK'
    BY <1>3, <1>4 DEF StoryIInv, TrackingOK, EngineResult, story
  <2> QED
    BY <2>1, <2>2
<1>7. BehindOK'
  <2>1. tracking => \A who \in Nat \X Nat : Past(who) => Past(who)'
    BY <1>3 DEF EngineResult
  <2>2. lifecycle'.sequence >= lifecycle.sequence /\ lifecycle.sequence \in Nat
        /\ lifecycle'.sequence \in Nat
    BY <1>1, <1>3 DEF EngineTypes, EngineResult
  <2>3. ASSUME tracking, NEW who \in Nat \X Nat, NEW lc \in Nat, Past(who), lc <= lifecycle.sequence
        PROVE  Past(who)' /\ lc <= lifecycle'.sequence
    BY <2>1, <2>2, <2>3
  <2>4. tracking => Known(record)'
    <3>1. record.who \in Nat \X Nat /\ record.lifecycle \in Nat
      BY <1>1 DEF TypeOK, Record
    <3> QED
      BY <1>4, <2>1, <2>2, <3>1 DEF StoryIInv, BehindOK, Known, Past, story
  <2>5. tracking => Known(query.record)'
    <3>1. query.record.who \in Nat \X Nat /\ query.record.lifecycle \in Nat
      BY <1>1 DEF TypeOK, Record, Question
    <3> QED
      BY <1>4, <2>1, <2>2, <3>1 DEF StoryIInv, BehindOK, Known, Past, story
  <2>6. ASSUME tracking, NEW w \in Writers
        PROVE  Known(writer[w].seen)'
    <3>1. writer[w].seen.who \in Nat \X Nat /\ writer[w].seen.lifecycle \in Nat
      BY <1>1 DEF TypeOK, Step, Context
    <3> QED
      BY <1>4, <2>1, <2>2, <2>6, <3>1 DEF StoryIInv, BehindOK, Known, Past, story
  <2> QED
    BY <1>4, <2>4, <2>5, <2>6 DEF StoryIInv, BehindOK, story
<1>8. RecordsOK'
  <2>1. ASSUME active = 0 PROVE Stands(record.at, record, record.reasons)'
    <3>1. record.at \in Nat /\ record.who \in Nat \X Nat /\ record.lifecycle \in Nat
      BY <1>1 DEF TypeOK, Record
    <3>2. tracking => Past(record.who) /\ record.lifecycle <= lifecycle.sequence
      BY DEF StoryIInv, BehindOK, Known
    <3>3. Stands(record.at, record, record.reasons)
      BY <2>1 DEF StoryIInv, RecordsOK
    <3> QED
      BY <1>1, <1>3, <1>4, <3>1, <3>2, <3>3, StandingMoves DEF Stands, story
  <2>2. ASSUME active = 0 PROVE Stands(query.record.at, query.record, query.record.reasons)'
    <3>1. /\ query.record.at \in Nat /\ query.record.who \in Nat \X Nat
          /\ query.record.lifecycle \in Nat
      BY <1>1 DEF TypeOK, Record, Question
    <3>2. tracking => Past(query.record.who) /\ query.record.lifecycle <= lifecycle.sequence
      BY DEF StoryIInv, BehindOK, Known
    <3>3. Stands(query.record.at, query.record, query.record.reasons)
      BY <2>2 DEF StoryIInv, RecordsOK
    <3> QED
      BY <1>1, <1>3, <1>4, <3>1, <3>2, <3>3, StandingMoves DEF Stands, story
  <2> QED
    BY <1>4, <2>1, <2>2 DEF RecordsOK, story
<1>9. WritersOK'
  <2> SUFFICES ASSUME NEW w \in Writers,
                      Stands(writer[w].token, writer[w].seen, writer[w].reasons)
               PROVE  Stands(writer[w].token, writer[w].seen, writer[w].reasons)'
    BY <1>4 DEF StoryIInv, WritersOK, Sound, story
  <2>1. /\ writer[w].token \in Nat /\ writer[w].seen.who \in Nat \X Nat
        /\ writer[w].seen.lifecycle \in Nat
    BY <1>1 DEF TypeOK, Step, Context
  <2>2. tracking => Past(writer[w].seen.who) /\ writer[w].seen.lifecycle <= lifecycle.sequence
    BY DEF StoryIInv, BehindOK, Known
  <2> QED
    BY <1>1, <1>3, <1>4, <2>1, <2>2, StandingMoves DEF Stands, story
<1>10. QueryOK'
  <2>1. /\ structural'.sequence >= structural.sequence /\ structural.sequence \in Nat
        /\ structural'.sequence \in Nat
        /\ structural'.sequence = structural.sequence => structural'.teardowns = structural.teardowns
    BY <1>1, <1>3 DEF EngineResult, EngineTypes
  <2>2. query.counters.sequence \in Nat
    BY <1>1 DEF TypeOK, Question, Counters
  <2>3. /\ query.counters.sequence <= structural'.sequence
        /\ query.counters.sequence = structural'.sequence =>
             query.counters.sequence = structural.sequence /\ structural'.teardowns = structural.teardowns
    BY <2>1, <2>2 DEF StoryIInv, QueryOK
  <2> QED
    BY <1>4, <2>3 DEF StoryIInv, QueryOK, story
<1> QED
  BY <1>5, <1>6, <1>7, <1>8, <1>9, <1>10 DEF StoryIInv

-----------------------------------------------------------------------------
(* Every step that counts makes what was noted before it out of date.      *)

\* A step that counts keeps what is said of the record and of the question.
LEMMA Counted ==
  ASSUME StoryIInv, sequence' = sequence + 1, UNCHANGED <<record, query, engine>>,
         tracking' => tracking
  PROVE  RecordsOK' /\ QueryOK'
<1>1. record.at # sequence' /\ query.record.at # sequence'
  <2>1. record.at \in Nat /\ query.record.at \in Nat /\ sequence \in Nat
    BY DEF StoryIInv, TypeOK, Record, Question
  <2> QED
    BY <2>1 DEF StoryIInv, BehindOK
<1>2. RecordsOK'
  BY <1>1 DEF RecordsOK, Stands
<1>3. QueryOK'
  BY <1>1 DEF StoryIInv, QueryOK, engine
<1> QED
  BY <1>2, <1>3

\* What was noted is as far behind as it was.
LEMMA StillBehind ==
  ASSUME StoryIInv, sequence' \in Nat, sequence' >= sequence, UNCHANGED <<query, structural, entity>>,
         lifecycle'.sequence = lifecycle.sequence, tracking' => tracking,
         \/ record' = record
         \/ record'.at <= sequence' /\ (tracking => Known(record)'),
         \A w \in Writers : /\ writer'[w].token <= sequence'
                            /\ tracking' => Known(writer[w].seen)'
  PROVE  BehindOK'
<1>1. /\ sequence \in Nat /\ record.at \in Nat /\ query.record.at \in Nat
      /\ record.at <= sequence /\ query.record.at <= sequence
  BY DEF StoryIInv, TypeOK, Record, Question, BehindOK
<1>2. record'.at <= sequence' /\ query'.record.at <= sequence'
  BY <1>1
<1>3. tracking' => Known(record)' /\ Known(query.record)'
  BY DEF StoryIInv, BehindOK, Known, Past
<1> QED
  BY <1>2, <1>3 DEF BehindOK

LEMMA StopTrackingKeeps ==
  ASSUME StoryIInv, StopTracking
  PROVE  StoryIInv'
<1>1. /\ ~tracking' /\ sequence' = sequence + 1 /\ sequence \in Nat \ {0}
      /\ UNCHANGED <<active, record, writer, entity, flag, facts, applied, query>>
  BY DEF StopTracking, StoryIInv, TypeOK
<1>2. /\ structural' \in [available : BOOLEAN, active : Nat, sequence : Nat,
                          teardowns : Nat, unwinds : Nat]
      /\ structural'.sequence = structural.sequence /\ structural'.teardowns = structural.teardowns
      /\ lifecycle' \in [available : BOOLEAN, active : Nat, sequence : Nat]
  BY DEF StopTracking, StoryIInv, TypeOK
<1>3. TypeOK'
  <2>1. sequence' \in Nat \ {0}
    BY <1>1
  <2>2. tracking' \in BOOLEAN
    BY DEF StopTracking
  <2> QED
    BY <1>1, <1>2, <2>1, <2>2 DEF StoryIInv, TypeOK
<1>4. CountOK' /\ TrackingOK'
  BY <1>1 DEF StoryIInv, CountOK, Inside, TrackingOK
<1>5. BehindOK'
  <2>1. \A w \in Writers : writer[w].token \in Nat /\ writer[w].token <= sequence
    BY DEF StoryIInv, TypeOK, Step, BehindOK
  <2>2. record.at \in Nat /\ query.record.at \in Nat /\ record.at <= sequence /\ query.record.at <= sequence
    BY DEF StoryIInv, TypeOK, Record, Question, BehindOK
  <2>3. \A w \in Writers : writer'[w].token <= sequence'
    BY <1>1, <2>1
  <2>4. record'.at <= sequence' /\ query'.record.at <= sequence'
    BY <1>1, <2>2
  <2> QED
    BY <1>1, <2>3, <2>4 DEF BehindOK
<1>6. RecordsOK'
  BY <1>1 DEF RecordsOK, Stands
<1>7. WritersOK'
  BY <1>1 DEF StoryIInv, WritersOK, Stands, Sound
<1>8. QueryOK'
  <2>1. query.record.at # sequence'
    BY <1>1 DEF StoryIInv, TypeOK, Record, Question, BehindOK
  <2> QED
    BY <1>1, <1>2, <2>1 DEF StoryIInv, QueryOK
<1> QED
  BY <1>3, <1>4, <1>5, <1>6, <1>7, <1>8 DEF StoryIInv

-----------------------------------------------------------------------------
(* The writers.                                                            *)

LEMMA CallKeeps ==
  ASSUME StoryIInv, NEW w \in Writers, Call(w)
  PROVE  StoryIInv'
<1>1. /\ writer[w] = Idle /\ sequence \in Nat \ {0} /\ UNCHANGED <<tracking, active, record, engine, query>>
      /\ sequence' = sequence \/ (~tracking /\ sequence' = sequence + 1)
  BY DEF Call, StoryIInv, TypeOK
<1>2. PICK step \in Step :
        /\ Move(w, step) /\ step.seen = Unseen /\ step.token = 0
        /\ step.at = "called" \/ (~tracking /\ step.at = "untracked")
  <2>1. [Idle EXCEPT !.at = "called"] \in Step /\ [Idle EXCEPT !.at = "untracked"] \in Step
    BY Shapes DEF Step
  <2>2. PICK at \in {"called", "untracked"} :
          Move(w, [Idle EXCEPT !.at = at]) /\ (at = "untracked" => ~tracking)
    BY DEF Call
  <2>3. [Idle EXCEPT !.at = at] \in Step
    BY <2>1, <2>2
  <2>4. /\ [Idle EXCEPT !.at = at].seen = Unseen /\ [Idle EXCEPT !.at = at].token = 0
        /\ [Idle EXCEPT !.at = at].at = at
    BY Shapes DEF Step
  <2> QED
    BY <2>2, <2>3, <2>4
<1>3. /\ writer' \in [Writers -> Step] /\ writer'[w] = step
      /\ \A v \in Writers : v # w => writer'[v] = writer[v]
  BY <1>2, MoveIs DEF StoryIInv
<1>a. sequence' \in Nat \ {0} /\ sequence' >= sequence
  BY <1>1
<1>4. TypeOK'
  BY <1>1, <1>3, <1>a DEF StoryIInv, TypeOK, engine
<1>5. CountOK'
  <2>1. \A v \in Writers : Inside(v)' <=> Inside(v)
    BY <1>1, <1>2, <1>3, Shapes DEF Inside
  <2> QED
    BY <1>1, <2>1, CountSame DEF StoryIInv
<1>6. TrackingOK'
  BY <1>1, <1>2, <1>3 DEF StoryIInv, TrackingOK, engine
<1>7. \A v \in Writers : v # w => writer[v].token \in Nat /\ writer[v].token <= sequence
                                  /\ writer[v].token <= sequence'
  BY <1>1 DEF StoryIInv, TypeOK, Step, BehindOK
<1>8. BehindOK'
  <2>1. \A v \in Writers : writer'[v].token <= sequence'
    BY <1>2, <1>3, <1>7, <1>a
  <2>2. \A v \in Writers : writer'[v].seen = writer[v].seen
    BY <1>1, <1>2, <1>3, Shapes
  <2>3. \A v \in Writers : tracking' => Known(writer[v].seen)'
    BY <1>1, <2>2 DEF StoryIInv, BehindOK, Known, Past, engine
  <2> QED
    BY <1>1, <1>a, <2>1, <2>3, StillBehind DEF engine
<1>9. RecordsOK' /\ QueryOK'
  <2>1. CASE sequence' = sequence
    BY <1>1, <2>1 DEF StoryIInv, RecordsOK, QueryOK, Stands, Who, engine
  <2>2. CASE sequence' = sequence + 1
    BY <1>1, <2>2, Counted
  <2> QED
    BY <1>1, <2>1, <2>2
<1>10. WritersOK'
  BY <1>1, <1>2, <1>3 DEF StoryIInv, WritersOK, Stands, Sound, Who, engine
<1> QED
  BY <1>4, <1>5, <1>6, <1>8, <1>9, <1>10 DEF StoryIInv

LEMMA ForwardKeeps ==
  ASSUME StoryIInv, NEW w \in Writers, Forward(w)
  PROVE  StoryIInv'
<1>1. /\ writer[w].at = "called" /\ sequence \in Nat \ {0}
      /\ sequence' = IF tracking THEN sequence + 1 ELSE sequence
      /\ UNCHANGED <<tracking, record, engine, query>>
  BY DEF Forward, StoryIInv, TypeOK
<1>2. PICK step \in Step :
        /\ Move(w, step) /\ step.seen = Unseen /\ step.token <= sequence'
        /\ \/ tracking /\ active' = active + 1 /\ step.at = "token"
           \/ ~tracking /\ active' = active /\ step.at = "untracked"
  <2>1. CASE tracking
    <3>1. PICK reasons \in {facts, "unknown"} :
            Move(w, [Idle EXCEPT !.at = "token", !.token = sequence + 1, !.reasons = reasons])
      BY <2>1 DEF Forward
    <3> DEFINE token == sequence + 1
               step  == [Idle EXCEPT !.at = "token", !.token = token, !.reasons = reasons]
    <3>2. token \in Nat /\ token <= sequence' /\ reasons \in Reasons
      BY <1>1, <2>1 DEF StoryIInv, TypeOK, Reasons
    <3> HIDE DEF token
    <3>3. step \in Step /\ step.seen = Unseen /\ step.token = token /\ step.at = "token"
      BY <3>2, Shapes DEF Step
    <3>4. Move(w, step) /\ active' = active + 1
      BY <2>1, <3>1 DEF Forward, token
    <3> HIDE DEF step
    <3> QED
      BY <2>1, <3>2, <3>3, <3>4
  <2>2. CASE ~tracking
    <3> DEFINE step == [Idle EXCEPT !.at = "untracked"]
    <3>1. Move(w, step) /\ active' = active
      BY <2>2 DEF Forward
    <3>2. step \in Step /\ step.seen = Unseen /\ step.token = 0 /\ step.at = "untracked"
      BY Shapes DEF Step
    <3> HIDE DEF step
    <3>3. step.token <= sequence'
      BY <1>1, <3>2
    <3> QED
      BY <2>2, <3>1, <3>2, <3>3
  <2> QED
    BY <2>1, <2>2
<1>3. /\ writer' \in [Writers -> Step] /\ writer'[w] = step
      /\ \A v \in Writers : v # w => writer'[v] = writer[v]
  BY <1>2, MoveIs DEF StoryIInv
<1>a. sequence' \in Nat \ {0} /\ sequence' >= sequence
  BY <1>1
<1>4. TypeOK'
  <2>1. active' \in Nat
    BY <1>2 DEF StoryIInv, TypeOK
  <2> QED
    BY <1>1, <1>3, <1>a, <2>1 DEF StoryIInv, TypeOK, engine
<1>5. CountOK'
  <2>1. ~Inside(w) /\ \A v \in Writers : v # w => (Inside(v)' <=> Inside(v))
    BY <1>1, <1>3, Shapes DEF Inside
  <2>2. CASE tracking
    <3>1. Inside(w)' /\ active' = active + 1
      BY <1>2, <1>3, <2>2 DEF Inside
    <3> QED
      BY <2>1, <3>1, CountEnter DEF StoryIInv
  <2>3. CASE ~tracking
    <3>1. ~Inside(w)' /\ active' = active
      BY <1>2, <1>3, <2>3 DEF Inside
    <3> QED
      BY <2>1, <3>1, CountSame DEF StoryIInv
  <2> QED
    BY <2>2, <2>3
<1>6. TrackingOK'
  BY <1>1, <1>2, <1>3 DEF StoryIInv, TrackingOK, engine
<1>7. \A v \in Writers : /\ writer[v].token \in Nat /\ writer[v].token <= sequence
                         /\ writer[v].token <= sequence' /\ (tracking => writer[v].token # sequence')
  BY <1>1 DEF StoryIInv, TypeOK, Step, BehindOK
<1>8. BehindOK'
  <2>1. \A v \in Writers : writer'[v].token <= sequence'
    BY <1>2, <1>3, <1>7
  <2>2. Known(Unseen)
    BY DEF StoryIInv, TypeOK, Known, Past, Unseen
  <2>3. \A v \in Writers : tracking' => Known(writer'[v].seen)
    BY <1>1, <1>2, <1>3, <2>2 DEF StoryIInv, BehindOK
  <2>4. \A v \in Writers : tracking' => Known(writer[v].seen)'
    BY <1>1, <2>3 DEF Known, Past, engine
  <2> QED
    BY <1>1, <1>a, <2>1, <2>4, StillBehind DEF engine
<1>9. RecordsOK' /\ QueryOK'
  <2>1. CASE tracking
    BY <1>1, <2>1, Counted
  <2>2. CASE ~tracking
    <3>1. RecordsOK'
      BY <1>1, <2>2 DEF RecordsOK, Stands
    <3>2. QueryOK'
      BY <1>1, <1>2, <2>2 DEF StoryIInv, QueryOK, engine
    <3> QED
      BY <3>1, <3>2
  <2> QED
    BY <2>1, <2>2
<1>10. WritersOK'
  <2>1. CASE tracking
    BY <1>1, <1>2, <1>3, <1>7, <2>1 DEF StoryIInv, WritersOK, Stands, Sound
  <2>2. CASE ~tracking
    BY <1>1, <1>2, <1>3, <2>2 DEF StoryIInv, WritersOK, Stands, Sound
  <2> QED
    BY <2>1, <2>2
<1> QED
  BY <1>4, <1>5, <1>6, <1>8, <1>9, <1>10 DEF StoryIInv

LEMMA CaptureKeeps ==
  ASSUME StoryIInv, NEW w \in Writers, Capture(w)
  PROVE  StoryIInv'
<1>1. writer[w].at = "token" /\ UNCHANGED <<tracking, sequence, active, record, engine, query>>
  BY DEF Capture
<1>2. writer[w] \in Step /\ writer[w].token <= sequence /\ sequence \in Nat
  BY DEF StoryIInv, TypeOK, BehindOK
<1>3. PICK step \in Step :
        /\ Move(w, step) /\ step.at = "ready" /\ step.token <= sequence
        /\ Known(step.seen) /\ (Sound(step) => step.seen.who[1] # 0)
  <2> DEFINE context == [who |-> Who, unwinds |-> structural.unwinds,
                         structural |-> structural.sequence, lifecycle |-> lifecycle.sequence]
             found == [writer[w] EXCEPT !.at = "ready", !.seen = context]
             other == [Idle EXCEPT !.at = "ready", !.reasons = writer[w].reasons]
  <2>1. context \in Context /\ context.who = Who /\ context.lifecycle = lifecycle.sequence
    BY WhoType DEF StoryIInv, TypeOK, Context
  <2>2. Known(context)
    BY <2>1, WhoType DEF StoryIInv, TypeOK, Known, Past
  <2> HIDE DEF context
  <2>3. found \in Step /\ found.at = "ready" /\ found.token = writer[w].token /\ found.seen = context
    BY <1>2, <2>1 DEF Step
  <2>4. other \in Step /\ other.at = "ready" /\ other.token = 0 /\ other.seen = Unseen
    <3>1. writer[w].reasons \in Reasons
      BY <1>2 DEF Step
    <3> QED
      BY <3>1, Shapes DEF Step
  <2>5. Known(Unseen)
    BY DEF StoryIInv, TypeOK, Known, Past, Unseen
  <2>6. \/ entity # 0 /\ Move(w, found)
        \/ Move(w, other)
    BY DEF Capture, context
  <2> HIDE DEF found, other
  <2>7. CASE entity # 0 /\ Move(w, found)
    <3>1. found.seen.who[1] # 0
      BY <2>1, <2>3, <2>7, WhoType DEF StoryIInv
    <3> QED
      BY <1>2, <2>2, <2>3, <2>7, <3>1
  <2>8. CASE Move(w, other)
    BY <1>2, <2>4, <2>5, <2>8 DEF Sound
  <2> QED
    BY <2>6, <2>7, <2>8
<1>4. /\ writer' \in [Writers -> Step] /\ writer'[w] = step
      /\ \A v \in Writers : v # w => writer'[v] = writer[v]
  BY <1>3, MoveIs DEF StoryIInv
<1>5. TypeOK'
  BY <1>1, <1>4 DEF StoryIInv, TypeOK, engine
<1>6. CountOK'
  <2>1. \A v \in Writers : Inside(v)' <=> Inside(v)
    BY <1>1, <1>3, <1>4 DEF Inside
  <2> QED
    BY <1>1, <2>1, CountSame DEF StoryIInv
<1>7. TrackingOK'
  BY <1>1, <1>3, <1>4 DEF StoryIInv, TrackingOK, engine
<1>8. BehindOK'
  <2>1. \A v \in Writers : writer'[v].token <= sequence
    BY <1>3, <1>4 DEF StoryIInv, BehindOK
  <2>2. \A v \in Writers : tracking' => Known(writer[v].seen)'
    BY <1>1, <1>3, <1>4 DEF StoryIInv, BehindOK, Known, Past, engine
  <2> QED
    BY <1>1, <1>2, <2>1, <2>2, StillBehind DEF engine
<1>9. RecordsOK' /\ QueryOK'
  BY <1>1 DEF StoryIInv, RecordsOK, QueryOK, Stands, Who, engine
<1>10. WritersOK'
  BY <1>1, <1>3, <1>4 DEF StoryIInv, WritersOK, Stands, Sound, Who, engine
<1> QED
  BY <1>5, <1>6, <1>7, <1>8, <1>9, <1>10 DEF StoryIInv

LEMMA WriteKeeps ==
  ASSUME StoryIInv, NEW w \in Writers, Write(w)
  PROVE  StoryIInv'
<1>1. /\ writer[w].at \in {"ready", "untracked"}
      /\ UNCHANGED <<tracking, sequence, active, record, structural, lifecycle, entity, facts, query>>
  BY DEF Write
<1>2. writer[w] \in Step /\ writer[w].token <= sequence /\ sequence \in Nat
  BY DEF StoryIInv, TypeOK, BehindOK
\* A writer that is tracked is counted; none other is left while the hooks are.
<1>3. writer[w].at = "ready" => active # 0
  BY Alone DEF StoryIInv, Inside
<1>4. writer[w].at = "untracked" => ~tracking
  BY DEF StoryIInv, TrackingOK
<1>5. PICK step \in Step :
        /\ Move(w, step) /\ step.token <= sequence
        /\ step.seen = writer[w].seen \/ step.seen = Unseen
        /\ \/ writer[w].at = "untracked" /\ step.at = "idle"
           \/ writer[w].at = "ready" /\ step.at = "verified" /\ ~Sound(step)
           \/ /\ writer[w].at = "ready" /\ step.at = "written" /\ Sound(step)
              /\ step.seen = writer[w].seen /\ (entity # 0 => applied' = step.reasons)
  <2>1. PICK effect \in BOOLEAN, returned \in BOOLEAN :
          /\ returned => effect
          /\ effect /\ entity # 0 => applied' = writer[w].reasons
          /\ Move(w, IF writer[w].at = "untracked" THEN Idle
                     ELSE IF Sound(writer[w]) /\ returned THEN [writer[w] EXCEPT !.at = "written"]
                     ELSE Fruitless)
    BY DEF Write
  <2>2. Idle.token <= sequence /\ Fruitless.token <= sequence
    BY <1>2, Shapes
  <2>3. CASE writer[w].at = "untracked"
    BY <2>1, <2>2, <2>3, Shapes
  <2>4. CASE writer[w].at # "untracked" /\ ~(Sound(writer[w]) /\ returned)
    BY <1>1, <2>1, <2>2, <2>4, Shapes DEF Sound
  <2>5. CASE writer[w].at # "untracked" /\ Sound(writer[w]) /\ returned
    <3> DEFINE step == [writer[w] EXCEPT !.at = "written"]
    <3>1. /\ step \in Step /\ step.at = "written" /\ step.seen = writer[w].seen
          /\ step.token = writer[w].token /\ step.reasons = writer[w].reasons
      BY <1>2 DEF Step
    <3>2. Move(w, step)
      BY <2>1, <2>5
    <3> HIDE DEF step
    <3> QED
      BY <1>1, <1>2, <2>1, <2>5, <3>1, <3>2 DEF Sound
  <2> QED
    BY <2>3, <2>4, <2>5
<1>6. /\ writer' \in [Writers -> Step] /\ writer'[w] = step
      /\ \A v \in Writers : v # w => writer'[v] = writer[v]
  BY <1>5, MoveIs DEF StoryIInv
<1>7. TypeOK'
  <2>1. flag' \in BOOLEAN /\ applied' \in Reasons
    BY <1>2 DEF Write, StoryIInv, TypeOK, Step
  <2> QED
    BY <1>1, <1>6, <2>1 DEF StoryIInv, TypeOK
<1>8. CountOK'
  <2>1. \A v \in Writers : Inside(v)' <=> Inside(v)
    BY <1>5, <1>6 DEF Inside
  <2> QED
    BY <1>1, <2>1, CountSame DEF StoryIInv
<1>9. TrackingOK'
  BY <1>1, <1>5, <1>6 DEF StoryIInv, TrackingOK
<1>10. BehindOK'
  <2>1. \A v \in Writers : writer'[v].token <= sequence
    BY <1>5, <1>6 DEF StoryIInv, BehindOK
  <2>2. tracking => Known(Unseen)
    BY DEF StoryIInv, TypeOK, Known, Past, Unseen
  <2>3. \A v \in Writers : tracking' => Known(writer[v].seen)'
    BY <1>1, <1>5, <1>6, <2>2 DEF StoryIInv, BehindOK, Known, Past
  <2> QED
    BY <1>1, <1>2, <2>1, <2>3, StillBehind
<1>11. RecordsOK'
  BY <1>1, <1>3, <1>4 DEF RecordsOK, Stands
<1>12. WritersOK'
  <2> SUFFICES ASSUME NEW v \in Writers
               PROVE  (WritersOK!(v))'
    BY DEF WritersOK
  <2>1. CASE v = w
    <3>1. Sound(writer[v])' => writer'[v].seen.who[1] # 0
      BY <1>5, <1>6, <2>1 DEF StoryIInv, WritersOK, Sound
    <3>2. ASSUME writer'[v].at = "written" PROVE Sound(writer[v])'
      BY <1>5, <1>6, <2>1, <3>2 DEF Sound
    <3>3. writer'[v].at # "ended"
      BY <1>5, <1>6, <2>1
    <3>4. ASSUME writer'[v].at \in {"written", "verified"}, Sound(writer[v])'
          PROVE  Stands(writer[v].token, writer[v].seen, writer[v].reasons)'
      <4>1. step.at = "written" /\ (entity # 0 => applied' = step.reasons)
        BY <1>5, <1>6, <2>1, <3>4 DEF Sound
      <4>2. step.seen.who[1] # 0
        BY <1>6, <2>1, <3>1, <3>4
      <4>3. step.seen.who = Who' => entity # 0
        BY <1>1, <4>2, WhoType DEF StoryIInv, Who
      <4> QED
        BY <1>1, <1>6, <2>1, <4>1, <4>3 DEF Stands
    <3> QED
      BY <3>1, <3>2, <3>3, <3>4
  <2>2. CASE v # w /\ writer[w].at = "untracked"
    BY <1>1, <1>4, <1>6, <2>2 DEF StoryIInv, WritersOK, Sound, Stands
  <2>3. CASE v # w /\ writer[w].at = "ready"
    <3>1. active # 0 /\ ~(active = 1 /\ Inside(v))
      BY <2>3, Alone DEF StoryIInv, Inside
    <3> QED
      BY <1>1, <1>6, <2>3, <3>1 DEF StoryIInv, WritersOK, Sound, Inside
  <2> QED
    BY <1>1, <2>1, <2>2, <2>3
<1>13. QueryOK'
  BY <1>1 DEF StoryIInv, QueryOK
<1> QED
  BY <1>7, <1>8, <1>9, <1>10, <1>11, <1>12, <1>13 DEF StoryIInv

LEMMA VerifyKeeps ==
  ASSUME StoryIInv, NEW w \in Writers, Verify(w)
  PROVE  StoryIInv'
<1>1. writer[w].at = "written" /\ UNCHANGED <<tracking, sequence, active, record, engine, query>>
  BY DEF Verify
<1>2. writer[w] \in Step /\ writer[w].token <= sequence /\ sequence \in Nat
  BY DEF StoryIInv, TypeOK, BehindOK
<1>3. PICK step \in Step :
        /\ Move(w, step) /\ step.at = "verified" /\ step.token <= sequence
        /\ \/ step.seen = Unseen
           \/ /\ step.seen = writer[w].seen /\ step.token = writer[w].token
              /\ step.reasons = writer[w].reasons
  <2> DEFINE kept == [writer[w] EXCEPT !.at = "verified"]
  <2>1. /\ kept \in Step /\ kept.at = "verified" /\ kept.seen = writer[w].seen
        /\ kept.token = writer[w].token /\ kept.reasons = writer[w].reasons
    BY <1>2 DEF Step
  <2>2. Move(w, kept) \/ Move(w, Fruitless)
    BY DEF Verify
  <2>3. Fruitless.token <= sequence
    BY <1>2, Shapes
  <2> HIDE DEF kept
  <2> QED
    BY <1>2, <2>1, <2>2, <2>3, Shapes
<1>4. /\ writer' \in [Writers -> Step] /\ writer'[w] = step
      /\ \A v \in Writers : v # w => writer'[v] = writer[v]
  BY <1>3, MoveIs DEF StoryIInv
<1>5. TypeOK'
  BY <1>1, <1>4 DEF StoryIInv, TypeOK, engine
<1>6. CountOK'
  <2>1. \A v \in Writers : Inside(v)' <=> Inside(v)
    BY <1>1, <1>3, <1>4 DEF Inside
  <2> QED
    BY <1>1, <2>1, CountSame DEF StoryIInv
<1>7. TrackingOK'
  BY <1>1, <1>3, <1>4 DEF StoryIInv, TrackingOK, engine
<1>8. BehindOK'
  <2>1. \A v \in Writers : writer'[v].token <= sequence
    BY <1>3, <1>4 DEF StoryIInv, BehindOK
  <2>2. tracking => Known(Unseen)
    BY DEF StoryIInv, TypeOK, Known, Past, Unseen
  <2>3. \A v \in Writers : tracking' => Known(writer[v].seen)'
    BY <1>1, <1>3, <1>4, <2>2 DEF StoryIInv, BehindOK, Known, Past, engine
  <2> QED
    BY <1>1, <1>2, <2>1, <2>3, StillBehind DEF engine
<1>9. RecordsOK' /\ QueryOK'
  BY <1>1 DEF StoryIInv, RecordsOK, QueryOK, Stands, Who, engine
<1>10. WritersOK'
  BY <1>1, <1>3, <1>4 DEF StoryIInv, WritersOK, Stands, Sound, Who, engine
<1> QED
  BY <1>5, <1>6, <1>7, <1>8, <1>9, <1>10 DEF StoryIInv

LEMMA EndKeeps ==
  ASSUME StoryIInv, NEW w \in Writers, End(w)
  PROVE  StoryIInv'
<1>1. /\ writer[w].at = "verified" /\ sequence' = sequence + 1 /\ active' = active - 1
      /\ sequence \in Nat \ {0} /\ UNCHANGED <<tracking, record, engine, query>>
  BY DEF End, StoryIInv, TypeOK
<1>2. writer[w] \in Step /\ writer[w].token <= sequence
  BY DEF StoryIInv, TypeOK, BehindOK
<1>3. PICK step \in Step :
        /\ Move(w, step) /\ step.token <= sequence'
        /\ \/ step.at = "idle" /\ step.seen = Unseen
           \/ /\ step.at = "ended" /\ Sound(writer[w]) /\ writer[w].token = sequence
              /\ step.seen = writer[w].seen /\ step.reasons = writer[w].reasons
  <2> DEFINE token == sequence + 1
             ended == [writer[w] EXCEPT !.at = "ended", !.token = token]
  <2>1. token \in Nat /\ token <= sequence' /\ Idle.token <= sequence'
    BY <1>1, Shapes
  <2>2. \/ Sound(writer[w]) /\ writer[w].token = sequence /\ Move(w, ended)
        \/ Move(w, Idle)
    BY DEF End, Unbroken
  <2> HIDE DEF token
  <2>3. /\ ended \in Step /\ ended.at = "ended" /\ ended.seen = writer[w].seen
        /\ ended.token = token /\ ended.reasons = writer[w].reasons
    BY <1>2, <2>1 DEF Step
  <2> HIDE DEF ended
  <2> QED
    BY <2>1, <2>2, <2>3, Shapes
<1>4. /\ writer' \in [Writers -> Step] /\ writer'[w] = step
      /\ \A v \in Writers : v # w => writer'[v] = writer[v]
  BY <1>3, MoveIs DEF StoryIInv
<1>5. Inside(w) /\ active # 0 /\ active \in Nat
  BY <1>1, Alone DEF Inside, StoryIInv, TypeOK
<1>6. TypeOK'
  <2>1. sequence' \in Nat \ {0} /\ active' \in Nat
    BY <1>1, <1>5
  <2> QED
    BY <1>1, <1>4, <2>1 DEF StoryIInv, TypeOK, engine
<1>7. CountOK'
  <2>1. ~Inside(w)' /\ \A v \in Writers : v # w => (Inside(v)' <=> Inside(v))
    BY <1>3, <1>4 DEF Inside
  <2> QED
    BY <1>1, <1>5, <2>1, CountLeave DEF StoryIInv
<1>8. TrackingOK'
  BY <1>1, <1>3, <1>4 DEF StoryIInv, TrackingOK, engine
<1>9. \A v \in Writers : v # w => writer[v].token \in Nat /\ writer[v].token <= sequence
                                  /\ writer[v].token <= sequence' /\ writer[v].token # sequence'
  BY <1>1 DEF StoryIInv, TypeOK, Step, BehindOK
<1>10. BehindOK'
  <2>1. \A v \in Writers : writer'[v].token <= sequence'
    BY <1>3, <1>4, <1>9
  <2>2. tracking => Known(Unseen)
    BY DEF StoryIInv, TypeOK, Known, Past, Unseen
  <2>3. sequence' \in Nat /\ sequence' >= sequence
    BY <1>1
  <2>4. \A v \in Writers : tracking' => Known(writer[v].seen)'
    BY <1>1, <1>3, <1>4, <2>2 DEF StoryIInv, BehindOK, Known, Past, engine
  <2> QED
    BY <1>1, <2>1, <2>3, <2>4, StillBehind DEF engine
<1>11. RecordsOK' /\ QueryOK'
  BY <1>1, Counted
<1>12. WritersOK'
  <2> SUFFICES ASSUME NEW v \in Writers
               PROVE  (WritersOK!(v))'
    BY DEF WritersOK
  <2>1. CASE v # w
    BY <1>4, <1>9, <2>1 DEF StoryIInv, WritersOK, Stands, Sound
  <2>2. CASE v = w
    <3>1. step.at = "ended" => Sound(step) /\ step.seen.who[1] # 0
      BY <1>3 DEF StoryIInv, WritersOK, Sound
    <3>2. step.at \in {"idle", "ended"} /\ (step.at = "idle" => ~Sound(step))
      BY <1>3 DEF Sound
    <3>3. ASSUME step.at = "ended", active' = 0
          PROVE  Stands(writer[v].token, writer[v].seen, writer[v].reasons)'
      <4>1. active = 1
        BY <1>1, <1>5, <3>3
      <4>2. Stands(writer[w].token, writer[w].seen, writer[w].reasons)
        BY <1>1, <1>3, <3>3, <4>1 DEF StoryIInv, WritersOK
      <4> QED
        BY <1>1, <1>3, <1>4, <2>2, <3>3, <4>2 DEF Stands, Who, engine
    <3> QED
      BY <1>4, <2>2, <3>1, <3>2, <3>3 DEF Sound
  <2> QED
    BY <2>1, <2>2
<1> QED
  BY <1>6, <1>7, <1>8, <1>10, <1>11, <1>12 DEF StoryIInv

LEMMA StoreKeeps ==
  ASSUME StoryIInv, NEW w \in Writers, Store(w)
  PROVE  StoryIInv'
<1>1. writer[w].at = "ended" /\ Move(w, Idle) /\ UNCHANGED <<tracking, sequence, active, engine, query>>
  BY DEF Store
<1>2. /\ writer' \in [Writers -> Step] /\ writer'[w] = Idle
      /\ \A v \in Writers : v # w => writer'[v] = writer[v]
  BY <1>1, Shapes, MoveIs DEF StoryIInv
<1>3. /\ writer[w] \in Step /\ writer[w].seen \in Context /\ writer[w].token \in Nat
      /\ writer[w].reasons \in Reasons /\ writer[w].token <= sequence /\ sequence \in Nat
  BY DEF StoryIInv, TypeOK, Step, BehindOK
<1>4. \/ record' = record
      \/ /\ active = 0 /\ record' \in Record
         /\ record'.at = writer[w].token /\ record'.who = writer[w].seen.who
         /\ record'.reasons = writer[w].reasons /\ record'.lifecycle = writer[w].seen.lifecycle
  BY <1>3 DEF Store, Record, Context
<1>5. TypeOK'
  BY <1>1, <1>2, <1>4 DEF StoryIInv, TypeOK, engine
<1>6. CountOK'
  <2>1. \A v \in Writers : Inside(v)' <=> Inside(v)
    BY <1>1, <1>2, Shapes DEF Inside
  <2> QED
    BY <1>1, <2>1, CountSame DEF StoryIInv
<1>7. TrackingOK'
  BY <1>1, <1>2, Shapes DEF StoryIInv, TrackingOK, engine
<1>8. BehindOK'
  <2>1. \A v \in Writers : writer'[v].token <= sequence
    BY <1>2, <1>3, Shapes DEF StoryIInv, BehindOK
  <2>2. tracking => Known(Unseen) /\ Known(writer[w].seen)
    BY DEF StoryIInv, TypeOK, BehindOK, Known, Past, Unseen
  <2>3. \A v \in Writers : tracking' => Known(writer[v].seen)'
    BY <1>1, <1>2, <2>2, Shapes DEF StoryIInv, BehindOK, Known, Past, engine
  <2>4. \/ record' = record
        \/ record'.at <= sequence' /\ (tracking => Known(record)')
    BY <1>1, <1>3, <1>4, <2>2 DEF Known, Past, engine
  <2> QED
    BY <1>1, <1>3, <2>1, <2>3, <2>4, StillBehind DEF engine
<1>9. RecordsOK'
  <2>1. ASSUME active = 0 PROVE Stands(record.at, record, record.reasons)'
    <3>1. Stands(record.at, record, record.reasons)
      BY <2>1 DEF StoryIInv, RecordsOK
    <3>2. Stands(writer[w].token, writer[w].seen, writer[w].reasons)
      BY <1>1, <2>1 DEF StoryIInv, WritersOK
    <3> QED
      BY <1>1, <1>4, <3>1, <3>2 DEF Stands, Who, engine
  <2> QED
    BY <1>1, <2>1 DEF StoryIInv, RecordsOK, Stands, Who, engine
<1>10. WritersOK'
  BY <1>1, <1>2, Shapes DEF StoryIInv, WritersOK, Stands, Sound, Who, engine
<1>11. QueryOK'
  BY <1>1 DEF StoryIInv, QueryOK, engine
<1> QED
  BY <1>5, <1>6, <1>7, <1>8, <1>9, <1>10, <1>11 DEF StoryIInv

-----------------------------------------------------------------------------
(* The question changes nothing but itself.                                *)

LEMMA NothingRead ==
  /\ NoQuery.at = "idle" /\ NoQuery.counters.sequence = 0 /\ NoQuery.record = NoRecord
  /\ NoRecord.at = 0 /\ NoRecord.lifecycle = 0 /\ NoRecord.who = <<0, 0>>
  BY DEF NoQuery, NoCounters, NoRecord

\* A record that was read is one that had been stored.
LEMMA AskingKeeps ==
  ASSUME StoryIInv, AsksOnly, query' \in Question,
         query'.record \in {NoRecord, record, query.record}, QueryOK'
  PROVE  StoryIInv'
<1>1. UNCHANGED <<tracking, sequence, active, record, writer, structural, lifecycle,
                  entity, flag, facts, applied>>
  BY DEF AsksOnly, story, engine
<1>2. TypeOK' /\ CountOK' /\ TrackingOK'
  BY <1>1 DEF StoryIInv, TypeOK, CountOK, Inside, TrackingOK
<1>3. NoRecord.at <= sequence /\ NoRecord.at # sequence /\ Known(NoRecord)
  BY NothingRead DEF StoryIInv, TypeOK, Known, Past
<1>4. BehindOK'
  BY <1>1, <1>3 DEF StoryIInv, BehindOK, Known, Past
<1>5. RecordsOK'
  BY <1>1, <1>3 DEF StoryIInv, RecordsOK, Stands, Who
<1>6. WritersOK'
  BY <1>1 DEF StoryIInv, WritersOK, Stands, Sound, Who
<1> QED
  BY <1>2, <1>4, <1>5, <1>6 DEF StoryIInv

LEMMA NoExceptionKeeps ==
  ASSUME StoryIInv, AsksOnly, query' = NoQuery
  PROVE  StoryIInv'
<1>1. structural'.sequence \in Nat
  BY DEF StoryIInv, TypeOK, AsksOnly, engine
<1>2. QueryOK'
  BY <1>1, NothingRead DEF QueryOK
<1> QED
  BY <1>2, NothingRead, Shapes, AskingKeeps

LEMMA AskKeeps ==
  ASSUME StoryIInv, Ask
  PROVE  StoryIInv'
<1> DEFINE read == [sequence |-> structural.sequence, teardowns |-> structural.teardowns,
                    unwinds |-> structural.unwinds, lifecycle |-> lifecycle.sequence]
<1>1. AsksOnly /\ query' = [NoQuery EXCEPT !.at = "counters", !.counters = read]
  BY DEF Ask, Answer
<1>2. /\ read \in Counters /\ read.sequence = structural.sequence
      /\ read.teardowns = structural.teardowns /\ structural.sequence \in Nat
  BY DEF StoryIInv, TypeOK, Counters
<1> HIDE DEF read
<1>3. query' \in Question /\ query'.at = "counters" /\ query'.counters = read
      /\ query'.record = NoRecord
  BY <1>1, <1>2, Shapes, NothingRead DEF Question
<1>4. QueryOK'
  BY <1>1, <1>2, <1>3 DEF QueryOK, AsksOnly, engine
<1> QED
  BY <1>1, <1>3, <1>4, AskingKeeps

LEMMA FirstKeeps ==
  ASSUME StoryIInv, First
  PROVE  StoryIInv'
<1> DEFINE who == Who
<1>1. /\ query.at = "counters" /\ AsksOnly
      /\ \/ query' = NoQuery
         \/ query' = [query EXCEPT !.at = "first", !.who = who, !.facts = facts, !.first = sequence]
  BY DEF First, Goes, Answer
<1>2. query \in Question /\ who \in Nat \X Nat /\ facts \in Story /\ sequence \in Nat
  BY WhoType DEF StoryIInv, TypeOK
<1> HIDE DEF who
<1>3. CASE query' = [query EXCEPT !.at = "first", !.who = who, !.facts = facts, !.first = sequence]
  <2>1. query' \in Question /\ query'.at = "first" /\ query'.counters = query.counters
        /\ query'.record = query.record
    BY <1>2, <1>3 DEF Question
  <2>2. QueryOK'
    BY <1>1, <2>1 DEF StoryIInv, QueryOK, AsksOnly, engine
  <2> QED
    BY <1>1, <2>1, <2>2, AskingKeeps
<1> QED
  BY <1>1, <1>3, NoExceptionKeeps

\* The record read is of the player and the world the question is about.
LEMMA ReadKeeps ==
  ASSUME StoryIInv, Read
  PROVE  StoryIInv'
<1>1. /\ query.at = "first" /\ AsksOnly
      /\ \/ query' = NoQuery
         \/ /\ query' = [query EXCEPT !.at = "read", !.record = record]
            /\ record.who = <<query.who[1], query.counters.teardowns>>
  BY DEF Read, Goes, Answer
<1>2. query \in Question /\ record \in Record
  BY DEF StoryIInv, TypeOK
<1>3. CASE /\ query' = [query EXCEPT !.at = "read", !.record = record]
           /\ record.who = <<query.who[1], query.counters.teardowns>>
  <2>1. query' \in Question /\ query'.at = "read" /\ query'.counters = query.counters
        /\ query'.who = query.who /\ query'.record = record
    BY <1>2, <1>3 DEF Question
  <2>2. QueryOK'
    BY <1>1, <1>3, <2>1 DEF StoryIInv, QueryOK, AsksOnly, engine
  <2> QED
    BY <1>1, <2>1, <2>2, AskingKeeps
<1> QED
  BY <1>1, <1>3, NoExceptionKeeps

\* With no structural event since the counters were read, the world is the one the
\* record was read for, and so is the player.
LEMMA QualifyKeeps ==
  ASSUME StoryIInv, Qualify
  PROVE  StoryIInv'
<1>1. /\ query.at = "read" /\ AsksOnly
      /\ \/ query' = NoQuery
         \/ /\ query' = [NoQuery EXCEPT !.at = "qualified", !.who = query.who, !.record = query.record]
            /\ Who = query.who /\ structural.sequence = query.counters.sequence
            /\ query.record.reasons = "area"
  BY DEF Qualify, Goes, Answer, Undisturbed
<1>2. query \in Question /\ query.who \in Nat \X Nat /\ query.record \in Record
  BY DEF StoryIInv, TypeOK, Question
<1>3. CASE /\ query' = [NoQuery EXCEPT !.at = "qualified", !.who = query.who, !.record = query.record]
           /\ Who = query.who /\ structural.sequence = query.counters.sequence
           /\ query.record.reasons = "area"
  <2>1. query' \in Question /\ query'.at = "qualified" /\ query'.counters = NoCounters
        /\ query'.who = query.who /\ query'.record = query.record
    BY <1>2, <1>3, Shapes DEF Question, NoQuery
  <2>2. query.record.who = query.who
    <3>1. query.record.who = <<query.who[1], query.counters.teardowns>>
          /\ query.counters.teardowns = structural.teardowns
      BY <1>1, <1>3 DEF StoryIInv, QueryOK
    <3> QED
      BY <1>3, <3>1 DEF Who
  <2>3. structural'.sequence \in Nat
    BY <1>1 DEF StoryIInv, TypeOK, AsksOnly, engine
  <2>4. QueryOK'
    BY <1>3, <2>1, <2>2, <2>3 DEF QueryOK, NoCounters
  <2> QED
    BY <1>1, <2>1, <2>4, AskingKeeps
<1> QED
  BY <1>1, <1>3, NoExceptionKeeps

LEMMA PolicyKeeps ==
  ASSUME StoryIInv, Policy
  PROVE  StoryIInv'
<1>1. /\ query.at = "qualified" /\ AsksOnly
      /\ query' = NoQuery \/ query' = [query EXCEPT !.at = "allowed"]
  BY DEF Policy, Goes, Answer
<1>2. query \in Question
  BY DEF StoryIInv, TypeOK
<1>3. CASE query' = [query EXCEPT !.at = "allowed"]
  <2>1. query' \in Question /\ query'.at = "allowed" /\ query'.counters = query.counters
        /\ query'.who = query.who /\ query'.record = query.record
    BY <1>2, <1>3 DEF Question
  <2>2. QueryOK'
    BY <1>1, <2>1 DEF StoryIInv, QueryOK, AsksOnly, engine
  <2> QED
    BY <1>1, <2>1, <2>2, AskingKeeps
<1> QED
  BY <1>1, <1>3, NoExceptionKeeps

\* The player, the world and the status are still those of the record: if nothing was
\* written since, its reasons are the ones that were applied.
LEMMA StableKeeps ==
  ASSUME StoryIInv, Stable
  PROVE  StoryIInv'
<1>1. /\ query.at = "allowed" /\ AsksOnly
      /\ \/ query' = NoQuery
         \/ /\ query' = [query EXCEPT !.at = "stable", !.stood = applied]
            /\ structural.teardowns = query.who[2] /\ entity = query.who[1]
            /\ lifecycle.sequence = query.record.lifecycle /\ tracking
  BY DEF Stable, Goes, Answer
<1>2. query \in Question /\ query.who \in Nat \X Nat /\ applied \in Reasons
  BY DEF StoryIInv, TypeOK, Question
<1>3. CASE /\ query' = [query EXCEPT !.at = "stable", !.stood = applied]
           /\ structural.teardowns = query.who[2] /\ entity = query.who[1]
           /\ lifecycle.sequence = query.record.lifecycle /\ tracking
  <2>1. query' \in Question /\ query'.at = "stable" /\ query'.counters = query.counters
        /\ query'.who = query.who /\ query'.record = query.record /\ query'.stood = applied
    BY <1>2, <1>3 DEF Question
  <2>2. query.record.who = Who /\ query.record.reasons = "area"
    BY <1>1, <1>2, <1>3 DEF StoryIInv, QueryOK, Who
  <2>3. query.record.at = sequence /\ active = 0 => applied = "area"
    BY <1>3, <2>2 DEF StoryIInv, RecordsOK, Stands
  <2>4. QueryOK'
    BY <1>1, <2>1, <2>2, <2>3 DEF StoryIInv, QueryOK, AsksOnly, engine, story
  <2> QED
    BY <1>1, <2>1, <2>4, AskingKeeps
<1> QED
  BY <1>1, <1>3, NoExceptionKeeps

-----------------------------------------------------------------------------
(* The theorems.                                                           *)

LEMMA InitEstablishes ==
  ASSUME Init
  PROVE  StoryIInv
<1>1. TypeOK
  <2>1. writer \in [Writers -> Step]
    BY Shapes DEF Init
  <2>2. record \in Record /\ query \in Question
    BY Shapes DEF Init
  <2>3. /\ structural \in [available : BOOLEAN, active : Nat, sequence : Nat, teardowns : Nat, unwinds : Nat]
        /\ lifecycle \in [available : BOOLEAN, active : Nat, sequence : Nat]
    BY DEF Init
  <2>4. tracking \in BOOLEAN /\ sequence \in Nat \ {0} /\ active \in Nat
    BY DEF Init
  <2>5. entity \in Nat /\ flag \in BOOLEAN /\ facts \in Story /\ applied \in Reasons
    BY DEF Init, Reasons, Story
  <2> QED
    BY <2>1, <2>2, <2>3, <2>4, <2>5 DEF TypeOK
<1>2. \A w \in Writers : writer[w] = Idle
  BY DEF Init
<1>3. CountOK
  <2>1. InsideSet = {}
    BY <1>2, Shapes DEF InsideSet, Inside
  <2> QED
    BY <2>1, FS_EmptySet DEF CountOK, InsideSet, Init
<1>4. TrackingOK
  BY <1>2, Shapes DEF TrackingOK, Init
<1>5. query.record = NoRecord /\ record = NoRecord /\ sequence = 1
  BY NothingRead DEF Init
<1>6. Known(NoRecord) /\ Known(Unseen)
  BY NothingRead DEF Known, Past, Init, Unseen
<1>7. BehindOK
  BY <1>2, <1>5, <1>6, Shapes, NothingRead DEF BehindOK
<1>8. RecordsOK
  BY <1>5, NothingRead DEF RecordsOK, Stands
<1>9. WritersOK
  BY <1>2, Shapes DEF WritersOK, Sound
<1>10. QueryOK
  BY NothingRead DEF QueryOK, Init
<1> QED
  BY <1>1, <1>3, <1>4, <1>7, <1>8, <1>9, <1>10 DEF StoryIInv

LEMMA StutterKeeps ==
  ASSUME StoryIInv, UNCHANGED vars
  PROVE  StoryIInv'
<1>1. AsksOnly /\ query' = query
  BY DEF vars, AsksOnly
<1>2. query' \in Question /\ query'.record = query.record
  BY <1>1 DEF StoryIInv, TypeOK
<1>3. QueryOK'
  BY <1>1 DEF StoryIInv, QueryOK, AsksOnly, engine, story
<1> QED
  BY <1>1, <1>2, <1>3, AskingKeeps

LEMMA NextKeeps ==
  ASSUME StoryIInv, [Next]_vars
  PROVE  StoryIInv'
<1>1. CASE StopTracking
  BY <1>1, StopTrackingKeeps
<1>2. ASSUME NEW w \in Writers, Call(w) \/ Forward(w) \/ Capture(w) \/ Write(w) \/ Verify(w) \/ End(w) \/ Store(w)
      PROVE  StoryIInv'
  BY <1>2, CallKeeps, ForwardKeeps, CaptureKeeps, WriteKeeps, VerifyKeeps, EndKeeps, StoreKeeps
<1>3. CASE EngineEvent
  BY <1>3, EngineKeeps
<1>4. CASE Ask \/ First \/ Read \/ Qualify \/ Policy \/ Stable
  BY <1>4, AskKeeps, FirstKeeps, ReadKeeps, QualifyKeeps, PolicyKeeps, StableKeeps
<1>5. CASE Decide
  BY <1>5, NoExceptionKeeps DEF Decide, Answer
<1>6. CASE UNCHANGED vars
  BY <1>6, StutterKeeps
<1> QED
  BY <1>1, <1>2, <1>3, <1>4, <1>5, <1>6 DEF Next, EngineEvent

LEMMA Invariance == Spec => []StoryIInv
<1>1. Init => StoryIInv
  BY InitEstablishes
<1>2. StoryIInv /\ [Next]_vars => StoryIInv'
  BY NextKeeps
<1> QED
  BY <1>1, <1>2, PTL DEF Spec

\* Every read of a counter and every step of a write has its shape
\* (action_restriction_observer.cpp, applied_story_state.h).
THEOREM TypeCorrect == Spec => []TypeOK
<1>1. StoryIInv => TypeOK
  BY DEF StoryIInv
<1> QED
  BY <1>1, Invariance, PTL

\* What lets the engine skip a restriction was applied for areas alone, to this player in
\* this world, and still stands (native_exception, docs/action-rules.md:29).
THEOREM SkipsRight == Spec => []SkipsOnlyAreas
<1>1. StoryIInv => SkipsOnlyAreas
  BY DEF StoryIInv, QueryOK, SkipsOnlyAreas, Skips, Current
<1> QED
  BY <1>1, Invariance, PTL
-----------------------------------------------------------------------------
(* The leases the answers rest on (ActionRules), for any guests, players,  *)
(* slots and lifetime: latest, which spares the engine the lock, is not    *)
(* before any deadline (LatestOK), so it hides no lease; and whoever finds *)
(* the service closed leaves none (ClosedOK).                              *)

Leases == [owner : {NoOwner}, deadline : {0}] \union [owner : Owners, deadline : Nat, who : Players]
RuleCalls == [at : {"set"}, owner : Owners, who : Players, now : Nat]

RulesTypeOK ==
  /\ time \in Nat /\ player \in Players /\ available \in BOOLEAN
  /\ leases \in [Slots -> Leases] /\ latest \in Nat
  /\ host \in {NoCall} \union RuleCalls
LatestOK == \A s \in Slots : leases[s].deadline <= latest
ClosedOK == ~available => \A s \in Slots : leases[s] = NoLease
RulesIInv == RulesTypeOK /\ LatestOK /\ ClosedOK

\* A set of numbers has a least one.
LEMMA LeastNumber ==
  ASSUME NEW S \in SUBSET Nat, S # {}
  PROVE  \E i \in S : \A j \in S : i <= j
<1>1. \E i \in S : \A j \in S : ~(<<j, i>> \in OpToRel(<, Nat))
  BY NatLessThanWellFounded, WFMin
<1>2. PICK i \in S : \A j \in S : ~(<<j, i>> \in OpToRel(<, Nat))
  BY <1>1
<1>3. \A j \in S : ~(j < i)
  BY <1>2 DEF OpToRel
<1> QED
  BY <1>3

\* Of finitely many deadlines one is the latest: go through the slots one by one, and
\* let k be the first up to which there were none.
LEMMA SomeLatest ==
  ASSUME RulesAssumption, NEW d \in [Slots -> Nat]
  PROVE  \E s \in Slots : \A t \in Slots : d[t] <= d[s]
<1>1. PICK n \in Nat : ExistsBijection(1 .. n, Slots)
  <2>1. IsFiniteSet(Slots)
    BY DEF RulesAssumption
  <2> QED
    BY <2>1, FS_NatBijection
<1>2. PICK f \in [1 .. n -> Slots] : \A t \in Slots : \E i \in 1 .. n : f[i] = t
  BY <1>1 DEF ExistsBijection, Bijection, Surjection
<1> DEFINE Upto(k) == \E s \in Slots : \A i \in 1 .. k : d[f[i]] <= d[s]
           Bad == {k \in 0 .. n : ~Upto(k)}
<1>3. Bad = {}
  <2> SUFFICES ASSUME Bad # {} PROVE FALSE
    OBVIOUS
  <2>0. Bad \in SUBSET Nat
    OBVIOUS
  <2>1. PICK k \in Bad : \A j \in Bad : k <= j
    BY <2>0, LeastNumber
  <2>2. k \in 0 .. n /\ ~Upto(k)
    OBVIOUS
  <2>3. Upto(0)
    <3>1. PICK s : s \in Slots
      BY DEF RulesAssumption
    <3>2. \A i \in 1 .. 0 : FALSE
      OBVIOUS
    <3> QED
      BY <3>1, <3>2
  <2>4. k # 0
    BY <2>2, <2>3
  <2>5. k - 1 \in 0 .. n /\ ~(k <= k - 1)
    BY <2>2, <2>4
  <2> HIDE DEF Upto
  <2>6. Upto(k - 1)
    BY <2>1, <2>5
  <2> USE DEF Upto
  <2>7. PICK s \in Slots : \A i \in 1 .. k - 1 : d[f[i]] <= d[s]
    BY <2>6
  <2>8. f[k] \in Slots /\ d[f[k]] \in Nat /\ d[s] \in Nat
    BY <2>2, <2>4
  <2>9. \A i \in 1 .. k : i \in 1 .. k - 1 \/ i = k
    BY <2>2, <2>4
  <2>10. \A i \in 1 .. k : d[f[i]] \in Nat
    BY <2>2
  <2>11. CASE d[f[k]] <= d[s]
    BY <2>2, <2>7, <2>8, <2>9, <2>11
  <2>12. CASE d[s] <= d[f[k]]
    <3>1. \A i \in 1 .. k : d[f[i]] <= d[f[k]]
      <4> SUFFICES ASSUME NEW i \in 1 .. k PROVE d[f[i]] <= d[f[k]]
        OBVIOUS
      <4>1. d[f[i]] \in Nat
        BY <2>10
      <4>2. CASE i = k
        BY <4>1, <4>2
      <4>3. CASE i \in 1 .. k - 1
        <5>1. d[f[i]] <= d[s]
          BY <2>7, <4>3
        <5> QED
          BY <2>8, <2>12, <4>1, <5>1
      <4> QED
        BY <2>9, <4>2, <4>3
    <3> QED
      BY <2>2, <2>8, <3>1
  <2> QED
    BY <2>8, <2>11, <2>12
<1>4. Upto(n)
  <2> HIDE DEF Upto
  <2> QED
    BY <1>3
<1> QED
  BY <1>2, <1>4

\* What is stored as latest is not before any deadline of the table.
LEMMA LatestBounds ==
  ASSUME RulesAssumption, NEW table \in [Slots -> Leases]
  PROVE  /\ LatestOf(table) \in Nat
         /\ \A s \in Slots : table[s].deadline <= LatestOf(table)
<1> DEFINE d == [s \in Slots |-> table[s].deadline]
           D == {table[s].deadline : s \in Slots}
<1>1. d \in [Slots -> Nat]
  BY DEF Leases
<1>2. PICK s \in Slots : \A t \in Slots : d[t] <= d[s]
  BY <1>1, SomeLatest
<1>3. \A x \in D : x \in Nat
  BY DEF Leases
<1>4. d[s] \in D /\ \A x \in D : d[s] >= x
  BY <1>1, <1>2
<1>5. LatestOf(table) \in D /\ \A x \in D : LatestOf(table) >= x
  BY <1>4 DEF LatestOf, Max
<1> QED
  BY <1>3, <1>5

LEMMA RulesInitOK == ASSUME RulesAssumption, RulesInit PROVE RulesIInv
<1>1. /\ time = 0 /\ player \in Players /\ leases = [s \in Slots |-> NoLease]
      /\ latest = 0 /\ available = TRUE /\ host = NoCall
  BY DEF RulesInit, NoCall
<1>2. NoLease \in Leases /\ NoLease.deadline = 0
  BY DEF NoLease, Leases
<1> QED
  BY <1>1, <1>2 DEF RulesIInv, RulesTypeOK, LatestOK, ClosedOK

LEMMA RulesNextOK ==
  ASSUME RulesAssumption, RulesIInv, [RulesNext]_rulesVars
  PROVE  RulesIInv'
<1> USE DEF RulesIInv, RulesTypeOK, LatestOK, ClosedOK
<1>1. NoLease \in Leases /\ NoLease.deadline = 0
  BY DEF NoLease, Leases
<1>2. ASSUME NEW o \in Owners, Begin(o) PROVE RulesIInv'
  <2>1. /\ host' = [at |-> "set", owner |-> o, who |-> player, now |-> time]
        /\ UNCHANGED <<time, player, leases, latest, available>>
    BY <1>2 DEF Begin
  <2>2. host' \in RuleCalls
    BY <2>1 DEF RuleCalls
  <2> QED
    BY <2>1, <2>2
\* A table that is stored with its latest deadline.
<1>3. ASSUME leases' \in [Slots -> Leases], latest' = LatestOf(leases')
      PROVE  latest' \in Nat /\ LatestOK'
  BY <1>3, LatestBounds
<1>4. ASSUME NEW o \in Owners, Release(o) PROVE RulesIInv'
  <2>1. /\ leases' = [s \in Slots |-> IF leases[s].owner = o THEN NoLease ELSE leases[s]]
        /\ latest' = LatestOf(leases') /\ UNCHANGED <<time, player, available, host>>
    BY <1>4 DEF Release
  <2>2. leases' \in [Slots -> Leases]
    BY <1>1, <2>1
  <2>3. latest' \in Nat /\ LatestOK'
    BY <1>3, <2>1, <2>2
  <2>4. ClosedOK'
    BY <2>1
  <2> QED
    BY <2>1, <2>2, <2>3, <2>4
<1>5. CASE SetRule
  <2>1. host.at = "set" /\ host' = NoCall /\ UNCHANGED <<time, player, available>>
    BY <1>5 DEF SetRule, NoCall
  <2>2. CASE UNCHANGED <<leases, latest>>
    BY <2>1, <2>2
  <2>3. CASE ~UNCHANGED <<leases, latest>>
    <3>1. host \in RuleCalls
      BY <2>1 DEF NoCall
    <3> DEFINE lease == [owner |-> host.owner, deadline |-> host.now + Lifetime, who |-> host.who]
               slots == IF Own(host.owner) # {} THEN Own(host.owner) ELSE Free(host.now)
    <3>2. /\ available /\ slots # {}
          /\ leases' = [leases EXCEPT ![Min(slots)] = lease] /\ latest' = LatestOf(leases')
      BY <1>5, <2>3 DEF SetRule, StillOpen
    <3>3. lease \in Leases
      BY <3>1 DEF RuleCalls, Leases, RulesAssumption
    <3>4. leases' \in [Slots -> Leases]
      BY <3>2, <3>3
    <3>5. latest' \in Nat /\ LatestOK'
      BY <1>3, <3>2, <3>4
    <3> QED
      BY <2>1, <3>2, <3>4, <3>5
  <2> QED
    BY <2>2, <2>3
<1>6. CASE Close
  <2>1. /\ available' = FALSE /\ leases' = [s \in Slots |-> NoLease] /\ latest' = 0
        /\ UNCHANGED <<time, player, host>>
    BY <1>6 DEF Close
  <2>2. \A s \in Slots : leases'[s] = NoLease
    BY <2>1
  <2>3. leases' \in [Slots -> Leases] /\ available' \in BOOLEAN
    BY <1>1, <2>1
  <2> QED
    BY <1>1, <2>1, <2>2, <2>3
<1>7. CASE Replace
  BY <1>7 DEF Replace
<1>8. CASE Tick
  BY <1>8 DEF Tick
<1>9. CASE UNCHANGED rulesVars
  BY <1>9 DEF rulesVars
<1> QED
  BY <1>2, <1>4, <1>5, <1>6, <1>7, <1>8, <1>9 DEF RulesNext

\* The engine does not ask where the hint says there is nothing to ask, and a call that
\* raced the closing of the service leaves no lease (action_rules.cpp, pending).
THEOREM HintRight == RulesAssumption => (RulesSpec => []HintIsRight)
<1> SUFFICES ASSUME RulesAssumption PROVE RulesSpec => []HintIsRight
  OBVIOUS
<1>1. RulesInit => RulesIInv
  BY RulesInitOK
<1>2. RulesIInv /\ [RulesNext]_rulesVars => RulesIInv'
  BY RulesNextOK
<1>3. RulesIInv => HintIsRight
  <2> SUFFICES ASSUME RulesIInv, NEW s \in Slots, time < leases[s].deadline PROVE time < latest
    BY DEF RulesIInv, ClosedOK, HintIsRight, Allowed, RulePending
  <2>1. leases[s].deadline \in Nat
    BY DEF RulesIInv, RulesTypeOK, Leases
  <2> QED
    BY <2>1 DEF RulesIInv, RulesTypeOK, LatestOK
<1> QED
  BY <1>1, <1>2, <1>3, PTL DEF RulesSpec
-----------------------------------------------------------------------------
(* ModPanel.                                                                *)

\* What the page may hold: copies of the setting and of the list, and changes.
Settings  == [kind : {"setting"}, value : Values, revision : Nat]
ListPages == [kind : {"list"}, revision : Nat, page : SUBSET Rows]
Edits     == [kind : {"set"}, revision : Nat, value : Values, saw : Values, id : Nat]
Clicks    == [kind : {"list"}, revision : Nat, row : Rows, saw : SUBSET Rows, id : Nat]
Changes   == Edits \union Clicks
Requests  == [page : Nat, sequence : Nat, change : Changes \union {None}]
Documents == [page : Nat, sequence : Nat, waiting : BOOLEAN, writing : Changes \union {None},
              queued : Seq(Changes), loaded : BOOLEAN, active : BOOLEAN, stopped : BOOLEAN,
              edit : Settings \union {None}, setting : Settings \union {None},
              list : ListPages \union {None}]
Exchanges == [kind : {"settings"}, request : Requests] \union
             [kind : {"lists"}, request : Requests, setting : Settings \union {None}]
Answers   == [kind : {"refusal"}, code : Nat] \union
             [kind : {"page"}, setting : Settings \union {None}, list : ListPages \union {None}]

PanelTypeOK ==
  /\ attached \in BOOLEAN /\ setting \in [value : Values, revision : Nat]
  /\ list \in [visible : BOOLEAN, revision : Nat, page : SUBSET Rows, events : Seq(Changes)]
  /\ listRevision \in Nat /\ listsOn \in BOOLEAN
  /\ uiOn \in BOOLEAN /\ nonce \in Nat /\ served \in Nat /\ serving \in Exchanges \union {None}
  /\ wire \subseteq Requests /\ answer \in Answers \union {None} /\ doc \in Documents
  /\ changes \in Nat /\ tookEffect \subseteq Nat

\* A revision that was seen is not yet to come, and if it still is the one of the setting
\* (of the visible list), so is what was seen with it.
ValueStands(s, revision, value) == revision <= s.revision /\ (revision = s.revision => value = s.value)
PageStands(l, last, revision, rows) ==
  revision <= last /\ (l.visible /\ l.revision = revision => rows = l.page)

CopyStands(s, copy) == copy # None => ValueStands(s, copy.revision, copy.value)
ListStands(l, last, copy) == copy # None => PageStands(l, last, copy.revision, copy.page)
ChangeStands(s, l, last, n, c) ==
  /\ c.id <= n
  /\ c.kind = "set" => ValueStands(s, c.revision, c.saw)
  /\ c.kind = "list" => PageStands(l, last, c.revision, c.saw)

\* Every copy on its way to the page, and what the page shows and edits.
CopiesOK ==
  /\ CopyStands(setting, doc.setting) /\ CopyStands(setting, doc.edit)
  /\ ListStands(list, listRevision, doc.list)
  /\ serving.kind = "lists" => CopyStands(setting, serving.setting)
  /\ answer.kind = "page" => /\ CopyStands(setting, answer.setting)
                             /\ ListStands(list, listRevision, answer.list)
  /\ list.visible => list.revision <= listRevision

\* Every change that is queued or was sent.
QueuedOK == \A i \in DOMAIN doc.queued : ChangeStands(setting, list, listRevision, changes, doc.queued[i])
SentOK == \A r \in wire : r.change # None => ChangeStands(setting, list, listRevision, changes, r.change)

\* A change is queued or sent once, and took effect in a request that is not served again.
Spent(r) == r.page < nonce \/ (r.page = nonce /\ r.sequence <= served)
IdsOK ==
  /\ \A i, j \in DOMAIN doc.queued : doc.queued[i].id = doc.queued[j].id => i = j
  /\ \A r \in wire : r.change # None => \A i \in DOMAIN doc.queued : doc.queued[i].id # r.change.id
  /\ \A r, q \in wire : r.change # None /\ q.change # None /\ r.change.id = q.change.id => r = q
EffectsOK ==
  \A id \in tookEffect : \E r \in wire : r.change # None /\ r.change.id = id /\ Spent(r)

PanelIInv == PanelTypeOK /\ CopiesOK /\ QueuedOK /\ SentOK /\ IdsOK /\ EffectsOK
-----------------------------------------------------------------------------
(* Shapes.                                                                 *)

\* What is absent is told apart by its kind.
LEMMA KindsApart ==
  /\ None.kind = "none"
  /\ \A x \in Settings \union {None} : x # None => x \in Settings /\ x.kind = "setting"
  /\ \A x \in Settings : x # None
  /\ \A x \in ListPages \union {None} : x # None => x \in ListPages /\ x.kind = "list"
  /\ \A x \in ListPages : x # None
  /\ \A x \in Changes \union {None} : x # None <=> x \in Changes
  /\ \A x \in Exchanges \union {None} : x # None <=> x \in Exchanges
  /\ \A x \in Answers \union {None} : x # None <=> x \in Answers
<1>1. None.kind = "none"
  BY DEF None
<1>2. /\ \A x \in Settings : x.kind = "setting"
      /\ \A x \in ListPages : x.kind = "list"
      /\ \A x \in Changes : x.kind \in {"set", "list"}
      /\ \A x \in Exchanges : x.kind \in {"settings", "lists"}
      /\ \A x \in Answers : x.kind \in {"refusal", "page"}
  BY DEF Settings, ListPages, Changes, Edits, Clicks, Exchanges, Answers
<1> QED BY <1>1, <1>2

LEMMA ChangeShapes ==
  /\ \A c \in Changes : c.id \in Nat /\ c.revision \in Nat /\ c.kind \in {"set", "list"}
  /\ \A c \in Changes : c.kind = "set" => c \in Edits
  /\ \A c \in Changes : c.kind = "list" => c \in Clicks
  BY DEF Changes, Edits, Clicks

LEMMA ExchangeShapes ==
  /\ \A x \in Exchanges \union {None} : x.kind = "settings" => x.request \in Requests
  /\ \A x \in Exchanges \union {None} : x.kind = "lists" =>
       x.request \in Requests /\ x.setting \in Settings \union {None}
  /\ \A r \in Requests : [kind |-> "settings", request |-> r] \in Exchanges
  /\ \A r \in Requests : \A s \in Settings \union {None} :
       [kind |-> "lists", request |-> r, setting |-> s] \in Exchanges
  BY KindsApart DEF Exchanges

LEMMA AnswerShapes ==
  /\ \A x \in Answers \union {None} : x.kind = "page" =>
       x.setting \in Settings \union {None} /\ x.list \in ListPages \union {None}
  /\ \A x \in Answers : x.kind # "refusal" => x.kind = "page"
  /\ \A n \in Nat : [kind |-> "refusal", code |-> n] \in Answers
  /\ \A s \in Settings \union {None} : \A l \in ListPages \union {None} :
       [kind |-> "page", setting |-> s, list |-> l] \in Answers
  BY KindsApart DEF Answers

LEMMA DocumentShapes ==
  ASSUME NEW d \in Documents
  PROVE  /\ d.page \in Nat /\ d.sequence \in Nat /\ d.waiting \in BOOLEAN /\ d.active \in BOOLEAN
         /\ d.writing \in Changes \union {None} /\ d.queued \in Seq(Changes)
         /\ d.edit \in Settings \union {None} /\ d.setting \in Settings \union {None}
         /\ d.list \in ListPages \union {None}
  BY DEF Documents

\* A page as it is loaded.
LEMMA FreshShape ==
  ASSUME NEW n \in Nat
  PROVE  /\ Fresh(n) \in Documents
         /\ Fresh(n).queued = <<>> /\ Fresh(n).edit = None /\ Fresh(n).setting = None
         /\ Fresh(n).list = None
  BY DEF Fresh, Documents

-----------------------------------------------------------------------------
(* Types.                                                                  *)

LEMMA PanelInitTypes == PanelInit => PanelTypeOK
<1> SUFFICES ASSUME PanelInit PROVE PanelTypeOK
  OBVIOUS
<1>1. doc \in Documents
  BY FreshShape DEF PanelInit
<1>2. /\ attached \in BOOLEAN /\ listsOn \in BOOLEAN /\ uiOn \in BOOLEAN
  BY DEF PanelInit
<1>3. /\ setting \in [value : Values, revision : Nat]
      /\ list \in [visible : BOOLEAN, revision : Nat, page : SUBSET Rows, events : Seq(Changes)]
  BY PanelAssumed DEF PanelInit, NoList, PanelAssumption
<1>4. /\ listRevision \in Nat /\ nonce \in Nat /\ served \in Nat /\ serving \in Exchanges \union {None}
      /\ wire \subseteq Requests /\ answer \in Answers \union {None} 
      /\ changes \in Nat /\ tookEffect \subseteq Nat
  BY DEF PanelInit
<1> QED BY <1>1, <1>2, <1>3, <1>4 DEF PanelTypeOK

LEMMA GuestTypes ==
  ASSUME PanelTypeOK,
         \/ \E value \in Values : Set(value)
         \/ \E rows \in SUBSET Rows : Publish(rows)
         \/ Hide \/ TakeEvent \/ Detach \/ StopUi \/ StopLists
  PROVE  PanelTypeOK'
<1> USE DEF PanelTypeOK
<1>0. /\ list.visible \in BOOLEAN /\ list.revision \in Nat /\ list.page \in SUBSET Rows
      /\ list.events \in Seq(Changes) /\ listRevision \in Nat
  OBVIOUS
<1>1. CASE \E value \in Values : Set(value)
  BY <1>1 DEF Set, ui
<1>2. CASE \E rows \in SUBSET Rows : Publish(rows)
  <2>1. PICK rows \in SUBSET Rows : Publish(rows)
    BY <1>2
  <2>2. PICK n : n = IF ~list.visible \/ ~Same(rows) THEN listRevision + 1 ELSE list.revision
    OBVIOUS
  <2>3. list' = [list EXCEPT !.page = rows, !.visible = TRUE, !.revision = n]
    BY <2>1, <2>2 DEF Publish
  <2>4. n \in Nat /\ listRevision' \in Nat
    <3>1. listRevision' = listRevision \/ listRevision' = listRevision + 1
      BY <2>1 DEF Publish
    <3> QED BY ONLY <3>1, <2>2, <1>0
  <2>5. list' \in [visible : BOOLEAN, revision : Nat, page : SUBSET Rows, events : Seq(Changes)]
    BY <2>3, <2>4, <1>0
  <2> QED BY <2>1, <2>4, <2>5 DEF Publish, ui
<1>3. ASSUME list' = Hidden(list)
      PROVE  list' \in [visible : BOOLEAN, revision : Nat, page : SUBSET Rows, events : Seq(Changes)]
  <2>1. <<>> \in Seq(Changes)
    OBVIOUS
  <2> QED BY <1>3, <2>1, <1>0 DEF Hidden
<1>4. CASE TakeEvent
  <2>1. Tail(list.events) \in Seq(Changes)
    BY <1>4 DEF TakeEvent
  <2> QED BY <1>4, <2>1 DEF TakeEvent, ui
<1>5. CASE Detach
  <2>1. attached' \in BOOLEAN
    BY <1>5, Zenon DEF Detach
  <2>2. list' \in [visible : BOOLEAN, revision : Nat, page : SUBSET Rows, events : Seq(Changes)]
    BY <1>5 DEF Detach, NoList
  <2> QED BY <1>5, <2>1, <2>2 DEF Detach, ui
<1>6. CASE StopUi
  <2>1. uiOn' \in BOOLEAN
    BY <1>6, Zenon DEF StopUi
  <2> QED BY <1>6, <2>1 DEF StopUi, guest
<1>7. CASE StopLists
  <2>1. listsOn' \in BOOLEAN
    BY <1>7, Zenon DEF StopLists
  <2> QED BY <1>7, <1>3, <2>1 DEF StopLists, ui
<1>8. CASE Hide
  BY <1>8, <1>3 DEF Hide, ui
<1> QED BY <1>1, <1>2, <1>4, <1>5, <1>6, <1>7, <1>8

\* A change that takes effect is about the present revision.
Effect(c) == \/ c.kind = "set" /\ Applies(c) /\ setting.revision < MaxRevision
             \/ c.kind = "list" /\ Activates(c)

LEMMA ExchangeIs ==
  ASSUME NEW r, Exchange(r)
  PROVE  /\ Refusal(r) = 200 /\ served' = r.sequence
         /\ setting' = IF Effect(r.change) /\ r.change.kind = "set"
                       THEN [value |-> r.change.value, revision |-> setting.revision + 1] ELSE setting
         /\ list' = IF Effect(r.change) /\ r.change.kind = "list"
                    THEN [list EXCEPT !.events = Append(@, r.change)] ELSE list
         /\ tookEffect' = IF Effect(r.change) THEN tookEffect \union {r.change.id} ELSE tookEffect
         /\ serving' = [kind |-> "settings", request |-> r]
         /\ UNCHANGED <<attached, listRevision, listsOn, uiOn, nonce, wire, answer, doc, changes>>
  BY DEF Exchange, Effect

LEMMA EffectShape ==
  ASSUME NEW c \in Changes \union {None}, Effect(c)
  PROVE  /\ c # None /\ c \in Changes /\ c.kind \in {"set", "list"}
         /\ c.kind = "set" => c.revision = setting.revision /\ attached
         /\ c.kind = "list" => c.revision = list.revision /\ list.visible
<1>1. c.kind \in {"set", "list"} /\ c # None
  BY KindsApart DEF Effect
<1>2. c \in Changes
  BY <1>1, KindsApart
<1> QED BY <1>1, <1>2 DEF Effect, Applies, Activates

LEMMA ServingTypes ==
  ASSUME PanelTypeOK,
         \/ \E r \in wire : Refuse(r) \/ Exchange(r)
         \/ CopySettings \/ CopyLists
  PROVE  PanelTypeOK'
<1> USE DEF PanelTypeOK
<1>1. ASSUME NEW r \in wire, Refuse(r) PROVE PanelTypeOK'
  <2>1. Refusal(r) \in Nat
    BY DEF Refusal
  <2>2. [kind |-> "refusal", code |-> Refusal(r)] \in Answers
    BY <2>1, AnswerShapes
  <2>3. answer' \in Answers \union {None}
    BY <1>1, <2>2 DEF Refuse, Answered
  <2> QED BY <1>1, <2>3 DEF Refuse, guest, ui
<1>2. ASSUME NEW r \in wire, Exchange(r) PROVE PanelTypeOK'
  <2>1. r \in Requests /\ r.sequence \in Nat /\ r.change \in Changes \union {None}
    BY DEF Requests
  <2>2. serving' \in Exchanges \union {None}
    BY <1>2, <2>1, ExchangeIs, ExchangeShapes
  <2>3. setting' \in [value : Values, revision : Nat]
    <3>1. Effect(r.change) /\ r.change.kind = "set" => r.change \in Edits
      BY <2>1, EffectShape, ChangeShapes
    <3>2. Effect(r.change) /\ r.change.kind = "set" => r.change.value \in Values
      BY <3>1 DEF Edits
    <3> QED BY <1>2, <3>2, ExchangeIs
  <2>4. list' \in [visible : BOOLEAN, revision : Nat, page : SUBSET Rows, events : Seq(Changes)]
    <3>1. Effect(r.change) => Append(list.events, r.change) \in Seq(Changes)
      BY <2>1, EffectShape
    <3>2. list' = list \/ (Effect(r.change) /\ list' = [list EXCEPT !.events = Append(list.events, r.change)])
      BY <1>2, ExchangeIs
    <3> QED BY <3>1, <3>2
  <2>5. tookEffect' \subseteq Nat
    <3>1. Effect(r.change) => r.change.id \in Nat
      BY <2>1, EffectShape, ChangeShapes
    <3> QED BY <1>2, <3>1, ExchangeIs
  <2> QED BY <1>2, <2>1, <2>2, <2>3, <2>4, <2>5, ExchangeIs
<1>3. CASE CopySettings
  <2>1. serving.request \in Requests
    BY <1>3, ExchangeShapes DEF CopySettings
  <2>2. PICK s : s = IF ~attached THEN None
                     ELSE [kind |-> "setting", value |-> setting.value, revision |-> setting.revision]
    OBVIOUS
  <2>3. s \in Settings \union {None}
    BY <2>2 DEF Settings
  <2>4. serving' = [kind |-> "lists", request |-> serving.request, setting |-> s]
    BY <1>3, <2>2 DEF CopySettings
  <2>5. serving' \in Exchanges
    BY <2>1, <2>3, <2>4, ExchangeShapes
  <2> QED BY <1>3, <2>5 DEF CopySettings, guest
<1>4. CASE CopyLists
  <2>1. serving.setting \in Settings \union {None}
    BY <1>4, ExchangeShapes DEF CopyLists
  <2>2. PICK l : l = IF listsOn /\ attached /\ list.visible
                     THEN [kind |-> "list", revision |-> list.revision, page |-> list.page] ELSE None
    OBVIOUS
  <2>3. l \in ListPages \union {None}
    BY <2>2 DEF ListPages
  <2>4. [kind |-> "page", setting |-> serving.setting, list |-> l] \in Answers
    BY <2>1, <2>3, AnswerShapes
  <2>5. answer' \in Answers \union {None}
    BY <1>4, <2>2, <2>4 DEF CopyLists, Answered
  <2> QED BY <1>4, <2>5 DEF CopyLists, guest
<1> QED BY <1>1, <1>2, <1>3, <1>4


LEMMA PageTypes ==
  ASSUME PanelTypeOK,
         \/ \E value \in Values : EndEdit(value)
         \/ \E row \in Rows : Click(row)
         \/ Open \/ Enter \/ Leave \/ BeginEdit \/ Poll \/ GiveUp \/ Receive
  PROVE  PanelTypeOK'
<1> USE DEF PanelTypeOK
<1>0. doc \in Documents
  OBVIOUS
<1>12. <<>> \in Seq(Changes) /\ None \in Changes \union {None}
  OBVIOUS
<1>1. ASSUME NEW c \in Changes, NEW edit \in Settings \union {None}, Submitted(c, edit)
      PROVE  PanelTypeOK'
  <2>1. PICK q : q = IF Len(doc.queued) < MaxQueued THEN Append(doc.queued, c) ELSE doc.queued
    OBVIOUS
  <2>2. doc' = [doc EXCEPT !.edit = edit, !.queued = q]
    BY <1>1, <2>1 DEF Submitted
  <2>3. doc.queued \in Seq(Changes)
    BY <1>0, DocumentShapes
  <2>4. q \in Seq(Changes)
    BY <2>1, <2>3
  <2>5. doc' \in Documents
    BY <1>0, <2>2, <2>4 DEF Documents
  <2>6. changes' \in Nat
    BY <1>1 DEF Submitted
  <2> QED BY <1>1, <2>5, <2>6 DEF Submitted, guest, ui
<1>2. ASSUME NEW value \in Values, EndEdit(value) PROVE PanelTypeOK'
  <2>1. doc.edit \in Settings
    BY <1>0, <1>2, DocumentShapes, KindsApart DEF EndEdit
  <2>2. doc.edit.revision \in Nat /\ doc.edit.value \in Values
    BY <2>1 DEF Settings
  <2>3. PICK c : c = [kind |-> "set", revision |-> doc.edit.revision, value |-> value,
                      saw |-> doc.edit.value, id |-> changes + 1]
    OBVIOUS
  <2>4. c \in Changes
    BY <1>0, <2>2, <2>3 DEF Changes, Edits
  <2>5. Submitted(c, None)
    BY <1>2, <2>3 DEF EndEdit, EditRevision
  <2> QED BY <1>1, <2>4, <2>5
<1>3. ASSUME NEW row \in Rows, Click(row) PROVE PanelTypeOK'
  <2>1. doc.list \in ListPages /\ doc.edit \in Settings \union {None}
    BY <1>0, <1>3, DocumentShapes, KindsApart DEF Click
  <2>2. doc.list.revision \in Nat /\ doc.list.page \in SUBSET Rows
    BY <2>1 DEF ListPages
  <2>3. PICK c : c = [kind |-> "list", revision |-> doc.list.revision, row |-> row,
                      saw |-> doc.list.page, id |-> changes + 1]
    OBVIOUS
  <2>4. c \in Changes
    BY <1>0, <2>2, <2>3 DEF Changes, Clicks
  <2>5. Submitted(c, doc.edit)
    BY <1>3, <2>3 DEF Click
  <2> QED BY <1>1, <2>1, <2>4, <2>5
<1>4. CASE Open
  <2>1. doc' \in Documents
    BY <1>4, FreshShape DEF Open
  <2> QED BY <1>4, <2>1 DEF Open, guest
<1>5. ASSUME doc' \in Documents, UNCHANGED <<guest, ui, wire, changes, tookEffect>>,
             answer' \in Answers \union {None}
      PROVE  PanelTypeOK'
  BY <1>5 DEF guest, ui
<1>6. CASE Enter
  <2>1. doc' \in Documents
    BY <1>0, <1>6 DEF Enter, Documents
  <2> QED BY <1>5, <1>6, <2>1 DEF Enter
<1>7. CASE Leave
  <2>1. doc' \in Documents
    BY <1>0, <1>7 DEF Leave, Left, Documents
  <2> QED BY <1>5, <1>7, <2>1 DEF Leave
<1>8. CASE BeginEdit
  <2>1. doc' \in Documents
    BY <1>0, <1>8 DEF BeginEdit, Documents
  <2> QED BY <1>5, <1>8, <2>1 DEF BeginEdit
<1>9. CASE Poll
  <2>1. PICK c : c = IF doc.queued = <<>> THEN None ELSE Head(doc.queued)
    OBVIOUS
  <2>2. PICK q : q = IF doc.queued = <<>> THEN doc.queued ELSE Tail(doc.queued)
    OBVIOUS
  <2>3. doc.queued \in Seq(Changes) /\ doc.page \in Nat /\ doc.sequence \in Nat
    BY <1>0, DocumentShapes
  <2>4. c \in Changes \union {None} /\ q \in Seq(Changes)
    BY <2>1, <2>2, <2>3
  <2>5. doc' = [doc EXCEPT !.sequence = doc.sequence + 1, !.waiting = TRUE, !.writing = c, !.queued = q]
    BY <1>9, <2>1, <2>2 DEF Poll
  <2>6. doc' \in Documents
    <3>1. doc.sequence + 1 \in Nat
      BY <2>3
    <3>2. PICK n \in Nat : n = doc.sequence + 1
      BY <3>1
    <3> QED BY ONLY <1>0, <2>4, <2>5, <3>2 DEF Documents
  <2>7. [page |-> doc.page, sequence |-> doc.sequence + 1, change |-> c] \in Requests
    BY <2>3, <2>4 DEF Requests
  <2>8. wire' \subseteq Requests
    BY <1>9, <2>1, <2>7 DEF Poll
  <2> QED BY <1>9, <2>6, <2>8 DEF Poll, guest, ui
<1>10. CASE GiveUp
  <2>1. doc' \in Documents
    BY <1>0, <1>10, <1>12 DEF GiveUp, Documents
  <2> QED BY <1>5, <1>10, <2>1 DEF GiveUp
<1>11. CASE Receive
  <2>1. CASE answer.kind = "refusal"
    <3>1. doc' = [Left(doc) EXCEPT !.stopped = TRUE, !.waiting = FALSE, !.queued = <<>>]
      BY <1>11, <2>1 DEF Receive
    <3>2. Left(doc) \in Documents
      BY <1>0 DEF Left, Documents
    <3>3. doc' \in Documents
      BY <3>1, <3>2, <1>12 DEF Documents
    <3> QED BY <1>5, <1>11, <3>3 DEF Receive
  <2>2. CASE answer.kind # "refusal"
    <3>1. answer.setting \in Settings \union {None} /\ answer.list \in ListPages \union {None}
      BY <1>11, <2>2, KindsApart, AnswerShapes DEF Receive
    <3>2. PICK edit : edit = IF answer.setting = None THEN None ELSE doc.edit
      OBVIOUS
    <3>3. edit \in Settings \union {None}
      BY <1>0, <3>2, DocumentShapes
    <3>4. doc' = [doc EXCEPT !.waiting = FALSE, !.writing = None, !.loaded = TRUE,
                             !.setting = answer.setting, !.list = answer.list, !.edit = edit]
      BY <1>11, <2>2, <3>2 DEF Receive
    <3>5. doc' \in Documents
      BY <1>0, <3>1, <3>3, <3>4 DEF Documents
    <3> QED BY <1>5, <1>11, <3>5 DEF Receive
  <2> QED BY <2>1, <2>2
<1> QED BY <1>2, <1>3, <1>4, <1>6, <1>7, <1>8, <1>9, <1>10, <1>11

\* Every step keeps the types.
LEMMA PanelTypes == PanelTypeOK /\ [PanelNext]_panelVars => PanelTypeOK'
<1>1. ASSUME PanelTypeOK, UNCHANGED panelVars PROVE PanelTypeOK'
  BY <1>1 DEF PanelTypeOK, panelVars, guest, ui
<1>2. ASSUME PanelTypeOK, PanelNext PROVE PanelTypeOK'
  BY <1>2, GuestTypes, ServingTypes, PageTypes DEF PanelNext
<1> QED BY <1>1, <1>2

-----------------------------------------------------------------------------
(* What was seen stands.                                                   *)

\* Revisions only grow, and what is at a revision stays what it is while it is shown.
Moves ==
  /\ setting' = setting \/ setting'.revision = setting.revision + 1
  /\ \/ /\ listRevision' = listRevision
        /\ list'.visible => list.visible /\ list'.page = list.page /\ list'.revision = list.revision
     \/ listRevision' = listRevision + 1 /\ list'.revision = listRevision + 1
  /\ changes <= changes'

LEMMA ValueKept ==
  ASSUME NEW s, NEW t, s.revision \in Nat, t = s \/ t.revision = s.revision + 1,
         NEW revision \in Nat, NEW value, ValueStands(s, revision, value)
  PROVE  ValueStands(t, revision, value)
  BY DEF ValueStands

LEMMA PageKept ==
  ASSUME NEW l, NEW m, NEW last \in Nat, NEW later,
         \/ later = last /\ (m.visible => l.visible /\ m.page = l.page /\ m.revision = l.revision)
         \/ later = last + 1 /\ m.revision = last + 1,
         NEW revision \in Nat, NEW rows, PageStands(l, last, revision, rows)
  PROVE  PageStands(m, later, revision, rows)
  BY DEF PageStands

LEMMA Kept ==
  ASSUME PanelTypeOK, PanelTypeOK', Moves
  PROVE  /\ \A copy \in Settings \union {None} : CopyStands(setting, copy) => CopyStands(setting', copy)
         /\ \A copy \in ListPages \union {None} :
              ListStands(list, listRevision, copy) => ListStands(list', listRevision', copy)
         /\ \A c \in Changes :
              ChangeStands(setting, list, listRevision, changes, c) =>
              ChangeStands(setting', list', listRevision', changes', c)
<1>1. /\ setting.revision \in Nat /\ listRevision \in Nat /\ changes \in Nat /\ changes' \in Nat
  BY DEF PanelTypeOK
<1>2. \A revision \in Nat : \A value :
        ValueStands(setting, revision, value) => ValueStands(setting', revision, value)
  BY <1>1, ValueKept DEF Moves
<1>3. \A revision \in Nat : \A rows :
        PageStands(list, listRevision, revision, rows) => PageStands(list', listRevision', revision, rows)
  BY <1>1, PageKept DEF Moves
<1>4. ASSUME NEW copy \in Settings \union {None}, CopyStands(setting, copy) PROVE CopyStands(setting', copy)
  <2>1. copy # None => copy.revision \in Nat
    BY DEF Settings
  <2> QED BY <1>2, <1>4, <2>1 DEF CopyStands
<1>5. ASSUME NEW copy \in ListPages \union {None}, ListStands(list, listRevision, copy)
      PROVE  ListStands(list', listRevision', copy)
  <2>1. copy # None => copy.revision \in Nat
    BY DEF ListPages
  <2> QED BY <1>3, <1>5, <2>1 DEF ListStands
<1>6. ASSUME NEW c \in Changes, ChangeStands(setting, list, listRevision, changes, c)
      PROVE  ChangeStands(setting', list', listRevision', changes', c)
  <2>1. c.revision \in Nat /\ c.id \in Nat
    BY ChangeShapes
  <2>2. c.id <= changes'
    BY <1>1, <1>6, <2>1 DEF Moves, ChangeStands
  <2> QED BY <1>2, <1>3, <1>6, <2>1, <2>2 DEF ChangeStands
<1> QED BY <1>4, <1>5, <1>6

\* A request that was served stays served.
Serves == \/ nonce' = nonce /\ served' >= served
          \/ nonce' = nonce + 1

LEMMA SpentKept ==
  ASSUME PanelTypeOK, PanelTypeOK', Serves, NEW r \in Requests, Spent(r)
  PROVE  Spent(r)'
<1>1. /\ nonce \in Nat /\ served \in Nat /\ nonce' \in Nat /\ served' \in Nat
      /\ r.page \in Nat /\ r.sequence \in Nat
  BY DEF PanelTypeOK, Requests
<1> QED BY <1>1 DEF Spent, Serves

\* What holds of the document and of the wire, as long as neither changes.
LEMMA DocumentKept ==
  ASSUME PanelIInv, PanelTypeOK', Moves, UNCHANGED <<doc, wire>>
  PROVE  /\ CopyStands(setting', doc'.setting) /\ CopyStands(setting', doc'.edit)
         /\ ListStands(list', listRevision', doc'.list)
         /\ QueuedOK' /\ SentOK' /\ IdsOK'
<1>1. /\ doc.setting \in Settings \union {None} /\ doc.edit \in Settings \union {None}
      /\ doc.list \in ListPages \union {None} /\ doc.queued \in Seq(Changes)
  BY DocumentShapes DEF PanelIInv, PanelTypeOK
<1>2. /\ CopyStands(setting', doc.setting) /\ CopyStands(setting', doc.edit)
      /\ ListStands(list', listRevision', doc.list)
  BY <1>1, Kept DEF PanelIInv, CopiesOK
<1>3. QueuedOK'
  <2>1. ASSUME NEW i \in DOMAIN doc.queued
        PROVE  ChangeStands(setting', list', listRevision', changes', doc.queued[i])
    BY <1>1, <2>1, Kept DEF PanelIInv, QueuedOK
  <2> QED BY <2>1 DEF QueuedOK
<1>4. SentOK'
  <2>1. ASSUME NEW r \in wire, r.change # None
        PROVE  ChangeStands(setting', list', listRevision', changes', r.change)
    <3>1. r.change \in Changes
      BY <2>1, KindsApart DEF PanelIInv, PanelTypeOK, Requests
    <3> QED BY <2>1, <3>1, Kept DEF PanelIInv, SentOK
  <2> QED BY <2>1 DEF SentOK
<1>5. IdsOK'
  BY DEF PanelIInv, IdsOK
<1> QED BY <1>2, <1>3, <1>4, <1>5

\* And of what took effect.
LEMMA EffectsKept ==
  ASSUME PanelTypeOK, PanelTypeOK', EffectsOK, Serves, wire \subseteq wire', UNCHANGED tookEffect
  PROVE  EffectsOK'
<1>1. ASSUME NEW id \in tookEffect PROVE \E r \in wire' : r.change # None /\ r.change.id = id /\ Spent(r)'
  <2>1. PICK r \in wire : r.change # None /\ r.change.id = id /\ Spent(r)
    BY <1>1 DEF EffectsOK
  <2>2. r \in Requests
    BY DEF PanelTypeOK
  <2> QED BY <2>1, <2>2, SpentKept
<1> QED BY <1>1 DEF EffectsOK

-----------------------------------------------------------------------------
(* Every step keeps the invariant.                                         *)

\* A guest, or the end of the protocol: what is on its way stays.
LEMMA GuestKeeps ==
  ASSUME PanelIInv, PanelTypeOK',
         \/ \E value \in Values : Set(value)
         \/ \E rows \in SUBSET Rows : Publish(rows)
         \/ Hide \/ TakeEvent \/ Detach \/ StopUi \/ StopLists
  PROVE  PanelIInv'
<1>0. /\ list.revision \in Nat /\ listRevision \in Nat /\ changes \in Nat
      /\ list \in [visible : BOOLEAN, revision : Nat, page : SUBSET Rows, events : Seq(Changes)]
      /\ list.visible => list.revision <= listRevision
      /\ served \in Nat
  BY DEF PanelIInv, PanelTypeOK, CopiesOK
<1>1. UNCHANGED <<serving, wire, answer, doc, changes, tookEffect>>
  BY DEF Set, Publish, Hide, TakeEvent, Detach, StopUi, StopLists, ui
<1> DEFINE Shown == \/ list' = list /\ listRevision' = listRevision
                    \/ listRevision' = listRevision /\ list'.visible = FALSE
                    \/ /\ listRevision' = listRevision /\ list'.visible = list.visible
                       /\ list'.page = list.page /\ list'.revision = list.revision
                    \/ listRevision' = listRevision + 1 /\ list'.revision = listRevision + 1
           Ran == (nonce' = nonce /\ served' = served) \/ nonce' = nonce + 1
<1>2. (setting' = setting \/ setting'.revision = setting.revision + 1) /\ Shown /\ Ran
  <2>1. CASE \E value \in Values : Set(value)
    BY <2>1 DEF Set, ui
  <2>2. CASE \E rows \in SUBSET Rows : Publish(rows)
    <3>1. PICK rows \in SUBSET Rows : Publish(rows)
      BY <2>2
    <3>2. CASE ~list.visible \/ ~Same(rows)
      <4>1. list' = [list EXCEPT !.page = rows, !.visible = TRUE, !.revision = listRevision + 1]
        BY <3>1, <3>2 DEF Publish
      <4> QED BY <1>0, <3>1, <3>2, <4>1 DEF Publish, ui
    <3>3. CASE list.visible /\ Same(rows)
      <4>1. list' = [list EXCEPT !.page = rows, !.visible = TRUE, !.revision = list.revision]
        BY <3>1, <3>3 DEF Publish
      <4>2. list'.visible = list.visible /\ list'.page = list.page /\ list'.revision = list.revision
        BY <1>0, <3>3, <4>1 DEF Same
      <4> QED BY <3>1, <3>3, <4>2 DEF Publish, ui
    <3> QED BY <3>2, <3>3
  <2>3. ASSUME list' = Hidden(list) PROVE list'.visible = FALSE
    BY <1>0, <2>3 DEF Hidden
  <2>4. CASE Hide
    BY <2>3, <2>4 DEF Hide, ui
  <2>5. CASE TakeEvent
    BY <1>0, <2>5 DEF TakeEvent, ui
  <2>6. CASE Detach
    BY <2>6 DEF Detach, NoList, ui
  <2>7. CASE StopUi
    BY <2>7 DEF StopUi, guest
  <2>8. CASE StopLists
    BY <2>3, <2>8 DEF StopLists, ui
  <2> QED BY <2>1, <2>2, <2>4, <2>5, <2>6, <2>7, <2>8
<1>3. Moves /\ (list'.visible => list'.revision <= listRevision')
  BY <1>0, <1>1, <1>2 DEF Moves
<1>4. Serves
  BY <1>0, <1>2 DEF Serves
<1>5. CopiesOK'
  <2>1. serving.kind = "lists" => serving.setting \in Settings \union {None}
    BY ExchangeShapes DEF PanelIInv, PanelTypeOK
  <2>2. answer.kind = "page" =>
          answer.setting \in Settings \union {None} /\ answer.list \in ListPages \union {None}
    BY AnswerShapes DEF PanelIInv, PanelTypeOK
  <2>3. serving.kind = "lists" => CopyStands(setting', serving.setting)
    BY <1>3, <2>1, Kept DEF PanelIInv, CopiesOK
  <2>4. answer.kind = "page" =>
          CopyStands(setting', answer.setting) /\ ListStands(list', listRevision', answer.list)
    BY <1>3, <2>2, Kept DEF PanelIInv, CopiesOK
  <2>5. /\ CopyStands(setting', doc'.setting) /\ CopyStands(setting', doc'.edit)
        /\ ListStands(list', listRevision', doc'.list)
    BY <1>1, <1>3, DocumentKept
  <2> QED BY <1>1, <1>3, <2>3, <2>4, <2>5 DEF CopiesOK
<1>6. QueuedOK' /\ SentOK' /\ IdsOK'
  BY <1>1, <1>3, DocumentKept
<1>7. EffectsOK'
  BY <1>1, <1>4, EffectsKept DEF PanelIInv
<1> QED BY <1>5, <1>6, <1>7 DEF PanelIInv

\* A request that may be served is not spent.
LEMMA Unspent ==
  ASSUME PanelTypeOK, NEW r \in wire, Refusal(r) = 200
  PROVE  ~Spent(r) /\ r.page = nonce /\ r.sequence > served /\ serving = None
<1>1. r.page \in Nat /\ r.sequence \in Nat /\ nonce \in Nat /\ served \in Nat
  BY DEF PanelTypeOK, Requests
<1>2. serving = None /\ r.page = nonce /\ ~(r.sequence <= served)
  BY DEF Refusal
<1> QED BY <1>1, <1>2 DEF Spent

\* It has not taken effect, and what takes effect is about what was seen.
LEMMA EffectIsRight ==
  ASSUME PanelIInv, NEW r \in wire, Refusal(r) = 200, Effect(r.change)
  PROVE  /\ r.change.id \notin tookEffect
         /\ r.change.kind = "set" => r.change.saw = setting.value
         /\ r.change.kind = "list" => r.change.saw = list.page /\ list.visible
<1>1. r.change \in Changes \union {None}
  BY DEF PanelIInv, PanelTypeOK, Requests
<1>2. /\ r.change # None /\ r.change \in Changes /\ r.change.kind \in {"set", "list"}
      /\ r.change.kind = "set" => r.change.revision = setting.revision
      /\ r.change.kind = "list" => r.change.revision = list.revision /\ list.visible
  BY <1>1, EffectShape
<1>3. ChangeStands(setting, list, listRevision, changes, r.change)
  BY <1>2 DEF PanelIInv, SentOK
<1>4. r.change.id \notin tookEffect
  <2>1. SUFFICES ASSUME r.change.id \in tookEffect PROVE FALSE
    OBVIOUS
  <2>2. PICK q \in wire : q.change # None /\ q.change.id = r.change.id /\ Spent(q)
    BY <2>1 DEF PanelIInv, EffectsOK
  <2>3. q = r
    BY <1>2, <2>2 DEF PanelIInv, IdsOK
  <2> QED BY <2>2, <2>3, Unspent DEF PanelIInv
<1> QED BY <1>2, <1>3, <1>4 DEF ChangeStands, ValueStands, PageStands

LEMMA ServingKeeps ==
  ASSUME PanelIInv, PanelTypeOK',
         \/ \E r \in wire : Refuse(r) \/ Exchange(r)
         \/ CopySettings \/ CopyLists
  PROVE  PanelIInv'
<1>0. /\ setting \in [value : Values, revision : Nat] /\ listRevision \in Nat /\ changes \in Nat
      /\ list \in [visible : BOOLEAN, revision : Nat, page : SUBSET Rows, events : Seq(Changes)]
      /\ served \in Nat /\ PanelTypeOK
  BY DEF PanelIInv, PanelTypeOK
<1>1. ASSUME NEW r \in wire, Exchange(r) PROVE PanelIInv'
  <2>1. r \in Requests /\ r.page \in Nat /\ r.sequence \in Nat /\ r.change \in Changes \union {None}
    BY <1>0 DEF PanelTypeOK, Requests
  <2>2. /\ Refusal(r) = 200 /\ served' = r.sequence /\ serving'.kind # "lists"
        /\ UNCHANGED <<attached, listRevision, nonce, wire, answer, doc, changes>>
    BY <1>1, ExchangeIs
  <2>3. r.page = nonce /\ r.sequence > served
    BY <1>0, <2>2, Unspent
  <2>4. /\ setting' = setting \/ setting'.revision = setting.revision + 1
        /\ list'.visible = list.visible /\ list'.page = list.page /\ list'.revision = list.revision
    <3>1. setting' = setting \/ setting'.revision = setting.revision + 1
      BY <1>1, ExchangeIs
    <3>2. list' = list \/ list' = [list EXCEPT !.events = Append(@, r.change)]
      BY <1>1, ExchangeIs
    <3> QED BY <1>0, <3>1, <3>2
  <2>5. Moves
    BY <1>0, <2>2, <2>4 DEF Moves
  <2>6. Serves
    BY <1>0, <2>1, <2>2, <2>3 DEF Serves
  <2>7. CopiesOK'
    <3>1. answer.kind = "page" =>
            answer.setting \in Settings \union {None} /\ answer.list \in ListPages \union {None}
      BY <1>0, AnswerShapes DEF PanelTypeOK
    <3>2. answer'.kind = "page" =>
            CopyStands(setting', answer'.setting) /\ ListStands(list', listRevision', answer'.list)
      BY <1>0, <2>2, <2>5, <3>1, Kept DEF PanelIInv, CopiesOK
    <3>3. list'.visible => list'.revision <= listRevision'
      BY <2>2, <2>4 DEF PanelIInv, CopiesOK
    <3>4. /\ CopyStands(setting', doc'.setting) /\ CopyStands(setting', doc'.edit)
          /\ ListStands(list', listRevision', doc'.list)
      BY <2>2, <2>5, DocumentKept
    <3> QED BY <2>2, <3>2, <3>3, <3>4 DEF CopiesOK
  <2>8. QueuedOK' /\ SentOK' /\ IdsOK'
    BY <2>2, <2>5, DocumentKept
  <2>9. Spent(r)'
    BY <2>1, <2>2, <2>3 DEF Spent
  <2>10. EffectsOK'
    <3>1. ASSUME NEW id \in tookEffect'
          PROVE  \E q \in wire' : q.change # None /\ q.change.id = id /\ Spent(q)'
      <4>1. CASE id \in tookEffect
        <5>1. PICK q \in wire : q.change # None /\ q.change.id = id /\ Spent(q)
          BY <4>1 DEF PanelIInv, EffectsOK
        <5>2. q \in Requests
          BY <1>0 DEF PanelTypeOK
        <5> QED BY <1>0, <2>2, <2>6, <5>1, <5>2, SpentKept
      <4>2. CASE id \notin tookEffect
        <5>1. Effect(r.change) /\ id = r.change.id
          BY <1>1, <3>1, <4>2, ExchangeIs
        <5>2. r.change # None
          BY <2>1, <5>1, EffectShape
        <5> QED BY <2>2, <2>9, <5>1, <5>2
      <4> QED BY <4>1, <4>2
    <3> QED BY <3>1 DEF EffectsOK
  <2> QED BY <2>7, <2>8, <2>10 DEF PanelIInv
<1>2. ASSUME UNCHANGED <<guest, uiOn, nonce, served, wire, doc, changes, tookEffect>>,
             serving'.kind = "lists" => CopyStands(setting, serving'.setting),
             answer'.kind = "page" =>
               CopyStands(setting, answer'.setting) /\ ListStands(list, listRevision, answer'.list)
      PROVE  PanelIInv'
  <2>1. UNCHANGED <<setting, list, listRevision>>
    BY <1>2 DEF guest
  <2>2. Moves
    BY <1>0, <1>2, <2>1 DEF Moves
  <2>3. Serves
    BY <1>0, <1>2 DEF Serves
  <2>4. CopiesOK'
    BY <1>2, <2>1 DEF CopiesOK, PanelIInv
  <2>5. QueuedOK' /\ SentOK' /\ IdsOK'
    BY <1>2, <2>2, DocumentKept
  <2>6. EffectsOK'
    BY <1>0, <1>2, <2>3, EffectsKept DEF PanelIInv
  <2> QED BY <2>4, <2>5, <2>6 DEF PanelIInv
<1>3. ASSUME NEW r \in wire, Refuse(r) PROVE PanelIInv'
  <2>1. answer' = [kind |-> "refusal", code |-> Refusal(r)] \/ answer' = answer
    BY <1>3 DEF Refuse, Answered
  <2>2. answer'.kind = "page" => answer' = answer
    BY <2>1
  <2>3. UNCHANGED <<guest, uiOn, nonce, served, serving, wire, doc, changes, tookEffect>>
    BY <1>3 DEF Refuse, ui
  <2> QED BY <1>2, <2>2, <2>3 DEF PanelIInv, CopiesOK
<1>4. CASE CopySettings
  <2>1. CopyStands(setting, serving'.setting)
    <3>1. serving'.setting = None \/ serving'.setting = [kind |-> "setting", value |-> setting.value,
                                                        revision |-> setting.revision]
      BY <1>4 DEF CopySettings
    <3> QED BY <1>0, <3>1 DEF CopyStands, ValueStands
  <2>2. UNCHANGED <<guest, uiOn, nonce, served, wire, answer, doc, changes, tookEffect>>
    BY <1>4 DEF CopySettings
  <2> QED BY <1>2, <2>1, <2>2 DEF PanelIInv, CopiesOK
<1>5. CASE CopyLists
  <2>1. serving'.kind # "lists"
    BY <1>5, KindsApart DEF CopyLists
  <2>2. PICK l : l = IF listsOn /\ attached /\ list.visible
                     THEN [kind |-> "list", revision |-> list.revision, page |-> list.page] ELSE None
    OBVIOUS
  <2>3. ListStands(list, listRevision, l)
    <3>1. list.visible => list.revision <= listRevision
      BY DEF PanelIInv, CopiesOK
    <3>2. l = None \/ (list.visible /\ l.revision = list.revision /\ l.page = list.page)
      BY <2>2
    <3> QED BY <1>0, <3>1, <3>2 DEF ListStands, PageStands
  <2>4. answer' = answer \/ answer' = [kind |-> "page", setting |-> serving.setting, list |-> l]
    BY <1>5, <2>2 DEF CopyLists, Answered
  <2>5. CopyStands(setting, serving.setting)
    BY <1>5 DEF CopyLists, PanelIInv, CopiesOK
  <2>6. answer'.kind = "page" =>
          CopyStands(setting, answer'.setting) /\ ListStands(list, listRevision, answer'.list)
    BY <2>3, <2>4, <2>5 DEF PanelIInv, CopiesOK
  <2>7. UNCHANGED <<guest, uiOn, nonce, served, wire, doc, changes, tookEffect>>
    BY <1>5 DEF CopyLists
  <2> QED BY <1>2, <2>1, <2>6, <2>7
<1> QED BY <1>1, <1>3, <1>4, <1>5


\* What the player submits has a number of its own.
LEMMA SubmitKeeps ==
  ASSUME PanelIInv, PanelTypeOK', NEW c \in Changes, NEW edit \in Settings \union {None},
         CopyStands(setting, edit), c.id = changes + 1,
         ChangeStands(setting, list, listRevision, changes + 1, c), Submitted(c, edit)
  PROVE  PanelIInv'
<1>1. /\ doc \in Documents /\ doc.queued \in Seq(Changes) /\ changes \in Nat /\ PanelTypeOK
      /\ served \in Nat
  BY DocumentShapes DEF PanelIInv, PanelTypeOK
<1>2. PICK q : q = IF Len(doc.queued) < MaxQueued THEN Append(doc.queued, c) ELSE doc.queued
  OBVIOUS
<1>3. doc' = [doc EXCEPT !.edit = edit, !.queued = q]
  BY <1>2 DEF Submitted
<1>4. doc'.edit = edit /\ doc'.queued = q /\ doc'.setting = doc.setting /\ doc'.list = doc.list
  BY <1>1, <1>3 DEF Documents
<1>5. changes' = changes + 1 /\ UNCHANGED <<guest, ui, wire, answer, tookEffect>>
  BY DEF Submitted
<1>6. UNCHANGED <<setting, list, listRevision, nonce, served, serving>>
  BY <1>5 DEF guest, ui
<1>7. Moves
  <2>1. changes <= changes'
    BY <1>1, <1>5
  <2> QED BY <1>6, <2>1, Zenon DEF Moves
<1>8. CopiesOK'
  BY <1>4, <1>5, <1>6 DEF CopiesOK, PanelIInv
<1>9. \A i \in DOMAIN q : q[i] = c \/ (i \in DOMAIN doc.queued /\ q[i] = doc.queued[i])
  BY <1>1, <1>2
<1>10. \A i \in DOMAIN q : i \notin DOMAIN doc.queued => \A j \in DOMAIN q : j \notin DOMAIN doc.queued => i = j
  BY <1>1, <1>2
<1>11. \A i \in DOMAIN doc.queued : /\ i \in DOMAIN q /\ q[i] = doc.queued[i]
                                   /\ doc.queued[i] \in Changes /\ doc.queued[i].id <= changes
  BY <1>1, <1>2 DEF PanelIInv, QueuedOK, ChangeStands
<1>12. \A r \in wire : r.change # None => r.change \in Changes /\ r.change.id <= changes
  BY <1>1, KindsApart DEF PanelIInv, SentOK, ChangeStands, PanelTypeOK, Requests
<1>13. \A d \in Changes : d.id \in Nat
  BY ChangeShapes
<1>14. QueuedOK'
  <2>1. ASSUME NEW i \in DOMAIN q PROVE ChangeStands(setting, list, listRevision, changes', q[i])
    <3>1. CASE q[i] = c
      BY <1>5, <3>1
    <3>2. CASE i \in DOMAIN doc.queued /\ q[i] = doc.queued[i]
      <4>1. ChangeStands(setting', list', listRevision', changes', doc.queued[i])
        BY <1>1, <1>7, <1>11, <3>2, Kept DEF PanelIInv, QueuedOK
      <4> QED BY <1>6, <3>2, <4>1
    <3> QED BY <1>9, <3>1, <3>2
  <2> QED BY <1>4, <1>6, <2>1 DEF QueuedOK
<1>15. SentOK'
  <2>1. ASSUME NEW r \in wire, r.change # None
        PROVE  ChangeStands(setting', list', listRevision', changes', r.change)
    BY <1>1, <1>7, <1>12, <2>1, Kept DEF PanelIInv, SentOK
  <2> QED BY <1>5, <2>1 DEF SentOK
<1>16. IdsOK'
  <2>1. ASSUME NEW i \in DOMAIN q, NEW j \in DOMAIN q, q[i].id = q[j].id PROVE i = j
    <3>1. CASE i \in DOMAIN doc.queued /\ j \in DOMAIN doc.queued
      BY <1>11, <2>1, <3>1 DEF PanelIInv, IdsOK
    <3>2. CASE i \notin DOMAIN doc.queued /\ j \notin DOMAIN doc.queued
      BY <1>10, <3>2
    <3>3. \A k \in DOMAIN q : k \notin DOMAIN doc.queued => q[k].id = changes + 1
      BY <1>9
    <3>4. \A k \in DOMAIN doc.queued : q[k].id # changes + 1
      BY <1>1, <1>11, <1>13
    <3> QED BY <2>1, <3>1, <3>2, <3>3, <3>4
  <2>2. ASSUME NEW r \in wire, r.change # None, NEW i \in DOMAIN q PROVE q[i].id # r.change.id
    <3>1. CASE i \in DOMAIN doc.queued
      BY <1>11, <2>2, <3>1 DEF PanelIInv, IdsOK
    <3>2. CASE i \notin DOMAIN doc.queued
      BY <1>1, <1>9, <1>12, <1>13, <2>2, <3>2
    <3> QED BY <3>1, <3>2
  <2>3. \A r, p \in wire : r.change # None /\ p.change # None /\ r.change.id = p.change.id => r = p
    BY DEF PanelIInv, IdsOK
  <2> QED BY <1>4, <1>5, <2>1, <2>2, <2>3 DEF IdsOK
<1>17. EffectsOK'
  <2>1. Serves
    BY <1>1, <1>6 DEF Serves
  <2> QED BY <1>1, <1>5, <2>1, EffectsKept DEF PanelIInv
<1> QED BY <1>8, <1>14, <1>15, <1>16, <1>17 DEF PanelIInv

\* The document changes what it shows, or forgets what it queued.
LEMMA ShowKeeps ==
  ASSUME PanelIInv, PanelTypeOK', UNCHANGED <<guest, serving, wire, changes, tookEffect>>, Serves,
         doc'.queued = doc.queued \/ doc'.queued = <<>>, answer' = answer \/ answer' = None,
         CopyStands(setting, doc'.setting), CopyStands(setting, doc'.edit),
         ListStands(list, listRevision, doc'.list)
  PROVE  PanelIInv'
<1>1. UNCHANGED <<setting, list, listRevision>> /\ PanelTypeOK
  BY DEF guest, PanelIInv
<1>2. None.kind # "page"
  BY KindsApart
<1>3. CopiesOK'
  BY <1>1, <1>2 DEF CopiesOK, PanelIInv
<1>4. DOMAIN doc'.queued \subseteq DOMAIN doc.queued /\ \A i \in DOMAIN doc'.queued : doc'.queued[i] = doc.queued[i]
  OBVIOUS
<1>5. QueuedOK' /\ SentOK'
  BY <1>1, <1>4 DEF PanelIInv, QueuedOK, SentOK
<1>6. IdsOK'
  BY <1>4 DEF PanelIInv, IdsOK
<1>7. EffectsOK'
  BY <1>1, EffectsKept DEF PanelIInv
<1> QED BY <1>3, <1>5, <1>6, <1>7 DEF PanelIInv


\* A poll takes the first change of the queue to the wire.
LEMMA PollKeeps ==
  ASSUME PanelIInv, PanelTypeOK', Poll
  PROVE  PanelIInv'
<1>1. /\ doc \in Documents /\ doc.queued \in Seq(Changes) /\ PanelTypeOK
      /\ served \in Nat /\ changes \in Nat
  BY DocumentShapes DEF PanelIInv, PanelTypeOK
<1>2. PICK c : c = IF doc.queued = <<>> THEN None ELSE Head(doc.queued)
  OBVIOUS
<1>3. PICK q : q = IF doc.queued = <<>> THEN doc.queued ELSE Tail(doc.queued)
  OBVIOUS
<1>4. PICK sent : sent = [page |-> doc.page, sequence |-> doc.sequence + 1, change |-> c]
  OBVIOUS
<1>5. doc' = [doc EXCEPT !.sequence = doc.sequence + 1, !.waiting = TRUE, !.writing = c, !.queued = q]
  BY <1>2, <1>3 DEF Poll
<1>6. doc'.edit = doc.edit /\ doc'.queued = q /\ doc'.setting = doc.setting /\ doc'.list = doc.list
  BY <1>1, <1>5 DEF Documents
<1>7. /\ wire' = wire \union {sent} /\ sent.change = c /\ answer' = None
      /\ UNCHANGED <<guest, ui, changes, tookEffect>>
  BY <1>2, <1>4 DEF Poll
<1>8. UNCHANGED <<setting, list, listRevision, nonce, served, serving>>
  BY <1>7 DEF guest, ui
<1>9. CopiesOK'
  <2>1. answer'.kind # "page"
    BY <1>7, KindsApart
  <2> QED BY <1>6, <1>8, <2>1 DEF CopiesOK, PanelIInv
<1>10. \A i \in DOMAIN q : i + 1 \in DOMAIN doc.queued /\ q[i] = doc.queued[i + 1]
  BY <1>1, <1>3
<1>11. c # None => 1 \in DOMAIN doc.queued /\ c = doc.queued[1]
  BY <1>1, <1>2
<1>12. QueuedOK'
  BY <1>6, <1>7, <1>8, <1>10 DEF QueuedOK, PanelIInv
<1>13. SentOK'
  BY <1>7, <1>8, <1>11 DEF SentOK, QueuedOK, PanelIInv
<1>14. IdsOK'
  <2>1. \A i, j \in DOMAIN q : q[i].id = q[j].id => i = j
    <3>1. ASSUME NEW i \in DOMAIN q, NEW j \in DOMAIN q, q[i].id = q[j].id PROVE i = j
      <4>1. i \in Nat /\ j \in Nat
        BY <1>1, <1>3
      <4>2. i + 1 = j + 1
        BY <1>10, <3>1 DEF PanelIInv, IdsOK
      <4> QED BY <4>1, <4>2
    <3> QED BY <3>1
  <2>2. ASSUME c # None, NEW i \in DOMAIN q PROVE q[i].id # c.id
    <3>1. i + 1 # 1
      BY <1>1, <1>3
    <3> QED BY <1>10, <1>11, <2>2, <3>1 DEF PanelIInv, IdsOK
  <2>3. \A r \in wire : r.change # None => \A i \in DOMAIN q : q[i].id # r.change.id
    BY <1>10 DEF PanelIInv, IdsOK
  <2>4. \A r \in wire : r.change # None /\ c # None => c.id # r.change.id
    BY <1>11 DEF PanelIInv, IdsOK
  <2>5. \A r, p \in wire : r.change # None /\ p.change # None /\ r.change.id = p.change.id => r = p
    BY DEF PanelIInv, IdsOK
  <2> QED BY <1>6, <1>7, <2>1, <2>2, <2>3, <2>4, <2>5 DEF IdsOK
<1>15. EffectsOK'
  <2>1. Serves
    BY <1>1, <1>8 DEF Serves
  <2> QED BY <1>1, <1>7, <2>1, EffectsKept DEF PanelIInv
<1> QED BY <1>9, <1>12, <1>13, <1>14, <1>15 DEF PanelIInv

LEMMA PageKeeps ==
  ASSUME PanelIInv, PanelTypeOK',
         \/ \E value \in Values : EndEdit(value)
         \/ \E row \in Rows : Click(row)
         \/ Open \/ Enter \/ Leave \/ BeginEdit \/ Poll \/ GiveUp \/ Receive
  PROVE  PanelIInv'
<1>0. /\ doc \in Documents /\ PanelTypeOK /\ served \in Nat /\ changes \in Nat
      /\ CopyStands(setting, doc.setting) /\ CopyStands(setting, doc.edit)
      /\ ListStands(list, listRevision, doc.list)
      /\ CopyStands(setting, None) /\ ListStands(list, listRevision, None)
  BY DEF PanelIInv, PanelTypeOK, CopiesOK, CopyStands, ListStands
<1>1. ASSUME NEW value \in Values, EndEdit(value) PROVE PanelIInv'
  <2>1. doc.edit # None /\ doc.edit \in Settings
    BY <1>0, <1>1, DocumentShapes, KindsApart DEF EndEdit
  <2>2. doc.edit.revision \in Nat /\ doc.edit.value \in Values
    BY <2>1 DEF Settings
  <2>3. PICK c : c = [kind |-> "set", revision |-> doc.edit.revision, value |-> value,
                      saw |-> doc.edit.value, id |-> changes + 1]
    OBVIOUS
  <2>4. c \in Changes /\ c.id = changes + 1
    BY <1>0, <2>2, <2>3 DEF Changes, Edits
  <2>5. ChangeStands(setting, list, listRevision, changes + 1, c)
    BY <1>0, <2>1, <2>3 DEF ChangeStands, CopyStands
  <2>6. Submitted(c, None)
    BY <1>1, <2>3 DEF EndEdit, EditRevision
  <2> QED BY <1>0, <2>4, <2>5, <2>6, SubmitKeeps
<1>2. ASSUME NEW row \in Rows, Click(row) PROVE PanelIInv'
  <2>1. doc.list # None /\ doc.list \in ListPages /\ doc.edit \in Settings \union {None}
    BY <1>0, <1>2, DocumentShapes, KindsApart DEF Click
  <2>2. doc.list.revision \in Nat /\ doc.list.page \in SUBSET Rows
    BY <2>1 DEF ListPages
  <2>3. PICK c : c = [kind |-> "list", revision |-> doc.list.revision, row |-> row,
                      saw |-> doc.list.page, id |-> changes + 1]
    OBVIOUS
  <2>4. c \in Changes /\ c.id = changes + 1
    BY <1>0, <2>2, <2>3 DEF Changes, Clicks
  <2>5. ChangeStands(setting, list, listRevision, changes + 1, c)
    BY <1>0, <2>1, <2>3 DEF ChangeStands, ListStands
  <2>6. Submitted(c, doc.edit)
    BY <1>2, <2>3 DEF Click
  <2> QED BY <1>0, <2>1, <2>4, <2>5, <2>6, SubmitKeeps
<1>3. CASE Open
  <2>1. /\ doc'.queued = <<>> /\ doc'.edit = None /\ doc'.setting = None /\ doc'.list = None
        /\ nonce' = nonce + 1 /\ answer' = None
        /\ UNCHANGED <<guest, serving, wire, changes, tookEffect>>
    <3>1. nonce + 1 \in Nat
      BY <1>0 DEF PanelTypeOK
    <3> QED BY <1>3, <3>1, FreshShape DEF Open
  <2> QED BY <1>0, <2>1, ShowKeeps DEF Serves
<1>4. ASSUME UNCHANGED <<guest, ui, wire, changes, tookEffect>>,
             doc'.queued = doc.queued \/ doc'.queued = <<>>, answer' = answer \/ answer' = None,
             CopyStands(setting, doc'.setting), CopyStands(setting, doc'.edit),
             ListStands(list, listRevision, doc'.list)
      PROVE  PanelIInv'
  <2>1. UNCHANGED serving /\ Serves
    BY <1>0, <1>4 DEF ui, Serves
  <2> QED BY <1>4, <2>1, ShowKeeps
<1>5. CASE Enter
  <2>1. /\ doc'.queued = doc.queued /\ doc'.edit = doc.edit /\ doc'.setting = doc.setting
        /\ doc'.list = doc.list
    BY <1>0, <1>5 DEF Enter, Documents
  <2> QED BY <1>0, <1>4, <1>5, <2>1 DEF Enter
<1>6. /\ Left(doc) \in Documents /\ Left(doc).queued = doc.queued /\ Left(doc).edit = None
      /\ Left(doc).setting = doc.setting /\ Left(doc).list = doc.list
  BY <1>0 DEF Left, Documents
<1>7. CASE Leave
  BY <1>0, <1>4, <1>6, <1>7 DEF Leave
<1>8. CASE BeginEdit
  <2>1. /\ doc'.queued = doc.queued /\ doc'.edit = doc.setting /\ doc'.setting = doc.setting
        /\ doc'.list = doc.list
    BY <1>0, <1>8 DEF BeginEdit, Documents
  <2> QED BY <1>0, <1>4, <1>8, <2>1 DEF BeginEdit
<1>9. CASE GiveUp
  <2>1. /\ doc'.queued = <<>> /\ doc'.edit = doc.edit /\ doc'.setting = doc.setting
        /\ doc'.list = doc.list
    BY <1>0, <1>9 DEF GiveUp, Documents
  <2> QED BY <1>0, <1>4, <1>9, <2>1 DEF GiveUp
<1>10. CASE Receive
  <2>1. UNCHANGED <<guest, ui, wire, changes, tookEffect>> /\ answer' = None
    BY <1>10 DEF Receive
  <2>2. CASE answer.kind = "refusal"
    <3>1. doc' = [Left(doc) EXCEPT !.stopped = TRUE, !.waiting = FALSE, !.queued = <<>>]
      BY <1>10, <2>2 DEF Receive
    <3>2. /\ doc'.queued = <<>> /\ doc'.edit = None /\ doc'.setting = doc.setting
          /\ doc'.list = doc.list
      BY <1>6, <3>1 DEF Documents
    <3> QED BY <1>0, <1>4, <2>1, <3>2
  <2>3. CASE answer.kind # "refusal"
    <3>1. answer.kind = "page"
      BY <1>0, <1>10, <2>3, KindsApart, AnswerShapes DEF Receive, PanelTypeOK
    <3>2. CopyStands(setting, answer.setting) /\ ListStands(list, listRevision, answer.list)
      BY <3>1 DEF PanelIInv, CopiesOK
    <3>3. PICK edit : edit = IF answer.setting = None THEN None ELSE doc.edit
      OBVIOUS
    <3>4. doc' = [doc EXCEPT !.waiting = FALSE, !.writing = None, !.loaded = TRUE,
                             !.setting = answer.setting, !.list = answer.list, !.edit = edit]
      BY <1>10, <2>3, <3>3 DEF Receive
    <3>5. /\ doc'.queued = doc.queued /\ doc'.edit = edit /\ doc'.setting = answer.setting
          /\ doc'.list = answer.list
      BY <1>0, <3>4 DEF Documents
    <3>6. CopyStands(setting, edit)
      BY <1>0, <3>3
    <3> QED BY <1>4, <2>1, <3>2, <3>5, <3>6
  <2> QED BY <2>2, <2>3
<1> QED BY <1>1, <1>2, <1>3, <1>5, <1>7, <1>8, <1>9, <1>10, PollKeeps

-----------------------------------------------------------------------------
(* The theorems.                                                           *)

LEMMA PanelInitOK == PanelInit => PanelIInv
<1> SUFFICES ASSUME PanelInit PROVE PanelIInv
  OBVIOUS
<1>1. PanelTypeOK
  BY PanelInitTypes
<1>2. /\ doc.queued = <<>> /\ doc.edit = None /\ doc.setting = None /\ doc.list = None
  BY FreshShape DEF PanelInit
<1>3. wire = {} /\ tookEffect = {} /\ serving = None /\ answer = None /\ list.visible = FALSE
  BY DEF PanelInit, NoList
<1>4. CopiesOK
  BY <1>2, <1>3, KindsApart DEF CopiesOK, CopyStands, ListStands
<1>5. QueuedOK /\ SentOK /\ IdsOK /\ EffectsOK
  BY <1>2, <1>3 DEF QueuedOK, SentOK, IdsOK, EffectsOK
<1> QED BY <1>1, <1>4, <1>5 DEF PanelIInv

LEMMA PanelNextOK == PanelIInv /\ [PanelNext]_panelVars => PanelIInv'
<1> SUFFICES ASSUME PanelIInv, [PanelNext]_panelVars PROVE PanelIInv'
  OBVIOUS
<1>1. PanelTypeOK'
  BY PanelTypes DEF PanelIInv
<1>2. CASE UNCHANGED panelVars
  <2>1. CopiesOK' /\ QueuedOK' /\ SentOK'
    BY <1>2 DEF PanelIInv, CopiesOK, QueuedOK, SentOK, panelVars, guest, ui
  <2>2. IdsOK' /\ EffectsOK'
    BY <1>2 DEF PanelIInv, IdsOK, EffectsOK, Spent, panelVars, guest, ui
  <2> QED BY <1>1, <2>1, <2>2 DEF PanelIInv
<1>3. CASE PanelNext
  BY <1>1, <1>3, GuestKeeps, ServingKeeps, PageKeeps DEF PanelNext
<1> QED BY <1>2, <1>3

\* The panel's copies, changes and answers have their shapes, and what is on its way was
\* seen at a revision that is not yet to come.
THEOREM PanelInvariant == PanelSpec => []PanelIInv
<1> QED BY PanelInitOK, PanelNextOK, PTL DEF PanelSpec

\* What the player does in the panel takes effect at most once, and only on the value or
\* the list he saw (settings_ui.cpp, mod_settings.cpp, mod_lists.cpp).
THEOREM ActsRight == PanelSpec => ActsOnWhatWasSeen
<1> DEFINE A == serving = None /\ serving' # None =>
                  LET c == serving'.request.change IN
                  /\ setting' # setting => c.saw = setting.value /\ c.id \notin tookEffect
                  /\ list' # list => c.saw = list.page /\ list.visible /\ c.id \notin tookEffect
<1>1. PanelIInv /\ [PanelNext]_panelVars => [A]_panelVars
  <2> SUFFICES ASSUME PanelIInv, PanelNext, serving = None, serving' # None PROVE A
    BY DEF A
  <2>1. PICK r \in wire : Exchange(r)
    BY KindsApart DEF PanelNext, Set, EndEdit, Publish, Hide, TakeEvent, Detach, StopUi, StopLists, Refuse,
       CopySettings, CopyLists, Open, Enter, Leave, BeginEdit, Poll, GiveUp, Receive, Click, Submitted, ui
  <2>2. Refusal(r) = 200 /\ serving'.request = r
    BY <2>1, ExchangeIs
  <2>3. setting' # setting => Effect(r.change) /\ r.change.kind = "set"
    BY <2>1, ExchangeIs
  <2>4. list' # list => Effect(r.change) /\ r.change.kind = "list"
    BY <2>1, ExchangeIs
  <2> QED BY <2>2, <2>3, <2>4, EffectIsRight
<1> QED BY <1>1, PanelInvariant, PTL DEF PanelSpec, ActsOnWhatWasSeen

-----------------------------------------------------------------------------
(* MediaSkip.                                                             *)

\* The movie that plays has a number and an address.
MovieOK == movie.plays => movie.number # 0 /\ movie.address # NoAddress

\* A state that can be skipped was sampled late in its movie; a later movie is younger than
\* the sample, or the sample is too old to be continued.
SampleOK ==
  /\ sampledOf <= movie.number
  /\ state.skippable => state.elapsed > SkipAfter /\ state.generation # 0
  /\ state.generation # 0 /\ sampledOf # movie.number =>
       movie.elapsed <= sampleAge \/ sampleAge > Freshness
  /\ state.generation <= generation
  /\ retired # NoAddress => state = Nothing

\* What a guest read of the present generation is what the state was sampled of.
SeenOK == \A o \in Guests :
  /\ seen[o].generation <= generation
  /\ seen[o].movie # 0 => seen[o].generation # 0
  /\ seen[o].movie # 0 /\ seen[o].generation = state.generation =>
       state.skippable /\ sampledOf = seen[o].movie

\* And so is what a guest asked to skip.
WantedOK == skipper # NoGuest /\ wanted # 0 => state.skippable /\ sampledOf = wanted

\* A request for the movie that plays is no older than the sample of the site that acts,
\* or that site has yet to ask in this tick, and will not be throttled.
Pressing == skipper # NoGuest /\ enabled /\ movie.plays /\ movie.number = wanted /\ ~missed
PromptOK ==
  Pressing =>
    \/ requestAge <= clocks["loop"].age
    \/ "loop" \notin queried /\ requestAge <= Throttle + 1 /\ clocks["loop"].age = Throttle

MediaIInv == MediaTypeOK /\ MovieOK /\ SampleOK /\ SeenOK /\ WantedOK /\ PromptOK
-----------------------------------------------------------------------------
(* Shapes.                                                                 *)

Movies == [number : 0..MaxMovies, address : Addresses \union {NoAddress},
           name : Names \union {"none"}, elapsed : 0..(SkipAfter + 1), plays : BOOLEAN]
States == [generation : 0..MaxGeneration, elapsed : 0..(SkipAfter + 1), skippable : BOOLEAN,
           name : Names \union {"none"}]
Fields == [state : States, owner : Guests \union {NoGuest},
           identity : Addresses \union {NoAddress}, retired : Addresses \union {NoAddress},
           generation : 0..MaxGeneration, sampleAge : 0..(Freshness + 1), skips : BOOLEAN]

LEMMA MediaNumbers ==
  /\ Throttle \in Nat /\ Freshness \in Nat /\ RequestLimit \in Nat /\ SkipAfter \in Nat
  /\ MaxGeneration \in Nat /\ MaxMovies \in Nat /\ Throttle < Freshness /\ Freshness <= SkipAfter
  BY MediaAssumption

LEMMA NothingShape == Nothing \in States /\ Nothing.generation = 0 /\ Nothing.skippable = FALSE
                      /\ Nothing.name = "none" /\ Nothing.elapsed = 0
  BY MediaNumbers DEF Nothing, States

LEMMA MediaShapes ==
  ASSUME MediaTypeOK
  PROVE  /\ movie \in Movies /\ state \in States
         /\ movie.number \in Nat /\ movie.elapsed \in 0..(SkipAfter + 1)
         /\ movie.name \in Names \union {"none"} /\ movie.address \in Addresses \union {NoAddress}
         /\ state.generation \in Nat /\ state.elapsed \in Nat /\ state.skippable \in BOOLEAN
         /\ generation \in 0..MaxGeneration /\ sampleAge \in 0..(Freshness + 1)
         /\ requestAge \in 0..(RequestLimit + 1) /\ sampledOf \in Nat /\ wanted \in Nat
         /\ \A o \in Guests : seen[o].generation \in Nat /\ seen[o].movie \in Nat
         /\ clocks["loop"].age \in 0..Throttle
  BY MediaNumbers DEF MediaTypeOK, Movies, States, Sites

LEMMA ServiceShape ==
  ASSUME MediaTypeOK
  PROVE  /\ Service \in Fields /\ Service.state = state /\ Service.owner = skipper
         /\ Service.identity = identity /\ Service.retired = retired
         /\ Service.generation = generation /\ Service.sampleAge = sampleAge /\ Service.skips = FALSE
  BY DEF Service, MediaTypeOK, Fields, States

-----------------------------------------------------------------------------
(* An observation.                                                         *)

\* What the observation of a movie makes of the service: it is not looked at, nothing is
\* known, a new playback, the same one, or one that is skipped.
Ignored(a) == retired = movie.address /\ a = Service
Dropped(a) ==
  /\ a.state = Nothing /\ a.owner = NoGuest /\ a.generation = generation /\ a.skips = FALSE
  /\ a.retired \in {retired, NoAddress}
Begun(a) ==
  /\ a.owner = NoGuest /\ a.skips = FALSE /\ a.sampleAge = 0
  /\ a.generation = generation + 1 /\ a.state.generation = generation + 1
  /\ a.state.elapsed = movie.elapsed /\ a.state.skippable = (movie.elapsed > SkipAfter)
  /\ a.retired = NoAddress \/ (a.retired = retired /\ state.generation # 0)
GoesOn ==
  /\ state.generation # 0 /\ sampleAge <= Freshness /\ state.elapsed <= movie.elapsed
Continued(a, site) ==
  /\ GoesOn /\ a.skips = FALSE /\ a.sampleAge = 0
  /\ a.owner \in {skipper, NoGuest} /\ a.generation = generation
  /\ a.state.generation = state.generation /\ a.retired = retired
  /\ a.state.elapsed = movie.elapsed /\ a.state.skippable = (movie.elapsed > SkipAfter)
  /\ site = "loop" /\ a.state.skippable => a.owner = NoGuest
Skipped(a, site) ==
  /\ GoesOn /\ site = "loop" /\ skipper # NoGuest /\ movie.elapsed > SkipAfter
  /\ a.skips = TRUE /\ a.state = Nothing /\ a.owner = NoGuest /\ a.generation = generation
  /\ a.retired = movie.address

LEMMA RenewedShape ==
  ASSUME NEW s \in Fields, s.generation < MaxGeneration, movie.address \in Addresses \union {NoAddress}
  PROVE  LET n == Renewed(s) IN
         /\ n \in Fields /\ n.owner = NoGuest /\ n.retired = NoAddress /\ n.skips = s.skips
         /\ n.generation = s.generation + 1 /\ n.state.generation = s.generation + 1
         /\ n.state.name = "none"
<1>1. s.generation \in Nat /\ s.generation + 1 \in 0..MaxGeneration
  BY MediaNumbers DEF Fields
<1>2. PICK g \in 0..MaxGeneration : g = s.generation + 1
  BY <1>1
<1>3. PICK m : m = [Nothing EXCEPT !.generation = g]
  OBVIOUS
<1>4. m \in States /\ m.generation = g /\ m.name = "none"
  BY <1>3, NothingShape DEF States
<1>5. Renewed(s) = [s EXCEPT !.state = m, !.owner = NoGuest, !.retired = NoAddress,
                            !.generation = g, !.identity = movie.address]
  BY <1>2, <1>3 DEF Renewed
<1>6. PICK n : n = Renewed(s)
  OBVIOUS
<1>7. /\ n \in Fields /\ n.owner = NoGuest /\ n.retired = NoAddress /\ n.skips = s.skips
      /\ n.generation = g /\ n.state = m
  BY <1>4, <1>5, <1>6 DEF Fields
<1> QED BY <1>2, <1>4, <1>6, <1>7

LEMMA RestartedShape ==
  ASSUME NEW s \in Fields, s.generation < MaxGeneration
  PROVE  LET n == Restarted(s) IN
         /\ n \in Fields /\ n.owner = NoGuest /\ n.retired = s.retired /\ n.skips = s.skips
         /\ n.generation = s.generation + 1 /\ n.state.generation = s.generation + 1
<1>1. s.generation \in Nat /\ s.generation + 1 \in 0..MaxGeneration /\ s.state \in States
  BY MediaNumbers DEF Fields
<1>2. PICK g \in 0..MaxGeneration : g = s.generation + 1
  BY <1>1
<1>3. PICK m : m = [s.state EXCEPT !.generation = g]
  OBVIOUS
<1>4. m \in States /\ m.generation = g
  BY <1>1, <1>3 DEF States
<1>5. Restarted(s) = [s EXCEPT !.owner = NoGuest, !.generation = g, !.state = m]
  BY <1>2, <1>3 DEF Restarted
<1> QED BY <1>2, <1>4, <1>5 DEF Fields

LEMMA SampledShape ==
  ASSUME NEW s \in Fields, NEW early \in BOOLEAN, movie \in Movies
  PROVE  LET n == Sampled(s, early) IN
         /\ n \in Fields /\ n.retired = s.retired /\ n.skips = s.skips /\ n.sampleAge = 0
         /\ n.generation = s.generation /\ n.state.generation = s.state.generation
         /\ n.state.elapsed = movie.elapsed /\ n.state.skippable = (movie.elapsed > SkipAfter)
         /\ n.owner \in {s.owner, NoGuest}
<1>1. PICK m : m = [generation |-> s.state.generation, elapsed |-> movie.elapsed,
                    skippable |-> movie.elapsed > SkipAfter, name |-> movie.name]
  OBVIOUS
<1>2. (movie.elapsed > SkipAfter) \in BOOLEAN
  OBVIOUS
<1>3. /\ s.state.generation \in 0..MaxGeneration /\ movie.elapsed \in 0..(SkipAfter + 1)
      /\ movie.name \in Names \union {"none"} /\ s.owner \in Guests \union {NoGuest}
  BY DEF Fields, States, Movies
<1>4. m \in States
  BY <1>1, <1>2, <1>3 DEF States
<1>5. PICK o : o = IF requestAge > RequestLimit \/ early THEN NoGuest ELSE s.owner
  OBVIOUS
<1>6. Sampled(s, early) = [s EXCEPT !.state = m, !.sampleAge = 0, !.owner = o]
  BY <1>1, <1>5 DEF Sampled
<1>7. 0 \in 0..(Freshness + 1) /\ o \in {s.owner, NoGuest}
  BY <1>5, MediaNumbers
<1>8. PICK n : n = Sampled(s, early)
  OBVIOUS
<1>9. /\ n \in Fields /\ n.retired = s.retired /\ n.skips = s.skips /\ n.sampleAge = 0
      /\ n.generation = s.generation /\ n.state = m /\ n.owner = o
  BY <1>3, <1>4, <1>6, <1>7, <1>8 DEF Fields
<1>10. /\ m.generation = s.state.generation /\ m.elapsed = movie.elapsed
       /\ m.skippable = (movie.elapsed > SkipAfter)
  BY <1>1
<1> QED BY <1>7, <1>8, <1>9, <1>10

LEMMA ConsumedShape ==
  ASSUME NEW s \in Fields, NEW site, movie.address \in Addresses \union {NoAddress}
  PROVE  LET n == Consumed(s, site) IN
         /\ n \in Fields
         /\ \/ n = s /\ ~(site = "loop" /\ s.owner # NoGuest /\ s.state.skippable)
            \/ /\ site = "loop" /\ s.owner # NoGuest /\ s.state.skippable
               /\ n.skips = TRUE /\ n.state = Nothing /\ n.owner = NoGuest
               /\ n.generation = s.generation /\ n.retired = movie.address
<1>1. CASE site = "loop" /\ s.owner # NoGuest /\ s.state.skippable
  <2>1. Consumed(s, site) = [s EXCEPT !.owner = NoGuest, !.retired = movie.address, !.state = Nothing,
                                      !.skips = TRUE]
    BY <1>1 DEF Consumed
  <2> QED BY <1>1, <2>1, NothingShape DEF Fields
<1>2. CASE ~(site = "loop" /\ s.owner # NoGuest /\ s.state.skippable)
  BY <1>2 DEF Consumed
<1> QED BY <1>1, <1>2

LEMMA ObservedCases ==
  ASSUME MediaTypeOK, NEW site, NEW early \in BOOLEAN, NEW a, a = Observed(site, early)
  PROVE  /\ a \in Fields
         /\ Ignored(a) \/ Dropped(a) \/ Begun(a) \/ Continued(a, site) \/ Skipped(a, site)
<1>1. /\ movie \in Movies /\ movie.address \in Addresses \union {NoAddress}
      /\ generation \in 0..MaxGeneration /\ movie.elapsed \in Nat /\ sampleAge \in Nat
      /\ state.generation \in Nat /\ state.elapsed \in Nat
  BY MediaShapes, MediaNumbers
<1>2. PICK s : s = Service
  OBVIOUS
<1>3. /\ s \in Fields /\ s.state = state /\ s.owner = skipper
      /\ s.identity = identity /\ s.retired = retired
      /\ s.generation = generation /\ s.sampleAge = sampleAge /\ s.skips = FALSE
  BY <1>2, ServiceShape
<1>4. PICK fresh : fresh = IF Replaced(s) THEN Renewed(s) ELSE s
  OBVIOUS
<1>5. PICK named : named = IF Renamed(fresh) THEN Restarted(fresh) ELSE fresh
  OBVIOUS
<1>6. a = IF retired = movie.address THEN s
          ELSE IF Replaced(s) /\ generation = MaxGeneration
            THEN [s EXCEPT !.state = Nothing, !.owner = NoGuest, !.retired = NoAddress]
          ELSE IF Renamed(fresh) /\ fresh.generation = MaxGeneration
            THEN [fresh EXCEPT !.state = Nothing, !.owner = NoGuest]
          ELSE Consumed(Sampled(named, early), site)
  BY <1>2, <1>4, <1>5 DEF Observed
<1>7. ~Replaced(s) => GoesOn
  BY <1>1, <1>3, MediaNumbers DEF Replaced, GoesOn
<1>8. CASE retired = movie.address
  BY <1>2, <1>3, <1>6, <1>8 DEF Ignored
<1>9. CASE retired # movie.address /\ Replaced(s) /\ generation = MaxGeneration
  <2>1. a = [s EXCEPT !.state = Nothing, !.owner = NoGuest, !.retired = NoAddress]
    BY <1>6, <1>9
  <2> QED BY <1>3, <2>1, NothingShape DEF Fields, Dropped
<1>10. CASE retired # movie.address /\ Replaced(s) /\ generation # MaxGeneration
  <2>1. s.generation < MaxGeneration
    BY <1>1, <1>3, <1>10, MediaNumbers
  <2>2. /\ fresh \in Fields /\ fresh.owner = NoGuest /\ fresh.retired = NoAddress /\ fresh.skips = FALSE
        /\ fresh.generation = generation + 1 /\ fresh.state.generation = generation + 1
        /\ fresh.state.name = "none"
    BY <1>1, <1>3, <1>4, <1>10, <2>1, RenewedShape
  <2>3. ~Renamed(fresh) /\ named = fresh
    BY <1>5, <2>2 DEF Renamed
  <2>4. a = Consumed(Sampled(fresh, early), site)
    BY <1>6, <1>10, <2>3
  <2>5. PICK n : n = Sampled(fresh, early)
    OBVIOUS
  <2>6. /\ n \in Fields /\ n.retired = NoAddress /\ n.skips = FALSE /\ n.sampleAge = 0
        /\ n.generation = generation + 1 /\ n.state.generation = generation + 1
        /\ n.state.elapsed = movie.elapsed /\ n.state.skippable = (movie.elapsed > SkipAfter)
        /\ n.owner = NoGuest
    BY <1>1, <2>2, <2>5, SampledShape
  <2>7. a = n
    BY <2>4, <2>5, <2>6 DEF Consumed
  <2> QED BY <2>6, <2>7 DEF Begun
<1>11. CASE retired # movie.address /\ ~Replaced(s) /\ Renamed(s) /\ generation = MaxGeneration
  <2>1. fresh = s
    BY <1>4, <1>11
  <2>2. a = [s EXCEPT !.state = Nothing, !.owner = NoGuest]
    BY <1>3, <1>6, <1>11, <2>1
  <2> QED BY <1>3, <2>2, NothingShape DEF Fields, Dropped
<1>12. CASE retired # movie.address /\ ~Replaced(s) /\ Renamed(s) /\ generation # MaxGeneration
  <2>1. fresh = s /\ s.generation < MaxGeneration
    BY <1>1, <1>3, <1>4, <1>12, MediaNumbers
  <2>2. /\ named \in Fields /\ named.owner = NoGuest /\ named.retired = retired /\ named.skips = FALSE
        /\ named.generation = generation + 1 /\ named.state.generation = generation + 1
    BY <1>3, <1>5, <1>12, <2>1, RestartedShape
  <2>3. a = Consumed(Sampled(named, early), site)
    BY <1>3, <1>6, <1>12, <2>1
  <2>4. PICK n : n = Sampled(named, early)
    OBVIOUS
  <2>5. /\ n \in Fields /\ n.retired = retired /\ n.skips = FALSE /\ n.sampleAge = 0
        /\ n.generation = generation + 1 /\ n.state.generation = generation + 1
        /\ n.state.elapsed = movie.elapsed /\ n.state.skippable = (movie.elapsed > SkipAfter)
        /\ n.owner = NoGuest
    BY <1>1, <2>2, <2>4, SampledShape
  <2>6. a = n
    BY <2>3, <2>4, <2>5 DEF Consumed
  <2> QED BY <1>7, <1>12, <2>5, <2>6 DEF Begun, GoesOn
<1>13. CASE retired # movie.address /\ ~Replaced(s) /\ ~Renamed(s)
  <2>1. named = s /\ a = Consumed(Sampled(s, early), site)
    BY <1>4, <1>5, <1>6, <1>13
  <2>2. PICK n : n = Sampled(s, early)
    OBVIOUS
  <2>3. /\ n \in Fields /\ n.retired = retired /\ n.skips = FALSE /\ n.sampleAge = 0
        /\ n.generation = generation /\ n.state.generation = state.generation
        /\ n.state.elapsed = movie.elapsed /\ n.state.skippable = (movie.elapsed > SkipAfter)
        /\ n.owner \in {skipper, NoGuest}
    BY <1>1, <1>3, <2>2, SampledShape
  <2>4. /\ a \in Fields
        /\ \/ a = n /\ ~(site = "loop" /\ n.owner # NoGuest /\ n.state.skippable)
           \/ /\ site = "loop" /\ n.owner # NoGuest /\ n.state.skippable
              /\ a.skips = TRUE /\ a.state = Nothing /\ a.owner = NoGuest
              /\ a.generation = n.generation /\ a.retired = movie.address
    <3>1. a = Consumed(n, site) /\ n \in Fields /\ movie.address \in Addresses \union {NoAddress}
      BY <1>1, <2>1, <2>2, <2>3
    <3> QED BY ONLY <3>1, ConsumedShape
  <2>5. CASE a = n /\ ~(site = "loop" /\ n.owner # NoGuest /\ n.state.skippable)
    BY <1>7, <1>13, <2>3, <2>4, <2>5 DEF Continued
  <2>6. CASE /\ site = "loop" /\ n.owner # NoGuest /\ n.state.skippable
             /\ a.skips = TRUE /\ a.state = Nothing /\ a.owner = NoGuest
             /\ a.generation = n.generation /\ a.retired = movie.address
    <3>1. movie.elapsed > SkipAfter
      BY <2>3, <2>6
    <3> QED BY <1>7, <1>13, <2>3, <2>4, <2>6, <3>1 DEF Skipped
  <2> QED BY <2>4, <2>5, <2>6
<1> QED BY <1>8, <1>9, <1>10, <1>11, <1>12, <1>13

-----------------------------------------------------------------------------
(* A query of the game.                                                    *)

\* What the worker keeps out of, or the service does not look at.
Unmoved ==
  /\ UNCHANGED <<state, skipper, retired, generation, sampleAge, sampledOf, skipped, movie>>
Cleared ==
  /\ state' = Nothing /\ skipper' = NoGuest /\ generation' = generation
  /\ retired' \in {retired, NoAddress} /\ UNCHANGED <<sampledOf, skipped, movie>>
NewPlayback ==
  /\ skipper' = NoGuest /\ sampleAge' = 0 /\ generation' = generation + 1
  /\ state'.generation = generation + 1
  /\ state'.elapsed = movie.elapsed /\ state'.skippable = (movie.elapsed > SkipAfter)
  /\ retired' = NoAddress \/ (retired' = retired /\ state.generation # 0)
  /\ sampledOf' = movie.number /\ UNCHANGED <<skipped, movie>>
SamePlayback(site) ==
  /\ GoesOn /\ sampleAge' = 0 /\ skipper' \in {skipper, NoGuest}
  /\ generation' = generation /\ state'.generation = state.generation
  /\ state'.elapsed = movie.elapsed /\ state'.skippable = (movie.elapsed > SkipAfter)
  /\ retired' = retired /\ sampledOf' = movie.number /\ UNCHANGED <<skipped, movie>>
  /\ site = "loop" /\ state'.skippable => skipper' = NoGuest
SkippedNow ==
  /\ GoesOn /\ skipper # NoGuest /\ movie.elapsed > SkipAfter
  /\ state' = Nothing /\ skipper' = NoGuest /\ generation' = generation
  /\ retired' = movie.address /\ sampledOf' = sampledOf /\ skipped' = movie.number
  /\ movie' = [movie EXCEPT !.plays = FALSE]

LEMMA QueryOutcome ==
  ASSUME MediaTypeOK, MovieOK, SampleOK, NEW site \in Sites, NEW readable \in BOOLEAN,
         NEW locked \in BOOLEAN, QueryPlaying(site, readable, locked)
  PROVE  /\ state' \in States /\ skipper' \in Guests \union {NoGuest}
         /\ identity' \in Addresses \union {NoAddress} /\ retired' \in Addresses \union {NoAddress}
         /\ generation' \in 0..MaxGeneration /\ sampleAge' \in 0..(Freshness + 1)
         /\ \/ Unmoved /\ (locked \/ state = Nothing)
            \/ Cleared \/ NewPlayback \/ SamePlayback(site) \/ SkippedNow
<1>0. PICK early \in BOOLEAN :
        LET a == IF locked THEN Service
                 ELSE IF readable THEN Observed(site, early) ELSE Forgotten(Service) IN
        /\ Becomes(a)
        /\ movie' = [movie EXCEPT !.plays = ~a.skips]
        /\ skipped' = IF a.skips THEN movie.number ELSE skipped
        /\ sampledOf' = IF a.state # Nothing /\ a.sampleAge = 0 /\ ~locked THEN movie.number ELSE sampledOf
  BY DEF QueryPlaying
<1>1. PICK a :
        /\ a = IF locked THEN Service
               ELSE IF readable THEN Observed(site, early) ELSE Forgotten(Service)
        /\ Becomes(a)
        /\ movie' = [movie EXCEPT !.plays = ~a.skips]
        /\ skipped' = IF a.skips THEN movie.number ELSE skipped
        /\ sampledOf' = IF a.state # Nothing /\ a.sampleAge = 0 /\ ~locked THEN movie.number ELSE sampledOf
  BY <1>0
<1>2. /\ state' = a.state /\ skipper' = a.owner /\ identity' = a.identity /\ retired' = a.retired
      /\ generation' = a.generation /\ sampleAge' = a.sampleAge
  BY <1>1 DEF Becomes
<1>3. /\ movie' = [movie EXCEPT !.plays = ~a.skips]
      /\ skipped' = IF a.skips THEN movie.number ELSE skipped
      /\ sampledOf' = IF a.state # Nothing /\ a.sampleAge = 0 /\ ~locked THEN movie.number ELSE sampledOf
  BY <1>1
<1>4. /\ movie \in Movies /\ movie.plays = TRUE
  BY MediaShapes DEF QueryPlaying, Movies
<1>5. a.skips = FALSE => movie' = movie /\ skipped' = skipped
  <2>1. [movie EXCEPT !.plays = TRUE] = movie
    BY <1>4 DEF Movies
  <2> QED BY <1>3, <2>1
<1>6. movie.address # NoAddress
  BY <1>4 DEF MovieOK
<1>7. CASE locked
  <2>1. a = Service
    BY <1>1, <1>7
  <2>2. sampledOf' = sampledOf
    BY <1>3, <1>7
  <2> QED BY <1>2, <1>5, <1>7, <2>1, <2>2, ServiceShape DEF Fields, Unmoved
<1>8. CASE ~locked /\ ~readable
  <2>1. a = [Service EXCEPT !.state = Nothing, !.owner = NoGuest, !.identity = NoAddress,
                            !.retired = NoAddress]
    BY <1>1, <1>8 DEF Forgotten
  <2>2. /\ a \in Fields /\ a.state = Nothing /\ a.owner = NoGuest /\ a.retired = NoAddress
        /\ a.generation = generation /\ a.skips = FALSE
    BY <2>1, ServiceShape, NothingShape DEF Fields
  <2>3. sampledOf' = sampledOf
    BY <1>3, <2>2
  <2> QED BY <1>2, <1>5, <2>2, <2>3 DEF Fields, Cleared
<1>9. CASE ~locked /\ readable
  <2>1. a = Observed(site, early)
    BY <1>1, <1>9
  <2>2. /\ a \in Fields
        /\ Ignored(a) \/ Dropped(a) \/ Begun(a) \/ Continued(a, site) \/ Skipped(a, site)
    BY <2>1, ObservedCases
  <2>3. /\ state' \in States /\ skipper' \in Guests \union {NoGuest}
        /\ identity' \in Addresses \union {NoAddress} /\ retired' \in Addresses \union {NoAddress}
        /\ generation' \in 0..MaxGeneration /\ sampleAge' \in 0..(Freshness + 1)
    BY <1>2, <2>2 DEF Fields
  <2>4. CASE Ignored(a)
    <3>1. state = Nothing
      BY <1>6, <2>4 DEF Ignored, SampleOK
    <3>2. a = Service /\ a.state = Nothing /\ a.skips = FALSE
      BY <2>4, <3>1, ServiceShape DEF Ignored
    <3>3. sampledOf' = sampledOf
      BY <1>3, <3>2
    <3>4. Unmoved
      BY <1>2, <1>5, <3>2, <3>3, ServiceShape DEF Unmoved
    <3> QED BY <2>3, <3>1, <3>4
  <2>5. CASE Dropped(a)
    <3>1. sampledOf' = sampledOf
      BY <1>3, <2>5 DEF Dropped
    <3>2. Cleared
      BY <1>2, <1>5, <2>5, <3>1 DEF Dropped, Cleared
    <3> QED BY <2>3, <3>2
  <2>6. CASE Begun(a)
    <3>1. a.state # Nothing
      BY <2>6, MediaShapes, NothingShape DEF Begun
    <3>2. sampledOf' = movie.number
      BY <1>3, <1>9, <2>6, <3>1 DEF Begun
    <3>3. NewPlayback
      BY <1>2, <1>5, <2>6, <3>2 DEF Begun, NewPlayback
    <3> QED BY <2>3, <3>3
  <2>7. CASE Continued(a, site)
    <3>1. a.state # Nothing
      BY <2>7, NothingShape DEF Continued, GoesOn
    <3>2. sampledOf' = movie.number
      BY <1>3, <1>9, <2>7, <3>1 DEF Continued
    <3>3. SamePlayback(site)
      BY <1>2, <1>5, <2>7, <3>2 DEF Continued, SamePlayback
    <3> QED BY <2>3, <3>3
  <2>8. CASE Skipped(a, site)
    <3>1. sampledOf' = sampledOf /\ skipped' = movie.number /\ movie' = [movie EXCEPT !.plays = FALSE]
      BY <1>3, <2>8 DEF Skipped
    <3>2. SkippedNow
      BY <1>2, <2>8, <3>1 DEF Skipped, SkippedNow
    <3> QED BY <2>3, <3>2
  <2> QED BY <2>2, <2>4, <2>5, <2>6, <2>7, <2>8
<1> QED BY <1>7, <1>8, <1>9

-----------------------------------------------------------------------------
(* Types.                                                                  *)

LEMMA OlderBounds ==
  ASSUME NEW limit \in Nat, NEW age \in 0..limit
  PROVE  /\ Older(age, limit) \in 0..limit /\ Older(age, limit) <= age + 1 /\ Older(age, limit) >= age
         /\ age < limit => Older(age, limit) = age + 1
         /\ age = limit => Older(age, limit) = limit
  BY DEF Older

LEMMA MediaInitTypes == MediaInit => MediaTypeOK
<1> SUFFICES ASSUME MediaInit PROVE MediaTypeOK
  OBVIOUS
<1>1. /\ 0 \in 0..MaxMovies /\ 0 \in 0..(SkipAfter + 1) /\ 0 \in 0..MaxGeneration
      /\ Freshness + 1 \in 0..(Freshness + 1) /\ RequestLimit + 1 \in 0..(RequestLimit + 1)
      /\ Throttle \in 0..Throttle
  BY MediaNumbers
<1>2. movie \in Movies
  BY <1>1 DEF MediaInit, Movies
<1>3. clocks \in [Sites -> [object : Addresses \union {NoAddress}, age : 0..Throttle]]
  BY <1>1 DEF MediaInit, NoClock
<1>4. seen \in [Guests -> [generation : 0..MaxGeneration, movie : 0..MaxMovies]]
  BY <1>1 DEF MediaInit
<1>5. enabled \in BOOLEAN /\ missed \in BOOLEAN
  BY DEF MediaInit
<1> QED BY <1>1, <1>2, <1>3, <1>4, <1>5, NothingShape DEF MediaInit, MediaTypeOK, Movies, States

LEMMA GameTypes ==
  ASSUME MediaTypeOK,
         \/ \E address \in Addresses, name \in Names : StartMovie(address, name)
         \/ EndMovie \/ MediaTick
  PROVE  MediaTypeOK' /\ movie' \in Movies /\ clocks' \in [Sites -> [object : Addresses \union {NoAddress}, age : 0..Throttle]]
<1>1. /\ movie \in Movies /\ movie.number \in Nat /\ movie.elapsed \in 0..(SkipAfter + 1)
      /\ sampleAge \in 0..(Freshness + 1) /\ requestAge \in 0..(RequestLimit + 1)
  BY MediaShapes
<1>2. CASE \E address \in Addresses, name \in Names : StartMovie(address, name)
  <2>1. PICK address \in Addresses, name \in Names : StartMovie(address, name)
    BY <1>2
  <2>2. movie.number + 1 \in 0..MaxMovies /\ 0 \in 0..(SkipAfter + 1)
    BY <1>1, <2>1, MediaNumbers DEF StartMovie
  <2>3. movie' \in Movies
    BY <2>1, <2>2 DEF StartMovie, Movies
  <2>4. queried' \subseteq Sites
    BY <2>1 DEF StartMovie
  <2> QED BY <2>1, <2>3, <2>4 DEF StartMovie, MediaTypeOK, Movies, service, history
<1>3. CASE EndMovie
  <2>1. movie' \in Movies /\ queried' \subseteq Sites
    BY <1>1, <1>3 DEF EndMovie, Movies
  <2> QED BY <1>3, <2>1 DEF EndMovie, MediaTypeOK, Movies, service, history
<1>4. CASE MediaTick
  <2>1. movie' = movie \/ movie' = [movie EXCEPT !.elapsed = Older(movie.elapsed, SkipAfter + 1)]
    BY <1>4 DEF MediaTick
  <2>2. /\ Older(movie.elapsed, SkipAfter + 1) \in 0..(SkipAfter + 1)
        /\ Older(sampleAge, Freshness + 1) \in 0..(Freshness + 1)
        /\ Older(requestAge, RequestLimit + 1) \in 0..(RequestLimit + 1)
    <3>1. SkipAfter + 1 \in Nat /\ Freshness + 1 \in Nat /\ RequestLimit + 1 \in Nat
      BY MediaNumbers
    <3> QED BY <1>1, <3>1, OlderBounds
  <2>3. movie' \in Movies
    BY <1>1, <2>1, <2>2 DEF Movies
  <2>4. clocks' \in [Sites -> [object : Addresses \union {NoAddress}, age : 0..Throttle]]
    <3>1. ASSUME NEW s \in Sites
          PROVE  [clocks[s] EXCEPT !.age = Older(clocks[s].age, Throttle)]
                   \in [object : Addresses \union {NoAddress}, age : 0..Throttle]
      <4>1. clocks[s] \in [object : Addresses \union {NoAddress}, age : 0..Throttle]
        BY DEF MediaTypeOK
      <4>2. clocks[s].age \in 0..Throttle
        BY <4>1
      <4>3. Older(clocks[s].age, Throttle) \in 0..Throttle
        BY <4>2, MediaNumbers, OlderBounds
      <4> QED BY <4>1, <4>3
    <3>2. clocks' = [s \in Sites |-> [clocks[s] EXCEPT !.age = Older(clocks[s].age, Throttle)]]
      BY <1>4 DEF MediaTick
    <3> QED BY <3>1, <3>2
  <2>5. queried' \subseteq Sites
    BY <1>4 DEF MediaTick
  <2>6. sampleAge' \in 0..(Freshness + 1) /\ requestAge' \in 0..(RequestLimit + 1)
    BY <1>4, <2>2 DEF MediaTick
  <2> QED BY <1>4, <2>3, <2>4, <2>5, <2>6 DEF MediaTick, MediaTypeOK, Movies, history
<1>5. clocks' \in [Sites -> [object : Addresses \union {NoAddress}, age : 0..Throttle]]
  BY <1>2, <1>3, <1>4 DEF MediaTypeOK
<1> QED BY <1>2, <1>3, <1>4, <1>5 DEF MediaTypeOK, Movies

LEMMA QueryPlayingTypes ==
  ASSUME MediaTypeOK, MovieOK, SampleOK, NEW site \in Sites, NEW readable \in BOOLEAN,
         NEW locked \in BOOLEAN, QueryPlaying(site, readable, locked)
  PROVE  MediaTypeOK'
<1>1. /\ state' \in States /\ skipper' \in Guests \union {NoGuest}
      /\ identity' \in Addresses \union {NoAddress} /\ retired' \in Addresses \union {NoAddress}
      /\ generation' \in 0..MaxGeneration /\ sampleAge' \in 0..(Freshness + 1)
      /\ \/ Unmoved \/ Cleared \/ NewPlayback \/ SamePlayback(site) \/ SkippedNow
  BY QueryOutcome
<1>2. movie \in Movies /\ movie.number \in 0..MaxMovies /\ movie.address \in Addresses \union {NoAddress}
  BY MediaShapes DEF Movies
<1>3. movie' \in Movies
  BY <1>1, <1>2 DEF Unmoved, Cleared, NewPlayback, SamePlayback, SkippedNow, Movies
<1>4. sampledOf' \in 0..MaxMovies /\ skipped' \in 0..MaxMovies
  BY <1>1, <1>2 DEF Unmoved, Cleared, NewPlayback, SamePlayback, SkippedNow, MediaTypeOK
<1>5. skipper' # NoGuest => state'.generation # 0
  BY <1>1 DEF Unmoved, Cleared, NewPlayback, SamePlayback, SkippedNow, MediaTypeOK, GoesOn
<1>6. clocks' \in [Sites -> [object : Addresses \union {NoAddress}, age : 0..Throttle]]
  <2>1. [object |-> movie.address, age |-> 0] \in [object : Addresses \union {NoAddress}, age : 0..Throttle]
    BY <1>2, MediaNumbers
  <2> QED BY <2>1 DEF QueryPlaying, MediaTypeOK
<1>7. queried' \subseteq Sites /\ missed' \in BOOLEAN
  <2>1. queried' \subseteq Sites
    BY DEF QueryPlaying, MediaTypeOK
  <2>2. missed' \in BOOLEAN
    BY DEF QueryPlaying
  <2> QED BY <2>1, <2>2
<1>8. UNCHANGED <<enabled, seen, wanted, requestAge>>
  BY DEF QueryPlaying, Becomes
<1> QED BY <1>1, <1>3, <1>4, <1>5, <1>6, <1>7, <1>8 DEF MediaTypeOK, Movies, States

LEMMA OtherTypes ==
  ASSUME MediaTypeOK,
         \/ \E site \in Sites : QueryPassed(site)
         \/ \E site \in Sites, locked \in BOOLEAN : QueryEnded(site, locked)
         \/ \E o \in Guests : ReadMovie(o) \/ Request(o) \/ RequestRefused(o) \/ ReleaseSkip(o)
         \/ Disable
  PROVE  MediaTypeOK'
<1>1. CASE \E site \in Sites : QueryPassed(site)
  BY <1>1 DEF QueryPassed, MediaTypeOK, service, history
<1>2. ASSUME NEW site \in Sites, NEW locked \in BOOLEAN, QueryEnded(site, locked) PROVE MediaTypeOK'
  <2>1. PICK a : a = IF locked THEN Service ELSE Forgotten(Service)
    OBVIOUS
  <2>2. a \in Fields /\ (a.owner # NoGuest => a.state.generation # 0)
    <3>1. CASE locked
      BY <2>1, <3>1, ServiceShape DEF MediaTypeOK
    <3>2. CASE ~locked
      BY <2>1, <3>2, ServiceShape, NothingShape DEF Forgotten, Fields
    <3> QED BY <3>1, <3>2
  <2>3. /\ state' = a.state /\ skipper' = a.owner /\ identity' = a.identity /\ retired' = a.retired
        /\ generation' = a.generation /\ sampleAge' = a.sampleAge /\ UNCHANGED requestAge
    BY <1>2, <2>1 DEF QueryEnded, Becomes
  <2>4. clocks' \in [Sites -> [object : Addresses \union {NoAddress}, age : 0..Throttle]]
    <3>1. [object |-> NoAddress, age |-> 0] \in [object : Addresses \union {NoAddress}, age : 0..Throttle]
      BY MediaNumbers
    <3> QED BY <1>2, <3>1 DEF QueryEnded, MediaTypeOK
  <2>5. UNCHANGED <<movie, queried, enabled, seen, sampledOf, wanted, missed, skipped>>
    BY <1>2 DEF QueryEnded, game, history
  <2>6. /\ state' \in States /\ skipper' \in Guests \union {NoGuest}
        /\ identity' \in Addresses \union {NoAddress} /\ retired' \in Addresses \union {NoAddress}
        /\ generation' \in 0..MaxGeneration /\ sampleAge' \in 0..(Freshness + 1)
        /\ skipper' # NoGuest => state'.generation # 0
    BY <2>2, <2>3 DEF Fields
  <2> QED BY <2>3, <2>4, <2>5, <2>6 DEF MediaTypeOK, States
<1>3. ASSUME NEW o \in Guests, ReadMovie(o) PROVE MediaTypeOK'
  <2>1. PICK n : n = IF state.skippable THEN sampledOf ELSE 0
    OBVIOUS
  <2>2. n \in 0..MaxMovies /\ state.generation \in 0..MaxGeneration
    BY <2>1, MediaNumbers DEF MediaTypeOK
  <2>3. seen' = [seen EXCEPT ![o] = [generation |-> state.generation, movie |-> n]]
    BY <1>3, <2>1 DEF ReadMovie
  <2>4. seen' \in [Guests -> [generation : 0..MaxGeneration, movie : 0..MaxMovies]]
    BY <2>2, <2>3 DEF MediaTypeOK
  <2> QED BY <1>3, <2>4 DEF ReadMovie, MediaTypeOK, game, service, history
<1>4. ASSUME NEW o \in Guests, Request(o) PROVE MediaTypeOK'
  <2>1. requestAge' \in 0..(RequestLimit + 1) /\ wanted' \in 0..MaxMovies
    BY <1>4, MediaNumbers DEF Request, MediaTypeOK
  <2>2. missed' \in BOOLEAN
    BY <1>4, Zenon DEF Request
  <2>3. skipper' \in Guests \union {NoGuest} /\ state.generation # 0
    BY <1>4 DEF Request, Readable
  <2> QED BY <1>4, <2>1, <2>2, <2>3 DEF Request, MediaTypeOK, game
<1>5. ASSUME NEW o \in Guests, RequestRefused(o) PROVE MediaTypeOK'
  BY <1>5 DEF RequestRefused, MediaTypeOK, game, history
<1>6. ASSUME NEW o \in Guests, ReleaseSkip(o) PROVE MediaTypeOK'
  <2>1. seen' \in [Guests -> [generation : 0..MaxGeneration, movie : 0..MaxMovies]]
    <3>1. [generation |-> 0, movie |-> 0] \in [generation : 0..MaxGeneration, movie : 0..MaxMovies]
      BY MediaNumbers
    <3> QED BY <1>6, <3>1 DEF ReleaseSkip, MediaTypeOK
  <2>2. wanted' \in 0..MaxMovies /\ skipper' \in {skipper, NoGuest}
    BY <1>6, MediaNumbers DEF ReleaseSkip, MediaTypeOK
  <2> QED BY <1>6, <2>1, <2>2 DEF ReleaseSkip, MediaTypeOK, game
<1>7. CASE Disable
  <2>1. enabled' \in BOOLEAN
    BY <1>7, Zenon DEF Disable
  <2> QED BY <1>7, <2>1, NothingShape DEF Disable, MediaTypeOK, game, history, States
<1> QED BY <1>1, <1>2, <1>3, <1>4, <1>5, <1>6, <1>7

-----------------------------------------------------------------------------
(* Every step keeps the invariant.                                         *)

\* The movie that can be skipped is the one that was sampled, as long as it goes on.
LEMMA SameMovie ==
  ASSUME MediaTypeOK, SampleOK, GoesOn, state.skippable
  PROVE  sampledOf = movie.number /\ movie.elapsed > SkipAfter
<1>1. /\ state.elapsed \in Nat /\ movie.elapsed \in Nat /\ sampleAge \in Nat
  BY MediaShapes, MediaNumbers
<1> QED BY <1>1, MediaNumbers DEF SampleOK, GoesOn

LEMMA GameKeeps ==
  ASSUME MediaIInv,
         \/ \E address \in Addresses, name \in Names : StartMovie(address, name)
         \/ EndMovie \/ MediaTick
  PROVE  MediaIInv'
<1>0. /\ MediaTypeOK /\ movie \in Movies /\ movie.number \in Nat /\ movie.elapsed \in 0..(SkipAfter + 1)
      /\ sampleAge \in 0..(Freshness + 1) /\ requestAge \in 0..(RequestLimit + 1)
      /\ sampledOf \in Nat /\ clocks["loop"].age \in 0..Throttle
  BY MediaShapes DEF MediaIInv
<1>1. MediaTypeOK' /\ movie' \in Movies
  BY <1>0, GameTypes
<1>2. UNCHANGED <<enabled, state, skipper, identity, retired, generation, seen, sampledOf, wanted, missed, skipped>>
  BY DEF StartMovie, EndMovie, MediaTick, service, history
<1>3. SeenOK' /\ WantedOK'
  BY <1>2 DEF MediaIInv, SeenOK, WantedOK
<1>4. CASE \E address \in Addresses, name \in Names : StartMovie(address, name)
  <2>1. PICK address \in Addresses, name \in Names : StartMovie(address, name)
    BY <1>4
  <2>2. /\ movie'.number = movie.number + 1 /\ movie'.elapsed = 0 /\ movie'.address = address
        /\ UNCHANGED <<sampleAge, requestAge>>
    BY <2>1 DEF StartMovie, service
  <2>3. MovieOK'
    BY <1>0, <2>2, MediaAssumption DEF MovieOK
  <2>4. SampleOK'
    BY <1>0, <1>2, <2>2 DEF MediaIInv, SampleOK
  <2>5. ~Pressing'
    <3>1. wanted # 0 /\ skipper # NoGuest => wanted = sampledOf
      BY DEF MediaIInv, WantedOK
    <3>2. movie'.number # 0 /\ movie'.number # sampledOf
      BY <1>0, <2>2 DEF MediaIInv, SampleOK
    <3> QED BY <1>2, <3>1, <3>2 DEF Pressing
  <2> QED BY <1>1, <1>3, <2>3, <2>4, <2>5 DEF MediaIInv, PromptOK
<1>5. CASE EndMovie
  <2>1. /\ movie'.number = movie.number /\ movie'.elapsed = movie.elapsed /\ movie'.plays = FALSE
        /\ UNCHANGED <<sampleAge, requestAge>>
    BY <1>0, <1>5 DEF EndMovie, service, Movies
  <2>2. MovieOK' /\ ~Pressing'
    BY <2>1 DEF MovieOK, Pressing
  <2>3. SampleOK'
    BY <1>2, <2>1 DEF MediaIInv, SampleOK
  <2> QED BY <1>1, <1>3, <2>2, <2>3 DEF MediaIInv, PromptOK
<1>6. CASE MediaTick
  <2>1. PICK older : older = Older(movie.elapsed, SkipAfter + 1)
    OBVIOUS
  <2>2. PICK aged : aged = Older(sampleAge, Freshness + 1)
    OBVIOUS
  <2>3. PICK later : later = Older(requestAge, RequestLimit + 1)
    OBVIOUS
  <2>4. PICK age : age = Older(clocks["loop"].age, Throttle)
    OBVIOUS
  <2>5. /\ older <= movie.elapsed + 1 /\ older \in Nat
        /\ aged \in 0..(Freshness + 1) /\ aged >= sampleAge
        /\ sampleAge < Freshness + 1 => aged = sampleAge + 1
        /\ later <= requestAge + 1 /\ later \in Nat
        /\ clocks["loop"].age < Throttle => age = clocks["loop"].age + 1
        /\ clocks["loop"].age = Throttle => age = Throttle
    <3>1. SkipAfter + 1 \in Nat /\ Freshness + 1 \in Nat /\ RequestLimit + 1 \in Nat /\ Throttle \in Nat
      BY MediaNumbers
    <3>2. older <= movie.elapsed + 1 /\ older \in Nat
      <4>1. movie.elapsed \in 0..(SkipAfter + 1) /\ SkipAfter + 1 \in Nat
        BY <1>0, <3>1
      <4>2. older \in 0..(SkipAfter + 1) /\ older <= movie.elapsed + 1
        BY ONLY <2>1, <4>1, OlderBounds
      <4> QED BY <4>1, <4>2
    <3>3. /\ aged \in 0..(Freshness + 1) /\ aged >= sampleAge
          /\ sampleAge < Freshness + 1 => aged = sampleAge + 1
      BY <1>0, <2>2, <3>1, OlderBounds
    <3>4. later <= requestAge + 1 /\ later \in Nat
      BY <1>0, <2>3, <3>1, OlderBounds
    <3>5. /\ clocks["loop"].age < Throttle => age = clocks["loop"].age + 1
          /\ clocks["loop"].age = Throttle => age = Throttle
      BY <1>0, <2>4, <3>1, OlderBounds
    <3> QED BY <3>2, <3>3, <3>4, <3>5
  <2>6. /\ movie' = movie \/ (movie'.elapsed = older /\ movie'.number = movie.number
                              /\ movie'.address = movie.address /\ movie'.plays = movie.plays)
        /\ sampleAge' = aged /\ requestAge' = later
        /\ queried = Sites /\ queried' = IF movie.plays THEN {} ELSE Sites
    <3>1. movie' = movie \/ movie' = [movie EXCEPT !.elapsed = older]
      BY <1>6, <2>1 DEF MediaTick
    <3>2. movie' = movie \/ (movie'.elapsed = older /\ movie'.number = movie.number
                              /\ movie'.address = movie.address /\ movie'.plays = movie.plays)
      BY <1>0, <3>1 DEF Movies
    <3> QED BY <1>6, <2>2, <2>3, <3>2 DEF MediaTick
  <2>7. clocks'["loop"].age = age
    <3>1. clocks' = [s \in Sites |-> [clocks[s] EXCEPT !.age = Older(clocks[s].age, Throttle)]]
      BY <1>6 DEF MediaTick
    <3>2. /\ clocks["loop"] \in [object : Addresses \union {NoAddress}, age : 0..Throttle]
          /\ "loop" \in Sites
      BY <1>0 DEF MediaTypeOK, Sites
    <3>3. clocks'["loop"] = [clocks["loop"] EXCEPT !.age = age]
      BY <2>4, <3>1, <3>2
    <3> QED BY <3>2, <3>3
  <2>8. MovieOK'
    BY <2>6 DEF MediaIInv, MovieOK
  <2>9. SampleOK'
    <3>1. movie'.number = movie.number /\ movie'.elapsed <= movie.elapsed + 1 /\ movie'.elapsed \in Nat
      BY <1>0, <2>5, <2>6
    <3>2. state.generation # 0 /\ sampledOf # movie.number =>
            movie'.elapsed <= sampleAge' \/ sampleAge' > Freshness
      <4>1. sampleAge \in Nat /\ sampleAge' \in Nat /\ sampleAge' >= sampleAge
            /\ (sampleAge < Freshness + 1 => sampleAge' = sampleAge + 1)
            /\ movie.elapsed \in Nat
        BY <1>0, <2>5, <2>6, MediaNumbers
      <4> QED BY <3>1, <4>1, MediaNumbers DEF MediaIInv, SampleOK
    <3> QED BY <1>2, <3>1, <3>2 DEF MediaIInv, SampleOK
  <2>10. PromptOK'
    <3>1. SUFFICES ASSUME Pressing'
          PROVE  \/ requestAge' <= clocks'["loop"].age
                 \/ "loop" \notin queried' /\ requestAge' <= Throttle + 1 /\ clocks'["loop"].age = Throttle
      BY DEF PromptOK
    <3>2. Pressing /\ movie.plays
      BY <1>2, <2>6, <3>1 DEF Pressing
    <3>3. requestAge <= clocks["loop"].age /\ "loop" \notin queried'
      BY <2>6, <3>2 DEF MediaIInv, PromptOK, Sites
    <3>4. requestAge \in Nat /\ clocks["loop"].age \in Nat /\ clocks["loop"].age <= Throttle
      BY <1>0, MediaNumbers
    <3> QED BY <2>5, <2>6, <2>7, <3>3, <3>4, MediaNumbers
  <2> QED BY <1>1, <1>3, <2>8, <2>9, <2>10 DEF MediaIInv
<1> QED BY <1>4, <1>5, <1>6

LEMMA QueryPlayingKeeps ==
  ASSUME MediaIInv, NEW site \in Sites, NEW readable \in BOOLEAN,
         NEW locked \in BOOLEAN, QueryPlaying(site, readable, locked)
  PROVE  MediaIInv'
<1>0. MediaTypeOK /\ MovieOK /\ SampleOK /\ SeenOK /\ WantedOK /\ PromptOK
  BY DEF MediaIInv
<1>1. MediaTypeOK'
  BY <1>0, QueryPlayingTypes
<1>2. /\ sampleAge' \in 0..(Freshness + 1)
      /\ \/ Unmoved /\ (locked \/ state = Nothing)
         \/ Cleared \/ NewPlayback \/ SamePlayback(site) \/ SkippedNow
  BY <1>0, QueryOutcome
<1>3. /\ movie \in Movies /\ movie.number \in Nat /\ movie.elapsed \in Nat /\ generation \in Nat
      /\ sampledOf \in Nat /\ state.generation \in Nat
      /\ \A o \in Guests : seen[o].generation \in Nat
  BY <1>0, MediaShapes, MediaNumbers
<1>4. UNCHANGED <<enabled, seen, wanted, requestAge>> /\ missed' = (missed \/ (locked /\ site = "loop"))
      /\ queried' = queried \union {site} /\ movie.plays
  BY DEF QueryPlaying, Becomes
<1>5. site # "loop" => clocks'["loop"] = clocks["loop"]
  BY <1>0 DEF QueryPlaying, MediaTypeOK, Sites
<1>6. movie'.number = movie.number /\ movie'.elapsed = movie.elapsed /\ movie'.address = movie.address
  BY <1>2, <1>3 DEF Unmoved, Cleared, NewPlayback, SamePlayback, SkippedNow, Movies
<1>7. MovieOK'
  BY <1>0, <1>4, <1>6 DEF MovieOK
<1>8. SampleOK' /\ SeenOK' /\ WantedOK'
  <2>1. CASE Unmoved
    BY <1>0, <1>4, <2>1 DEF Unmoved, SampleOK, SeenOK, WantedOK
  <2>2. CASE Cleared \/ SkippedNow
    <3>1. /\ state' = Nothing /\ skipper' = NoGuest /\ generation' = generation /\ sampledOf' = sampledOf
      BY <2>2 DEF Cleared, SkippedNow
    <3>2. SampleOK'
      BY <1>0, <1>3, <1>6, <3>1, NothingShape DEF SampleOK
    <3>3. SeenOK'
      BY <1>0, <1>4, <3>1, NothingShape DEF SeenOK
    <3>4. WantedOK'
      BY <3>1 DEF WantedOK
    <3> QED BY <3>2, <3>3, <3>4
  <2>3. CASE NewPlayback
    <3>1. SampleOK'
      <4>1. sampledOf' = movie'.number /\ state'.generation = generation + 1 /\ generation' = generation + 1
            /\ state'.elapsed = movie.elapsed /\ state'.skippable = (movie.elapsed > SkipAfter)
        BY <1>6, <2>3 DEF NewPlayback
      <4>2. retired' = NoAddress
        BY <1>0, <2>3, NothingShape DEF NewPlayback, SampleOK
      <4>3. state'.generation # 0 /\ state'.generation <= generation' /\ sampledOf' <= movie'.number
        BY <1>3, <1>6, <4>1
      <4>4. state'.skippable => state'.elapsed > SkipAfter
        BY <4>1
      <4> QED BY <4>1, <4>2, <4>3, <4>4 DEF SampleOK
    <3>2. SeenOK'
      BY <1>0, <1>3, <1>4, <2>3 DEF NewPlayback, SeenOK
    <3>3. WantedOK'
      BY <2>3 DEF NewPlayback, WantedOK
    <3> QED BY <3>1, <3>2, <3>3
  <2>4. CASE SamePlayback(site)
    <3>1. GoesOn /\ state.generation # 0
      BY <2>4 DEF SamePlayback, GoesOn
    <3>2. state.skippable => sampledOf = movie.number /\ movie.elapsed > SkipAfter
      BY <1>0, <3>1, SameMovie
    <3>3. SampleOK'
      <4>1. sampledOf' = movie'.number /\ state'.generation = state.generation /\ generation' = generation
            /\ state'.elapsed = movie.elapsed /\ state'.skippable = (movie.elapsed > SkipAfter)
        BY <1>6, <2>4 DEF SamePlayback
      <4>2. retired' = NoAddress
        BY <1>0, <2>4, <3>1, NothingShape DEF SamePlayback, SampleOK
      <4>3. state'.generation # 0 /\ state'.generation <= generation' /\ sampledOf' <= movie'.number
        BY <1>0, <1>3, <1>6, <3>1, <4>1 DEF SampleOK
      <4>4. state'.skippable => state'.elapsed > SkipAfter
        BY <4>1
      <4> QED BY <4>1, <4>2, <4>3, <4>4 DEF SampleOK
    <3>4. SeenOK'
      BY <1>0, <1>4, <2>4, <3>2 DEF SamePlayback, SeenOK
    <3>5. WantedOK'
      BY <1>0, <1>4, <2>4, <3>2 DEF SamePlayback, WantedOK
    <3> QED BY <3>3, <3>4, <3>5
  <2> QED BY <1>2, <2>1, <2>2, <2>3, <2>4
<1>9. PromptOK'
  <2>1. SUFFICES ASSUME Pressing'
        PROVE  \/ requestAge' <= clocks'["loop"].age
               \/ "loop" \notin queried' /\ requestAge' <= Throttle + 1 /\ clocks'["loop"].age = Throttle
    BY DEF PromptOK
  <2>2. skipper' # NoGuest /\ enabled /\ movie.number = wanted /\ ~missed /\ ~(locked /\ site = "loop")
    BY <1>4, <1>6, <2>1 DEF Pressing
  <2>3. wanted # 0
    BY <1>0, <1>4, <2>2 DEF MovieOK
  <2>4. ASSUME Unmoved, locked \/ state = Nothing PROVE Pressing /\ site # "loop"
    <3>1. skipper # NoGuest
      BY <2>2, <2>4 DEF Unmoved
    <3>2. state # Nothing
      BY <1>0, <3>1, NothingShape DEF MediaTypeOK
    <3> QED BY <1>4, <2>2, <2>4, <3>1, <3>2 DEF Pressing
  <2>5. ASSUME SamePlayback(site) PROVE Pressing /\ site # "loop"
    <3>1. skipper # NoGuest /\ GoesOn
      BY <2>2, <2>5 DEF SamePlayback
    <3>2. movie.elapsed > SkipAfter
      BY <1>0, <2>3, <3>1, SameMovie DEF WantedOK
    <3>3. site # "loop"
      BY <2>2, <2>5, <3>2 DEF SamePlayback
    <3> QED BY <1>4, <2>2, <3>1, <3>3 DEF Pressing
  <2>6. Pressing /\ site # "loop"
    BY <1>2, <2>2, <2>4, <2>5 DEF Cleared, NewPlayback, SkippedNow
  <2>7. clocks'["loop"] = clocks["loop"] /\ ("loop" \in queried' <=> "loop" \in queried)
    BY <1>4, <1>5, <2>6
  <2> QED BY <1>0, <1>4, <2>6, <2>7 DEF PromptOK
<1> QED BY <1>1, <1>7, <1>8, <1>9 DEF MediaIInv

LEMMA QueryOtherKeeps ==
  ASSUME MediaIInv,
         \/ \E site \in Sites : QueryPassed(site)
         \/ \E site \in Sites, locked \in BOOLEAN : QueryEnded(site, locked)
  PROVE  MediaIInv'
<1>0. MediaTypeOK /\ MovieOK /\ SampleOK /\ SeenOK /\ WantedOK /\ PromptOK
  BY DEF MediaIInv
<1>1. MediaTypeOK'
  BY <1>0, OtherTypes
<1>2. ASSUME NEW site \in Sites, QueryPassed(site) PROVE MediaIInv'
  <2>1. /\ UNCHANGED <<movie, clocks, enabled, service, seen, history>> /\ queried' = queried \union {site}
        /\ ~enabled \/ clocks[site].age < Throttle
    BY <1>2 DEF QueryPassed, Throttled
  <2>2. MovieOK' /\ SampleOK' /\ SeenOK' /\ WantedOK'
    BY <1>0, <2>1 DEF MovieOK, SampleOK, SeenOK, WantedOK, service, history
  <2>3. PromptOK'
    <3>1. SUFFICES ASSUME Pressing'
          PROVE  \/ requestAge <= clocks["loop"].age
                 \/ "loop" \notin queried' /\ requestAge <= Throttle + 1 /\ clocks["loop"].age = Throttle
      BY <2>1 DEF PromptOK, service
    <3>2. Pressing /\ enabled
      BY <2>1, <3>1 DEF Pressing, service, history
    <3>3. CASE site = "loop"
      <4>1. clocks["loop"].age < Throttle
        BY <2>1, <3>2, <3>3
      <4> QED BY <1>0, <3>2, <4>1, MediaNumbers DEF PromptOK
    <3>4. CASE site # "loop"
      BY <1>0, <2>1, <3>2, <3>4 DEF PromptOK
    <3> QED BY <3>3, <3>4
  <2> QED BY <1>1, <2>2, <2>3 DEF MediaIInv
<1>3. ASSUME NEW site \in Sites, NEW locked \in BOOLEAN, QueryEnded(site, locked) PROVE MediaIInv'
  <2>1. UNCHANGED <<movie, queried, enabled, seen, sampledOf, wanted, missed, skipped>> /\ ~movie.plays
    BY <1>3 DEF QueryEnded, game, history
  <2>2. PICK a : a = IF locked THEN Service ELSE Forgotten(Service)
    OBVIOUS
  <2>3. /\ state' = a.state /\ skipper' = a.owner /\ retired' = a.retired
        /\ generation' = a.generation /\ sampleAge' = a.sampleAge
    BY <1>3, <2>2 DEF QueryEnded, Becomes
  <2>4. \/ UNCHANGED <<state, skipper, retired, generation, sampleAge>>
        \/ state' = Nothing /\ skipper' = NoGuest /\ generation' = generation
    <3>1. CASE locked
      BY <1>0, <2>2, <2>3, <3>1, ServiceShape
    <3>2. CASE ~locked
      <4>1. a.state = Nothing /\ a.owner = NoGuest /\ a.generation = generation
        BY <1>0, <2>2, <3>2, ServiceShape DEF Forgotten, Fields
      <4> QED BY <2>3, <4>1
    <3> QED BY <3>1, <3>2
  <2>5. MovieOK' /\ PromptOK'
    BY <2>1 DEF MovieOK, PromptOK, Pressing
  <2>6. SampleOK' /\ SeenOK' /\ WantedOK'
    <3>1. CASE UNCHANGED <<state, skipper, retired, generation, sampleAge>>
      BY <1>0, <2>1, <3>1 DEF SampleOK, SeenOK, WantedOK
    <3>2. CASE state' = Nothing /\ skipper' = NoGuest /\ generation' = generation
      <4>1. generation \in Nat
        BY <1>0, MediaShapes, MediaNumbers
      <4>2. SampleOK'
        BY <1>0, <2>1, <3>2, <4>1, NothingShape DEF SampleOK
      <4>3. SeenOK'
        BY <1>0, <2>1, <3>2, NothingShape DEF SeenOK
      <4> QED BY <3>2, <4>2, <4>3 DEF WantedOK
    <3> QED BY <2>4, <3>1, <3>2
  <2> QED BY <1>1, <2>5, <2>6 DEF MediaIInv
<1> QED BY <1>2, <1>3

LEMMA MovieGuestKeeps ==
  ASSUME MediaIInv,
         \/ \E o \in Guests : ReadMovie(o) \/ Request(o) \/ RequestRefused(o) \/ ReleaseSkip(o)
         \/ Disable
  PROVE  MediaIInv'
<1>0. /\ MediaTypeOK /\ MovieOK /\ SampleOK /\ SeenOK /\ WantedOK /\ PromptOK
      /\ generation \in Nat /\ clocks["loop"].age \in Nat
  BY MediaShapes, MediaNumbers DEF MediaIInv
<1>1. MediaTypeOK' /\ UNCHANGED <<movie, queried, clocks, generation, sampleAge, sampledOf, skipped>>
  BY <1>0, OtherTypes DEF ReadMovie, Request, RequestRefused, ReleaseSkip, Disable, game, service, history
<1>2. MovieOK'
  BY <1>0, <1>1 DEF MovieOK
<1>3. ASSUME NEW o \in Guests, ReadMovie(o) PROVE MediaIInv'
  <2>1. UNCHANGED <<enabled, state, skipper, retired, wanted, missed, requestAge>>
    BY <1>3 DEF ReadMovie, service, history
  <2>2. SampleOK' /\ WantedOK' /\ PromptOK'
    BY <1>0, <1>1, <2>1 DEF SampleOK, WantedOK, PromptOK, Pressing
  <2>3. SeenOK'
    <3>1. ASSUME NEW p \in Guests, p # o PROVE seen'[p] = seen[p]
      BY <1>0, <1>3, <3>1 DEF ReadMovie, MediaTypeOK
    <3>2. /\ seen'[o].generation = state.generation /\ state.generation # 0
          /\ seen'[o].movie = IF state.skippable THEN sampledOf ELSE 0
      BY <1>0, <1>3 DEF ReadMovie, Readable, MediaTypeOK
    <3>3. state.skippable \in BOOLEAN
      BY <1>0, MediaShapes
    <3> QED BY <1>0, <1>1, <2>1, <3>1, <3>2, <3>3 DEF SeenOK, SampleOK
  <2> QED BY <1>1, <1>2, <2>2, <2>3 DEF MediaIInv
<1>4. ASSUME NEW o \in Guests, Request(o) PROVE MediaIInv'
  <2>1. /\ UNCHANGED <<enabled, state, retired, seen>> /\ requestAge' = 0 /\ wanted' = seen[o].movie
        /\ seen[o].generation = state.generation
    BY <1>4 DEF Request, Accepts
  <2>2. SampleOK' /\ SeenOK'
    BY <1>0, <1>1, <2>1 DEF SampleOK, SeenOK
  <2>3. WantedOK'
    BY <1>0, <1>1, <2>1 DEF WantedOK, SeenOK
  <2>4. PromptOK'
    BY <1>0, <1>1, <2>1 DEF PromptOK
  <2> QED BY <1>1, <1>2, <2>2, <2>3, <2>4 DEF MediaIInv
<1>5. ASSUME NEW o \in Guests, RequestRefused(o) PROVE MediaIInv'
  <2>1. UNCHANGED <<enabled, state, retired, seen, wanted, missed, requestAge>> /\ skipper' = NoGuest
    BY <1>5 DEF RequestRefused, history
  <2> QED BY <1>0, <1>1, <1>2, <2>1 DEF MediaIInv, SampleOK, SeenOK, WantedOK, PromptOK, Pressing
<1>6. ASSUME NEW o \in Guests, ReleaseSkip(o) PROVE MediaIInv'
  <2>1. /\ UNCHANGED <<enabled, state, retired, missed, requestAge>>
        /\ skipper' = NoGuest \/ (skipper' = skipper /\ wanted' = wanted)
    BY <1>6 DEF ReleaseSkip
  <2>2. SampleOK' /\ WantedOK'
    BY <1>0, <1>1, <2>1 DEF SampleOK, WantedOK
  <2>3. PromptOK'
    BY <1>0, <1>1, <2>1 DEF PromptOK, Pressing
  <2>4. SeenOK'
    <3>1. ASSUME NEW p \in Guests, p # o PROVE seen'[p] = seen[p]
      BY <1>0, <1>6, <3>1 DEF ReleaseSkip, MediaTypeOK
    <3>2. seen'[o].generation = 0 /\ seen'[o].movie = 0
      BY <1>0, <1>6 DEF ReleaseSkip, MediaTypeOK
    <3> QED BY <1>0, <1>1, <2>1, <3>1, <3>2 DEF SeenOK
  <2> QED BY <1>1, <1>2, <2>2, <2>3, <2>4 DEF MediaIInv
<1>7. CASE Disable
  <2>1. UNCHANGED <<seen, wanted, missed, requestAge>> /\ state' = Nothing /\ skipper' = NoGuest
    BY <1>7 DEF Disable, history
  <2>2. SampleOK'
    BY <1>0, <1>1, <2>1, NothingShape DEF SampleOK
  <2>3. SeenOK'
    BY <1>0, <1>1, <2>1, NothingShape DEF SeenOK
  <2>4. WantedOK' /\ PromptOK'
    BY <2>1 DEF WantedOK, PromptOK, Pressing
  <2> QED BY <1>1, <1>2, <2>2, <2>3, <2>4 DEF MediaIInv
<1> QED BY <1>3, <1>4, <1>5, <1>6, <1>7

LEMMA MediaStays == MediaIInv /\ UNCHANGED mediaVars => MediaIInv'
<1> SUFFICES ASSUME MediaIInv, UNCHANGED mediaVars PROVE MediaIInv'
  OBVIOUS
<1>1. UNCHANGED <<movie, queried, clocks, enabled, state, skipper, identity, retired, generation,
                  sampleAge, requestAge, seen, sampledOf, wanted, missed, skipped>>
  BY DEF mediaVars, game, service, history
<1>2. MediaTypeOK'
  BY <1>1 DEF MediaIInv, MediaTypeOK
<1>3. MovieOK' /\ SampleOK' /\ SeenOK' /\ WantedOK' /\ PromptOK'
  BY <1>1 DEF MediaIInv, MovieOK, SampleOK, SeenOK, WantedOK, PromptOK, Pressing
<1> QED BY <1>2, <1>3 DEF MediaIInv

LEMMA MediaNextKeeps == MediaIInv /\ [MediaNext]_mediaVars => MediaIInv'
<1> SUFFICES ASSUME MediaIInv, [MediaNext]_mediaVars PROVE MediaIInv'
  OBVIOUS
<1>1. CASE \/ \E address \in Addresses, name \in Names : StartMovie(address, name)
           \/ EndMovie \/ MediaTick
  BY <1>1, GameKeeps
<1>2. CASE \E site \in Sites, locked \in BOOLEAN, readable \in BOOLEAN : QueryPlaying(site, readable, locked)
  BY <1>2, QueryPlayingKeeps
<1>3. CASE \/ \E site \in Sites : QueryPassed(site)
           \/ \E site \in Sites, locked \in BOOLEAN : QueryEnded(site, locked)
  BY <1>3, QueryOtherKeeps
<1>4. CASE \/ \E o \in Guests : ReadMovie(o) \/ Request(o) \/ RequestRefused(o) \/ ReleaseSkip(o)
           \/ Disable
  BY <1>4, MovieGuestKeeps
<1>5. CASE UNCHANGED mediaVars
  BY <1>5, MediaStays
<1> QED BY <1>1, <1>2, <1>3, <1>4, <1>5 DEF MediaNext

LEMMA MediaInitOK == MediaInit => MediaIInv
<1> SUFFICES ASSUME MediaInit PROVE MediaIInv
  OBVIOUS
<1>1. MediaTypeOK
  BY MediaInitTypes
<1>2. MovieOK /\ SampleOK /\ SeenOK /\ WantedOK /\ PromptOK
  BY NothingShape DEF MediaInit, MovieOK, SampleOK, SeenOK, WantedOK, PromptOK, Pressing
<1> QED BY <1>1, <1>2 DEF MediaIInv

\* The media service keeps its invariant: what a guest read, and what it asked to skip, is
\* what the state was sampled of, as long as the generation is the same.
THEOREM MediaInvariant == MediaSpec => []MediaIInv
<1>1. MediaInit => MediaIInv
  BY MediaInitOK
<1>2. MediaIInv /\ [MediaNext]_mediaVars => MediaIInv'
  BY MediaNextKeeps
<1> QED BY <1>1, <1>2, PTL DEF MediaSpec

\* Only a query that skips changes the movie that was skipped last, and it is the movie
\* that was wanted.
LEMMA SkipHits ==
  ASSUME MediaIInv, MediaNext, skipped' # skipped, wanted # 0
  PROVE  movie.number = wanted
<1>0. MediaTypeOK /\ MovieOK /\ SampleOK /\ WantedOK
  BY DEF MediaIInv
<1>1. PICK site \in Sites, readable \in BOOLEAN, locked \in BOOLEAN : QueryPlaying(site, readable, locked)
  BY DEF MediaNext, StartMovie, EndMovie, MediaTick, Disable, QueryEnded, QueryPassed, ReadMovie,
         Request, RequestRefused, ReleaseSkip, history
<1>2. SkippedNow
  BY <1>0, <1>1, QueryOutcome DEF Unmoved, Cleared, NewPlayback, SamePlayback
<1>3. state.skippable /\ sampledOf = wanted /\ GoesOn
  BY <1>0, <1>2 DEF SkippedNow, WantedOK
<1> QED BY <1>0, <1>3, SameMovie

LEMMA PromptEnough == MediaIInv => SkipsPromptly
<1> SUFFICES ASSUME MediaIInv, skipper # NoGuest, enabled, movie.plays, movie.number = wanted,
                    requestAge > Throttle + 1, ~missed
             PROVE  FALSE
  BY DEF SkipsPromptly
<1>1. clocks["loop"].age \in Nat /\ clocks["loop"].age <= Throttle /\ requestAge \in Nat
  BY MediaShapes, MediaNumbers DEF MediaIInv
<1>2. requestAge <= clocks["loop"].age \/ requestAge <= Throttle + 1
  BY DEF MediaIInv, PromptOK, Pressing
<1> QED BY <1>1, <1>2, MediaNumbers

\* A skip ends the movie its guest saw, and no later one, and does not wait for longer
\* than the throttle of the site that acts.
THEOREM SkipRight == MediaSpec => SkipsItsMovie
<1>1. MediaSpec => []MediaIInv
  BY MediaInvariant
<1>2. MediaIInv' => SkipsPromptly'
  <2>1. MediaIInv => SkipsPromptly
    BY PromptEnough
  <2> QED BY <2>1, PTL
<1>3. MediaIInv /\ [MediaNext]_mediaVars => [(skipped' # skipped /\ wanted # 0) => movie.number = wanted]_mediaVars
  BY SkipHits
<1>4. MediaSpec => SkipHitsItsMovie
  BY <1>1, <1>3, PTL DEF MediaSpec, SkipHitsItsMovie
<1>5. MediaSpec => [][SkipsPromptly']_mediaVars
  BY <1>1, <1>2, PTL
<1> QED BY <1>4, <1>5 DEF SkipsItsMovie
=============================================================================
