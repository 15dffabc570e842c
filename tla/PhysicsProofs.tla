---------------------------- MODULE PhysicsProofs ----------------------------
(***************************************************************************)
(* Proofs about the physics session and the damping trial.                 *)
(*                                                                         *)
(* The session (PhysicsSession), for any guests, selections and            *)
(* retirements.  The guests, the hooks and the callback that holds the     *)
(* lock share counters and no lock, so what the invariant says is what a   *)
(* counter that has not moved since it was read still tells: the body that *)
(* was found, and what was sampled of it, is the one that is there.        *)
(*                                                                         *)
(* The trial (DampingTrial), for any bodies, values, durations and times:  *)
(* a value that differs from the game's is one the pending trial wrote, to *)
(* a body it still aims at, and is the one it is to take back.             *)
(***************************************************************************)
EXTENDS PhysicsSession, DampingTrial, TLAPS

Commands == {"select", "apply", "restore"}
\* The records dispatch goes through: at work, with what a search found, with the
\* counters it read, and with what it read of the body.
Working == [at : {"work", "seek", "sample", "read", "end"}, keep : BOOLEAN, recent : BOOLEAN,
            foreign : BOOLEAN, requested : SUBSET Commands]
Finding == [at : {"publish", "arm", "check", "sample", "read", "end"}, keep : BOOLEAN, recent : BOOLEAN,
            foreign : BOOLEAN, requested : SUBSET Commands, found : Nat, scope : Nat]
Reading == [at : {"keep", "end"}, keep : BOOLEAN, requested : SUBSET Commands, foreign : BOOLEAN,
            before : Nat, revision : Nat]
Storing == [at : {"store", "end"}, keep : BOOLEAN, requested : SUBSET Commands,
            before : Nat, revision : Nat, of : Nat]
Dispatches == {Out, [at |-> "unflag"]} \union Working \union Finding \union Reading \union Storing

Samples == [epoch : Nat \ {0}, serial : Nat, revision : Nat, of : Nat, for : Owners]
Selections == [epoch : Nat \ {0}, body : Nat, for : Owners]
Searches == [pending : {TRUE}, serial : Nat, for : Owners]
Trials == [state : {"active", "restoring"}, for : Owners]
Hooks == [at : {"counted", "marked", "gone"}, it : BOOLEAN]

SessionTypeOK ==
  /\ accepting \in BOOLEAN /\ commands \in SUBSET Commands /\ owner \in Owners \union {NoOwner}
  /\ releasing \in BOOLEAN /\ host \in {"idle", "asked", "flagged"}
  /\ status \in {"idle", "queued", "searching", "selected", "active", "restoring", "done", "failed"}
  /\ ui \in {"selected", "other"} /\ after \in BOOLEAN
  /\ search \in {NoSearch} \union Searches /\ trial \in {NoTrial} \union Trials
  /\ sample \in {NoSample} \union Samples /\ selected \in {NoSample} \union Selections
  /\ selections \in Nat /\ watched \in Nat /\ retired \in BOOLEAN
  /\ serial \in Nat /\ retiring \in BOOLEAN /\ revision \in Nat
  /\ hook \in {Out} \union Hooks /\ body \in Nat
  /\ dispatch \in Dispatches

\* A search begins for a guest that has asked, and nobody else can ask meanwhile.
AskedOK ==
  /\ "select" \in commands => Unlocked /\ owner \in Owners
  /\ dispatch.at = "work" /\ "select" \in dispatch.requested => owner \in Owners
  /\ dispatch.at = "seek" => search.pending
  /\ dispatch.at = "publish" => owner \in Owners /\ ~search.pending

\* Who looks for a body has none yet, and one that was found is watched.
SearchOK ==
  /\ search.pending \/ dispatch.at = "publish" => selected = NoSample
  /\ search.pending \/ dispatch.at \in {"publish", "arm"} => retired
  /\ selected # NoSample => watched = selected.body /\ selected.epoch <= selections
  /\ dispatch.at \in {"arm", "check", "read", "keep", "store"} => selected # NoSample

\* A retirement is counted before and after: what was found stays as long as none is
\* counted, and a body that is watched cannot go unnoticed.
TargetOK ==
  /\ retiring <=> hook # Out
  /\ dispatch.at \in {"publish", "arm", "check"} => dispatch.scope <= serial
  /\ dispatch.at = "publish" /\ dispatch.scope = serial /\ ~retiring => dispatch.found = body
  /\ dispatch.at \in {"arm", "check"} /\ dispatch.scope = serial /\ ~retiring => selected.body = body
  /\ search.pending => search.serial <= serial
  /\ selected # NoSample /\ ~retired /\ dispatch.at # "check" =>
       /\ selected.body = body
       /\ hook.at \in {"marked", "gone"} => ~hook.it

\* So does what was read of it.
SampleOK ==
  /\ dispatch.at \in {"keep", "store"} => dispatch.before <= serial
  /\ dispatch.at = "store" /\ dispatch.before = serial => ~retiring /\ dispatch.of = body
  /\ sample # NoSample =>
       /\ sample.serial <= serial /\ sample.epoch <= selections
       /\ sample.serial = serial => ~retiring /\ sample.of = body
       /\ selected # NoSample /\ sample.epoch = selected.epoch => sample.for = selected.for

SessionIInv == SessionTypeOK /\ AskedOK /\ SearchOK /\ TargetOK /\ SampleOK /\ OwnersKeepApart
-----------------------------------------------------------------------------
LEMMA InitHolds == SessionInit => SessionIInv
<1> SUFFICES ASSUME SessionInit PROVE SessionIInv
  OBVIOUS
<1> USE DEF SessionInit, Out, NoSample, NoSearch, NoTrial
<1>1. SessionTypeOK
  BY DEF SessionTypeOK, Dispatches
<1>2. AskedOK /\ SearchOK
  BY DEF AskedOK, SearchOK
<1>3. TargetOK /\ SampleOK
  BY DEF TargetOK, SampleOK
<1>4. OwnersKeepApart
  BY DEF OwnersKeepApart, TrialPending
<1> QED
  BY <1>1, <1>2, <1>3, <1>4 DEF SessionIInv

LEMMA Numbers ==
  ASSUME SessionTypeOK
  PROVE  /\ serial \in Nat /\ selections \in Nat /\ body \in Nat
         /\ sample # NoSample => sample.serial \in Nat /\ sample.epoch \in Nat \ {0}
         /\ search.pending => search.serial \in Nat
         /\ dispatch.at \in {"publish", "arm", "check"} => dispatch.scope \in Nat
         /\ dispatch.at \in {"keep", "store"} => dispatch.before \in Nat
<1>1. dispatch.at \in {"publish", "arm", "check"} => dispatch \in Finding
  BY DEF SessionTypeOK, Dispatches, Out, Working, Reading, Storing
<1>2. dispatch.at \in {"keep", "store"} => dispatch \in Reading \union Storing
  BY DEF SessionTypeOK, Dispatches, Out, Working, Finding
<1>3. search.pending => search \in Searches
  BY DEF SessionTypeOK, NoSearch
<1> QED
  BY <1>1, <1>2, <1>3 DEF SessionTypeOK, Finding, Reading, Storing, Searches, Samples

LEMMA WorkerKeeps == ASSUME SessionAssumption, SessionIInv, Worker \/ Releasing PROVE SessionIInv'
<1> USE DEF SessionIInv, posted, targets, engineState, work
<1>1. ASSUME NEW o \in Owners, Select(o) PROVE SessionIInv'
  <2> USE <1>1 DEF Select
  <2>1. SessionTypeOK'
    BY DEF SessionTypeOK, Commands
  <2>2. AskedOK' /\ SearchOK'
    BY DEF AskedOK, SearchOK, Unlocked, Out
  <2>3. TargetOK' /\ SampleOK'
    BY DEF TargetOK, SampleOK
  <2>4. OwnersKeepApart'
    <3>1. ~search.pending /\ ~TrialPending
      BY DEF Unasked
    <3>2. selected # NoSample => selected.for \in Owners
      BY DEF SessionTypeOK, Selections
    <3>3. selected # NoSample => owner = o
      BY <3>2 DEF OwnersKeepApart, SessionAssumption
    <3> QED
      BY <3>1, <3>3 DEF OwnersKeepApart, TrialPending
  <2> QED
    BY <2>1, <2>2, <2>3, <2>4
<1>2. ASSUME UNCHANGED <<owner, engineState, work, targets, revision, dispatch>>, SessionTypeOK',
             "select" \in commands' => "select" \in commands
      PROVE SessionIInv'
  <2>1. AskedOK' /\ SearchOK'
    BY <1>2 DEF AskedOK, SearchOK, Unlocked
  <2>2. TargetOK' /\ SampleOK'
    BY <1>2 DEF TargetOK, SampleOK
  <2>3. OwnersKeepApart'
    BY <1>2 DEF OwnersKeepApart, TrialPending
  <2> QED
    BY <1>2, <2>1, <2>2, <2>3
<1>3. ASSUME NEW o \in Owners, ApplyCommand(o) PROVE SessionIInv'
  <2> USE <1>3 DEF ApplyCommand
  <2>1. SessionTypeOK'
    BY DEF SessionTypeOK, Commands
  <2>2. AskedOK' /\ SearchOK'
    BY DEF AskedOK, SearchOK, Unlocked, Out
  <2>3. TargetOK' /\ SampleOK'
    BY DEF TargetOK, SampleOK
  <2>4. OwnersKeepApart'
    BY DEF OwnersKeepApart, TrialPending
  <2> QED
    BY <2>1, <2>2, <2>3, <2>4
<1>4. ASSUME NEW o \in Owners, Release(o) PROVE SessionIInv'
  BY <1>2, <1>4 DEF Release, SessionTypeOK
<1>5. CASE PollHost
  <2>1. accepting' \in BOOLEAN /\ commands' \in SUBSET Commands
    BY <1>5 DEF PollHost, SessionTypeOK, Commands
  <2>2. UNCHANGED <<owner, releasing, host, targets, engineState, work, revision, dispatch>>
    BY <1>5 DEF PollHost
  <2>3. SessionTypeOK'
    BY <2>1, <2>2 DEF SessionTypeOK
  <2> QED
    BY <1>2, <1>5, <2>2, <2>3 DEF PollHost
<1>6. CASE Flag
  BY <1>2, <1>6 DEF Flag, SessionTypeOK
<1>7. CASE Post
  BY <1>2, <1>7 DEF Post, SessionTypeOK, Commands
<1> QED
  BY <1>1, <1>3, <1>4, <1>5, <1>6, <1>7 DEF Worker, Releasing

LEMMA EngineKeeps ==
  ASSUME SessionIInv, Hook \/ (\E it \in BOOLEAN : Retire(it)) \/ Movement \/ Rejected PROVE SessionIInv'
<1> USE DEF SessionIInv, posted, targets, engineState, work
<1>1. ASSUME UNCHANGED <<posted, search, trial, selected, dispatch>> PROVE AskedOK' /\ OwnersKeepApart'
  BY <1>1 DEF AskedOK, OwnersKeepApart, TrialPending, Unlocked
<1>2. ASSUME NEW it \in BOOLEAN, Retire(it) PROVE SessionIInv'
  <2> USE <1>2 DEF Retire
  <2>0. /\ serial \in Nat /\ serial' = serial + 1 /\ serial' \in Nat /\ retiring' /\ hook' # Out
        /\ hook' \in Hooks /\ hook'.at = "counted"
    BY DEF SessionTypeOK, Hooks, Out
  <2>u. UNCHANGED <<accepting, commands, owner, releasing, host, status, ui, after, search, trial, sample,
                    selected, selections, watched, retired, revision, body, dispatch>>
    OBVIOUS
  <2> HIDE <1>2 DEF Retire
  <2>1. SessionTypeOK'
    BY <2>0, <2>u DEF SessionTypeOK
  <2>2. SearchOK'
    BY <2>u DEF SearchOK
  <2>3. TargetOK'
    BY <2>0, <2>u, Numbers DEF TargetOK, Out
  <2>4. SampleOK'
    BY <2>0, <2>u, Numbers DEF SampleOK
  <2> QED
    BY <1>1, <1>2, <2>1, <2>2, <2>3, <2>4 DEF Retire
<1>3. CASE Mark
  <2> USE <1>3 DEF Mark
  <2>1. hook \in Hooks /\ hook' = [hook EXCEPT !.at = "marked"]
    BY DEF SessionTypeOK, Out
  <2>2. SessionTypeOK'
    BY <2>1 DEF SessionTypeOK, Hooks
  <2>3. SearchOK'
    BY DEF SearchOK
  <2>4. TargetOK'
    BY <2>1 DEF TargetOK, SessionTypeOK, Hooks, Out, SearchOK
  <2>5. SampleOK'
    BY DEF SampleOK
  <2> QED
    BY <1>1, <2>2, <2>3, <2>4, <2>5
<1>4. CASE Gone
  <2> USE <1>4 DEF Gone
  <2>1. hook \in Hooks /\ hook' = [hook EXCEPT !.at = "gone"]
    BY DEF SessionTypeOK, Out
  <2>2. SessionTypeOK'
    BY <2>1 DEF SessionTypeOK, Hooks
  <2>3. SearchOK'
    BY DEF SearchOK
  <2>4. TargetOK'
    BY <2>1 DEF TargetOK, SessionTypeOK, Hooks, Out, SearchOK
  <2>5. SampleOK'
    BY <2>1 DEF SampleOK, TargetOK, Hooks, Out
  <2> QED
    BY <1>1, <2>2, <2>3, <2>4, <2>5
<1>5. CASE Retired
  <2>r. retiring' = FALSE /\ hook' = Out /\ serial' = serial + 1
    BY <1>5 DEF Retired
  <2>s. serial \in Nat /\ serial' \in Nat
    BY <2>r DEF SessionTypeOK
  <2>0. serial \in Nat /\ serial' = serial + 1 /\ serial' \in Nat /\ ~retiring' /\ retiring' \in BOOLEAN /\ hook' = Out
    BY <2>r, <2>s, Zenon
  <2>u. UNCHANGED <<accepting, commands, owner, releasing, host, status, ui, after, search, trial, sample,
                    selected, selections, watched, retired, revision, body, dispatch>>
    BY <1>5 DEF Retired
  <2>1. SessionTypeOK'
    BY <2>0, <2>u DEF SessionTypeOK
  <2>2. SearchOK'
    BY <2>u DEF SearchOK
  <2>3. TargetOK'
    BY <2>0, <2>u, <1>5, Numbers DEF TargetOK, Out, Retired
  <2>4. SampleOK'
    BY <2>0, <2>u, Numbers DEF SampleOK
  <2> QED
    BY <1>1, <2>u, <2>1, <2>2, <2>3, <2>4
<1>6. CASE Movement
  <2> USE <1>6 DEF Movement
  <2>1. SessionTypeOK'
    BY DEF SessionTypeOK
  <2>2. SearchOK' /\ TargetOK'
    BY DEF SearchOK, TargetOK
  <2>3. SampleOK'
    BY DEF SampleOK
  <2> QED
    BY <1>1, <2>1, <2>2, <2>3
<1>7. CASE Rejected
  <2> USE <1>7 DEF Rejected
  <2>1. SessionTypeOK'
    BY DEF SessionTypeOK
  <2>2. SearchOK' /\ TargetOK' /\ SampleOK'
    BY DEF SearchOK, TargetOK, SampleOK
  <2> QED
    BY <1>1, <2>1, <2>2
<1> QED
  BY <1>2, <1>3, <1>4, <1>5, <1>6, <1>7 DEF Hook

\* What the record of the callback looks like, by the step it is at, and that a step
\* to one further on keeps the rest of it.
LEMMA Shapes ==
  ASSUME SessionTypeOK
  PROVE  /\ dispatch.at = "out" <=> Unlocked
         /\ dispatch.at \in {"work", "seek"} => dispatch \in Working
         /\ dispatch.at \in {"publish", "arm", "check"} => dispatch \in Finding
         /\ dispatch.at \in {"sample", "read"} => dispatch \in Working \union Finding
         /\ dispatch.at = "keep" => dispatch \in Reading
         /\ dispatch.at = "store" => dispatch \in Storing
<1> USE DEF SessionTypeOK, Dispatches, Out, Unlocked
<1>1. dispatch.at \in {"work", "seek"} => dispatch \in Working
  BY DEF Finding, Reading, Storing
<1>2. dispatch.at \in {"publish", "arm", "check"} => dispatch \in Finding
  BY DEF Working, Reading, Storing
<1>3. dispatch.at \in {"sample", "read"} => dispatch \in Working \union Finding
  BY DEF Reading, Storing
<1>4. dispatch.at = "keep" => dispatch \in Reading
  BY DEF Working, Finding, Storing
<1>5. dispatch.at = "store" => dispatch \in Storing
  BY DEF Working, Finding, Reading
<1>6. dispatch.at = "out" <=> Unlocked
  BY DEF Working, Finding, Reading, Storing
<1> QED
  BY <1>1, <1>2, <1>3, <1>4, <1>5, <1>6

LEMMA WorkingGoes ==
  ASSUME NEW step \in {"work", "seek", "sample", "read", "end"}, dispatch \in Working, Proceeds(step)
  PROVE  dispatch' \in Dispatches /\ dispatch'.at = step
BY DEF Proceeds, Working, Dispatches

LEMMA FindingGoes ==
  ASSUME NEW step \in {"publish", "arm", "check", "sample", "read", "end"}, dispatch \in Finding, Proceeds(step)
  PROVE  dispatch' \in Dispatches /\ dispatch'.at = step /\ dispatch'.scope = dispatch.scope
BY DEF Proceeds, Finding, Dispatches

LEMMA OthersGo ==
  ASSUME dispatch \in Reading \union Storing, Proceeds("end")
  PROVE  dispatch' \in Dispatches /\ dispatch'.at = "end"
BY DEF Proceeds, Reading, Storing, Dispatches

\* Most steps only have to leave the fields typed and the selection where it is; for
\* these, it is enough to look at what they end or begin.
LEMMA StepKeeps ==
  ASSUME SessionIInv, SessionTypeOK', dispatch.at # "out", dispatch.at # "check",
         UNCHANGED <<commands, selections, serial, retiring, hook, body, revision>>,
         dispatch'.at \in {"out", "sample", "read", "end", "unflag"},
         owner' # owner => ~search.pending' /\ selected' = NoSample /\ trial' = NoTrial,
         search.pending' => search' = search,
         search.pending' => selected' = NoSample /\ retired',
         trial' # NoTrial => trial'.for = owner,
         selected' # NoSample => selected' = selected /\ watched' = watched /\ (retired => retired'),
         dispatch'.at = "read" => selected' # NoSample,
         sample' = sample \/ sample' = NoSample
  PROVE  SessionIInv'
<1> USE DEF SessionIInv
<1>1. AskedOK'
  BY Shapes DEF AskedOK, Unlocked
<1>2. SearchOK'
  BY DEF SearchOK
<1>3. TargetOK'
  BY DEF TargetOK
<1>4. SampleOK'
  BY DEF SampleOK
<1>5. OwnersKeepApart'
  BY DEF OwnersKeepApart, TrialPending
<1> QED
  BY <1>1, <1>2, <1>3, <1>4, <1>5

LEMMA TrialSteps ==
  ASSUME SessionIInv, TrialPoll \/ TrialApply PROVE SessionIInv'
<1> USE DEF SessionIInv
<1>1. dispatch.at = "work" /\ dispatch \in Working /\ dispatch' \in Dispatches /\ dispatch'.at = "sample"
  BY Shapes, WorkingGoes DEF TrialPoll, TrialApply, Left, Ended
<1>2. UNCHANGED <<commands, owner, selections, serial, retiring, hook, body, revision, watched, retired, search, sample,
                  accepting, releasing, host>>
  BY DEF TrialPoll, TrialApply, Left, Ended, posted, targets, engineState
<1>3. selected' = selected \/ selected' = NoSample
  BY DEF TrialPoll, TrialApply, targets
<1>4. trial' = NoTrial \/ (trial' \in Trials /\ trial'.for = owner)
  <2>1. CASE TrialPoll
    <3>1. trial \in Trials /\ trial.for = owner
      BY <2>1 DEF TrialPoll, TrialPending, SessionTypeOK, OwnersKeepApart
    <3> QED
      BY <2>1, <3>1 DEF TrialPoll, Left, Ended, Trials
  <2>2. CASE TrialApply
    <3>1. ~TrialPending /\ selected # NoSample
      BY <2>2 DEF TrialApply
    <3>2. selected.for \in Owners /\ selected.for = owner
      BY <3>1 DEF SessionTypeOK, OwnersKeepApart, Selections
    <3> QED
      BY <2>2, <3>1, <3>2 DEF TrialApply, Left, Ended, Trials, TrialPending
  <2> QED
    BY <2>1, <2>2
<1>5. /\ after' \in BOOLEAN /\ ui' \in {"selected", "other"}
      /\ status' \in {"idle", "queued", "searching", "selected", "active", "restoring", "done", "failed"}
  BY DEF TrialPoll, TrialApply, Left, Ended, SessionTypeOK
<1>6. SessionTypeOK'
  BY <1>1, <1>2, <1>3, <1>4, <1>5 DEF SessionTypeOK
<1>7. search.pending => selected = NoSample /\ retired
  BY DEF SearchOK
<1>8. search.pending => search.for = owner /\ search.serial <= serial
  BY DEF OwnersKeepApart, TargetOK
<1> QED
  BY <1>1, <1>2, <1>3, <1>4, <1>6, <1>7, <1>8, StepKeeps

LEMMA SearchSteps ==
  ASSUME SessionIInv, CancelSelection \/ NothingToDo \/ NotNow PROVE SessionIInv'
<1> USE DEF SessionIInv
<1>1. dispatch' \in Dispatches /\ dispatch.at \in {"work", "sample"} /\ dispatch'.at \in {"sample", "end"}
  BY Shapes, WorkingGoes, FindingGoes DEF CancelSelection, NothingToDo, NotNow
<1>2. UNCHANGED <<commands, owner, selections, serial, retiring, hook, body, revision, trial, sample,
                  accepting, releasing, host, status>>
  BY DEF CancelSelection, NothingToDo, NotNow, posted, targets, engineState, work
<1>3. \/ UNCHANGED <<selected, watched, retired, search, after, ui>>
      \/ selected' = NoSample /\ watched' = 0 /\ retired' = TRUE /\ search' = NoSearch /\ after' = FALSE /\ ui' = "other"
  BY DEF CancelSelection, NothingToDo, NotNow, targets, work, Forget
<1>4. SessionTypeOK'
  <2>1. CASE UNCHANGED <<selected, watched, retired, search, after, ui>>
    BY <1>1, <1>2, <2>1 DEF SessionTypeOK
  <2>2. CASE selected' = NoSample /\ watched' = 0 /\ retired' = TRUE /\ search' = NoSearch /\ after' = FALSE /\ ui' = "other"
    <3>1. retired' \in BOOLEAN /\ after' \in BOOLEAN
      BY <2>2, Zenon
    <3> QED
      BY <1>1, <1>2, <2>2, <3>1 DEF SessionTypeOK
  <2> QED
    BY <1>3, <2>1, <2>2
<1>5. search.pending => selected = NoSample /\ retired
  BY DEF SearchOK
<1>6. trial # NoTrial => trial.for = owner
  BY DEF OwnersKeepApart, TrialPending
<1> QED
  BY <1>1, <1>2, <1>3, <1>4, <1>5, <1>6, StepKeeps DEF NoSearch

LEMMA SelectSteps ==
  ASSUME SessionIInv, SearchBegins PROVE SessionIInv'
<1> USE DEF SessionIInv
<1>1. dispatch.at = "work" /\ dispatch \in Working /\ dispatch' \in Dispatches /\ dispatch'.at \in {"seek", "sample"}
  BY Shapes, WorkingGoes DEF SearchBegins
<1>2. UNCHANGED <<commands, owner, selections, serial, retiring, hook, body, revision, trial,
                  accepting, releasing, host, status>>
  BY DEF SearchBegins, posted, engineState
<1>3. selected' = NoSample /\ watched' = 0 /\ retired' /\ retired' \in BOOLEAN /\ after' \in BOOLEAN
  BY Zenon DEF SearchBegins, Forget
<1>4. sample' = NoSample /\ ui' \in {"selected", "other"}
  BY DEF SearchBegins, SessionTypeOK
<1>5. owner \in Owners
  BY <1>1 DEF SearchBegins, Due, AskedOK
<1>6. \/ search' \in Searches /\ search'.for = owner /\ search'.serial = serial
      \/ dispatch'.at = "sample" /\ search' = NoSearch
  <2>1. \/ search' = [pending |-> TRUE, serial |-> serial, for |-> owner]
        \/ dispatch'.at = "sample" /\ search' = NoSearch
    BY <1>1, WorkingGoes DEF SearchBegins
  <2>2. serial \in Nat
    BY DEF SessionTypeOK
  <2>3. ASSUME search' = [pending |-> TRUE, serial |-> serial, for |-> owner]
        PROVE  search' \in Searches /\ search'.for = owner /\ search'.serial = serial
    BY <1>5, <2>2, <2>3 DEF Searches
  <2> QED
    BY <2>1, <2>3
<1>7. SessionTypeOK'
  BY <1>1, <1>2, <1>3, <1>4, <1>6 DEF SessionTypeOK
<1>8. ~TrialPending /\ trial = NoTrial
  BY DEF SearchBegins, TrialPending
<1>9. AskedOK'
  <2>1. search' \in Searches => search'.pending
    BY DEF Searches
  <2> QED
    BY <1>1, <1>2, <1>6, <2>1, Shapes DEF AskedOK, Unlocked
<1>10. SearchOK'
  BY <1>1, <1>3 DEF SearchOK
<1>11. TargetOK'
  BY <1>1, <1>2, <1>3, <1>6 DEF TargetOK, SessionTypeOK, NoSearch
<1>12. SampleOK'
  BY <1>1, <1>4 DEF SampleOK
<1>13. OwnersKeepApart'
  BY <1>2, <1>3, <1>6, <1>8 DEF OwnersKeepApart, TrialPending, NoSearch
<1> QED
  BY <1>7, <1>9, <1>10, <1>11, <1>12, <1>13

LEMMA SearchGoesOnKeeps ==
  ASSUME SessionIInv, SearchGoesOn PROVE SessionIInv'
<1> USE DEF SessionIInv
<1>1. dispatch.at = "work" /\ dispatch \in Working /\ dispatch' \in Dispatches /\ dispatch'.at \in {"seek", "sample"}
  BY Shapes, WorkingGoes DEF SearchGoesOn
<1>2. UNCHANGED <<commands, owner, selections, serial, retiring, hook, body, revision, trial, sample,
                  accepting, releasing, host, status, after, selected, watched, retired>>
  BY DEF SearchGoesOn, posted, targets, engineState
<1>3. /\ search.pending /\ search \in Searches
      /\ search' = search \/ search' = NoSearch
      /\ dispatch'.at = "seek" => search' = search
      /\ ui' \in {"selected", "other"}
  BY <1>1, WorkingGoes DEF SearchGoesOn, SessionTypeOK, NoSearch
<1>4. SessionTypeOK'
  BY <1>1, <1>2, <1>3 DEF SessionTypeOK
<1>5. AskedOK'
  BY <1>1, <1>2, <1>3, Shapes DEF AskedOK, Unlocked
<1>6. SearchOK'
  BY <1>1, <1>2, <1>3 DEF SearchOK, NoSearch
<1>7. TargetOK'
  BY <1>1, <1>2, <1>3 DEF TargetOK, NoSearch
<1>8. SampleOK'
  BY <1>1, <1>2 DEF SampleOK
<1>9. OwnersKeepApart'
  BY <1>2, <1>3 DEF OwnersKeepApart, TrialPending, NoSearch
<1> QED
  BY <1>4, <1>5, <1>6, <1>7, <1>8, <1>9

LEMMA SeekKeeps ==
  ASSUME SessionIInv, Seek PROVE SessionIInv'
<1> USE DEF SessionIInv
<1>1. dispatch.at = "seek" /\ dispatch \in Working /\ search.pending /\ search \in Searches
  BY Shapes DEF Seek, AskedOK, SessionTypeOK, NoSearch
<1>2. UNCHANGED <<commands, owner, selections, serial, retiring, hook, body, revision, trial, sample,
                  accepting, releasing, host, status, after, selected, watched, retired>>
  BY DEF Seek, posted, targets, engineState
<1>3. search.for = owner /\ owner \in Owners /\ search.serial \in Nat /\ search.serial <= serial
      /\ selected = NoSample /\ retired
  BY <1>1 DEF OwnersKeepApart, Searches, SearchOK, TargetOK
<1>4. CASE Proceeds("sample") /\ search' \in {search, NoSearch} /\ ui' = "other"
  <2>1. dispatch' \in Dispatches /\ dispatch'.at = "sample"
    BY <1>1, <1>4, WorkingGoes
  <2>2. SessionTypeOK'
    BY <1>2, <1>4, <2>1 DEF SessionTypeOK
  <2>3. trial # NoTrial => trial.for = owner
    BY DEF OwnersKeepApart, TrialPending
  <2> QED
    BY <1>1, <1>2, <1>3, <1>4, <2>1, <2>2, <2>3, StepKeeps DEF NoSearch
<1>5. CASE /\ ~retiring /\ search' = NoSearch /\ ui' = ui
           /\ dispatch' = [at |-> "publish", keep |-> dispatch.keep, foreign |-> dispatch.foreign,
                           recent |-> dispatch.recent, requested |-> dispatch.requested, found |-> body,
                           scope |-> search.serial]
  <2>1. dispatch' \in Finding /\ dispatch'.at = "publish" /\ dispatch'.found = body /\ dispatch'.scope = search.serial
    BY <1>1, <1>3, <1>5 DEF Working, Finding, SessionTypeOK
  <2>2. SessionTypeOK'
    BY <1>2, <1>5, <2>1 DEF SessionTypeOK, Dispatches
  <2>3. AskedOK'
    BY <1>1, <1>2, <1>3, <1>5, <2>1, Shapes DEF AskedOK, Unlocked, NoSearch
  <2>4. SearchOK'
    BY <1>2, <1>3, <1>5, <2>1 DEF SearchOK
  <2>5. TargetOK'
    BY <1>2, <1>3, <1>5, <2>1 DEF TargetOK, NoSearch
  <2>6. SampleOK'
    BY <1>2, <2>1 DEF SampleOK
  <2>7. OwnersKeepApart'
    BY <1>2, <1>5 DEF OwnersKeepApart, TrialPending, NoSearch
  <2> QED
    BY <2>2, <2>3, <2>4, <2>5, <2>6, <2>7
<1> QED
  BY <1>4, <1>5 DEF Seek

LEMMA PublishKeeps ==
  ASSUME SessionIInv, PublishFound PROVE SessionIInv'
<1> USE DEF SessionIInv
<1>1. /\ dispatch.at = "publish" /\ dispatch \in Finding
      /\ dispatch' \in Dispatches /\ dispatch'.at = "arm" /\ dispatch'.scope = dispatch.scope
  BY Shapes, FindingGoes DEF PublishFound
<1>2. UNCHANGED <<commands, owner, serial, retiring, hook, body, revision, trial, sample, search, ui,
                  accepting, releasing, host, status, after, retired>>
  BY DEF PublishFound, posted, engineState, work
<1>3. /\ selections \in Nat /\ selections' = selections + 1 /\ selections' \in Nat \ {0}
      /\ watched' = dispatch.found /\ dispatch.found \in Nat
      /\ owner \in Owners /\ retired
  BY <1>1 DEF PublishFound, SessionTypeOK, Finding, AskedOK, SearchOK
<1>4. /\ selected' \in Selections /\ selected' # NoSample
      /\ selected'.body = dispatch.found /\ selected'.for = owner /\ selected'.epoch = selections'
  <2>1. selected' = [epoch |-> selections', body |-> dispatch.found, for |-> owner]
    BY DEF PublishFound
  <2> QED
    BY <1>3, <2>1 DEF Selections, NoSample
<1>5. SessionTypeOK'
  BY <1>1, <1>2, <1>3, <1>4 DEF SessionTypeOK
<1>6. AskedOK'
  BY <1>1, <1>2, <1>3, Shapes DEF AskedOK, Unlocked
<1>7. ~search.pending
  BY <1>1 DEF AskedOK
<1>8. SearchOK'
  BY <1>1, <1>2, <1>3, <1>4, <1>7 DEF SearchOK
<1>9. TargetOK'
  BY <1>1, <1>2, <1>3, <1>4 DEF TargetOK
<1>10. SampleOK'
  BY <1>1, <1>2, <1>3, <1>4, Numbers DEF SampleOK
<1>11. OwnersKeepApart'
  BY <1>2, <1>4 DEF OwnersKeepApart, TrialPending
<1> QED
  BY <1>5, <1>6, <1>8, <1>9, <1>10, <1>11

LEMMA ArmKeeps ==
  ASSUME SessionIInv, Arm PROVE SessionIInv'
<1> USE DEF SessionIInv
<1>1. /\ dispatch.at = "arm" /\ dispatch \in Finding
      /\ dispatch' \in Dispatches /\ dispatch'.at = "check" /\ dispatch'.scope = dispatch.scope
  BY Shapes, FindingGoes DEF Arm
<1>2. UNCHANGED <<commands, owner, serial, retiring, hook, body, revision, trial, sample, search, ui,
                  accepting, releasing, host, status, after, selected, selections, watched>>
  BY DEF Arm, posted, engineState, work
<1>3. retired' = FALSE
  BY DEF Arm
<1>4. retired' \in BOOLEAN
  BY <1>3, Zenon
<1>5. SessionTypeOK'
  BY <1>1, <1>2, <1>4 DEF SessionTypeOK
<1>6. AskedOK'
  BY <1>1, <1>2, Shapes DEF AskedOK, Unlocked
<1>7. selected # NoSample /\ ~search.pending
  BY <1>1 DEF SearchOK
<1>8. SearchOK'
  BY <1>1, <1>2, <1>7 DEF SearchOK
<1>9. TargetOK'
  BY <1>1, <1>2 DEF TargetOK
<1>10. SampleOK'
  BY <1>1, <1>2 DEF SampleOK
<1>11. OwnersKeepApart'
  BY <1>2 DEF OwnersKeepApart, TrialPending
<1> QED
  BY <1>5, <1>6, <1>8, <1>9, <1>10, <1>11

LEMMA CheckKeeps ==
  ASSUME SessionIInv, Check PROVE SessionIInv'
<1> USE DEF SessionIInv
<1>1. /\ dispatch.at = "check" /\ dispatch \in Finding
      /\ dispatch' \in Dispatches /\ dispatch'.at = "sample" /\ dispatch'.scope = dispatch.scope
  BY Shapes, FindingGoes DEF Check
<1>2. UNCHANGED <<commands, owner, serial, retiring, hook, body, revision, trial, sample, search,
                  accepting, releasing, host, status, after, selections, watched>>
  BY DEF Check, posted, engineState
<1>3. /\ retired' \in BOOLEAN
      /\ ~retired' => ~retired /\ ~retiring /\ serial = dispatch.scope /\ selected' = selected
      /\ selected' \in {selected, NoSample}
      /\ ui' \in {"selected", "other"}
      /\ retired' => selected' = NoSample
  BY DEF Check, Disturbed, SessionTypeOK
<1>4. SessionTypeOK'
  BY <1>1, <1>2, <1>3 DEF SessionTypeOK
<1>5. AskedOK'
  BY <1>1, <1>2, Shapes DEF AskedOK, Unlocked
<1>6. selected # NoSample /\ ~search.pending
  BY <1>1 DEF SearchOK
<1>7. SearchOK'
  BY <1>1, <1>2, <1>3, <1>6 DEF SearchOK
<1>8. TargetOK'
  BY <1>1, <1>2, <1>3, <1>6 DEF TargetOK, Out
<1>9. SampleOK'
  BY <1>1, <1>2, <1>3 DEF SampleOK
<1>10. OwnersKeepApart'
  BY <1>2, <1>3 DEF OwnersKeepApart, TrialPending
<1> QED
  BY <1>4, <1>5, <1>7, <1>8, <1>9, <1>10

LEMMA SampleSteps ==
  ASSUME SessionIInv, Sample PROVE SessionIInv'
<1> USE DEF SessionIInv
<1>1. dispatch.at = "sample" /\ dispatch' \in Dispatches /\ dispatch'.at \in {"read", "end"}
  BY Shapes, WorkingGoes, FindingGoes DEF Sample, Proceeds
<1>2. UNCHANGED <<commands, owner, serial, retiring, hook, body, revision, trial, search, ui, selected, retired,
                  accepting, releasing, host, status, after, selections, watched>>
  BY DEF Sample, posted, engineState, targets
<1>3. selected # NoSample /\ sample' = NoSample
  BY DEF Sample
<1>4. SessionTypeOK'
  BY <1>1, <1>2, <1>3 DEF SessionTypeOK
<1>5. ~search.pending /\ (trial # NoTrial => trial.for = owner)
  BY <1>3 DEF SearchOK, OwnersKeepApart, TrialPending
<1> QED
  BY <1>1, <1>2, <1>3, <1>4, <1>5, StepKeeps

LEMMA ReadKeeps ==
  ASSUME SessionIInv, ReadBody \/ Access PROVE SessionIInv'
<1> USE DEF SessionIInv
<1>1. UNCHANGED <<commands, owner, serial, retiring, hook, body, revision, trial, search, ui, selected, retired,
                  accepting, releasing, host, status, after, selections, watched, sample>>
  BY DEF ReadBody, Access, posted, engineState, targets, work
<1>2. /\ dispatch.at \in {"read", "keep"} /\ dispatch' \in Dispatches /\ selected # NoSample
      /\ dispatch'.at \in {"keep", "store", "end"}
      /\ dispatch'.at \in {"keep", "store"} => dispatch'.before <= serial
      /\ dispatch'.at = "store" => dispatch'.of = body /\ ~retiring
  <2>1. CASE ReadBody
    <3>1. dispatch.at = "read" /\ dispatch \in Working \union Finding
      BY <2>1, Shapes DEF ReadBody
    <3>2. dispatch' \in Reading /\ dispatch'.at = "keep" /\ dispatch'.before = serial
      BY <2>1, <3>1 DEF ReadBody, Working, Finding, Reading, SessionTypeOK
    <3> QED
      BY <3>1, <3>2, Numbers DEF Dispatches, SearchOK
  <2>2. CASE Access
    <3>1. dispatch.at = "keep" /\ dispatch \in Reading /\ dispatch.before \in Nat /\ dispatch.before <= serial
      BY <2>2, Shapes DEF Access, Reading, SampleOK
    <3>2. CASE Proceeds("end")
      BY <3>1, <3>2, OthersGo DEF SearchOK
    <3>3. CASE Resolved /\ dispatch' = [at |-> "store", keep |-> dispatch.keep, requested |-> dispatch.requested,
                                        before |-> dispatch.before, revision |-> dispatch.revision, of |-> body]
      <4>1. /\ dispatch' \in Storing /\ dispatch'.at = "store" /\ dispatch'.before = dispatch.before
            /\ dispatch'.of = body
        BY <3>1, <3>3 DEF Reading, Storing, SessionTypeOK
      <4> QED
        BY <3>1, <3>3, <4>1 DEF Dispatches, SearchOK, Resolved
    <3> QED
      BY <2>2, <3>2, <3>3 DEF Access
  <2> QED
    BY <2>1, <2>2
<1>3. SessionTypeOK'
  BY <1>1, <1>2 DEF SessionTypeOK
<1>4. AskedOK'
  BY <1>1, <1>2, Shapes DEF AskedOK, Unlocked
<1>5. SearchOK'
  BY <1>1, <1>2 DEF SearchOK
<1>6. TargetOK'
  BY <1>1, <1>2 DEF TargetOK
<1>7. SampleOK'
  BY <1>1, <1>2 DEF SampleOK
<1>8. OwnersKeepApart'
  BY <1>1 DEF OwnersKeepApart, TrialPending
<1> QED
  BY <1>3, <1>4, <1>5, <1>6, <1>7, <1>8

LEMMA StoreKeeps ==
  ASSUME SessionIInv, StoreSample PROVE SessionIInv'
<1> USE DEF SessionIInv
<1>1. /\ dispatch.at = "store" /\ dispatch \in Storing /\ dispatch' \in Dispatches /\ dispatch'.at = "end"
      /\ selected # NoSample /\ selected \in Selections
  BY Shapes, OthersGo DEF StoreSample, SearchOK, SessionTypeOK
<1>2. UNCHANGED <<commands, owner, serial, retiring, hook, body, revision, trial, search, ui, selected, retired,
                  accepting, releasing, host, status, after, selections, watched>>
  BY DEF StoreSample, posted, engineState, targets
<1>3. CASE sample' = sample
  <2>1. SessionTypeOK'
    BY <1>1, <1>2, <1>3 DEF SessionTypeOK
  <2>2. ~search.pending /\ (trial # NoTrial => trial.for = owner)
    BY <1>1 DEF SearchOK, OwnersKeepApart, TrialPending
  <2> QED
    BY <1>1, <1>2, <1>3, <2>1, <2>2, StepKeeps
<1>4. CASE /\ Unchanged
           /\ sample' = [epoch |-> selected.epoch, serial |-> dispatch.before, revision |-> dispatch.revision,
                         of |-> dispatch.of, for |-> selected.for]
  <2>1. /\ dispatch.before = serial /\ ~retiring /\ dispatch.of = body
        /\ serial \in Nat /\ selected.epoch <= selections
    BY <1>1, <1>4 DEF Unchanged, SampleOK, SessionTypeOK, SearchOK
  <2>2. /\ sample' \in Samples /\ sample'.serial = serial /\ sample'.of = body
        /\ sample'.epoch = selected.epoch /\ sample'.for = selected.for
    BY <1>1, <1>4, <2>1 DEF Samples, Storing, Selections
  <2>3. SessionTypeOK'
    BY <1>1, <1>2, <2>2 DEF SessionTypeOK
  <2>4. AskedOK'
    BY <1>1, <1>2, Shapes DEF AskedOK, Unlocked
  <2>5. SearchOK'
    BY <1>1, <1>2 DEF SearchOK
  <2>6. TargetOK'
    BY <1>1, <1>2 DEF TargetOK
  <2>7. SampleOK'
    BY <1>1, <1>2, <2>1, <2>2 DEF SampleOK
  <2>8. OwnersKeepApart'
    BY <1>2 DEF OwnersKeepApart, TrialPending
  <2> QED
    BY <2>3, <2>4, <2>5, <2>6, <2>7, <2>8
<1> QED
  BY <1>3, <1>4 DEF StoreSample

LEMMA EndKeeps ==
  ASSUME SessionIInv, EndDispatch \/ Unflag PROVE SessionIInv'
<1> USE DEF SessionIInv
<1>1. dispatch.at \in {"end", "unflag"} /\ dispatch' \in Dispatches /\ dispatch'.at \in {"out", "unflag"}
  BY DEF EndDispatch, Unflag, Dispatches, Out
<1>2. UNCHANGED <<commands, selections, serial, retiring, hook, body, revision, trial, accepting, host>>
  BY DEF EndDispatch, Unflag, posted, engineState, targets, work
<1>3. search.pending => selected = NoSample /\ retired
  BY DEF SearchOK
<1>4. trial # NoTrial => trial.for = owner
  BY DEF OwnersKeepApart, TrialPending
<1>5. CASE Unflag
  <2>1. /\ UNCHANGED <<owner, search, selected, watched, retired, sample, status, ui, after>>
        /\ releasing' = FALSE
    BY <1>5 DEF Unflag, targets, work
  <2>2. releasing' \in BOOLEAN
    BY <2>1, Zenon
  <2>3. SessionTypeOK'
    BY <1>1, <1>2, <2>1, <2>2 DEF SessionTypeOK
  <2> QED
    BY <1>1, <1>2, <1>3, <1>4, <2>1, <2>3, StepKeeps
<1>6. CASE EndDispatch
  <2>1. PICK lapsed \in BOOLEAN :
       LET gone == selected = NoSample \/ (~TrialPending /\ lapsed)
           back == ~TrialPending /\ GivesBack
           cleared == back \/ (~TrialPending /\ lapsed /\ (after \/ selected # NoSample)) IN
       /\ IF cleared THEN Forget /\ after' = FALSE ELSE UNCHANGED <<selected, watched, retired, after>>
       /\ status' = IF back THEN "idle" ELSE IF TrialPending THEN status ELSE Told(gone)
       /\ search' = IF back THEN NoSearch ELSE search
       /\ ui' = IF back THEN "other" ELSE ui
       /\ owner' = IF ~TrialPending /\ (back \/ (gone /\ ~search.pending)) THEN NoOwner ELSE owner
       /\ dispatch' = IF back THEN [at |-> "unflag"] ELSE Out
       /\ sample' = IF gone \/ back \/ ~dispatch.keep \/ retired \/ releasing \/ status' \in Blocked THEN NoSample ELSE sample
    BY <1>6 DEF EndDispatch
  <2>2. UNCHANGED releasing
    BY <1>6 DEF EndDispatch
  <2>3. \/ UNCHANGED <<selected, watched, retired, after>>
        \/ selected' = NoSample /\ watched' = 0 /\ retired' = TRUE /\ after' = FALSE
    BY <2>1 DEF Forget
  <2>4. watched' \in Nat /\ retired' \in BOOLEAN /\ after' \in BOOLEAN
    <3>1. CASE UNCHANGED <<selected, watched, retired, after>>
      BY <3>1 DEF SessionTypeOK
    <3>2. CASE selected' = NoSample /\ watched' = 0 /\ retired' = TRUE /\ after' = FALSE
      <4>1. retired' \in BOOLEAN /\ after' \in BOOLEAN
        BY <3>2, Zenon
      <4> QED
        BY <3>2, <4>1
    <3> QED
      BY <2>3, <3>1, <3>2
  <2>5. /\ selected' \in {selected, NoSample}
        /\ selected' # NoSample => selected' = selected /\ watched' = watched /\ (retired => retired')
        /\ retired => retired'
    BY <2>3
  <2>6. search' \in {search, NoSearch} /\ sample' \in {sample, NoSample}
    BY <2>1
  <2>7. ui' \in {"selected", "other"}
    BY <2>1 DEF SessionTypeOK
  <2>8. status' \in {"idle", "queued", "searching", "selected", "active", "restoring", "done", "failed"}
    <3>1. ASSUME NEW gone PROVE Told(gone) \in {"searching", "selected", "failed", "idle", status}
      BY DEF Told
    <3>2. status' \in {"searching", "selected", "failed", "idle", status}
      BY <2>1, <3>1
    <3> QED
      BY <3>2 DEF SessionTypeOK
  <2>9. owner' \in {owner, NoOwner}
    BY <2>1
  <2>10. SessionTypeOK'
    BY <1>1, <1>2, <2>2, <2>4, <2>5, <2>6, <2>7, <2>8, <2>9 DEF SessionTypeOK
  <2>11. owner' # owner => ~search.pending' /\ selected' = NoSample /\ trial' = NoTrial
    BY <1>2, <2>1 DEF TrialPending, Forget, NoSearch
  <2>12. search.pending' => search' = search /\ selected' = NoSample /\ retired'
    BY <1>3, <2>5, <2>6 DEF NoSearch
  <2>13. trial' # NoTrial => trial'.for = owner
    BY <1>2, <1>4
  <2> QED
    BY <1>1, <1>2, <2>5, <2>6, <2>10, <2>11, <2>12, <2>13, StepKeeps
<1> QED
  BY <1>5, <1>6

LEMMA BeginKeeps ==
  ASSUME SessionIInv, Begin PROVE SessionIInv'
<1> USE DEF SessionIInv
<1>1. Unlocked /\ commands' = {}
  BY DEF Begin
<1>2. PICK keep, recent, foreign \in BOOLEAN :
       /\ dispatch' = [at |-> "work", keep |-> keep /\ accepting, recent |-> recent,
                       foreign |-> foreign, requested |-> commands]
       /\ sample' = IF foreign THEN NoSample ELSE sample
  BY DEF Begin
<1>3. UNCHANGED <<owner, selections, serial, retiring, hook, body, revision, trial, search, selected, watched,
                  retired, accepting, releasing, host, status, ui, after>>
  BY DEF Begin, targets, engineState
<1>4. (keep /\ accepting) \in BOOLEAN /\ commands \in SUBSET Commands
  BY DEF SessionTypeOK
<1>5. dispatch' \in Working /\ dispatch'.at = "work" /\ dispatch'.requested = commands
  BY <1>2, <1>4 DEF Working
<1>6. sample' \in {sample, NoSample}
  BY <1>2
<1>7. SessionTypeOK'
  BY <1>1, <1>3, <1>5, <1>6 DEF SessionTypeOK, Dispatches, Commands
<1>8. dispatch.at = "out"
  BY <1>1 DEF Unlocked, Out
<1>9. AskedOK'
  BY <1>1, <1>3, <1>5 DEF AskedOK
<1>10. SearchOK'
  BY <1>3, <1>5 DEF SearchOK
<1>11. TargetOK'
  BY <1>3, <1>5, <1>8 DEF TargetOK
<1>12. SampleOK'
  BY <1>3, <1>5, <1>6 DEF SampleOK
<1>13. OwnersKeepApart'
  BY <1>3 DEF OwnersKeepApart, TrialPending
<1> QED
  BY <1>7, <1>9, <1>10, <1>11, <1>12, <1>13

LEMMA SessionSteps ==
  ASSUME SessionAssumption, SessionIInv, [SessionNext]_sessionVars PROVE SessionIInv'
<1>1. CASE SessionNext
  BY <1>1, WorkerKeeps, EngineKeeps, TrialSteps, SearchSteps, SelectSteps, SearchGoesOnKeeps, SeekKeeps, PublishKeeps,
     ArmKeeps, CheckKeeps, SampleSteps, ReadKeeps, StoreKeeps, EndKeeps, BeginKeeps DEF SessionNext, DispatchStep
<1>2. CASE UNCHANGED sessionVars
  BY <1>2 DEF sessionVars, posted, targets, engineState, work, SessionIInv, SessionTypeOK, AskedOK, SearchOK, TargetOK, SampleOK,
     OwnersKeepApart, TrialPending, Unlocked
<1> QED
  BY <1>1, <1>2

LEMMA SessionFollows == SessionIInv => SessionIsSound
<1> SUFFICES ASSUME SessionIInv PROVE SessionIsSound
  OBVIOUS
<1> USE DEF SessionIInv
<1>1. ReadsArePresent
  <2> SUFFICES ASSUME NEW o \in Owners, Readable(o) PROVE sample.of = body /\ sample.for = o
    BY DEF ReadsArePresent
  <2> QED
    BY DEF Readable, SampleOK, OwnersKeepApart
<1>2. TargetIsThere
  BY DEF TargetIsThere, TargetOK
<1> QED
  BY <1>1, <1>2 DEF SessionIsSound

\* What a guest reads was sampled for it, of a body that is still there; no retirement
\* slips past a selection; and what is in progress belongs to the guest that has the
\* service (physics_session.cpp).
THEOREM SessionSound == SessionSpec => []SessionIsSound
<1>1. SessionInit => SessionIInv
  BY SessionAssumed, InitHolds
<1>2. SessionIInv /\ [SessionNext]_sessionVars => SessionIInv'
  BY SessionAssumed, SessionSteps
<1>3. SessionIInv => SessionIsSound
  BY SessionFollows
<1> QED
  BY <1>1, <1>2, <1>3, PTL DEF SessionSpec
-----------------------------------------------------------------------------
(* The trial of a body's damping.                                          *)

\* A callback that goes on is restoring; a pending trial knows a body, a value of its
\* own and another one to restore; and what the game gave the body is not the trial's
\* value, unless the game wrote just that.
CallsRestore == call # "none" => state = "restoring"
AimsAtBody ==
  Pending =>
    /\ target.body \in Bodies /\ target.incarnation <= incarnation[target.body]
    /\ original \in Values /\ applied \in Values /\ original # applied
GamesDiffer == \A b \in Bodies \ mixed : Pending /\ Aimed(b) => game[b] # applied

TrialIInv == TypeOK /\ CallsRestore /\ AimsAtBody /\ GamesDiffer /\ ChangesAreOwed

TrialAssumption == SentinelAssumption /\ TrialBounds

LEMMA TrialBegins == ASSUME TrialAssumption, Init PROVE TrialIInv
<1> USE DEF Init, TrialAssumption, SentinelAssumption, TrialBounds
<1>1. TypeOK
  BY DEF TypeOK, NoTarget, Targets, Calls
<1>2. CallsRestore /\ AimsAtBody /\ GamesDiffer /\ ChangesAreOwed
  BY DEF CallsRestore, AimsAtBody, GamesDiffer, ChangesAreOwed, Pending
<1> QED
  BY <1>1, <1>2 DEF TrialIInv

LEMMA TrialApplies ==
  ASSUME TrialAssumption, TrialIInv,
         NEW b \in Bodies, NEW wanted \in Values, NEW duration \in Durations, Apply(b, wanted, duration)
  PROVE  TrialIInv'
<1> USE DEF TrialIInv, engineVars, clockVars
<1>1. UNCHANGED <<value, incarnation, now, rewinds, game, mixed>>
  BY DEF Apply
<1>2. /\ state' = "restoring" /\ call' = "applying" /\ target' = [body |-> b, incarnation |-> incarnation[b]]
      /\ original' = value[b] /\ applied' = wanted /\ value[b] # wanted /\ last' = now
      /\ deadline' = now + duration /\ now + duration <= MaxTime
  BY DEF Apply
<1>3. /\ value[b] \in Values /\ incarnation[b] \in 0..MaxIncarnations /\ now \in 0..MaxTime
      /\ duration \in Nat /\ MaxTime \in Nat /\ MaxIncarnations \in Nat
  BY DEF TypeOK, TrialAssumption, TrialBounds
<1>4. deadline' \in 0..MaxTime
  BY <1>2, <1>3
<1>5. target' \in Targets /\ target'.body = b /\ target'.incarnation = incarnation[b]
  BY <1>2, <1>3 DEF Targets
<1>6. TypeOK'
  BY <1>1, <1>2, <1>3, <1>4, <1>5 DEF TypeOK, Calls
<1>7. CallsRestore' /\ AimsAtBody'
  BY <1>1, <1>2, <1>3, <1>5 DEF CallsRestore, AimsAtBody, Pending
<1>8. \A c \in Bodies \ mixed : value[c] = game[c]
  BY DEF Apply, ChangesAreOwed
<1>9. \A c \in Bodies : Aimed(c)' => c = b
  BY <1>5 DEF Aimed
<1>10. GamesDiffer'
  BY <1>1, <1>2, <1>8, <1>9 DEF GamesDiffer
<1>11. ChangesAreOwed'
  BY <1>1, <1>8 DEF ChangesAreOwed
<1> QED
  BY <1>6, <1>7, <1>10, <1>11

\* What the trial forgets, it no longer owes.
LEMMA TrialClears ==
  ASSUME TrialAssumption, TrialIInv, Clear, UNCHANGED <<value, incarnation, now, rewinds, game, mixed>>,
         Replaced \/ (Found /\ value[target.body] # applied)
  PROVE  TrialIInv'
<1> USE DEF TrialIInv
<1>1. /\ state' = "idle" /\ call' = "none" /\ target' = NoTarget /\ original' = NoValue /\ applied' = NoValue
      /\ deadline' = 0 /\ last' = 0
  BY DEF Clear
<1>2. TypeOK'
  BY <1>1 DEF TypeOK, NoTarget, Targets, Calls, TrialAssumption, TrialBounds
<1>3. CallsRestore' /\ AimsAtBody' /\ GamesDiffer'
  BY <1>1 DEF CallsRestore, AimsAtBody, GamesDiffer, Pending
<1>4. ASSUME NEW b \in Bodies \ mixed PROVE value[b] = game[b]
  <2> SUFFICES ASSUME value[b] # game[b] PROVE FALSE
    OBVIOUS
  <2>1. Aimed(b) /\ value[b] = applied
    BY DEF ChangesAreOwed
  <2>2. target.body = b /\ target.body # NoBody
    BY <2>1 DEF Aimed, TrialAssumption, SentinelAssumption
  <2> QED
    BY <2>1, <2>2 DEF Replaced, Living
<1>5. ChangesAreOwed'
  BY <1>4 DEF ChangesAreOwed
<1> QED
  BY <1>2, <1>3, <1>5

\* Nothing of the engine changes, nor whom the trial is aimed at.
LEMMA TrialStays ==
  ASSUME TrialIInv, Pending, Pending', UNCHANGED <<target, original, applied, value, incarnation, game, mixed>>,
         TypeOK', CallsRestore'
  PROVE  TrialIInv'
<1> USE DEF TrialIInv
<1>1. AimsAtBody'
  BY DEF AimsAtBody
<1>2. GamesDiffer' /\ ChangesAreOwed'
  BY DEF GamesDiffer, ChangesAreOwed, Aimed
<1> QED
  BY <1>1, <1>2

LEMMA TrialWrites ==
  ASSUME TrialAssumption, TrialIInv, WriteApplied \/ WriteOriginal PROVE TrialIInv'
<1> USE DEF TrialIInv, trialVars, clockVars
<1>1. UNCHANGED <<state, target, original, applied, deadline, last, incarnation, now, rewinds, game, mixed>>
  BY DEF WriteApplied, WriteOriginal, Write
<1>2. state = "restoring" /\ Pending /\ Pending' /\ call' \in Calls
  BY DEF WriteApplied, WriteOriginal, Write, CallsRestore, Pending, Calls
<1>3. CallsRestore'
  BY <1>1, <1>2 DEF CallsRestore
<1>4. original \in Values /\ applied \in Values /\ original # applied /\ target.body \in Bodies
  BY <1>2 DEF AimsAtBody
<1>5. CASE value' = value
  <2>1. TypeOK'
    BY <1>1, <1>2, <1>5 DEF TypeOK
  <2> QED
    BY <1>1, <1>2, <1>3, <1>5, <2>1, TrialStays
<1>6. ASSUME NEW expected, NEW new, Living, value[target.body] = expected,
             value' = [value EXCEPT ![target.body] = new],
             \/ expected = original /\ new = applied
             \/ expected = applied /\ new = original
      PROVE  TrialIInv'
  <2>1. value' \in [Bodies -> Values]
    BY <1>4, <1>6 DEF TypeOK
  <2>2. TypeOK'
    BY <1>1, <1>2, <2>1 DEF TypeOK
  <2>3. AimsAtBody' /\ GamesDiffer'
    BY <1>1 DEF AimsAtBody, GamesDiffer, Aimed, Pending
  <2>4. ASSUME NEW b \in Bodies \ mixed, value'[b] # game[b]
        PROVE  Aimed(b) /\ value'[b] = applied /\ game[b] = original
    <3>1. value \in [Bodies -> Values]
      BY DEF TypeOK
    <3>2. CASE b # target.body
      BY <1>6, <2>4, <3>1, <3>2 DEF ChangesAreOwed, Aimed
    <3>3. CASE b = target.body
      <4>1. value'[b] = new /\ value[b] = expected /\ Aimed(b)
        BY <1>4, <1>6, <3>1, <3>3 DEF Living
      <4>2. game[b] # applied
        BY <1>2, <4>1 DEF GamesDiffer
      <4>3. game[b] = original
        BY <1>6, <4>1, <4>2 DEF ChangesAreOwed
      <4> QED
        BY <1>6, <2>4, <4>1, <4>3
    <3> QED
      BY <3>2, <3>3
  <2>5. ChangesAreOwed'
    BY <1>1, <1>2, <2>4 DEF ChangesAreOwed, Aimed
  <2> QED
    BY <1>3, <2>2, <2>3, <2>5
<1> QED
  BY <1>5, <1>6 DEF WriteApplied, WriteOriginal, Write

LEMMA TrialReads ==
  ASSUME TrialAssumption, TrialIInv,
         ConfirmApplied \/ VerifyOriginal \/ (\E keep \in BOOLEAN : Poll(keep))
  PROVE  TrialIInv'
<1> USE DEF TrialIInv
<1>1. UNCHANGED <<value, incarnation, now, rewinds, game, mixed>>
  BY DEF ConfirmApplied, VerifyOriginal, Poll, engineVars, clockVars
<1>2. Pending
  BY DEF ConfirmApplied, VerifyOriginal, Poll, CallsRestore, Pending
<1>3. \/ Clear /\ (Replaced \/ (Found /\ value[target.body] # applied))
      \/ /\ UNCHANGED <<target, original, applied, deadline>>
         /\ state' \in {"active", "restoring"} /\ call' \in {"none", "reverting"} /\ last' \in {last, now}
         /\ call' = "reverting" => state' = "restoring"
  <2>1. CASE ConfirmApplied
    BY <2>1 DEF ConfirmApplied, trialVars, TypeOK, CallsRestore
  <2>2. CASE VerifyOriginal
    BY <2>2 DEF VerifyOriginal, trialVars, TypeOK, CallsRestore
  <2>3. ASSUME NEW keep \in BOOLEAN, Poll(keep)
        PROVE  \/ Clear /\ (Replaced \/ (Found /\ value[target.body] # applied))
               \/ /\ UNCHANGED <<target, original, applied, deadline>>
                  /\ state' \in {"active", "restoring"} /\ call' \in {"none", "reverting"} /\ last' \in {last, now}
                  /\ call' = "reverting" => state' = "restoring"
    <3>1. Asked(keep) \in {"active", "restoring"}
      BY <1>2 DEF Asked, Pending, TypeOK
    <3> QED
      BY <2>3, <3>1 DEF Poll
  <2> QED
    BY <2>1, <2>2, <2>3
<1>4. CASE Clear /\ (Replaced \/ (Found /\ value[target.body] # applied))
  BY <1>1, <1>4, TrialClears
<1>5. CASE /\ UNCHANGED <<target, original, applied, deadline>>
           /\ state' \in {"active", "restoring"} /\ call' \in {"none", "reverting"} /\ last' \in {last, now}
           /\ call' = "reverting" => state' = "restoring"
  <2>1. Pending' /\ CallsRestore'
    BY <1>5 DEF Pending, CallsRestore
  <2>2. TypeOK'
    BY <1>1, <1>5 DEF TypeOK, Calls
  <2> QED
    BY <1>1, <1>2, <1>5, <2>1, <2>2, TrialStays
<1> QED
  BY <1>3, <1>4, <1>5

LEMMA EngineSteps ==
  ASSUME TrialAssumption, TrialIInv, Engine PROVE TrialIInv'
<1> USE DEF TrialIInv, trialVars, engineVars, clockVars
<1>1. CASE Tick \/ Rewind
  <2>1. UNCHANGED <<state, target, original, applied, deadline, last, call, value, incarnation, game, mixed>>
    BY <1>1 DEF Tick, Rewind
  <2>2. now' \in 0..MaxTime /\ rewinds' \in 0..MaxRewinds
    BY <1>1 DEF Tick, Rewind, TypeOK, TrialAssumption, TrialBounds
  <2>3. TypeOK'
    BY <2>1, <2>2 DEF TypeOK
  <2> QED
    BY <2>1, <2>3 DEF CallsRestore, AimsAtBody, GamesDiffer, ChangesAreOwed, Aimed, Pending
<1>2. ASSUME NEW b \in Bodies, NEW v \in Values, GameSets(b, v) PROVE TrialIInv'
  <2>1. UNCHANGED <<state, target, original, applied, deadline, last, call, incarnation, now, rewinds>>
    BY <1>2 DEF GameSets
  <2>2. /\ value' = [value EXCEPT ![b] = v] /\ game' = [game EXCEPT ![b] = v]
        /\ value \in [Bodies -> Values] /\ game \in [Bodies -> Values]
        /\ value' \in [Bodies -> Values] /\ game' \in [Bodies -> Values]
    BY <1>2 DEF GameSets, TypeOK
  <2>3. mixed' = IF Pending /\ Aimed(b) /\ v = applied THEN mixed \union {b} ELSE mixed \ {b}
    BY <1>2 DEF GameSets
  <2>4. mixed' \subseteq Bodies
    BY <2>3 DEF TypeOK
  <2>5. TypeOK'
    BY <2>1, <2>2, <2>4 DEF TypeOK
  <2>6. CallsRestore' /\ AimsAtBody'
    BY <2>1 DEF CallsRestore, AimsAtBody, Pending
  <2>7. \A c \in Bodies : c # b => value'[c] = value[c] /\ game'[c] = game[c] /\ (c \in mixed' <=> c \in mixed)
    BY <2>2, <2>3
  <2>8. value'[b] = v /\ game'[b] = v
    BY <2>2
  <2>9. GamesDiffer'
    BY <2>1, <2>3, <2>7, <2>8 DEF GamesDiffer, Aimed, Pending
  <2>10. ChangesAreOwed'
    BY <2>1, <2>7, <2>8 DEF ChangesAreOwed, Aimed, Pending
  <2> QED
    BY <2>5, <2>6, <2>9, <2>10
<1>3. ASSUME NEW b \in Bodies, NEW v \in Values, Replace(b, v) PROVE TrialIInv'
  <2>1. UNCHANGED <<state, target, original, applied, deadline, last, call, now, rewinds>>
    BY <1>3 DEF Replace
  <2>2. /\ value' = [value EXCEPT ![b] = v] /\ game' = [game EXCEPT ![b] = v] /\ mixed' = mixed \ {b}
        /\ value \in [Bodies -> Values] /\ game \in [Bodies -> Values]
        /\ value' \in [Bodies -> Values] /\ game' \in [Bodies -> Values]
    BY <1>3 DEF Replace, TypeOK
  <2>3. /\ incarnation' = [incarnation EXCEPT ![b] = @ + 1] /\ incarnation[b] < MaxIncarnations
        /\ incarnation \in [Bodies -> 0..MaxIncarnations] /\ MaxIncarnations \in Nat
    BY <1>3 DEF Replace, TypeOK, TrialAssumption, TrialBounds
  <2>4. /\ incarnation' \in [Bodies -> 0..MaxIncarnations]
        /\ incarnation'[b] = incarnation[b] + 1
        /\ \A c \in Bodies : c # b => incarnation'[c] = incarnation[c]
        /\ \A c \in Bodies : incarnation[c] \in Nat /\ incarnation'[c] \in Nat /\ incarnation[c] <= incarnation'[c]
    BY <2>3
  <2>5. TypeOK'
    BY <2>1, <2>2, <2>4 DEF TypeOK
  <2>6. target.incarnation \in Nat
    BY DEF TypeOK, Targets
  <2>7. CallsRestore' /\ AimsAtBody'
    BY <2>1, <2>4, <2>6 DEF CallsRestore, AimsAtBody, Pending
  <2>8. ~(Pending' /\ Aimed(b)')
    <3> SUFFICES ASSUME Pending', Aimed(b)' PROVE FALSE
      OBVIOUS
    <3>1. target.body = b /\ target.incarnation = incarnation[b] + 1
      BY <2>1, <2>4 DEF Aimed
    <3>2. target.incarnation <= incarnation[b]
      BY <2>1, <3>1 DEF AimsAtBody, Pending
    <3> QED
      BY <2>4, <3>1, <3>2
  <2>9. \A c \in Bodies : c # b => value'[c] = value[c] /\ game'[c] = game[c] /\ (c \in mixed' <=> c \in mixed)
    BY <2>2
  <2>10. value'[b] = v /\ game'[b] = v
    BY <2>2
  <2>11. \A c \in Bodies : c # b => (Aimed(c)' <=> Aimed(c))
    BY <2>1, <2>4 DEF Aimed
  <2>12. GamesDiffer'
    BY <2>1, <2>8, <2>9, <2>11 DEF GamesDiffer, Pending
  <2>13. ChangesAreOwed'
    BY <2>1, <2>9, <2>10, <2>11 DEF ChangesAreOwed, Pending
  <2> QED
    BY <2>5, <2>7, <2>12, <2>13
<1> QED
  BY <1>1, <1>2, <1>3 DEF Engine

LEMMA TrialGoesOn == ASSUME TrialAssumption, TrialIInv, [Next]_vars PROVE TrialIInv'
<1>1. CASE Next
  BY <1>1, TrialApplies, TrialWrites, TrialReads, EngineSteps DEF Next, Callback, Continue
<1>2. CASE UNCHANGED vars
  BY <1>2 DEF vars, trialVars, engineVars, clockVars, TrialIInv, TypeOK, CallsRestore,
     AimsAtBody, GamesDiffer, ChangesAreOwed, Aimed, Pending
<1> QED
  BY <1>1, <1>2

LEMMA NotRenewed ==
  ASSUME TrialIInv, [Next]_vars, state = "restoring", call \notin {"applying", "confirming"}
  PROVE  state' # "active"
<1> USE DEF trialVars
<1>1. ASSUME NEW keep \in BOOLEAN, Poll(keep) PROVE state' # "active"
  BY <1>1 DEF Poll, Asked, Clear
<1>2. CASE VerifyOriginal
  BY <1>2 DEF VerifyOriginal, Clear
<1>3. CASE WriteApplied \/ WriteOriginal \/ ConfirmApplied
  BY <1>3 DEF WriteApplied, WriteOriginal, ConfirmApplied, Write
<1>4. CASE Engine
  BY <1>4 DEF Engine, GameSets, Replace, Tick, Rewind
<1>5. ASSUME NEW b \in Bodies, NEW wanted \in Values, NEW duration \in Durations, Apply(b, wanted, duration)
      PROVE  state' # "active"
  BY <1>5 DEF Apply
<1>6. CASE UNCHANGED vars
  BY <1>6 DEF vars
<1> QED
  BY <1>1, <1>2, <1>3, <1>4, <1>5, <1>6 DEF Next, Callback, Continue

\* A change that a trial may have made is owed until it is read back, and once it is to
\* be restored no call renews it (physics_trial.cpp).
THEOREM RestorationOwed == Spec => RestorationIsOwed
<1>1. Init => TrialIInv
  BY TrialAssumed, TrialBegins DEF TrialAssumption
<1>2. TrialIInv /\ [Next]_vars => TrialIInv'
  BY TrialAssumed, TrialGoesOn DEF TrialAssumption
<1>3. TrialIInv => ChangesAreOwed
  BY DEF TrialIInv
<1>4. TrialIInv /\ [Next]_vars =>
        [state = "restoring" /\ call \notin {"applying", "confirming"} => state' # "active"]_vars
  BY NotRenewed
<1> QED
  BY <1>1, <1>2, <1>3, <1>4, PTL DEF Spec, RestorationIsOwed, RestorationIsLatched
=============================================================================
