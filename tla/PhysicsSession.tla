---------------------------- MODULE PhysicsSession ----------------------------
(***************************************************************************)
(* runtime/physics_session.cpp: one selected body and one trial of its     *)
(* damping, lent to one guest at a time.                                   *)
(*                                                                         *)
(* Guests post commands; the simulation callback (dispatch) carries them   *)
(* out under a lock that everybody only tries.  Two things never wait for  *)
(* it: the release of an owner, three accesses to atomics, and the hooks   *)
(* that see bodies and scenes go.  So the accesses of dispatch that these  *)
(* can meet are steps of their own.                                        *)
(*                                                                         *)
(* Any deadline may have passed or not, any search may find something or   *)
(* not, and of the trial (DampingTrial) only its state is kept.  A command *)
(* to apply is taken before the selection it was meant for can change, so  *)
(* requested_target is left out.  One object is retired at a time.         *)
(* for and of are history: the guest a thing was done for, and the body a  *)
(* sample was taken of.                                                    *)
(* An operator named Slip... is a plausible mistake in the definition that *)
(* follows it and is used nowhere; it shows that a property can fail.      *)
(***************************************************************************)
EXTENDS Naturals

CONSTANTS
  Owners, NoOwner,
  MaxSelections, MaxRetirements, MaxRejections   \* bounds of the counters

\* What stands for nobody is no guest.
SessionAssumption == NoOwner \notin Owners
ASSUME SessionAssumed == SessionAssumption

VARIABLES
  accepting,                       \* cleared by ~Session
  commands, owner, releasing,      \* commands, guest_owner, guest_releasing
  host,                            \* where the release of an owner is
  status, ui, search, selected, trial, after, sample,  \* under state_lock
  selections,                      \* serial
  watched, retired,                \* what the hooks look at
  serial, retiring, revision,      \* retirement_serial, retiring, sample_invalidation
  hook, body,                      \* a retirement in progress, and the body that is there
  dispatch                         \* the callback that holds state_lock

posted == <<accepting, commands, owner, releasing, host>>
targets == <<selected, selections, watched, retired>>
engineState == <<serial, retiring, hook, body>>
work == <<status, ui, search, trial, after, sample>>
sessionVars == <<posted, targets, engineState, work, revision, dispatch>>

NoSample == [epoch |-> 0]
NoSearch == [pending |-> FALSE]
NoTrial == [state |-> "idle"]
Out == [at |-> "out"]
Blocked == {"restoring", "failed"}

SessionInit ==
  /\ accepting = TRUE /\ commands = {} /\ owner = NoOwner /\ releasing = FALSE /\ host = "idle"
  /\ status = "idle" /\ ui = "other" /\ search = NoSearch /\ trial = NoTrial /\ after = FALSE
  /\ sample = NoSample /\ selected = NoSample /\ selections = 0 /\ watched = 0 /\ retired = TRUE
  /\ serial = 0 /\ retiring = FALSE /\ revision = 0 /\ hook = Out /\ body = 1
  /\ dispatch = Out
-----------------------------------------------------------------------------
(* The worker's thread: the calls of the guests, poll, and the end.        *)

TrialPending == trial # NoTrial
Unlocked == dispatch = Out
Unasked == host = "idle" /\ accepting /\ ~releasing /\ commands = {} /\ ~TrialPending /\ ~search.pending

\* physics_select_near
Select(o) ==
  /\ Unlocked /\ Unasked /\ owner \in {NoOwner, o}
  /\ owner' = o /\ status' = "queued" /\ commands' = {"select"}
  /\ UNCHANGED <<accepting, releasing, host, targets, engineState, ui, search, trial, after, sample, revision, dispatch>>

\* physics_apply
ApplyCommand(o) ==
  /\ Unlocked /\ Unasked /\ owner = o
  /\ selected # NoSample /\ ~retired /\ ui = "selected"
  /\ status' = "queued" /\ commands' = {"apply"}
  /\ UNCHANGED <<accepting, owner, releasing, host, targets, engineState, ui, search, trial, after, sample, revision, dispatch>>

\* release, which needs no lock; also physics_restore.
Release(o) ==
  /\ host = "idle" /\ owner = o /\ host' = "asked"
  /\ UNCHANGED <<accepting, commands, owner, releasing, targets, engineState, work, revision, dispatch>>
Flag ==
  /\ host = "asked" /\ host' = "flagged" /\ releasing' = TRUE
  /\ UNCHANGED <<accepting, commands, owner, targets, engineState, work, revision, dispatch>>
Post ==
  /\ host = "flagged" /\ host' = "idle" /\ commands' = commands \union {"restore"}
  /\ UNCHANGED <<accepting, owner, releasing, targets, engineState, work, revision, dispatch>>

\* poll while the game has lost the focus or a key asks for the end; ~Session.
PollHost ==
  /\ host = "idle" /\ commands' = commands \union {"restore"}
  /\ accepting' \in {accepting, FALSE}
  /\ UNCHANGED <<owner, releasing, host, targets, engineState, work, revision, dispatch>>
-----------------------------------------------------------------------------
(* The engine: hooks that see an object go, and other callbacks.           *)

\* The watched body, with or without its scene, or something else.
Retire(it) ==
  /\ hook = Out /\ serial < 2 * MaxRetirements
  /\ hook' = [at |-> "counted", it |-> it] /\ serial' = serial + 1 /\ retiring' = TRUE
  /\ UNCHANGED <<posted, targets, work, revision, body, dispatch>>
Mark ==
  /\ hook.at = "counted" /\ hook' = [hook EXCEPT !.at = "marked"]
  /\ retired' = (retired \/ (hook.it /\ watched = body))
  /\ UNCHANGED <<posted, selected, selections, watched, work, revision, serial, retiring, body, dispatch>>
Gone ==
  /\ hook.at = "marked" /\ hook' = [hook EXCEPT !.at = "gone"]
  /\ body' = IF hook.it THEN body + 1 ELSE body
  /\ UNCHANGED <<posted, targets, work, revision, serial, retiring, dispatch>>
Retired ==
  /\ hook.at = "gone" /\ hook' = Out /\ serial' = serial + 1 /\ retiring' = FALSE
  /\ UNCHANGED <<posted, targets, work, revision, body, dispatch>>

\* movement of another player; a callback without a context or without the lock.
Movement ==
  /\ Unlocked /\ sample' = NoSample
  /\ UNCHANGED <<posted, targets, engineState, status, ui, search, trial, after, revision, dispatch>>
Rejected ==
  /\ revision < MaxRejections /\ revision' = revision + 1
  /\ UNCHANGED <<posted, targets, engineState, work, dispatch>>
-----------------------------------------------------------------------------
(* dispatch                                                                *)

Proceeds(step) == dispatch' = [dispatch EXCEPT !.at = step]
Keeps == dispatch.keep /\ "restore" \notin dispatch.requested
Due(command) == dispatch.recent /\ command \in dispatch.requested

\* The lock is taken, and the commands.
Begin ==
  /\ Unlocked
  /\ \E keep, recent, foreign \in BOOLEAN :
       /\ dispatch' = [at |-> "work", keep |-> keep /\ accepting, recent |-> recent,
                       foreign |-> foreign, requested |-> commands]
       /\ sample' = IF foreign THEN NoSample ELSE sample
  /\ commands' = {}
  /\ UNCHANGED <<accepting, owner, releasing, host, targets, engineState, status, ui, search, trial, after, revision>>

\* What a call of the trial may leave.
Left(state, guest) ==
  /\ trial' = [state |-> state, for |-> guest] /\ Proceeds("sample") /\ ui' = "other"
  /\ status' = IF state = "active" THEN "active" ELSE "restoring"
  /\ UNCHANGED after
Ended ==
  /\ trial' = NoTrial /\ Proceeds("sample") /\ ui' = "other" /\ after' = TRUE
  /\ status' \in {"done", "failed"}
TrialPoll ==
  /\ dispatch.at = "work" /\ TrialPending
  /\ \/ trial.state = "active" /\ Keeps /\ ~dispatch.foreign /\ Left("active", trial.for)
     \/ Left("restoring", trial.for)
     \/ (~dispatch.foreign \/ retired) /\ Ended
  /\ UNCHANGED <<posted, targets, engineState, search, sample, revision>>

Forget == selected' = NoSample /\ watched' = 0 /\ retired' = TRUE

CancelSelection ==
  /\ dispatch.at = "work" /\ ~TrialPending /\ ~Keeps
  /\ Forget /\ search' = NoSearch /\ after' = FALSE /\ ui' = "other" /\ Proceeds("sample")
  /\ UNCHANGED <<posted, selections, engineState, status, trial, sample, revision>>

\* select from its beginning; the player may be unknown or of another world.
SearchBegins ==
  /\ dispatch.at = "work" /\ ~TrialPending /\ Keeps /\ Due("select")
  /\ Forget /\ sample' = NoSample /\ after' = FALSE
  /\ \/ ~dispatch.foreign /\ search' = [pending |-> TRUE, serial |-> serial, for |-> owner]
        /\ Proceeds("seek") /\ UNCHANGED ui
     \/ search' = NoSearch /\ ui' = "other" /\ Proceeds("sample")
  /\ UNCHANGED <<posted, selections, engineState, status, trial, revision>>

\* select again, in a later callback; whatever was retired ends the search.
SearchGoesOn ==
  /\ dispatch.at = "work" /\ ~TrialPending /\ Keeps /\ ~Due("select") /\ search.pending
  /\ \/ ~dispatch.foreign /\ search.serial = serial /\ Proceeds("seek") /\ UNCHANGED <<search, ui>>
     \/ search' = NoSearch /\ ui' = "other" /\ Proceeds("sample")
  /\ UNCHANGED <<posted, targets, engineState, status, trial, after, sample, revision>>

\* A batch of the search, and the last look at what it found.
Seek ==
  /\ dispatch.at = "seek"
  /\ \/ ~retiring /\ Proceeds("sample") /\ ui' = "other" /\ UNCHANGED search
     \/ search' = NoSearch /\ Proceeds("sample") /\ ui' = "other"
     \/ /\ ~retiring /\ selections < MaxSelections /\ search' = NoSearch /\ UNCHANGED ui
        /\ dispatch' = [at |-> "publish", keep |-> dispatch.keep, foreign |-> dispatch.foreign, recent |-> dispatch.recent,
                        requested |-> dispatch.requested, found |-> body, scope |-> search.serial]
  /\ UNCHANGED <<posted, targets, engineState, status, trial, after, sample, revision>>

PublishFound ==
  /\ dispatch.at = "publish" /\ Proceeds("arm") /\ selections' = selections + 1
  /\ selected' = [epoch |-> selections', body |-> dispatch.found, for |-> owner]
  /\ watched' = dispatch.found
  /\ UNCHANGED <<posted, retired, engineState, work, revision>>
Arm ==
  /\ dispatch.at = "arm" /\ Proceeds("check") /\ retired' = FALSE
  /\ UNCHANGED <<posted, selected, selections, watched, engineState, work, revision>>
SlipInProgress == retiring
Disturbed == retiring \/ serial # dispatch.scope
Check ==
  /\ dispatch.at = "check" /\ Proceeds("sample")
  /\ retired' = (retired \/ Disturbed)
  /\ selected' = IF retired' THEN NoSample ELSE selected
  /\ ui' = IF retired' THEN "other" ELSE "selected"
  /\ UNCHANGED <<posted, selections, watched, engineState, status, search, trial, after, sample, revision>>

\* The trial is applied, unless the selection has grown old.
TrialApply ==
  /\ dispatch.at = "work" /\ ~TrialPending /\ Keeps /\ ~Due("select") /\ ~search.pending
  /\ Due("apply") /\ selected # NoSample /\ ui = "selected"
  /\ \/ /\ selected' = NoSample /\ ui' = "other" /\ Proceeds("sample") /\ UNCHANGED <<trial, status, after>>
     \/ (\/ ~dispatch.foreign /\ (\E state \in {"active", "restoring"} : Left(state, selected.for))
         \/ Ended) /\ UNCHANGED selected
  /\ UNCHANGED <<posted, selections, watched, retired, engineState, search, sample, revision>>

NothingToDo ==
  /\ dispatch.at = "work" /\ ~TrialPending /\ Keeps /\ ~Due("select") /\ ~search.pending
  /\ ~(Due("apply") /\ selected # NoSample /\ ui = "selected") /\ Proceeds("sample")
  /\ UNCHANGED <<posted, targets, engineState, work, revision>>

\* From time to time the selected body is sampled.
NotNow ==
  /\ dispatch.at = "sample" /\ Proceeds("end")
  /\ UNCHANGED <<posted, targets, engineState, work, revision>>
MaySample == Keeps /\ ~releasing /\ status \notin Blocked
Sample ==
  /\ dispatch.at = "sample" /\ selected # NoSample /\ ~retired /\ sample' = NoSample
  /\ dispatch' = IF MaySample THEN [dispatch EXCEPT !.at = "read"]
                      ELSE [dispatch EXCEPT !.at = "end"]
  /\ UNCHANGED <<posted, targets, engineState, status, ui, search, trial, after, revision>>

\* The two counters are read, and the body, if it still is the one selected.
ReadBody ==
  /\ dispatch.at = "read"
  /\ dispatch' = [at |-> "keep", keep |-> dispatch.keep, requested |-> dispatch.requested, foreign |-> dispatch.foreign,
                  before |-> serial, revision |-> revision]
  /\ UNCHANGED <<posted, targets, engineState, work, revision>>
Resolved == ~dispatch.foreign /\ selected.body = body /\ ~retired /\ ~retiring
Access ==
  /\ dispatch.at = "keep"
  /\ \/ Resolved /\ dispatch' = [at |-> "store", keep |-> dispatch.keep, requested |-> dispatch.requested,
                                 before |-> dispatch.before, revision |-> dispatch.revision, of |-> body]
     \/ Proceeds("end")
  /\ UNCHANGED <<posted, targets, engineState, work, revision>>
Unchanged == ~retired /\ ~retiring /\ dispatch.before = serial /\ dispatch.revision = revision
StoreSample ==
  /\ dispatch.at = "store" /\ Proceeds("end")
  /\ sample' = IF ~Unchanged THEN sample
               ELSE [epoch |-> selected.epoch, serial |-> dispatch.before, revision |-> dispatch.revision,
                     of |-> dispatch.of, for |-> selected.for]
  /\ UNCHANGED <<posted, targets, engineState, status, ui, search, trial, after, revision>>

\* The end of dispatch: old selections go, the guest is told where it stands, and
\* one that was released or has nothing left gives the service back.
SlipCommandOnly == ~Keeps
GivesBack == releasing \/ ~Keeps
Told(gone) ==
  CASE search.pending -> "searching"
    [] ~search.pending /\ ~gone /\ ui = "selected" /\ ~retired -> "selected"
    [] ~search.pending /\ ~gone /\ (ui # "selected" \/ retired) /\ ~after -> "failed"
    [] ~search.pending /\ gone -> "idle"
    [] OTHER -> status
EndDispatch ==
  /\ dispatch.at = "end"
  /\ \E lapsed \in BOOLEAN :
       LET gone == selected = NoSample \/ (~TrialPending /\ lapsed)
           back == ~TrialPending /\ GivesBack
           cleared == back \/ (~TrialPending /\ lapsed /\ (after \/ selected # NoSample)) IN
       /\ IF cleared THEN Forget /\ after' = FALSE ELSE UNCHANGED <<selected, watched, retired, after>>
       /\ status' = IF back THEN "idle" ELSE IF TrialPending THEN status ELSE Told(gone)
       /\ search' = IF back THEN NoSearch ELSE search
       /\ ui' = IF back THEN "other" ELSE ui
       /\ owner' = IF ~TrialPending /\ (back \/ (gone /\ ~search.pending)) THEN NoOwner ELSE owner
       /\ dispatch' = IF back THEN [at |-> "unflag"] ELSE Out
       /\ sample' = IF gone \/ back \/ ~dispatch.keep \/ retired \/ releasing \/ status' \in Blocked THEN NoSample ELSE sample
  /\ UNCHANGED <<accepting, commands, releasing, host, selections, engineState, trial, revision>>
Unflag ==
  /\ dispatch.at = "unflag" /\ dispatch' = Out /\ releasing' = FALSE
  /\ UNCHANGED <<accepting, commands, owner, host, targets, engineState, work, revision>>
-----------------------------------------------------------------------------
Worker == (\E o \in Owners : Select(o) \/ ApplyCommand(o) \/ Release(o)) \/ PollHost
Releasing == Flag \/ Post
Hook == Mark \/ Gone \/ Retired
DispatchStep ==
  \/ TrialPoll \/ CancelSelection \/ SearchBegins \/ SearchGoesOn \/ Seek \/ PublishFound \/ Arm \/ Check
  \/ TrialApply \/ NothingToDo \/ NotNow \/ Sample \/ ReadBody \/ Access \/ StoreSample \/ EndDispatch \/ Unflag

SessionNext ==
  \/ Worker \/ Releasing \/ Begin \/ DispatchStep \/ Hook
  \/ (\E it \in BOOLEAN : Retire(it)) \/ Movement \/ Rejected

SessionSpec == SessionInit /\ [][SessionNext]_sessionVars

\* What has begun goes on, the simulation keeps calling for the player's
\* world, and a trial that is being
\* restored is at last restored (DampingTrial).
SessionFairness ==
  /\ WF_sessionVars(Releasing) /\ SF_sessionVars(Begin /\ ~dispatch'.foreign) /\ WF_sessionVars(DispatchStep) /\ WF_sessionVars(Hook)
  /\ SF_sessionVars(TrialPoll /\ trial' = NoTrial)
-----------------------------------------------------------------------------
\* physics_read answers at the moment of its last look.
Readable(o) ==
  /\ Unlocked /\ accepting /\ owner = o /\ ~releasing /\ commands = {} /\ ~search.pending
  /\ selected # NoSample /\ ~retired /\ ~retiring /\ status \notin Blocked
  /\ sample # NoSample /\ sample.epoch = selected.epoch /\ sample.revision = revision /\ sample.serial = serial

\* What a guest reads was sampled for it, of a body that is still there.
ReadsArePresent == \A o \in Owners : Readable(o) => sample.of = body /\ sample.for = o

\* No retirement slips past a selection, however it meets the callback that makes it.
TargetIsThere ==
  selected # NoSample /\ ~retired /\ ~retiring /\ dispatch.at # "check" => selected.body = body

\* A search, a selection and a trial belong to the guest that has the service, until
\* they are over.
OwnersKeepApart ==
  /\ search.pending => search.for = owner
  /\ selected # NoSample => selected.for = owner
  /\ TrialPending => trial.for = owner

SessionIsSound == ReadsArePresent /\ TargetIsThere /\ OwnersKeepApart

\* A release, which cannot wait for the callback, is carried out by it: trial, search,
\* selection and ownership end, though the guest is gone (docs/api.md:506).
ReleasesEnd ==
  releasing ~> ~TrialPending /\ ~search.pending /\ selected = NoSample /\ owner = NoOwner
=============================================================================
