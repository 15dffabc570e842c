----------------------------- MODULE ModStorage -----------------------------
(***************************************************************************)
(* runtime/mod_storage.cpp: the store that keeps one record per mod id in  *)
(* crml/data, with the host thread that queues writes, the worker thread   *)
(* that saves them step by step, and the process that may die between any  *)
(* two of those steps and start again on the directory it left behind.     *)
(*                                                                         *)
(* `mutex` covers every call of the host thread and the worker's choice    *)
(* and publication of a job, so each is one action.  The worker saves      *)
(* WITHOUT the mutex: every file operation of save() is an action of its   *)
(* own, and each of them may fail.                                         *)
(*                                                                         *)
(* An operator named Slip... is a plausible mistake in the definition that *)
(* follows it and is used nowhere; it shows that a property can fail.      *)
(***************************************************************************)
EXTENDS Naturals, FiniteSets

CONSTANTS
  Ids,          \* mod ids, as numbers in the order of std::map's keys
  Contents,     \* the byte strings a mod can store (a checksummed file each)
  Absent,       \* no file
  Corrupt,      \* a file that does not validate, or cannot be read
  Torn,         \* a file not completely written and flushed
  Closed,       \* the id is not in records
  Nothing,      \* no pending bytes
  MaxRecords,   \* ids one session may attach (32)
  Interval,     \* ticks between two accepted writes of an id (1 s)
  MaxSessions   \* bound on the times the store is opened

ASSUME IdsAssumption == Ids \subseteq Nat
ASSUME FileAssumption ==
  /\ Contents \intersect {Absent, Corrupt, Torn, Closed, Nothing} = {}
  /\ Torn \notin {Absent, Corrupt} /\ Closed \notin {Absent, Corrupt}
ASSUME StorageBounds == MaxRecords \in Nat /\ Interval \in Nat /\ MaxSessions \in Nat

VARIABLES
  mode,       \* "off", "open", or "stopping" while the destructor runs
  committed,  \* Record.read_result and Record.committed: what read() returns
  pending,    \* Record.pending
  state,      \* Record.state
  wait,       \* ticks until Record.next_write
  worker,     \* where the worker is, for which id, and the outcome of save()
  target,     \* the mod-<id>.bin files
  staging,    \* the mod-<id>.pending files
  sessions    \* history: times the store was opened

records == <<committed, pending, state, wait>>
files   == <<target, staging>>
vars    == <<mode, records, worker, files, sessions>>

Files == Contents \union {Absent, Corrupt, Torn}
Steps == {"clearing", "creating", "writing", "flushing", "moving", "deleting", "publishing"}
NoId  == 0
Idle  == [step |-> "waiting", id |-> NoId, saved |-> FALSE]

Attached == {id \in Ids : committed[id] # Closed}

NoRecords ==
  /\ committed' = [id \in Ids |-> Closed]
  /\ pending' = [id \in Ids |-> Nothing]
  /\ state' = [id \in Ids |-> "IDLE"]
  /\ wait' = [id \in Ids |-> 0]

\* The directory of an earlier session: any record, any abandoned staging file.
\* What is in the latter does not matter, it is removed before anything reads it.
Init ==
  /\ mode = "off"
  /\ committed = [id \in Ids |-> Closed]
  /\ pending = [id \in Ids |-> Nothing]
  /\ state = [id \in Ids |-> "IDLE"]
  /\ wait = [id \in Ids |-> 0]
  /\ worker = Idle
  /\ target \in [Ids -> Contents \union {Absent, Corrupt}]
  /\ staging \in [Ids -> {Absent, Torn}]
  /\ sessions = 0

-----------------------------------------------------------------------------
(* The process and its host thread.                                         *)

\* The constructor takes storage.lock, which the system gives to one process at
\* a time, and starts the worker.
Open ==
  /\ mode = "off" /\ sessions < MaxSessions
  /\ sessions' = sessions + 1
  /\ mode' = "open"
  /\ worker' = Idle
  /\ UNCHANGED <<records, files>>

\* attach: a new record is loaded from its file, which can also fail to open.
Attach(id) ==
  /\ mode = "open"
  /\ committed[id] = Closed /\ Cardinality(Attached) < MaxRecords
  /\ \E found \in {target[id], Corrupt} :
       committed' = [committed EXCEPT ![id] = found]
  /\ UNCHANGED <<mode, pending, state, wait, worker, files, sessions>>

\* Slip: only the rate limit is checked.
SlipWriteOverPending(id) ==
  mode = "open" /\ committed[id] # Closed /\ wait[id] = 0

MayWrite(id) ==
  /\ mode = "open" /\ committed[id] # Closed
  /\ state[id] # "PENDING" /\ wait[id] = 0

\* Slip: reads see the new bytes at once.
SlipReadsAhead(id, bytes) ==
  /\ MayWrite(id)
  /\ pending' = [pending EXCEPT ![id] = bytes]
  /\ committed' = [committed EXCEPT ![id] = bytes]
  /\ state' = [state EXCEPT ![id] = "PENDING"]
  /\ wait' = [wait EXCEPT ![id] = Interval]
  /\ UNCHANGED <<mode, worker, files, sessions>>

\* write: accepted and copied; anything else returns an error and changes nothing.
Write(id, bytes) ==
  /\ MayWrite(id)
  /\ pending' = [pending EXCEPT ![id] = bytes]
  /\ state' = [state EXCEPT ![id] = "PENDING"]
  /\ wait' = [wait EXCEPT ![id] = Interval]
  /\ UNCHANGED <<mode, committed, worker, files, sessions>>

\* ~Impl: stop accepting, wake the worker, join it.
Stop ==
  /\ mode = "open"
  /\ mode' = "stopping"
  /\ UNCHANGED <<records, worker, files, sessions>>

Joined ==
  /\ mode = "stopping" /\ worker.step = "exited"
  /\ mode' = "off"
  /\ NoRecords
  /\ worker' = Idle
  /\ UNCHANGED <<files, sessions>>

\* The process dies: memory is lost, the files stay as they are.
Crash ==
  /\ mode # "off"
  /\ mode' = "off"
  /\ NoRecords
  /\ worker' = Idle
  /\ UNCHANGED <<files, sessions>>

-----------------------------------------------------------------------------
(* The worker.                                                              *)

Waiting(st) == {id \in Ids : st[id] = "PENDING"}

\* The first record in key order that is pending; a set of one, or empty.
First(st) == {id \in Waiting(st) : \A other \in Waiting(st) : id <= other}

\* What the worker does next: that record, or wait.
Job(st) ==
  IF Waiting(st) = {} THEN {Idle}
  ELSE {[step |-> "clearing", id |-> id, saved |-> FALSE] : id \in First(st)}

Running == mode # "off"

Pick ==
  /\ Running /\ worker.step = "waiting" /\ Waiting(state) # {}
  /\ worker' \in Job(state)
  /\ UNCHANGED <<mode, records, files, sessions>>

\* Slips: the worker leaves as soon as it is told to stop; it is not woken when
\* there is no work.
SlipExitAtOnce ==
  /\ mode = "stopping" /\ worker.step = "waiting"
  /\ worker' = [worker EXCEPT !.step = "exited"]
  /\ UNCHANGED <<mode, records, files, sessions>>
SlipExitUnwoken ==
  /\ mode = "stopping" /\ worker.step = "waiting" /\ Waiting(state) # {}
  /\ worker' = [worker EXCEPT !.step = "exited"]
  /\ UNCHANGED <<mode, records, files, sessions>>

Exit ==
  /\ mode = "stopping" /\ worker.step = "waiting" /\ Waiting(state) = {}
  /\ worker' = [worker EXCEPT !.step = "exited"]
  /\ UNCHANGED <<mode, records, files, sessions>>

\* One file operation of save(): on success the files change and the next step
\* follows; on failure save() goes to `otherwise`.
Operation(step, newTarget, newStaging, then, otherwise) ==
  /\ Running /\ worker.step = step
  /\ \/ /\ target' = newTarget /\ staging' = newStaging
        /\ worker' = [worker EXCEPT !.step = then, !.saved = (step = "moving")]
     \/ /\ worker' = [worker EXCEPT !.step = otherwise]
        /\ UNCHANGED files
  /\ UNCHANGED <<mode, records, sessions>>

Staging(contents) == [staging EXCEPT ![worker.id] = contents]

\* A linked or undeletable staging file fails the save and stays.
ClearStaging  == Operation("clearing", target, Staging(Absent), "creating", "publishing")
\* CREATE_NEW.
CreateStaging == Operation("creating", target, Staging(Torn), "writing", "publishing")
\* Slip: the file is moved into place without being flushed.
SlipUnflushed == Operation("writing", target, staging, "moving", "deleting")
WriteStaging  == Operation("writing", target, staging, "flushing", "deleting")
FlushStaging  == Operation("flushing", target, Staging(pending[worker.id]), "moving", "deleting")
\* Slip: the result of the move is not looked at.
SlipMoveUnchecked ==
  /\ Running /\ worker.step = "moving"
  /\ worker' = [worker EXCEPT !.step = "publishing", !.saved = TRUE]
  /\ \/ /\ target' = [target EXCEPT ![worker.id] = staging[worker.id]]
        /\ staging' = Staging(Absent)
     \/ UNCHANGED files
  /\ UNCHANGED <<mode, records, sessions>>
\* MoveFileEx replaces the directory entry in one step.
MoveStaging   == Operation("moving", [target EXCEPT ![worker.id] = staging[worker.id]],
                           Staging(Absent), "publishing", "deleting")
\* A failed save deletes its staging file; if that fails too, it stays.
DeleteStaging == Operation("deleting", target, Staging(Absent), "publishing", "publishing")

\* Slips: every finished save counts as saved; one that failed stays pending, to
\* be tried again.
SlipAlwaysSaved == [state EXCEPT ![worker.id] = "SAVED"]
SlipFailedStays == IF worker.saved THEN [state EXCEPT ![worker.id] = "SAVED"] ELSE state

\* The state a finished save leaves, under the mutex again.
Resolved ==
  [state EXCEPT ![worker.id] = IF worker.saved THEN "SAVED" ELSE "FAILED"]

\* The worker publishes the result and, without letting go of the mutex, takes
\* the next job.
Publish ==
  /\ Running /\ worker.step = "publishing"
  /\ state' = Resolved
  /\ committed' = IF worker.saved
                  THEN [committed EXCEPT ![worker.id] = pending[worker.id]]
                  ELSE committed
  /\ pending' = [pending EXCEPT ![worker.id] = Nothing]
  /\ worker' \in Job(Resolved)
  /\ UNCHANGED <<mode, wait, files, sessions>>

Worker ==
  \/ Pick \/ Exit
  \/ ClearStaging \/ CreateStaging \/ WriteStaging \/ FlushStaging
  \/ MoveStaging \/ DeleteStaging
  \/ Publish

\* steady_clock passes a tick.
Tick ==
  /\ Running
  /\ \E id \in Ids : wait[id] > 0
  /\ wait' = [id \in Ids |-> IF wait[id] > 0 THEN wait[id] - 1 ELSE 0]
  /\ UNCHANGED <<mode, committed, pending, state, worker, files, sessions>>

Next ==
  \/ Open \/ Stop \/ Joined \/ Crash \/ Tick
  \/ \E id \in Ids : Attach(id) \/ \E bytes \in Contents : Write(id, bytes)
  \/ Worker

Spec == Init /\ [][Next]_vars

\* The worker thread is scheduled and its file operations return.
FairSpec == Spec /\ WF_vars(Worker) /\ WF_vars(Joined)

-----------------------------------------------------------------------------
(* Properties.                                                              *)

\* The record fields, the worker and the files have their types; in particular
\* no record file is ever torn.
TypeOK ==
  /\ mode \in {"off", "open", "stopping"}
  /\ committed \in [Ids -> Contents \union {Absent, Corrupt, Closed}]
  /\ pending \in [Ids -> Contents \union {Nothing}]
  /\ state \in [Ids -> {"IDLE", "PENDING", "SAVED", "FAILED"}]
  /\ wait \in [Ids -> 0..Interval]
  /\ worker \in [step : Steps \union {"waiting", "exited"}, id : Ids \union {NoId},
                 saved : BOOLEAN]
  /\ target \in [Ids -> Contents \union {Absent, Corrupt}]
  /\ staging \in [Ids -> Files]
  /\ sessions \in 0..MaxSessions

\* storage_status = 2 establishes the committed replacement (sdk-contracts.md:257):
\* a restart finds the record that reads return.
SavedIsDurable ==
  \A id \in Ids : state[id] = "SAVED" => target[id] = committed[id]

\* While a session has a readable record and no write of it is being published,
\* the file holds that record: a failed save preserved it (mod-storage.md:58).
ReadsMatchDisk ==
  \A id \in Attached :
    committed[id] # Corrupt /\ ~(worker.id = id /\ worker.step = "publishing" /\ worker.saved)
      => target[id] = committed[id]

\* What a session reports or reads of a record is what a restart would find
\* (mod_storage.cpp:142-146).
RecordsMatchFiles == SavedIsDurable /\ ReadsMatchDisk

\* The worker reads the pending bytes without the mutex (mod_storage.cpp:139),
\* yet what it stages, moves and publishes is one and the same pending write.
WorkerOwnsItsBytes ==
  worker.step \in Steps =>
    /\ worker.id \in Attached /\ state[worker.id] = "PENDING"
    /\ worker.step = "moving" => staging[worker.id] = pending[worker.id]
    /\ worker.step = "publishing" /\ worker.saved => target[worker.id] = pending[worker.id]

\* Only a crash loses an accepted write: when the worker has left, so that the
\* destructor can return, none is pending and none can come (mod-storage.md:108).
ShutdownDrains ==
  worker.step = "exited" =>
    mode = "stopping" /\ \A id \in Ids : state[id] # "PENDING"

\* The destructor returns.
ShutdownReturns == mode = "stopping" ~> mode = "off"

\* An accepted write of either of the first two ids in key order is resolved,
\* however busy the other mods keep the worker: after a save the worker takes
\* the first pending id, so only an id with two others before it can starve.
FirstTwoResolve ==
  \A id \in Ids : Cardinality({other \in Ids : other < id}) <= 1 =>
    (state[id] = "PENDING" ~> state[id] # "PENDING")

\* What was asked of the store ends: a write, and a shutdown with or without writes.
WorkEnds == FirstTwoResolve /\ ShutdownReturns

\* The store implements the register that the documentation describes.
Register == INSTANCE CrashSafeStore WITH
  durable   <- target,
  visible   <- committed,
  inflight  <- pending,
  persisted <- {id \in Ids : worker.id = id /\ worker.step = "publishing" /\ worker.saved},
  status    <- state

ImplementsRegister == Register!Spec
=============================================================================
