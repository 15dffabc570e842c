----------------------------- MODULE DiskProofs -----------------------------
(***************************************************************************)
(* Proofs about what survives on the disk: the store of the mods           *)
(* (ModStorage) and the installation of the loader (Installer).            *)
(*                                                                         *)
(* The store, for any mods, contents and number of sessions: its safety    *)
(* properties, and that it implements CrashSafeStore.  The properties are  *)
(* not inductive alone.  What is missing is that the worker is the only    *)
(* one that touches the record it works on: a record is pending exactly    *)
(* while it has pending bytes, only an attached record is pending, and the *)
(* worker only works on a pending one while the process runs.              *)
(*                                                                         *)
(* The installation, for any files, builds, options and number of runs.    *)
(* What is missing there is what a run in progress has done: in which      *)
(* order an installation goes, and for an update where each target is,     *)
(* untouched, moved aside or replaced.  That order comes from lists, so    *)
(* the lemmas about lists come first.                                      *)
(***************************************************************************)
EXTENDS ModStorage, Installer, FiniteSetTheorems, TLAPS

\* The book-keeping of host thread and worker that ties the properties together.
Bookkeeping ==
  /\ \A id \in Ids :
       /\ state[id] = "PENDING" <=> pending[id] # Nothing
       /\ committed[id] = Closed => state[id] = "IDLE"
  /\ worker.step \in Steps => Running
  /\ worker.saved => worker.step = "publishing"
  /\ mode = "off" => worker = Idle /\ Attached = {}

IInv ==
  /\ TypeOK
  /\ Bookkeeping
  /\ WorkerOwnsItsBytes
  /\ SavedIsDurable
  /\ ReadsMatchDisk
  /\ ShutdownDrains

USE IdsAssumption, FileAssumption, StorageBounds

-----------------------------------------------------------------------------
(* Lemmas.                                                                  *)

\* The worker's next job is to wait, when nothing is pending, or a pending
\* record that it starts on.
LEMMA JobType ==
  ASSUME NEW st, NEW next \in Job(st)
  PROVE  \/ next = Idle /\ Waiting(st) = {}
         \/ /\ next.id \in Ids /\ st[next.id] = "PENDING"
            /\ next = [step |-> "clearing", id |-> next.id, saved |-> FALSE]
  BY DEF Job, First, Waiting

\* The initial states satisfy the invariant.
LEMMA InitIInv == Init => IInv
  BY DEF Init, IInv, TypeOK, Bookkeeping, WorkerOwnsItsBytes, SavedIsDurable,
         ReadsMatchDisk, ShutdownDrains, Idle, Attached, Files, Running, Steps

\* Every step of the host thread, the process and the worker keeps it.
LEMMA NextIInv == IInv /\ [Next]_vars => IInv'
<1> SUFFICES ASSUME IInv, [Next]_vars PROVE IInv'
  OBVIOUS
<1> USE DEF IInv, TypeOK, Bookkeeping, WorkerOwnsItsBytes, SavedIsDurable, ReadsMatchDisk,
            ShutdownDrains, Attached, Running, Steps, Files
<1>1. CASE Open
  BY <1>1 DEF Open, Idle, records, files
<1>2. CASE Stop
  BY <1>2 DEF Stop, records, files
<1>3. CASE Joined
  BY <1>3 DEF Joined, NoRecords, Idle, NoId, files
<1>4. CASE Crash
  BY <1>4 DEF Crash, NoRecords, Idle, NoId, files
<1>5. CASE Tick
  BY <1>5 DEF Tick, files
<1>6. ASSUME NEW id \in Ids, Attach(id) PROVE IInv'
  BY <1>6 DEF Attach, files
<1>7. ASSUME NEW id \in Ids, NEW bytes \in Contents, Write(id, bytes) PROVE IInv'
  BY <1>7 DEF Write, MayWrite, files
<1>8. CASE Pick
  <2>1. PICK id \in Ids : /\ state[id] = "PENDING"
                          /\ worker' = [step |-> "clearing", id |-> id, saved |-> FALSE]
    BY <1>8, JobType DEF Pick
  <2>2. UNCHANGED <<mode, committed, pending, state, wait, target, staging, sessions>>
    BY <1>8 DEF Pick, records, files
  <2>3. mode # "off"
    BY <1>8 DEF Pick
  <2>4. TypeOK' /\ Bookkeeping'
    BY <2>1, <2>2, <2>3
  <2>5. WorkerOwnsItsBytes'
    BY <2>1, <2>2
  <2>6. SavedIsDurable' /\ ReadsMatchDisk' /\ ShutdownDrains'
    BY <1>8, <2>1, <2>2 DEF Pick
  <2> QED
    BY <2>4, <2>5, <2>6
<1>9. CASE Exit
  BY <1>9 DEF Exit, Waiting, records, files
<1>10. CASE ClearStaging
  BY <1>10 DEF ClearStaging, Operation, Staging, records, files
<1>11. CASE CreateStaging
  BY <1>11 DEF CreateStaging, Operation, Staging, records, files
<1>12. CASE WriteStaging
  BY <1>12 DEF WriteStaging, Operation, Staging, records, files
<1>13. CASE FlushStaging
  <2>1. worker.id \in Ids /\ pending[worker.id] \in Contents
    BY <1>13 DEF FlushStaging, Operation
  <2>2. CASE worker' = [worker EXCEPT !.step = "moving", !.saved = FALSE]
    BY <1>13, <2>1, <2>2 DEF FlushStaging, Operation, Staging, records, files
  <2>3. CASE worker' = [worker EXCEPT !.step = "deleting"]
    BY <1>13, <2>1, <2>3 DEF FlushStaging, Operation, Staging, records, files
  <2> QED
    BY <1>13, <2>2, <2>3 DEF FlushStaging, Operation
<1>14. CASE MoveStaging
  <2>1. worker.id \in Ids /\ staging[worker.id] = pending[worker.id] /\ staging[worker.id] \in Contents
    BY <1>14 DEF MoveStaging, Operation
  <2>2. CASE worker' = [worker EXCEPT !.step = "publishing", !.saved = TRUE]
    <3>1. /\ target' = [target EXCEPT ![worker.id] = staging[worker.id]]
          /\ staging' = [staging EXCEPT ![worker.id] = Absent]
          /\ UNCHANGED <<mode, committed, pending, state, wait, sessions>>
      BY <1>14, <2>2 DEF MoveStaging, Operation, Staging, records, files
    <3>2. mode # "off" /\ worker.step = "moving"
      BY <1>14 DEF MoveStaging, Operation
    <3>3. TypeOK' /\ Bookkeeping'
      BY <2>1, <2>2, <3>1, <3>2
    <3>4. WorkerOwnsItsBytes'
      BY <2>1, <2>2, <3>1, <3>2
    <3>5. SavedIsDurable'
      BY <2>1, <3>1, <3>2
    <3>6. ReadsMatchDisk' /\ ShutdownDrains'
      BY <2>1, <2>2, <3>1, <3>2
    <3> QED
      BY <3>3, <3>4, <3>5, <3>6
  <2>3. CASE worker' = [worker EXCEPT !.step = "deleting"]
    BY <1>14, <2>1, <2>3 DEF MoveStaging, Operation, Staging, records, files
  <2> QED
    BY <1>14, <2>2, <2>3 DEF MoveStaging, Operation
<1>15. CASE DeleteStaging
  BY <1>15 DEF DeleteStaging, Operation, Staging, records, files
<1>16. CASE Publish
  <2>1. /\ state' = [state EXCEPT ![worker.id] = IF worker.saved THEN "SAVED" ELSE "FAILED"]
        /\ committed' = IF worker.saved
                        THEN [committed EXCEPT ![worker.id] = pending[worker.id]] ELSE committed
        /\ pending' = [pending EXCEPT ![worker.id] = Nothing]
        /\ UNCHANGED <<mode, wait, target, staging, sessions>>
        /\ mode # "off" /\ worker.step = "publishing" /\ worker.id \in Attached
    BY <1>16 DEF Publish, Resolved, files
  <2>2. CASE worker' = Idle
    BY <2>1, <2>2 DEF Idle, NoId
  <2>3. CASE \E id \in Ids : /\ state'[id] = "PENDING"
                            /\ worker' = [step |-> "clearing", id |-> id, saved |-> FALSE]
    <3>1. PICK id \in Ids : /\ state'[id] = "PENDING"
                            /\ worker' = [step |-> "clearing", id |-> id, saved |-> FALSE]
      BY <2>3
    <3>2. TypeOK' /\ Bookkeeping'
      BY <2>1, <3>1
    <3>3. WorkerOwnsItsBytes'
      BY <2>1, <3>1
    <3>4. SavedIsDurable' /\ ReadsMatchDisk' /\ ShutdownDrains'
      BY <2>1, <3>1
    <3> QED
      BY <3>2, <3>3, <3>4
  <2> QED
    BY <1>16, <2>2, <2>3, JobType DEF Publish
<1>17. CASE UNCHANGED vars
  BY <1>17 DEF vars, records, files
<1> QED
  BY <1>1, <1>2, <1>3, <1>4, <1>5, <1>6, <1>7, <1>8, <1>9, <1>10, <1>11, <1>12, <1>13,
     <1>14, <1>15, <1>16, <1>17 DEF Next, Worker

\* So it always holds.
LEMMA AlwaysIInv == Spec => []IInv
  BY InitIInv, NextIInv, PTL DEF Spec

-----------------------------------------------------------------------------
(* The safety properties.                                                   *)

\* Every variable keeps its type; no record file is ever torn.
THEOREM TypeCorrect == Spec => []TypeOK
  BY AlwaysIInv, PTL DEF IInv

\* SAVED is only reported of a record that a restart would find: the status that
\* storage_status returns never runs ahead of the file.
THEOREM SavedDurable == Spec => []SavedIsDurable
  BY AlwaysIInv, PTL DEF IInv

\* What read() returns is what the file holds, except while a move that has
\* succeeded waits to be published.
THEOREM ReadsAgree == Spec => []ReadsMatchDisk
  BY AlwaysIInv, PTL DEF IInv

\* What a session reports or reads is what a restart would find.
THEOREM RecordsMatch == Spec => []RecordsMatchFiles
  BY SavedDurable, ReadsAgree, PTL DEF RecordsMatchFiles

\* The worker's use of the pending bytes outside the mutex is safe.
THEOREM WorkerExclusive == Spec => []WorkerOwnsItsBytes
  BY AlwaysIInv, PTL DEF IInv

\* When the destructor can join the worker, no accepted write is left.
THEOREM ShutdownComplete == Spec => []ShutdownDrains
  BY AlwaysIInv, PTL DEF IInv

-----------------------------------------------------------------------------
(* The refinement.                                                          *)

\* The initial states are states of a register.
LEMMA InitRefines == Init => Register!Init
  BY DEF Init, Register!Init, Idle, NoId

\* Every step is a step of the register or leaves it alone: of save(), only the
\* move is visible.
LEMMA NextRefines == IInv /\ [Next]_vars => [Register!Next]_(Register!vars)
<1> SUFFICES ASSUME IInv, [Next]_vars PROVE [Register!Next]_(Register!vars)
  OBVIOUS
<1> DEFINE persisted == {id \in Ids : worker.id = id /\ worker.step = "publishing" /\ worker.saved}
<1> USE DEF IInv, TypeOK, Bookkeeping, WorkerOwnsItsBytes, Steps, Attached
<1>1. ASSUME UNCHANGED <<target, committed, pending, state>>, persisted' = persisted
      PROVE  UNCHANGED Register!vars
  BY <1>1 DEF Register!vars
<1>2. CASE Open
  BY <1>1, <1>2 DEF Open, Idle, NoId, records, files
<1>3. CASE Stop \/ Tick \/ UNCHANGED vars
  BY <1>1, <1>3 DEF Stop, Tick, vars, records, files
<1>4. CASE Pick
  BY <1>1, <1>4, JobType DEF Pick, records, files
<1>5. CASE Exit
  BY <1>1, <1>5 DEF Exit, records, files
<1>6. CASE Joined \/ Crash
  <2>1. persisted' = {}
    BY <1>6 DEF Joined, Crash, Idle, NoId
  <2>2. Register!End
    BY <1>6, <2>1 DEF Joined, Crash, NoRecords, files, Register!End
  <2> QED
    BY <2>2 DEF Register!Next
<1>7. ASSUME NEW id \in Ids, Attach(id) PROVE Register!Next
  <2>1. Register!Attach(id)
    BY <1>7 DEF Attach, files, Register!Attach
  <2> QED
    BY <2>1 DEF Register!Next
<1>8. ASSUME NEW id \in Ids, NEW bytes \in Contents, Write(id, bytes) PROVE Register!Next
  <2>1. Register!Accept(id, bytes)
    BY <1>8 DEF Write, MayWrite, files, Register!Accept
  <2> QED
    BY <2>1 DEF Register!Next
<1>9. CASE ClearStaging \/ CreateStaging \/ WriteStaging \/ FlushStaging \/ DeleteStaging
  BY <1>1, <1>9 DEF ClearStaging, CreateStaging, WriteStaging, FlushStaging, DeleteStaging,
                    Operation, records, files
<1>10. CASE MoveStaging
  <2>1. PICK id \in Ids : id = worker.id
    BY <1>10 DEF MoveStaging, Operation
  <2>2. /\ staging[id] = pending[id] /\ ~worker.saved
        /\ worker.step = "moving" /\ state[id] = "PENDING"
    BY <1>10, <2>1 DEF MoveStaging, Operation
  <2>3. CASE worker' = [worker EXCEPT !.step = "publishing", !.saved = TRUE]
    <3>1. persisted = {} /\ persisted' = {id}
      BY <2>1, <2>2, <2>3
    <3>2. Register!Persist(id)
      BY <1>10, <2>1, <2>2, <2>3, <3>1 DEF MoveStaging, Operation, records, Register!Persist
    <3> QED
      BY <3>2 DEF Register!Next
  <2>4. CASE worker' = [worker EXCEPT !.step = "deleting"]
    BY <1>1, <1>10, <2>2, <2>4 DEF MoveStaging, Operation, records, files
  <2> QED
    BY <1>10, <2>3, <2>4 DEF MoveStaging, Operation
<1>11. CASE Publish
  <2>1. PICK id \in Ids : id = worker.id
    BY <1>11 DEF Publish
  <2>2. worker.step = "publishing" /\ state[id] = "PENDING" /\ worker'.step # "publishing"
    BY <1>11, <2>1, JobType DEF Publish, Idle
  <2>3. persisted' = {}
    BY <2>2
  <2>4. CASE worker.saved
    <3>1. persisted = {id}
      BY <2>1, <2>2, <2>4
    <3>2. /\ committed' = [committed EXCEPT ![id] = pending[id]]
          /\ pending' = [pending EXCEPT ![id] = Nothing]
          /\ state' = [state EXCEPT ![id] = "SAVED"]
          /\ target' = target
      BY <1>11, <2>1, <2>4 DEF Publish, Resolved, files
    <3>3. Register!Save(id)
      BY <2>2, <2>3, <3>1, <3>2 DEF Register!Save
    <3> QED
      BY <3>3 DEF Register!Next
  <2>5. CASE ~worker.saved
    <3>1. persisted = {}
      BY <2>5
    <3>2. /\ committed' = committed
          /\ pending' = [pending EXCEPT ![id] = Nothing]
          /\ state' = [state EXCEPT ![id] = "FAILED"]
          /\ target' = target
      BY <1>11, <2>1, <2>5 DEF Publish, Resolved, files
    <3>3. Register!Fail(id)
      BY <2>2, <2>3, <3>1, <3>2 DEF Register!Fail
    <3> QED
      BY <3>3 DEF Register!Next
  <2> QED
    BY <2>4, <2>5
<1> QED
  BY <1>2, <1>3, <1>4, <1>5, <1>6, <1>7, <1>8, <1>9, <1>10, <1>11 DEF Next, Worker

\* The store with its files, its worker and its crashes implements the register
\* that docs/mod-storage.md promises.
THEOREM Refinement == Spec => ImplementsRegister
  BY InitRefines, NextRefines, AlwaysIInv, PTL DEF Spec, ImplementsRegister, Register!Spec
-----------------------------------------------------------------------------
(* The installation.                                                       *)

\* What a build or the user can have put in a file, and what the receipt can list.
Versions == (UNION {{build[n] : n \in DOMAIN build} : build \in Builds}) \union {"on"}
Releases ==
  {r \in UNION {[D -> Versions] : D \in SUBSET Names} : {Proxy} \union Required \subseteq DOMAIN r}
FileContents == {Missing, Part, Users} \union {File(v) : v \in Versions} \union {Listing(r) : r \in Releases}
Disks == [Targets -> FileContents]

Elements(s) == {s[i] : i \in 1..Len(s)}
Distinct(s) == \A i, j \in 1..Len(s) : s[i] = s[j] => i = j

Lists == Seq(Targets)
Installs == [at : {"next", "copy", "undo"}, kind : {"install"}, todo : Lists, done : Lists, wanted : Disks]
Uninstalls == [at : {"next"}, kind : {"uninstall"}, todo : Lists]
Updates == [at : {"stage", "backup", "publish", "restore", "clean"}, kind : {"update"}, todo : Lists, plan : Lists,
            wanted : Disks, published : SUBSET Targets, result : {"failed", "succeeded", "stuck"}]

InstallerTypes ==
  /\ disk \in Disks /\ staged \in Disks /\ backup \in Disks /\ folder \in BOOLEAN /\ torn \in BOOLEAN
  /\ job \in {NoJob} \union Installs \union Uninstalls \union Updates
  /\ kept.before \in Disks /\ kept.wanted \in Disks

\* A disk on which everything that is listed is there, but for the proxy; one on which
\* the proxy may be loaded.
Complete(d) == d[Receipt].is = "receipt" /\ \A n \in DOMAIN d[Receipt].owned \ {Proxy} : d[n] = File(d[Receipt].owned[n])
IntactOn(d) == d[Receipt].is = "receipt" /\ \A n \in DOMAIN d[Receipt].owned : d[n] = File(d[Receipt].owned[n])
Sound(d) == Complete(d) /\ ~Conflict(d) /\ ~LuaRefused(d)

Updating == job \in Updates
Unloaded == disk[Proxy] = Missing

\* The loader is there only with what it needs, and nothing without its folder.
HostIsWhole ==
  /\ ~torn /\ ~Updating /\ ~Unloaded => Sound(disk)
  /\ ~folder => \A n \in Targets \ {Proxy} : disk[n] = Missing
  /\ ~Updating /\ job # NoJob => kept = NotKept

\* An installation: what is not to be done yet is as it will be, and the proxy is the
\* last to come and the first to go.
InstallOK ==
  job \in Installs =>
    /\ Sound(job.wanted)
    /\ job.at \in {"next", "copy"} =>
         /\ \A n \in Targets \ {Proxy} : disk[n] = job.wanted[n] \/ n \in Elements(job.todo)
         /\ \A i \in 1..Len(job.todo) : job.todo[i] = Proxy => i = Len(job.todo)
    /\ job.at = "next" => Unloaded \/ (job.todo = <<>> /\ job.done # <<>> /\ Head(job.done) = Proxy)
    /\ job.at = "copy" =>
         /\ folder /\ job.todo # <<>> /\ job.done # <<>> /\ Head(job.done) = FirstTodo
         /\ Unloaded \/ FirstTodo = Proxy
    /\ job.at = "undo" => Unloaded \/ (job.done # <<>> /\ Head(job.done) = Proxy)

UninstallOK ==
  job \in Uninstalls => Unloaded \/ (job.todo # <<>> /\ FirstTodo = Proxy)

\* An update: where each target is.
Untouched(n) == disk[n] = kept.before[n] /\ backup[n] = Missing
Replaced(n) == disk[n] = job.wanted[n] /\ backup[n] = kept.before[n]
Todo == Elements(job.todo)
Plan == Elements(job.plan)
UpdateOK ==
  Updating =>
    /\ kept.wanted = job.wanted /\ folder
    /\ IntactOn(job.wanted)
    /\ ~torn => Sound(kept.before)
    /\ Conflict(job.wanted) => Conflict(kept.before)
    /\ LuaRefused(job.wanted) => LuaRefused(kept.before)
    /\ \A n \in Targets \ Plan : job.wanted[n] = kept.before[n]
    /\ \A n \in Plan : kept.before[n] # Users
    /\ Distinct(job.plan)
StageOK ==
  Updating /\ job.at \in {"stage", "backup", "publish"} =>
    /\ job.at = "stage" => (\A n \in Plan : staged[n] = job.wanted[n] \/ n \in Todo) /\ (\A n \in Targets : Untouched(n))
    /\ job.published = (IF job.at = "stage" THEN {} ELSE Plan \ Todo)
    /\ job.result = "failed"
PublishOK ==
  Updating /\ job.at \in {"backup", "publish"} =>
    /\ Todo \subseteq Plan /\ Distinct(job.todo)
    /\ job.at = "publish" => job.todo # <<>>
    /\ \A n \in Todo : staged[n] = job.wanted[n]
    /\ \A n \in Targets \ Plan : Untouched(n)
    /\ \A n \in Plan \ Todo : Replaced(n)
    /\ \A n \in Todo : IF job.at = "publish" /\ n = FirstTodo THEN disk[n] = Missing /\ backup[n] = kept.before[n] ELSE Untouched(n)
RestoreOK ==
  Updating /\ job.at = "restore" =>
    /\ Todo \subseteq Plan /\ Distinct(job.todo) /\ job.result = "failed"
    /\ \A n \in Targets \ Todo : Untouched(n)
    /\ \A n \in Todo : \/ backup[n] # Missing /\ backup[n] = kept.before[n]
                       \/ backup[n] = Missing /\ n \in job.published /\ kept.before[n] = Missing
                       \/ n \notin job.published /\ Untouched(n)
CleanOK ==
  Updating /\ job.at = "clean" =>
    /\ job.result = "failed" => disk = kept.before
    /\ job.result = "succeeded" => disk = job.wanted
    /\ job.result = "stuck" => torn

InstallerIInv ==
  /\ InstallerTypes /\ HostIsWhole /\ InstallOK /\ UninstallOK /\ UpdateOK /\ StageOK /\ PublishOK /\ RestoreOK /\ CleanOK
  /\ NothingIsLost
-----------------------------------------------------------------------------
(* Lists of onDisk.                                                         *)

LEMMA TailElements ==
  ASSUME NEW S, NEW s \in Seq(S), s # <<>>
  PROVE  /\ Head(s) \in S /\ Tail(s) \in Seq(S)
         /\ Elements(s) = {Head(s)} \union Elements(Tail(s))
         /\ Distinct(s) => Distinct(Tail(s)) /\ Head(s) \notin Elements(Tail(s))
<1>1. Len(s) \in Nat \ {0} /\ Head(s) = s[1] /\ Head(s) \in S /\ Tail(s) \in Seq(S)
  OBVIOUS
<1>2. Len(Tail(s)) = Len(s) - 1 /\ \A i \in 1..Len(s) - 1 : Tail(s)[i] = s[i + 1]
  BY <1>1
<1>3. \A x : x \in Elements(s) <=> \E i \in 1..Len(s) : x = s[i]
  BY DEF Elements
<1>4. \A x : x \in Elements(Tail(s)) <=> \E i \in 1..Len(s) - 1 : x = s[i + 1]
  BY <1>1, <1>2 DEF Elements
<1>5. ASSUME NEW x, x \in Elements(s) PROVE x = Head(s) \/ x \in Elements(Tail(s))
  <2>1. PICK i \in 1..Len(s) : x = s[i]
    BY <1>3, <1>5
  <2>2. CASE i = 1
    BY <1>1, <2>1, <2>2
  <2>3. CASE i # 1
    <3>1. i - 1 \in 1..Len(s) - 1 /\ i - 1 + 1 = i
      BY <1>1, <2>3
    <3> QED
      BY <1>4, <2>1, <3>1
  <2> QED
    BY <2>2, <2>3
<1>6. ASSUME NEW x, x = Head(s) \/ x \in Elements(Tail(s)) PROVE x \in Elements(s)
  <2>1. 1 \in 1..Len(s) /\ \A i \in 1..Len(s) - 1 : i + 1 \in 1..Len(s)
    BY <1>1
  <2> QED
    BY <1>1, <1>3, <1>4, <1>6, <2>1
<1>7. ASSUME Distinct(s) PROVE Distinct(Tail(s)) /\ Head(s) \notin Elements(Tail(s))
  <2>1. Distinct(Tail(s))
    BY <1>1, <1>2, <1>7 DEF Distinct
  <2>2. ASSUME NEW i \in 1..Len(s) - 1, Head(s) = s[i + 1] PROVE FALSE
    BY <1>1, <1>7, <2>2 DEF Distinct
  <2> QED
    BY <1>4, <2>1, <2>2
<1> QED
  BY <1>1, <1>5, <1>6, <1>7

LEMMA EmptyList == ASSUME NEW S, NEW s \in Seq(S), Len(s) = 0 PROVE s = <<>>
OBVIOUS

LEMMA JoinElements ==
  ASSUME NEW S, NEW s \in Seq(S), NEW t \in Seq(S)
  PROVE  /\ s \o t \in Seq(S)
         /\ Elements(s \o t) = Elements(s) \union Elements(t)
         /\ Distinct(s) /\ Distinct(t) /\ Elements(s) \intersect Elements(t) = {} => Distinct(s \o t)
<1>1. Len(s) \in Nat /\ Len(t) \in Nat /\ s \o t \in Seq(S) /\ Len(s \o t) = Len(s) + Len(t)
  OBVIOUS
<1>2. \A i \in 1..Len(s) + Len(t) : (s \o t)[i] = IF i <= Len(s) THEN s[i] ELSE t[i - Len(s)]
  OBVIOUS
<1>3. ASSUME NEW x PROVE x \in Elements(s \o t) <=> x \in Elements(s) \union Elements(t)
  <2>1. ASSUME x \in Elements(s \o t) PROVE x \in Elements(s) \union Elements(t)
    <3>1. PICK i \in 1..Len(s) + Len(t) : x = (s \o t)[i]
      BY <1>1, <2>1 DEF Elements
    <3>2. CASE i <= Len(s)
      BY <1>1, <1>2, <3>1, <3>2 DEF Elements
    <3>3. CASE ~(i <= Len(s))
      <4>1. i - Len(s) \in 1..Len(t)
        BY <1>1, <3>3
      <4> QED
        BY <1>2, <3>1, <3>3, <4>1 DEF Elements
    <3> QED
      BY <3>2, <3>3
  <2>2. ASSUME x \in Elements(s) PROVE x \in Elements(s \o t)
    <3>1. PICK i \in 1..Len(s) : x = s[i]
      BY <2>2 DEF Elements
    <3>2. i \in 1..Len(s) + Len(t) /\ (s \o t)[i] = x
      BY <1>1, <1>2, <3>1
    <3> QED
      BY <1>1, <3>2 DEF Elements
  <2>3. ASSUME x \in Elements(t) PROVE x \in Elements(s \o t)
    <3>1. PICK i \in 1..Len(t) : x = t[i]
      BY <2>3 DEF Elements
    <3>2. i + Len(s) \in 1..Len(s) + Len(t) /\ ~(i + Len(s) <= Len(s)) /\ i + Len(s) - Len(s) = i
      BY <1>1
    <3>3. (s \o t)[i + Len(s)] = x
      BY <1>2, <3>1, <3>2
    <3> QED
      BY <1>1, <3>2, <3>3 DEF Elements
  <2> QED
    BY <2>1, <2>2, <2>3
<1>4. ASSUME Distinct(s), Distinct(t), Elements(s) \intersect Elements(t) = {},
             NEW i \in 1..Len(s) + Len(t), NEW j \in 1..Len(s) + Len(t), (s \o t)[i] = (s \o t)[j]
      PROVE  i = j
  <2>1. ASSUME NEW k \in 1..Len(s), NEW l \in 1..Len(t) PROVE s[k] # t[l]
    BY <1>4 DEF Elements
  <2>2. CASE i <= Len(s) /\ j <= Len(s)
    BY <1>1, <1>2, <1>4, <2>2 DEF Distinct
  <2>3. CASE ~(i <= Len(s)) /\ ~(j <= Len(s))
    <3>1. i - Len(s) \in 1..Len(t) /\ j - Len(s) \in 1..Len(t) /\ t[i - Len(s)] = t[j - Len(s)]
      BY <1>1, <1>2, <1>4, <2>3
    <3>2. i - Len(s) = j - Len(s)
      BY <1>4, <3>1 DEF Distinct
    <3> QED
      BY <1>1, <3>2
  <2>4. CASE i <= Len(s) /\ ~(j <= Len(s))
    <3>1. i \in 1..Len(s) /\ j - Len(s) \in 1..Len(t)
      BY <1>1, <2>4
    <3> QED
      BY <1>2, <1>4, <2>1, <2>4, <3>1
  <2>5. CASE ~(i <= Len(s)) /\ j <= Len(s)
    <3>1. j \in 1..Len(s) /\ i - Len(s) \in 1..Len(t)
      BY <1>1, <2>5
    <3> QED
      BY <1>2, <1>4, <2>1, <2>5, <3>1
  <2> QED
    BY <2>2, <2>3, <2>4, <2>5
<1>5. Distinct(s) /\ Distinct(t) /\ Elements(s) \intersect Elements(t) = {} => Distinct(s \o t)
  BY <1>1, <1>4 DEF Distinct
<1> QED
  BY <1>1, <1>3, <1>5

LEMMA OneElement ==
  ASSUME NEW S, NEW e \in S
  PROVE  <<e>> \in Seq(S) /\ Elements(<<e>>) = {e} /\ Distinct(<<e>>) /\ <<e>> # <<>> /\ Head(<<e>>) = e
BY DEF Elements, Distinct

LEMMA ReverseElements ==
  ASSUME NEW S, NEW s \in Seq(S)
  PROVE  /\ Reverse(s) \in Seq(S) /\ Elements(Reverse(s)) = Elements(s)
         /\ Distinct(s) => Distinct(Reverse(s))
<1>1. Len(s) \in Nat /\ \A i \in 1..Len(s) : (Len(s) - i) + 1 \in 1..Len(s) /\ s[i] \in S
  OBVIOUS
<1>2. /\ Reverse(s) = [i \in 1..Len(s) |-> s[(Len(s) - i) + 1]]
      /\ Reverse(s) \in Seq(S) /\ Len(Reverse(s)) = Len(s)
  BY <1>1 DEF Reverse
<1>3. \A i \in 1..Len(s) : Reverse(s)[i] = s[(Len(s) - i) + 1] /\ s[i] = Reverse(s)[(Len(s) - i) + 1]
  BY <1>1, <1>2
<1>4. Elements(Reverse(s)) = Elements(s)
  <2>1. ASSUME NEW x \in Elements(Reverse(s)) PROVE x \in Elements(s)
    <3>1. PICK i \in 1..Len(s) : x = Reverse(s)[i]
      BY <1>2 DEF Elements
    <3> QED
      BY <1>1, <1>3, <3>1 DEF Elements
  <2>2. ASSUME NEW x \in Elements(s) PROVE x \in Elements(Reverse(s))
    <3>1. PICK i \in 1..Len(s) : x = s[i]
      BY DEF Elements
    <3>2. (Len(s) - i) + 1 \in 1..Len(Reverse(s)) /\ x = Reverse(s)[(Len(s) - i) + 1]
      BY <1>1, <1>2, <1>3, <3>1
    <3> QED
      BY <3>2 DEF Elements
  <2> QED
    BY <2>1, <2>2
<1>5. ASSUME Distinct(s), NEW i \in 1..Len(s), NEW j \in 1..Len(s), Reverse(s)[i] = Reverse(s)[j] PROVE i = j
  <2>1. (Len(s) - i) + 1 = (Len(s) - j) + 1
    BY <1>1, <1>3, <1>5 DEF Distinct
  <2> QED
    BY <1>1, <2>1
<1> QED
  BY <1>2, <1>4, <1>5 DEF Distinct

LEMMA SetElements ==
  ASSUME NEW S, IsFiniteSet(S)
  PROVE  SetToSeq(S) \in Seq(S) /\ Elements(SetToSeq(S)) = S /\ Distinct(SetToSeq(S))
<1> DEFINE n == Cardinality(S)
<1>1. n \in Nat /\ ExistsBijection(1..n, S)
  BY FS_CardinalityType
<1>2. \E f \in [1..n -> S] : IsInjective(f)
  <2>1. PICK f \in Injection(1..n, S) : TRUE
    BY <1>1 DEF ExistsBijection, Bijection
  <2>2. f \in [1..n -> S] /\ \A a, b \in 1..n : f[a] = f[b] => a = b
    BY <2>1 DEF Injection, IsInjective
  <2> QED
    BY <2>2 DEF IsInjective
<1>3. SetToSeq(S) \in [1..n -> S] /\ IsInjective(SetToSeq(S))
  <2>1. SetToSeq(S) = CHOOSE f \in [1..n -> S] : IsInjective(f)
    BY DEF SetToSeq, Cardinality, Cardinality
  <2> QED
    BY <1>2, <2>1
<1>4. SetToSeq(S) \in Injection(1..n, S)
  BY <1>3 DEF Injection, IsInjective, IsInjective
<1>5. Cardinality(1..n) = n /\ IsFiniteSet(1..n)
  BY <1>1, FS_Interval
<1>6. SetToSeq(S) \in Surjection(1..n, S)
  BY <1>4, <1>5, FS_Injection
<1>7. SetToSeq(S) \in Seq(S) /\ Len(SetToSeq(S)) = n
  BY <1>1, <1>3
<1>8. Elements(SetToSeq(S)) = S
  BY <1>3, <1>6, <1>7 DEF Elements, Surjection
<1>9. Distinct(SetToSeq(S))
  BY <1>3, <1>7 DEF Distinct, IsInjective
<1> QED
  BY <1>7, <1>8, <1>9

-----------------------------------------------------------------------------
(* Contents, disks and runs.                                               *)

LEMMA Kinds ==
  /\ Missing # Users /\ Missing # Part /\ Missing.is # "receipt" /\ Users.is # "receipt" /\ Part.is # "receipt"
  /\ \A v : File(v) # Missing /\ File(v) # Users /\ File(v).is # "receipt"
  /\ \A r : Listing(r) # Missing /\ Listing(r) # Users /\ Listing(r).is = "receipt" /\ Listing(r).owned = r
BY DEF Missing, Users, Part, File, Listing

LEMMA ContentKinds ==
  /\ Missing \in FileContents /\ Part \in FileContents /\ Users \in FileContents
  /\ \A v \in Versions : File(v) \in FileContents
  /\ \A r \in Releases : Listing(r) \in FileContents
  /\ \A c \in FileContents : c.is = "receipt" => c.owned \in Releases /\ c = Listing(c.owned)
BY Kinds DEF FileContents

LEMMA Apart ==
  /\ \A j \in Installs : j \notin Uninstalls /\ j \notin Updates /\ j # NoJob
  /\ \A j \in Uninstalls : j \notin Installs /\ j \notin Updates /\ j # NoJob
  /\ \A j \in Updates : j \notin Installs /\ j \notin Uninstalls /\ j # NoJob
  /\ NoJob \notin Installs /\ NoJob \notin Uninstalls /\ NoJob \notin Updates
BY DEF Installs, Uninstalls, Updates, NoJob

LEMMA JobKinds ==
  ASSUME InstallerTypes
  PROVE  /\ job.at = "idle" <=> job = NoJob
         /\ job.at \in {"stage", "backup", "publish", "restore", "clean"} => job \in Updates
         /\ job.at \in {"copy", "undo"} => job \in Installs
         /\ job.at = "next" /\ job.kind = "install" => job \in Installs
         /\ job.at = "next" /\ job.kind = "uninstall" => job \in Uninstalls
         /\ job # NoJob => (job.kind = "update" <=> job \in Updates)
BY DEF InstallerTypes, Installs, Uninstalls, Updates, NoJob

LEMMA FileFields ==
  ASSUME InstallerTypes
  PROVE  /\ \A n \in Targets : disk[n] \in FileContents /\ staged[n] \in FileContents /\ backup[n] \in FileContents
         /\ \A n \in Targets : kept.before[n] \in FileContents
         /\ job \in Installs \union Updates => \A n \in Targets : job.wanted[n] \in FileContents
         /\ disk[Receipt].is = "receipt" => Owned \in Releases
<1>1. Receipt \in Targets
  BY DEF Targets
<1>2. \A d \in Disks : \A n \in Targets : d[n] \in FileContents
  BY DEF Disks
<1>3. job \in Installs \union Updates => job.wanted \in Disks
  BY DEF Installs, Updates
<1>4. disk[Receipt].is = "receipt" => Owned \in Releases
  BY <1>1, <1>2, ContentKinds DEF InstallerTypes, Owned
<1> QED
  BY <1>2, <1>3, <1>4 DEF InstallerTypes

LEMMA FileNames ==
  ASSUME InstallerAssumption
  PROVE  /\ Proxy \in Names /\ Required \subseteq Names /\ Markers \subseteq Names /\ Names \subseteq Targets
         /\ Proxy \in Targets /\ Receipt \in Targets /\ Receipt \notin Names /\ Receipt # Proxy /\ Proxy \notin Markers
         /\ Markers = {"observer", "trial", "physics", "movement", "lua", "experiment"}
         /\ Markers \intersect Required = {} /\ Markers \intersect Extras = {} /\ Receipt \notin Markers
BY DEF InstallerAssumption, Names, Targets, Proxy, Receipt, Markers, Modes

LEMMA MarkersFinite == IsFiniteSet(Markers)
<1>1. Markers = {"observer", "trial"} \union {"physics", "movement"} \union {"lua", "experiment"}
  BY DEF Markers, Modes
<1>2. \A a, b : IsFiniteSet({a, b})
  <2> TAKE a, b
  <2>1. {a, b} = {a} \union {b}
    OBVIOUS
  <2>2. IsFiniteSet({a}) /\ IsFiniteSet({b})
    BY FS_Singleton
  <2>3. IsFiniteSet({a} \union {b})
    BY <2>2, FS_Union
  <2> QED
    BY <2>1, <2>3
<1> QED
  BY <1>1, <1>2, FS_Union

LEMMA BuildsFinite == ASSUME InstallerAssumption PROVE IsFiniteSet(Required) /\ IsFiniteSet(Extras)
BY DEF InstallerAssumption, IsFiniteSet, IsFiniteSet

LEMMA NamesFinite == ASSUME InstallerAssumption PROVE IsFiniteSet(Names)
<1>1. IsFiniteSet({Proxy}) /\ IsFiniteSet(Required) /\ IsFiniteSet(Extras) /\ IsFiniteSet(Markers)
  BY BuildsFinite, MarkersFinite, FS_Singleton
<1>2. IsFiniteSet({Proxy} \union Required)
  BY <1>1, FS_Union
<1>3. IsFiniteSet({Proxy} \union Required \union Extras)
  BY <1>1, <1>2, FS_Union
<1>4. IsFiniteSet({Proxy} \union Required \union Extras \union Markers)
  BY <1>1, <1>3, FS_Union
<1> QED
  BY <1>4 DEF Names

LEMMA OtherJob ==
  ASSUME job \in Installs \union Uninstalls \union {NoJob}
  PROVE  UpdateOK /\ StageOK /\ PublishOK /\ RestoreOK /\ CleanOK
BY Apart DEF UpdateOK, StageOK, PublishOK, RestoreOK, CleanOK, Updating

LEMMA NoJobOK == ASSUME job = NoJob PROVE InstallOK /\ UninstallOK
BY Apart DEF InstallOK, UninstallOK

\* Whether a disk is sound does not depend on the proxy.
LEMMA SoundElsewhere ==
  ASSUME InstallerAssumption, NEW d \in Disks, NEW e, Sound(d), \A n \in Targets \ {Proxy} : e[n] = d[n]
  PROVE  Sound(e)
<1>r. d[Receipt].is = "receipt" => d[Receipt].owned \in Releases
  BY FileNames, ContentKinds DEF Disks
<1>1. e[Receipt] = d[Receipt] /\ \A m \in Markers : e[m] = d[m]
  BY FileNames
<1>2. DOMAIN d[Receipt].owned \subseteq Names
  BY <1>r DEF Sound, Complete, Releases
<1>3. Complete(e)
  BY <1>1, <1>2, FileNames DEF Sound, Complete
<1>4. ~Conflict(e) /\ ~LuaRefused(e)
  BY <1>1, FileNames DEF Sound, Conflict, LuaRefused, Diagnostics, Marked
<1> QED
  BY <1>3, <1>4 DEF Sound

LEMMA NothingKept == ASSUME kept' = NotKept PROVE NothingIsLost'
BY Kinds DEF NothingIsLost, NotKept, Empty

LEMMA CleanIsWhole ==
  ASSUME InstallerIInv, Updating, job.at = "clean", ~torn PROVE Sound(disk)
<1> USE DEF InstallerIInv
<1>1. CASE job.result = "failed"
  BY <1>1 DEF UpdateOK, CleanOK
<1>2. CASE job.result = "succeeded"
  <2>1. disk = job.wanted /\ IntactOn(disk) /\ ~Conflict(disk) /\ ~LuaRefused(disk)
    BY <1>2 DEF UpdateOK, CleanOK, Sound
  <2> QED
    BY <2>1 DEF IntactOn, Complete, Sound
<1>3. job.result \in {"failed", "succeeded", "stuck"}
  BY DEF Updating, Updates
<1> QED
  BY <1>1, <1>2, <1>3 DEF CleanOK

\* A run is over, or cut short.
LEMMA HaltKeeps ==
  ASSUME InstallerIInv, job' = NoJob, UNCHANGED <<disk, staged, backup, folder, kept>>,
         torn' \in BOOLEAN, torn => torn', Updating /\ job.at # "clean" => torn'
  PROVE  InstallerIInv'
<1> USE DEF InstallerIInv
<1>1. InstallerTypes'
  BY DEF InstallerTypes
<1>2. ~Updating'
  BY Apart DEF Updating
<1>3. HostIsWhole'
  BY <1>2, CleanIsWhole DEF HostIsWhole, Unloaded
<1>4. (UpdateOK /\ StageOK /\ PublishOK /\ RestoreOK /\ CleanOK)'
  BY <1>2 DEF UpdateOK, StageOK, PublishOK, RestoreOK, CleanOK
<1>5. (InstallOK /\ UninstallOK)'
  BY Apart DEF InstallOK, UninstallOK
<1>6. NothingIsLost'
  BY DEF NothingIsLost
<1> QED
  BY <1>1, <1>3, <1>4, <1>5, <1>6

LEMMA Halts ==
  ASSUME InstallerIInv, FinishRun \/ ProcessEnds \/ (job.at = "clean" /\ Fail) PROVE InstallerIInv'
<1> USE DEF InstallerIInv
<1>1. job' = NoJob /\ UNCHANGED <<disk, staged, backup, folder, kept>>
  BY DEF FinishRun, ProcessEnds, Fail, Goes, onDisk
<1>2. CASE ProcessEnds
  <2>1. torn' = (torn \/ job.kind = "update") /\ job # NoJob
    BY <1>2, JobKinds DEF ProcessEnds
  <2>2. torn' \in BOOLEAN /\ (torn => torn') /\ (Updating => torn')
    BY <2>1, JobKinds DEF Updating, InstallerTypes
  <2> QED
    BY <1>1, <2>2, HaltKeeps
<1>3. CASE FinishRun
  <2>1. torn' = torn /\ job.at \in {"next", "undo", "clean"}
    BY <1>3 DEF FinishRun, Goes
  <2>2. Updating => job.at = "clean"
    BY <2>1 DEF Updating, Updates
  <2> QED
    BY <1>1, <2>1, <2>2, HaltKeeps DEF InstallerTypes
<1>4. CASE job.at = "clean" /\ Fail
  <2>1. torn' = torn
    BY <1>4 DEF Fail, Goes
  <2> QED
    BY <1>1, <1>4, <2>1, HaltKeeps DEF InstallerTypes
<1> QED
  BY <1>2, <1>3, <1>4

-----------------------------------------------------------------------------
(* Installing and uninstalling.                                            *)

\* What a build has for some options, and the markers among it.
LEMMA SourcesOK ==
  ASSUME InstallerAssumption, NEW build \in Builds, NEW o \in Commands
  PROVE  /\ Sources(build, o) \in Releases /\ IsFiniteSet(DOMAIN Sources(build, o))
         /\ DOMAIN Sources(build, o) \subseteq Names /\ Proxy \in DOMAIN Sources(build, o)
         /\ Required \subseteq DOMAIN Sources(build, o)
         /\ \A m \in Markers : m \in DOMAIN Sources(build, o) <=> m \in Added(o)
<1> DEFINE r == Sources(build, o)
<1>1. /\ {Proxy} \union Required \subseteq DOMAIN build /\ DOMAIN build \subseteq {Proxy} \union Required \union Extras
      /\ IsFiniteSet(Required) /\ IsFiniteSet(Extras) /\ Added(o) \subseteq Markers
  BY BuildsFinite DEF InstallerAssumption, Added
<1>2. DOMAIN r = DOMAIN build \union Added(o) /\ \A n \in DOMAIN r : r[n] = IF n \in Markers THEN "on" ELSE build[n]
  BY DEF Sources
<1>3. DOMAIN r \subseteq Names
  BY <1>1, <1>2 DEF Names
<1>4. \A n \in DOMAIN r : r[n] \in Versions
  BY <1>1, <1>2 DEF Versions
<1>5. r = [n \in DOMAIN r |-> r[n]]
  BY DEF Sources
<1>6. r \in [DOMAIN r -> Versions]
  BY <1>4, <1>5
<1>7. r \in Releases
  BY <1>1, <1>2, <1>3, <1>6 DEF Releases
<1>8. IsFiniteSet(DOMAIN r)
  <2>1. IsFiniteSet({Proxy}) /\ IsFiniteSet({Proxy} \union Required) /\ IsFiniteSet({Proxy} \union Required \union Extras)
    BY <1>1, FS_Singleton, FS_Union
  <2>2. IsFiniteSet(DOMAIN build)
    BY <1>1, <2>1, FS_Subset
  <2>3. IsFiniteSet(Markers)
    BY MarkersFinite
  <2>4. IsFiniteSet(Added(o))
    BY <1>1, <2>3, FS_Subset
  <2> QED
    BY <1>2, <2>2, <2>4, FS_Union
<1>9. \A m \in Markers : m \in DOMAIN r <=> m \in Added(o)
  <2>1. \A m \in Markers : m \notin DOMAIN build
    BY <1>1, FileNames
  <2> QED
    BY <1>2, <2>1
<1> QED
  BY <1>1, <1>2, <1>3, <1>7, <1>8, <1>9

LEMMA AddedAgree ==
  ASSUME InstallerAssumption, NEW o \in Commands
  PROVE  /\ ~("observer" \in Added(o) /\ "trial" \in Added(o))
         /\ "observer" \in Added(o) \/ "trial" \in Added(o) => "physics" \notin Added(o) /\ "movement" \notin Added(o)
         /\ "lua" \in Added(o) => "movement" \in Added(o)
<1>1. o \in Options
  BY DEF InstallerAssumption
<1>2. o.lua = "on" => o.on = "movement"
  BY <1>1 DEF Options
<1>3. /\ \A m \in {"observer", "trial", "physics", "movement"} : m \in Added(o) <=> o.on = m
      /\ "lua" \in Added(o) => o.on = "lua" \/ o.lua = "on"
  BY DEF Added, Markers, Modes
<1>4. o.on # "lua"
  BY <1>1 DEF Options, Modes
<1> QED
  BY <1>2, <1>3, <1>4

LEMMA InstallKeeps ==
  ASSUME InstallerAssumption, InstallerIInv, NEW build \in Builds, NEW o \in Commands, Install(build, o)
  PROVE  InstallerIInv'
<1> USE DEF InstallerIInv
<1> DEFINE release == Sources(build, o)
           wanted == Installed(release)
           todo == InOrder(release)
<1>1. /\ Unloaded /\ ~folder /\ job.at = "idle"
      /\ job' = [at |-> "next", kind |-> "install", todo |-> todo, done |-> <<>>, wanted |-> wanted]
      /\ staged' = Empty /\ backup' = Empty /\ kept' = NotKept /\ torn' = FALSE /\ UNCHANGED <<disk, folder>>
  BY DEF Install, Begin, Unloaded
<1>2. \A n \in Targets \ {Proxy} : disk[n] = Missing
  BY <1>1 DEF HostIsWhole
<1>3. /\ release \in Releases /\ DOMAIN release \subseteq Names /\ Proxy \in DOMAIN release
      /\ IsFiniteSet(DOMAIN release) /\ \A m \in Markers : m \in DOMAIN release <=> m \in Added(o)
  BY SourcesOK
<1>4. \A n \in DOMAIN release : release[n] \in Versions
  BY <1>3 DEF Releases
<1>5. \A n \in Targets : wanted[n] = IF n = Receipt THEN Listing(release) ELSE
                                     IF n \in DOMAIN release THEN File(release[n]) ELSE disk[n]
  BY DEF Installed
<1>6. wanted \in Disks
  <2>1. \A n \in Targets : wanted[n] \in FileContents
    BY <1>3, <1>4, <1>5, ContentKinds, FileFields
  <2> QED
    BY <2>1 DEF Disks, Installed
<1>7. Sound(wanted)
  <2>1. wanted[Receipt] = Listing(release)
    BY <1>5, FileNames
  <2>2. Complete(wanted)
    BY <1>3, <1>5, <2>1, Kinds, FileNames DEF Complete
  <2>3. \A m \in Markers : Marked(wanted, m) <=> m \in Added(o)
    BY <1>2, <1>3, <1>5, Kinds, FileNames DEF Marked
  <2>4. ~Conflict(wanted) /\ ~LuaRefused(wanted)
    BY <2>3, AddedAgree, FileNames DEF Conflict, LuaRefused, Diagnostics
  <2> QED
    BY <2>2, <2>4 DEF Sound
<1>8. /\ todo \in Lists /\ Elements(todo) = DOMAIN release \union {Receipt}
      /\ \A i \in 1..Len(todo) : todo[i] = Proxy => i = Len(todo)
  <2> DEFINE s == SetToSeq(DOMAIN release \ {Proxy})
  <2>1. IsFiniteSet(DOMAIN release \ {Proxy})
    BY <1>3, FS_Difference
  <2>2. s \in Seq(DOMAIN release \ {Proxy}) /\ Elements(s) = DOMAIN release \ {Proxy}
    BY <2>1, SetElements
  <2>3. s \in Seq(Targets)
    BY <1>3, <2>2, FileNames
  <2> DEFINE last == <<Receipt, Proxy>>
  <2>4. last \in Seq(Targets) /\ Elements(last) = {Receipt, Proxy}
    BY FileNames DEF Elements
  <2>5. todo \in Seq(Targets) /\ Elements(todo) = Elements(s) \union {Receipt, Proxy}
    <3>1. todo = s \o last
      BY DEF InOrder
    <3> HIDE DEF s, todo, last
    <3>2. s \o last \in Seq(Targets) /\ Elements(s \o last) = Elements(s) \union Elements(last)
      BY <2>3, <2>4, JoinElements
    <3> QED
      BY <2>4, <3>1, <3>2, Zenon
  <2>6. ASSUME NEW i \in 1..Len(todo), todo[i] = Proxy PROVE i = Len(todo)
    <3>0. todo = s \o <<Receipt, Proxy>>
      BY DEF InOrder
    <3>a. Len(s) \in Nat /\ Len(todo) = Len(s) + 2 /\ \A k \in 1..Len(s) : todo[k] = s[k]
      <4> HIDE DEF s
      <4> QED
        BY <2>3, <3>0, FileNames
    <3>b. \A k \in 1..Len(s) : s[k] # Proxy
      <4> HIDE DEF s
      <4> QED
        BY <2>2
    <3>1. Len(s) \in Nat /\ Len(todo) = Len(s) + 2
          /\ \A k \in 1..Len(s) : todo[k] = s[k] /\ s[k] # Proxy
      BY <3>a, <3>b
    <3>2. todo[Len(s) + 1] = Receipt
      BY <2>3, FileNames DEF InOrder
    <3>3. i \notin 1..Len(s) /\ i # Len(s) + 1
      BY <2>6, <3>1, <3>2, FileNames
    <3> QED
      BY <3>1, <3>3
  <2> QED
    BY <1>3, <2>2, <2>5, <2>6 DEF Lists
<1> HIDE DEF release, wanted, todo
<1>9. /\ job' \in Installs /\ job'.at = "next" /\ job'.todo = todo /\ job'.wanted = wanted /\ job'.done = <<>>
  BY <1>1, <1>6, <1>8 DEF Installs, Lists
<1>10. InstallerTypes'
  <2>1. Empty \in Disks
    BY ContentKinds DEF Empty, Disks
  <2>2. torn' \in BOOLEAN
    BY <1>1, Zenon
  <2> QED
    BY <1>1, <1>9, <2>1, <2>2 DEF InstallerTypes, NotKept
<1>11. HostIsWhole'
  BY <1>1, <1>2, <1>9, Apart DEF HostIsWhole, Unloaded
<1>12. InstallOK'
  BY <1>1, <1>2, <1>5, <1>7, <1>8, <1>9, FileNames DEF InstallOK, Unloaded
<1>13. UninstallOK' /\ (UpdateOK /\ StageOK /\ PublishOK /\ RestoreOK /\ CleanOK)'
  BY <1>9, Apart DEF UninstallOK, UpdateOK, StageOK, PublishOK, RestoreOK, CleanOK, Updating
<1>14. NothingIsLost'
  BY <1>1, Kinds DEF NothingIsLost, NotKept, Empty
<1> QED
  BY <1>10, <1>11, <1>12, <1>13, <1>14

LEMMA EmptyElements == Elements(<<>>) = {}
BY DEF Elements

LEMMA InstallTodo ==
  ASSUME job \in Installs \union Uninstalls \union Updates, job.todo # <<>>
  PROVE  /\ job.todo \in Seq(Targets) /\ FirstTodo \in Targets /\ Tail(job.todo) \in Lists
         /\ Elements(job.todo) = {FirstTodo} \union Elements(Tail(job.todo))
<1>1. job.todo \in Seq(Targets)
  BY DEF Installs, Uninstalls, Updates, Lists
<1> QED
  BY <1>1, TailElements DEF FirstTodo, Lists

LEMMA CreateKeeps ==
  ASSUME InstallerAssumption, InstallerIInv, Create PROVE InstallerIInv'
<1> USE DEF InstallerIInv
<1>1. job \in Installs /\ job.at = "next" /\ job.todo # <<>> /\ disk[FirstTodo] = Missing
  BY JobKinds DEF Create
<1>2. /\ disk' = [disk EXCEPT ![FirstTodo] = Part] /\ folder' = TRUE
      /\ job' = [job EXCEPT !.at = "copy", !.done = <<FirstTodo>> \o @]
      /\ UNCHANGED <<staged, backup, kept, torn>>
  BY DEF Create, Goes
<1>3. FirstTodo \in Targets /\ job.todo \in Seq(Targets) /\ job.done \in Seq(Targets) /\ FirstTodo = Head(job.todo)
  BY <1>1, InstallTodo DEF Installs, Lists, FirstTodo
<1>4. <<FirstTodo>> \o job.done \in Seq(Targets) /\ <<FirstTodo>> \o job.done # <<>> /\ Head(<<FirstTodo>> \o job.done) = FirstTodo
  BY <1>3
<1>5. /\ job' \in Installs /\ job'.at = "copy" /\ job'.todo = job.todo /\ job'.wanted = job.wanted
      /\ job'.done = <<FirstTodo>> \o job.done
  BY <1>1, <1>2, <1>4 DEF Installs, Lists
<1>6. disk' \in Disks /\ \A m \in Targets : disk'[m] = IF m = FirstTodo THEN Part ELSE disk[m]
  <2>1. disk \in Disks /\ Part \in FileContents
    BY ContentKinds DEF InstallerTypes
  <2> QED
    BY <1>2, <1>3, <2>1 DEF Disks
<1>7. InstallerTypes'
  <2>1. folder' \in BOOLEAN
    BY <1>2, Zenon
  <2> QED
    BY <1>2, <1>5, <1>6, <2>1 DEF InstallerTypes
<1>8. Unloaded
  BY <1>1 DEF InstallOK
<1>9. \A n \in Targets \ {Proxy} : disk[n] = job.wanted[n] \/ n \in Elements(job.todo)
  BY <1>1 DEF InstallOK
<1>10. FirstTodo \in Elements(job.todo)
  BY <1>1, InstallTodo
<1>11. Sound(job.wanted) /\ job.wanted \in Disks /\ Proxy \in Targets
  BY <1>1, FileNames DEF InstallOK, Installs
<1>12. FirstTodo = Proxy => \A n \in Targets \ {Proxy} : disk[n] = job.wanted[n]
  <2> SUFFICES ASSUME FirstTodo = Proxy, NEW n \in Targets \ {Proxy}, n \in Elements(job.todo) PROVE FALSE
    BY <1>9
  <2>1. PICK i \in 1..Len(job.todo) : n = job.todo[i]
    BY DEF Elements
  <2>2. job.todo[1] = Proxy /\ 1 \in 1..Len(job.todo) /\ Len(job.todo) \in Nat
    BY <1>1, <1>3
  <2>3. Len(job.todo) = 1
    BY <1>1, <2>2 DEF InstallOK
  <2> QED
    BY <2>1, <2>2, <2>3
<1>13. Unloaded' \/ FirstTodo = Proxy
  BY <1>6, <1>8, <1>11 DEF Unloaded
<1>14. HostIsWhole'
  <2>1. ASSUME FirstTodo = Proxy PROVE Sound(disk')
    <3>1. \A n \in Targets \ {Proxy} : disk'[n] = job.wanted[n]
      BY <1>6, <1>12, <2>1
    <3> QED
      BY <1>11, <3>1, SoundElsewhere
  <2> QED
    BY <1>1, <1>2, <1>5, <1>13, <2>1, Apart DEF HostIsWhole, Updating
<1>15. InstallOK'
  <2>1. \A n \in Targets \ {Proxy} : disk'[n] = job.wanted[n] \/ n \in Elements(job.todo)
    BY <1>6, <1>9, <1>10
  <2> QED
    BY <1>1, <1>2, <1>4, <1>5, <1>13, <2>1 DEF InstallOK, FirstTodo
<1>16. UninstallOK' /\ (UpdateOK /\ StageOK /\ PublishOK /\ RestoreOK /\ CleanOK)'
  BY <1>5, Apart DEF UninstallOK, UpdateOK, StageOK, PublishOK, RestoreOK, CleanOK, Updating
<1>17. NothingIsLost'
  <2>1. kept' = NotKept
    BY <1>1, <1>2, Apart DEF HostIsWhole, Updating
  <2> QED
    BY <2>1, NothingKept
<1> QED
  BY <1>7, <1>14, <1>15, <1>16, <1>17

LEMMA CopyKeeps ==
  ASSUME InstallerAssumption, InstallerIInv, Copy PROVE InstallerIInv'
<1> USE DEF InstallerIInv
<1>1. job \in Installs /\ job.at = "copy" /\ job.todo # <<>> /\ folder
  BY JobKinds DEF Copy, InstallOK
<1>2. /\ disk' = [disk EXCEPT ![FirstTodo] = job.wanted[FirstTodo]]
      /\ job' = [job EXCEPT !.at = "next", !.todo = Tail(@)]
      /\ UNCHANGED <<staged, backup, folder, kept, torn>>
  BY DEF Copy, Goes, Onward
<1>3. /\ FirstTodo \in Targets /\ job.todo \in Seq(Targets) /\ Tail(job.todo) \in Lists
      /\ Elements(job.todo) = {FirstTodo} \union Elements(Tail(job.todo))
  BY <1>1, InstallTodo
<1>4. /\ job' \in Installs /\ job'.at = "next" /\ job'.todo = Tail(job.todo) /\ job'.wanted = job.wanted
      /\ job'.done = job.done
  BY <1>1, <1>2, <1>3 DEF Installs
<1>5. disk' \in Disks /\ \A m \in Targets : disk'[m] = IF m = FirstTodo THEN job.wanted[m] ELSE disk[m]
  <2>1. disk \in Disks /\ job.wanted[FirstTodo] \in FileContents
    BY <1>1, <1>3, FileFields DEF InstallerTypes
  <2>2. disk' \in Disks /\ \A m \in Targets : disk'[m] = IF m = FirstTodo THEN job.wanted[FirstTodo] ELSE disk[m]
    BY <1>2, <1>3, <2>1 DEF Disks
  <2> QED
    BY <2>2
<1>6. InstallerTypes'
  BY <1>2, <1>4, <1>5 DEF InstallerTypes
<1>7. \A n \in Targets \ {Proxy} : disk'[n] = job.wanted[n] \/ n \in Elements(Tail(job.todo))
  BY <1>1, <1>3, <1>5 DEF InstallOK
<1>8. \A i \in 1..Len(Tail(job.todo)) : Tail(job.todo)[i] = Proxy => i = Len(Tail(job.todo))
  <2>1. \A i \in 1..Len(job.todo) : job.todo[i] = Proxy => i = Len(job.todo)
    BY <1>1 DEF InstallOK
  <2>2. /\ Len(job.todo) \in Nat \ {0} /\ Len(Tail(job.todo)) = Len(job.todo) - 1
        /\ \A i \in 1..Len(Tail(job.todo)) : Tail(job.todo)[i] = job.todo[i + 1]
    BY <1>1, <1>3
  <2>3. ASSUME NEW i \in 1..Len(Tail(job.todo)), Tail(job.todo)[i] = Proxy PROVE i = Len(Tail(job.todo))
    <3>1. i \in Nat /\ i + 1 \in 1..Len(job.todo) /\ job.todo[i + 1] = Proxy
      BY <2>2, <2>3
    <3>2. i + 1 = Len(job.todo)
      BY <2>1, <3>1
    <3> QED
      BY <2>2, <3>1, <3>2
  <2> QED
    BY <2>3
<1>9. Unloaded' \/ (Tail(job.todo) = <<>> /\ job.done # <<>> /\ Head(job.done) = Proxy)
  <2>1. CASE FirstTodo = Proxy
    <3>1. job.todo[1] = Proxy /\ 1 \in 1..Len(job.todo) /\ Len(job.todo) \in Nat
      BY <1>1, <1>3, <2>1 DEF FirstTodo
    <3>2. Len(job.todo) = 1
      BY <1>1, <3>1 DEF InstallOK
    <3>3. Len(Tail(job.todo)) = 0 /\ Tail(job.todo) \in Seq(Targets)
      BY <1>1, <1>3, <3>2 DEF Lists
    <3>4. Tail(job.todo) = <<>>
      BY <3>3, EmptyList
    <3> QED
      BY <1>1, <2>1, <3>4 DEF InstallOK
  <2>2. CASE Unloaded /\ FirstTodo # Proxy
    BY <1>5, <2>2, FileNames DEF Unloaded
  <2> QED
    BY <1>1, <2>1, <2>2 DEF InstallOK
<1>10. Sound(job.wanted) /\ job.wanted \in Disks
  BY <1>1 DEF InstallOK, Installs
<1>11. HostIsWhole'
  <2>1. ASSUME ~Unloaded' PROVE Sound(disk')
    <3>1. Elements(Tail(job.todo)) = {}
      BY <1>9, <2>1, EmptyElements
    <3>2. \A n \in Targets \ {Proxy} : disk'[n] = job.wanted[n]
      BY <1>7, <3>1
    <3> QED
      BY <1>10, <3>2, SoundElsewhere
  <2> QED
    BY <1>1, <1>2, <1>4, <2>1, Apart DEF HostIsWhole, Updating
<1>12. InstallOK'
  BY <1>4, <1>7, <1>8, <1>9, <1>10 DEF InstallOK
<1>13. UninstallOK' /\ (UpdateOK /\ StageOK /\ PublishOK /\ RestoreOK /\ CleanOK)'
  BY <1>4, Apart DEF UninstallOK, UpdateOK, StageOK, PublishOK, RestoreOK, CleanOK, Updating
<1>14. NothingIsLost'
  <2>1. kept' = NotKept
    BY <1>1, <1>2, Apart DEF HostIsWhole, Updating
  <2> QED
    BY <2>1, NothingKept
<1> QED
  BY <1>6, <1>11, <1>12, <1>13, <1>14

LEMMA UndoKeeps ==
  ASSUME InstallerAssumption, InstallerIInv, Undo PROVE InstallerIInv'
<1> USE DEF InstallerIInv
<1>1. job \in Installs /\ job.at = "undo" /\ job.done # <<>> /\ UNCHANGED <<staged, backup, folder, kept, torn>>
  BY JobKinds DEF Undo, Goes
<1>2. CASE UNCHANGED disk /\ job' = NoJob
  BY <1>1, <1>2, Apart, HaltKeeps DEF InstallerTypes, Updating
<1>3. CASE disk' = [disk EXCEPT ![Head(job.done)] = Missing] /\ job' = [job EXCEPT !.done = Tail(@)]
  <2> DEFINE n == Head(job.done)
  <2>1. job.done \in Seq(Targets) /\ n \in Targets /\ Tail(job.done) \in Lists
    BY <1>1 DEF Installs, Lists
  <2>2. /\ job' \in Installs /\ job'.at = "undo" /\ job'.wanted = job.wanted /\ job'.todo = job.todo
        /\ job'.done = Tail(job.done)
    BY <1>1, <1>3, <2>1 DEF Installs
  <2>3. disk' \in Disks /\ \A m \in Targets : disk'[m] = IF m = n THEN Missing ELSE disk[m]
    <3>1. disk \in Disks /\ Missing \in FileContents
      BY ContentKinds DEF InstallerTypes
    <3> QED
      BY <1>3, <2>1, <3>1 DEF Disks
  <2>4. Unloaded'
    BY <1>1, <2>3, FileNames DEF InstallOK, Unloaded
  <2>5. InstallerTypes'
    BY <1>1, <2>2, <2>3 DEF InstallerTypes
  <2>6. HostIsWhole'
    <3>1. ~Updating /\ job # NoJob
      BY <1>1, Apart DEF Updating
    <3> QED
      BY <1>1, <2>3, <2>4, <3>1 DEF HostIsWhole
  <2>7. InstallOK'
    BY <1>1, <2>2, <2>4 DEF InstallOK
  <2>8. UninstallOK' /\ (UpdateOK /\ StageOK /\ PublishOK /\ RestoreOK /\ CleanOK)'
    BY <2>2, Apart DEF UninstallOK, UpdateOK, StageOK, PublishOK, RestoreOK, CleanOK, Updating
  <2>9. NothingIsLost'
    <3>1. kept' = NotKept
      BY <1>1, Apart DEF HostIsWhole, Updating
    <3> QED
      BY <3>1, NothingKept
  <2> QED
    BY <2>5, <2>6, <2>7, <2>8, <2>9
<1> QED
  BY <1>2, <1>3 DEF Undo, Goes

\* An operation of an installation fails.
LEMMA InstallFails ==
  ASSUME InstallerIInv, job.at \in {"next", "copy"}, Fail PROVE InstallerIInv'
<1> USE DEF InstallerIInv
<1>1. /\ job.kind = "install" /\ job.todo # <<>> /\ job' = [job EXCEPT !.at = "undo"]
      /\ UNCHANGED <<disk, staged, backup, folder, kept, torn>>
  BY DEF Fail, Goes, onDisk
<1>2. job \in Installs
  BY <1>1, JobKinds
<1>3. /\ job' \in Installs /\ job'.at = "undo" /\ job'.wanted = job.wanted /\ job'.done = job.done
  BY <1>1, <1>2 DEF Installs
<1>4. InstallerTypes'
  BY <1>1, <1>3 DEF InstallerTypes
<1>5. HostIsWhole'
  BY <1>1, <1>2, <1>3, Apart DEF HostIsWhole, Updating, Unloaded
<1>6. InstallOK'
  BY <1>1, <1>2, <1>3 DEF InstallOK, Unloaded
<1>7. UninstallOK' /\ (UpdateOK /\ StageOK /\ PublishOK /\ RestoreOK /\ CleanOK)'
  BY <1>3, Apart DEF UninstallOK, UpdateOK, StageOK, PublishOK, RestoreOK, CleanOK, Updating
<1>8. NothingIsLost'
  BY <1>1 DEF NothingIsLost
<1> QED
  BY <1>4, <1>5, <1>6, <1>7, <1>8

\* A list with the proxy first.
LEMMA ListedElements ==
  ASSUME NEW S \in SUBSET Targets, IsFiniteSet(S), Receipt \notin S, Proxy # Receipt, Receipt \in Targets
  PROVE  /\ Listed(S) \o <<Receipt>> \in Seq(Targets) /\ Listed(S) \in Seq(Targets)
         /\ Elements(Listed(S)) = S /\ Elements(Listed(S) \o <<Receipt>>) = S \union {Receipt}
         /\ Distinct(Listed(S)) /\ Distinct(Listed(S) \o <<Receipt>>)
         /\ Listed(S) \o <<Receipt>> # <<>>
         /\ Proxy \in S => Head(Listed(S) \o <<Receipt>>) = Proxy
<1> DEFINE s == SetToSeq(S \intersect {Proxy})
           t == SetToSeq(S \ {Proxy})
<1>1. IsFiniteSet(S \intersect {Proxy}) /\ IsFiniteSet(S \ {Proxy})
  BY FS_Subset, FS_Difference
<1>2. s \in Seq(S \intersect {Proxy}) /\ Elements(s) = S \intersect {Proxy} /\ Distinct(s)
  BY <1>1, SetElements
<1>3. t \in Seq(S \ {Proxy}) /\ Elements(t) = S \ {Proxy} /\ Distinct(t)
  BY <1>1, SetElements
<1>4. Listed(S) = s \o t
  BY DEF Listed
<1>5. s \in Seq(Targets) /\ t \in Seq(Targets)
  BY <1>2, <1>3
<1> HIDE DEF s, t
<1>6. /\ s \o t \in Seq(Targets) /\ Elements(s \o t) = S /\ Distinct(s \o t)
  <2>1. /\ s \o t \in Seq(Targets) /\ Elements(s \o t) = Elements(s) \union Elements(t)
        /\ Distinct(s) /\ Distinct(t) /\ Elements(s) \intersect Elements(t) = {} => Distinct(s \o t)
    BY <1>5, JoinElements
  <2>2. Elements(s) \union Elements(t) = S /\ Elements(s) \intersect Elements(t) = {}
    BY <1>2, <1>3
  <2> QED
    BY <1>2, <1>3, <2>1, <2>2
<1> DEFINE r == <<Receipt>>
<1>7. r \in Seq(Targets) /\ Elements(r) = {Receipt} /\ Distinct(r)
  BY OneElement
<1> DEFINE u == s \o t
<1>8. /\ u \o r \in Seq(Targets) /\ Elements(u \o r) = S \union {Receipt} /\ Distinct(u \o r)
  <2>1. u \in Seq(Targets) /\ Elements(u) = S /\ Distinct(u) /\ Elements(u) \intersect Elements(r) = {}
    BY <1>6, <1>7
  <2> HIDE DEF r, u
  <2> QED
    BY <1>7, <2>1, JoinElements
<1>9. (s \o t) \o <<Receipt>> # <<>>
  BY <1>5
<1>10. ASSUME Proxy \in S PROVE Head((s \o t) \o <<Receipt>>) = Proxy
  <2>1. Proxy \in Elements(s)
    BY <1>2, <1>10
  <2>2. PICK i \in 1..Len(s) : s[i] = Proxy
    BY <2>1 DEF Elements
  <2>3. 1 \in 1..Len(s) /\ s[1] = Proxy
    BY <1>2, <2>2
  <2>4. ((s \o t) \o <<Receipt>>)[1] = s[1]
    BY <1>5, <2>3
  <2> QED
    BY <1>8, <1>9, <2>3, <2>4
<1> QED
  BY <1>4, <1>6, <1>8, <1>9, <1>10

LEMMA UninstallKeeps ==
  ASSUME InstallerAssumption, InstallerIInv, Uninstall PROVE InstallerIInv'
<1> USE DEF InstallerIInv
<1>1. /\ Intact /\ job.at = "idle"
      /\ job' = [at |-> "next", kind |-> "uninstall", todo |-> Listed(DOMAIN Owned) \o <<Receipt>>]
      /\ staged' = Empty /\ backup' = Empty /\ kept' = NotKept /\ UNCHANGED <<disk, folder, torn>>
  BY DEF Uninstall, Begin
<1>2. DOMAIN Owned \subseteq Names /\ Proxy \in DOMAIN Owned
  BY <1>1, FileFields DEF Intact, Releases
<1>3. IsFiniteSet(DOMAIN Owned)
  BY <1>2, NamesFinite, FS_Subset
<1>4. DOMAIN Owned \in SUBSET Targets /\ Receipt \notin DOMAIN Owned
  BY <1>2, FileNames
<1>5. /\ Listed(DOMAIN Owned) \o <<Receipt>> \in Lists /\ Listed(DOMAIN Owned) \o <<Receipt>> # <<>>
      /\ Head(Listed(DOMAIN Owned) \o <<Receipt>>) = Proxy
  BY <1>2, <1>3, <1>4, ListedElements, FileNames DEF Lists
<1>6. job' \in Uninstalls /\ job'.todo # <<>> /\ Head(job'.todo) = Proxy
  BY <1>1, <1>5 DEF Uninstalls
<1>7. InstallerTypes'
  <2>1. Empty \in Disks
    BY ContentKinds DEF Empty, Disks
  <2> QED
    BY <1>1, <1>6, <2>1 DEF InstallerTypes, NotKept
<1>8. job = NoJob /\ ~Updating
  BY <1>1, JobKinds, Apart DEF Updating
<1>9. HostIsWhole'
  BY <1>1, <1>6, <1>8, Apart DEF HostIsWhole, Unloaded, Updating
<1>10. UninstallOK'
  BY <1>6 DEF UninstallOK, FirstTodo
<1>11. InstallOK' /\ (UpdateOK /\ StageOK /\ PublishOK /\ RestoreOK /\ CleanOK)'
  BY <1>6, Apart DEF InstallOK, UpdateOK, StageOK, PublishOK, RestoreOK, CleanOK, Updating
<1>12. NothingIsLost'
  BY <1>1, NothingKept
<1> QED
  BY <1>7, <1>9, <1>10, <1>11, <1>12

LEMMA RemoveFileKeeps ==
  ASSUME InstallerAssumption, InstallerIInv, RemoveFile PROVE InstallerIInv'
<1> USE DEF InstallerIInv
<1>1. job \in Uninstalls /\ job.todo # <<>> /\ UNCHANGED <<staged, backup, folder, kept, torn>>
  BY JobKinds DEF RemoveFile, Goes
<1>2. CASE UNCHANGED disk /\ job' = NoJob
  BY <1>1, <1>2, Apart, HaltKeeps DEF InstallerTypes, Updating
<1>3. CASE disk' = [disk EXCEPT ![FirstTodo] = Missing] /\ job' = Onward
  <2>1. FirstTodo \in Targets /\ Tail(job.todo) \in Lists
    BY <1>1, InstallTodo
  <2>2. job' \in Uninstalls
    BY <1>1, <1>3, <2>1 DEF Uninstalls, Onward
  <2>3. disk' \in Disks /\ \A m \in Targets : disk'[m] = IF m = FirstTodo THEN Missing ELSE disk[m]
    <3>1. disk \in Disks /\ Missing \in FileContents
      BY ContentKinds DEF InstallerTypes
    <3> QED
      BY <1>3, <2>1, <3>1 DEF Disks
  <2>4. Unloaded'
    BY <1>1, <2>3, FileNames DEF UninstallOK, Unloaded
  <2>5. InstallerTypes'
    BY <1>1, <2>2, <2>3 DEF InstallerTypes
  <2>6. HostIsWhole'
    <3>1. ~Updating /\ job # NoJob
      BY <1>1, Apart DEF Updating
    <3> QED
      BY <1>1, <2>3, <2>4, <3>1 DEF HostIsWhole
  <2>7. UninstallOK'
    BY <2>4 DEF UninstallOK
  <2>8. InstallOK' /\ (UpdateOK /\ StageOK /\ PublishOK /\ RestoreOK /\ CleanOK)'
    BY <2>2, Apart DEF InstallOK, UpdateOK, StageOK, PublishOK, RestoreOK, CleanOK, Updating
  <2>9. NothingIsLost'
    <3>1. kept' = NotKept
      BY <1>1, Apart DEF HostIsWhole, Updating
    <3> QED
      BY <3>1, NothingKept
  <2> QED
    BY <2>5, <2>6, <2>7, <2>8, <2>9
<1> QED
  BY <1>2, <1>3 DEF RemoveFile, Goes

\* The user, while no installer runs.
LEMMA UserKeeps ==
  ASSUME InstallerAssumption, InstallerIInv, Tidy \/ (\E n \in Targets : Edit(n)) PROVE InstallerIInv'
<1> USE DEF InstallerIInv
<1>1. job = NoJob /\ job' = job /\ kept' = NotKept
  BY JobKinds DEF Tidy, Edit
<1>2. /\ ~Updating' /\ (InstallOK /\ UninstallOK)' /\ (UpdateOK /\ StageOK /\ PublishOK /\ RestoreOK /\ CleanOK)'
  BY <1>1, Apart DEF InstallOK, UninstallOK, UpdateOK, StageOK, PublishOK, RestoreOK, CleanOK, Updating
<1>3. NothingIsLost'
  BY <1>1, NothingKept
<1>4. Empty \in Disks
  BY ContentKinds DEF Empty, Disks
<1>5. CASE Tidy
  <2>1. /\ folder' = FALSE /\ staged' = Empty /\ backup' = Empty /\ UNCHANGED <<disk, torn>>
        /\ \A n \in Targets \ {Proxy} : disk[n] = Missing
    BY <1>5 DEF Tidy
  <2>2. folder' \in BOOLEAN
    BY <2>1, Zenon
  <2>3. InstallerTypes'
    BY <1>1, <1>4, <2>1, <2>2 DEF InstallerTypes, NotKept
  <2>4. HostIsWhole'
    BY <1>1, <2>1, Apart DEF HostIsWhole, Updating, Unloaded
  <2> QED
    BY <1>2, <1>3, <2>3, <2>4
<1>6. ASSUME NEW n \in Targets, Edit(n) PROVE InstallerIInv'
  <2>1. /\ torn' = TRUE /\ folder' = (folder \/ n # Proxy) /\ UNCHANGED <<staged, backup>>
    BY <1>6 DEF Edit
  <2>2. PICK content \in {Missing, Users} : disk' = [disk EXCEPT ![n] = content]
    BY <1>6 DEF Edit
  <2>3. disk' \in Disks /\ \A m \in Targets : disk'[m] = IF m = n THEN content ELSE disk[m]
    <3>1. disk \in Disks /\ content \in FileContents
      BY <2>2, ContentKinds DEF InstallerTypes
    <3> QED
      BY <2>2, <3>1 DEF Disks
  <2>4. folder' \in BOOLEAN /\ torn' \in BOOLEAN /\ torn' /\ (folder => folder') /\ (n # Proxy => folder')
    <3>1. folder \in BOOLEAN
      BY DEF InstallerTypes
    <3> QED
      BY <2>1, <3>1, Zenon
  <2>5. InstallerTypes'
    BY <1>1, <1>4, <2>1, <2>3, <2>4 DEF InstallerTypes, NotKept
  <2>6. HostIsWhole'
    BY <1>1, <2>3, <2>4 DEF HostIsWhole
  <2> QED
    BY <1>2, <1>3, <2>5, <2>6
<1> QED
  BY <1>5, <1>6

-----------------------------------------------------------------------------
(* Updating.                                                               *)

\* The markers that are switched off are not among those that are added.
LEMMA OffIsNotOn ==
  ASSUME InstallerAssumption, NEW o \in Commands
  PROVE  /\ SwitchedOff(o) \subseteq Markers /\ Rivals(o) \subseteq Markers
         /\ SwitchedOff(o) \intersect Added(o) = {} /\ Rivals(o) \intersect Added(o) = {}
<1>1. o \in Options
  BY DEF InstallerAssumption
<1>2. /\ "none" \in {o.on, o.off} /\ (o.lua = "on" => o.on = "movement") /\ (o.experiment => o.on = "none")
      /\ o.on \in {"observer", "trial", "physics", "movement", "none"}
      /\ o.off \in {"observer", "trial", "physics", "movement", "none"}
      /\ o.lua \in {"on", "off", "none"}
  BY <1>1 DEF Options, Modes
<1>3. Markers = {"observer", "trial", "physics", "movement", "lua", "experiment"}
  BY FileNames
<1>4. SwitchedOff(o) \subseteq Markers /\ Rivals(o) \subseteq Markers
  BY <1>3 DEF SwitchedOff, Rivals, DiagnosticsOff
<1>5. SwitchedOff(o) \intersect Added(o) = {}
  BY <1>2, <1>3 DEF SwitchedOff, DiagnosticsOff, Added
<1>6. Rivals(o) \intersect Added(o) = {}
  BY <1>2, <1>3 DEF Rivals, Added
<1> QED
  BY <1>4, <1>5, <1>6

\* Modes that go together still do when those added meet those left.
LEMMA UpdateAgrees ==
  ASSUME InstallerAssumption, NEW o \in Commands, NEW d, NEW w,
         \A m \in Conflicting(o) : Marked(d, m) => m \in Removals(o),
         \A m \in Markers : Marked(w, m) <=> m \notin Removals(o) /\ (m \in Added(o) \/ Marked(d, m))
  PROVE  (Conflict(w) => Conflict(d)) /\ (LuaRefused(w) => LuaRefused(d))
<1>1. o \in Options
  BY DEF InstallerAssumption
<1>2. /\ "none" \in {o.on, o.off} /\ (o.lua = "on" => o.on = "movement") /\ (o.experiment => o.on = "none")
      /\ o.on \in {"observer", "trial", "physics", "movement", "none"}
      /\ o.lua \in {"on", "off", "none"}
  BY <1>1 DEF Options, Modes
<1>3. Markers = {"observer", "trial", "physics", "movement", "lua", "experiment"}
  BY FileNames
<1>4. \A m \in Markers : m \in Added(o) <=> o.on = m \/ (m = "lua" /\ o.lua = "on") \/ (m = "experiment" /\ o.experiment)
  BY DEF Added
<1>5. \A m \in Markers : m \in Removals(o) => m \in SwitchedOff(o) \union Rivals(o)
  BY DEF Removals
<1>6. \A m \in Markers : m \in SwitchedOff(o) \/ (m \in Rivals(o) /\ o.on # "none") => ~Marked(w, m) \/ m \in Added(o)
  BY DEF Conflicting
<1>7. /\ o.on \in {"physics", "movement"} => "observer" \in SwitchedOff(o) /\ "trial" \in SwitchedOff(o)
      /\ o.on \in {"movement", "trial", "observer"} => "physics" \in SwitchedOff(o)
      /\ o.on \in {"physics", "trial", "observer"} => "movement" \in SwitchedOff(o) /\ "lua" \in SwitchedOff(o)
      /\ o.on = "trial" => "observer" \in Rivals(o)
      /\ o.on = "observer" => "trial" \in Rivals(o)
  BY <1>3 DEF SwitchedOff, DiagnosticsOff, Rivals
<1>8. "movement" \in SwitchedOff(o) \union Rivals(o) => "lua" \in SwitchedOff(o)
  BY <1>3 DEF SwitchedOff, DiagnosticsOff, Rivals
<1>9. \A m \in Markers : Marked(w, m) => m \in Added(o) \/ Marked(d, m)
  OBVIOUS
<1>10. \A m \in Modes : m \in Added(o) <=> o.on = m
  BY <1>3, <1>4 DEF Modes
<1>11. Conflict(w) => Conflict(d)
  BY <1>2, <1>3, <1>6, <1>7, <1>9, <1>10, OffIsNotOn DEF Conflict, Diagnostics, Modes
<1>12. LuaRefused(w) => LuaRefused(d)
  <2> SUFFICES ASSUME Marked(w, "lua"), ~Marked(w, "movement") PROVE Marked(d, "lua") /\ ~Marked(d, "movement")
    BY DEF LuaRefused
  <2>1. "lua" \notin SwitchedOff(o)
    BY <1>3, <1>6, OffIsNotOn
  <2>2. "movement" \notin Removals(o)
    BY <1>3, <1>5, <1>8, <2>1
  <2>3. o.on # "movement" /\ ~Marked(d, "movement")
    BY <1>3, <1>4, <2>2
  <2>4. o.lua # "on" /\ o.on # "lua"
    BY <1>2, <2>3
  <2> QED
    BY <1>3, <1>4, <1>9, <2>3, <2>4
<1> QED
  BY <1>11, <1>12

LEMMA UpdateKeeps ==
  ASSUME InstallerAssumption, InstallerIInv, NEW build \in Builds, NEW o \in Commands, Update(build, o)
  PROVE  InstallerIInv'
<1> USE DEF InstallerIInv
<1> DEFINE release == Sources(build, o)
           removals == Removals(o)
           names == Listed(Changes(release))
           wanted == [n \in Targets |-> IF n \in removals THEN Missing
                                        ELSE IF n = Receipt THEN Listing(Merged(release, removals))
                                        ELSE IF n \in DOMAIN release THEN File(release[n]) ELSE disk[n]]
           todo == names \o <<Receipt>>
           plan == names \o SetToSeq(removals) \o <<Receipt>>
<1>1. /\ Intact /\ Admitted(release) /\ job.at = "idle"
      /\ \A m \in Conflicting(o) : disk[m] # Missing => m \in DOMAIN Owned
      /\ job' = [at |-> "stage", kind |-> "update", todo |-> todo, plan |-> plan,
                 wanted |-> wanted, published |-> {}, result |-> "failed"]
      /\ staged' = Empty /\ backup' = Empty /\ kept' = [before |-> disk, wanted |-> wanted]
      /\ UNCHANGED <<disk, folder, torn>>
  BY DEF Update, Begin
<1>2. /\ release \in Releases /\ DOMAIN release \subseteq Names /\ Proxy \in DOMAIN release
      /\ Required \subseteq DOMAIN release /\ \A m \in Markers : m \in DOMAIN release <=> m \in Added(o)
  BY SourcesOK
<1>3. /\ Owned \in Releases /\ DOMAIN Owned \subseteq Names /\ Proxy \in DOMAIN Owned /\ Required \subseteq DOMAIN Owned
      /\ disk[Receipt].is = "receipt" /\ \A n \in DOMAIN Owned : disk[n] = File(Owned[n])
  BY <1>1, FileFields DEF Intact, Releases
<1>4. /\ removals \subseteq Markers /\ removals \subseteq DOMAIN Owned /\ removals \intersect Added(o) = {}
      /\ Receipt \notin removals /\ Proxy \notin removals /\ removals \intersect Required = {}
  BY OffIsNotOn, FileNames DEF Removals
<1>5. removals \intersect DOMAIN release = {}
  BY <1>2, <1>4
<1> HIDE DEF release, removals
<1>6. Merged(release, removals) \in Releases /\ DOMAIN Merged(release, removals) = (DOMAIN Owned \union DOMAIN release) \ removals
  <2> DEFINE r == Merged(release, removals)
  <2>1. DOMAIN r = (DOMAIN Owned \union DOMAIN release) \ removals
    BY DEF Merged
  <2>2. \A n \in DOMAIN r : r[n] = IF n \in DOMAIN release THEN release[n] ELSE Owned[n]
    BY DEF Merged
  <2>3. \A n \in DOMAIN r : r[n] \in Versions
    BY <1>2, <1>3, <2>1, <2>2 DEF Releases
  <2>4. r = [n \in DOMAIN r |-> r[n]]
    BY DEF Merged
  <2>5. r \in [DOMAIN r -> Versions] /\ DOMAIN r \subseteq Names
    BY <1>2, <1>3, <2>1, <2>3, <2>4
  <2> QED
    BY <1>2, <1>4, <2>1, <2>5 DEF Releases
<1>7. \A n \in DOMAIN Merged(release, removals) :
        Merged(release, removals)[n] = IF n \in DOMAIN release THEN release[n] ELSE Owned[n]
  BY DEF Merged
<1>8. /\ wanted[Receipt] = Listing(Merged(release, removals))
      /\ \A n \in removals : wanted[n] = Missing
      /\ \A n \in DOMAIN release : wanted[n] = File(release[n])
      /\ \A n \in Targets : n \notin removals /\ n # Receipt /\ n \notin DOMAIN release => wanted[n] = disk[n]
  BY <1>2, <1>4, <1>5, FileNames
<1>9. wanted \in Disks
  <2>1. \A n \in DOMAIN release : release[n] \in Versions
    BY <1>2 DEF Releases
  <2>2. ASSUME NEW n \in Targets PROVE wanted[n] \in FileContents
    BY <1>6, <1>8, <2>1, ContentKinds, FileFields
  <2> QED
    BY <2>2 DEF Disks
<1> HIDE DEF wanted
<1>10. IntactOn(wanted)
  <2>1. wanted[Receipt].is = "receipt" /\ wanted[Receipt].owned = Merged(release, removals)
    BY <1>8, Kinds
  <2>2. ASSUME NEW n \in DOMAIN Merged(release, removals) PROVE wanted[n] = File(Merged(release, removals)[n])
    <3>1. n \in Targets /\ n # Receipt /\ n \notin removals /\ n \in DOMAIN Owned \union DOMAIN release
      BY <1>2, <1>3, <1>6, FileNames
    <3> QED
      BY <1>3, <1>7, <1>8, <3>1
  <2> QED
    BY <2>1, <2>2 DEF IntactOn
<1>11. (Conflict(wanted) => Conflict(disk)) /\ (LuaRefused(wanted) => LuaRefused(disk))
  <2>1. \A m \in Conflicting(o) : Marked(disk, m) => m \in Removals(o)
    BY <1>1 DEF Marked, Conflicting, Removals
  <2>2. \A m \in Markers : Marked(wanted, m) <=> m \notin Removals(o) /\ (m \in Added(o) \/ Marked(disk, m))
    <3> TAKE m \in Markers
    <3>1. m \in Targets /\ m # Receipt
      BY FileNames
    <3> QED
      BY <1>2, <1>8, <3>1, Kinds DEF Marked, removals
  <2> QED
    BY <2>1, <2>2, UpdateAgrees
<1>12. Changes(release) \in SUBSET Targets /\ IsFiniteSet(Changes(release)) /\ Receipt \notin Changes(release)
       /\ Changes(release) \subseteq DOMAIN release
  <2>1. Changes(release) \subseteq DOMAIN release
    BY DEF Changes
  <2>2. Changes(release) \subseteq Names
    BY <1>2, <2>1
  <2> QED
    BY <2>1, <2>2, NamesFinite, FS_Subset, FileNames
<1>13. /\ names \in Seq(Targets) /\ Elements(names) = Changes(release) /\ Distinct(names)
       /\ todo \in Seq(Targets) /\ Elements(todo) = Changes(release) \union {Receipt}
  BY <1>12, ListedElements, FileNames
<1> HIDE DEF names, todo
<1>14. /\ plan \in Seq(Targets) /\ Distinct(plan) /\ Elements(plan) = Changes(release) \union removals \union {Receipt}
  <2> DEFINE s == SetToSeq(removals)
             t == names \o s
             r == <<Receipt>>
  <2>1. IsFiniteSet(removals)
    BY <1>4, MarkersFinite, FS_Subset
  <2>2. s \in Seq(removals) /\ Elements(s) = removals /\ Distinct(s)
    BY <2>1, SetElements
  <2>3. s \in Seq(Targets)
    BY <1>4, <2>2, FileNames
  <2>4. r \in Seq(Targets) /\ Elements(r) = {Receipt} /\ Distinct(r)
    BY FileNames, OneElement
  <2> HIDE DEF s, r
  <2>5. Elements(names) \intersect Elements(s) = {}
    BY <1>5, <1>12, <1>13, <2>2
  <2>6. t \in Seq(Targets) /\ Elements(t) = Changes(release) \union removals /\ Distinct(t)
    BY <1>13, <2>2, <2>3, <2>5, JoinElements
  <2>7. Elements(t) \intersect Elements(r) = {}
    BY <1>4, <1>12, <2>4, <2>6
  <2>8. plan = t \o r
    BY DEF s, r
  <2> HIDE DEF t, plan
  <2>9. t \o r \in Seq(Targets) /\ Elements(t \o r) = Elements(t) \union Elements(r) /\ Distinct(t \o r)
    BY <2>4, <2>6, <2>7, JoinElements
  <2> QED
    BY <2>4, <2>6, <2>8, <2>9
<1> HIDE DEF plan
<1>15. /\ job' \in Updates /\ job'.at = "stage" /\ job'.todo = todo /\ job'.plan = plan /\ job'.wanted = wanted
       /\ job'.published = {} /\ job'.result = "failed"
  BY <1>1, <1>9, <1>13, <1>14 DEF Updates, Lists
<1>16. kept'.before = disk /\ kept'.wanted = wanted
  BY <1>1
<1>17. InstallerTypes'
  <2>1. Empty \in Disks
    BY ContentKinds DEF Empty, Disks
  <2> QED
    BY <1>1, <1>9, <1>15, <1>16, <2>1 DEF InstallerTypes
<1>18. Updating' /\ job = NoJob /\ ~Updating
  BY <1>1, <1>15, JobKinds, Apart DEF Updating
<1>19. folder /\ ~Unloaded
  BY <1>3, Kinds, FileNames DEF HostIsWhole, Unloaded
<1>20. HostIsWhole'
  BY <1>1, <1>18, <1>19 DEF HostIsWhole
<1>21. InstallOK' /\ UninstallOK' /\ PublishOK' /\ RestoreOK' /\ CleanOK'
  BY <1>15, Apart DEF InstallOK, UninstallOK, PublishOK, RestoreOK, CleanOK
<1>22. UpdateOK'
  <2>1. ~torn => Sound(disk)
    BY <1>18, <1>19 DEF HostIsWhole
  <2>2. ASSUME NEW n \in Targets, n \notin Changes(release) \union removals \union {Receipt} PROVE wanted[n] = disk[n]
    <3>1. CASE n \in DOMAIN release
      BY <1>3, <1>8, <2>2, <3>1 DEF Changes
    <3>2. CASE n \notin DOMAIN release
      BY <1>8, <2>2, <3>2
    <3> QED
      BY <3>1, <3>2
  <2>3. ASSUME NEW n \in Changes(release) \union removals \union {Receipt} PROVE disk[n] # Users
    <3>1. n \in DOMAIN Owned => disk[n] # Users
      BY <1>3, Kinds
    <3>2. n \in Changes(release) /\ n \notin DOMAIN Owned => disk[n] = Missing
      BY <1>1 DEF Admitted
    <3>3. disk[Receipt] # Users
      BY <1>3, Kinds
    <3> QED
      BY <1>4, <3>1, <3>2, <3>3, Kinds
  <2> QED
    BY <1>1, <1>10, <1>11, <1>14, <1>15, <1>16, <1>19, <2>1, <2>2, <2>3 DEF UpdateOK, Plan
<1>23. StageOK'
  <2>1. \A n \in Targets : Empty[n] = Missing
    BY DEF Empty
  <2>2. \A n \in Elements(plan) : Missing = wanted[n] \/ n \in Elements(todo)
    BY <1>8, <1>13, <1>14
  <2>3. Elements(plan) \subseteq Targets
    BY <1>4, <1>12, <1>14, FileNames
  <2>4. job'.at = "stage" => /\ \A n \in Plan' : staged'[n] = job'.wanted[n] \/ n \in Todo'
                             /\ \A n \in Targets : Untouched(n)'
    BY <1>1, <1>15, <1>16, <2>1, <2>2, <2>3 DEF Plan, Todo, Untouched
  <2> QED
    BY <1>15, <2>4 DEF StageOK
<1>24. NothingIsLost'
  BY <1>1, <1>16 DEF NothingIsLost
<1> QED
  BY <1>17, <1>20, <1>21, <1>22, <1>23, <1>24
-----------------------------------------------------------------------------
(* The steps of an update.                                                 *)

LEMMA UpdateGoesOn ==
  ASSUME InstallerIInv, Updating, job' \in Updates, job'.plan = job.plan, job'.wanted = job.wanted,
         disk' \in Disks, staged' \in Disks, backup' \in Disks, UNCHANGED <<folder, kept>>,
         torn' \in BOOLEAN, torn => torn'
  PROVE  InstallerTypes' /\ HostIsWhole' /\ InstallOK' /\ UninstallOK' /\ UpdateOK'
<1> USE DEF InstallerIInv
<1>1. InstallerTypes'
  BY DEF InstallerTypes
<1>2. Updating' /\ folder /\ folder'
  BY DEF Updating, UpdateOK
<1>3. HostIsWhole'
  BY <1>2 DEF HostIsWhole
<1>4. InstallOK' /\ UninstallOK'
  BY Apart DEF InstallOK, UninstallOK
<1>5. UpdateOK'
  BY <1>2 DEF UpdateOK, Plan
<1> QED
  BY <1>1, <1>3, <1>4, <1>5

LEMMA InPlan == ASSUME InstallerTypes, Updating PROVE Plan \subseteq Targets /\ Todo \subseteq Targets
BY DEF Updating, Updates, Lists, Plan, Todo, Elements

LEMMA NothingLostYet ==
  ASSUME InstallerTypes', Updating', job'.at # "clean", (UpdateOK /\ StageOK /\ PublishOK /\ RestoreOK)'
  PROVE  NothingIsLost'
<1>1. job'.at \in {"stage", "backup", "publish", "restore"}
  BY DEF Updating, Updates
<1>2. ASSUME NEW n \in Targets
      PROVE  /\ kept'.before[n] # Missing => kept'.before[n] \in {disk'[n], backup'[n]}
             /\ kept'.before[n] = Users => disk'[n] = Users
  <2>1. n \in Plan' => kept'.before[n] # Users
    BY DEF UpdateOK
  <2>2. CASE job'.at = "stage"
    BY <1>2, <2>2 DEF StageOK, Untouched
  <2>3. CASE job'.at \in {"backup", "publish"}
    <3>1. PublishOK' /\ Updating'
      OBVIOUS
    <3>2. CASE n \notin Plan'
      BY <1>2, <2>3, <3>1, <3>2 DEF PublishOK, Untouched
    <3>3. CASE n \in Plan' /\ n \notin Todo'
      BY <2>1, <2>3, <3>1, <3>3 DEF PublishOK, Replaced
    <3>4. CASE n \in Plan' /\ n \in Todo'
      BY <2>1, <2>3, <3>1, <3>4 DEF PublishOK, Untouched
    <3> QED
      BY <3>2, <3>3, <3>4
  <2>4. CASE job'.at = "restore"
    <3>1. CASE n \notin Todo'
      BY <1>2, <2>4, <3>1 DEF RestoreOK, Untouched
    <3>2. CASE n \in Todo'
      BY <2>1, <2>4, <3>2 DEF RestoreOK, Untouched
    <3> QED
      BY <3>1, <3>2
  <2> QED
    BY <1>1, <2>2, <2>3, <2>4
<1> QED
  BY <1>2 DEF NothingIsLost

LEMMA FirstOf ==
  ASSUME InstallerTypes, Updating, job.todo # <<>>
  PROVE  /\ FirstTodo \in Targets /\ FirstTodo \in Todo /\ Tail(job.todo) \in Lists
         /\ Todo = {FirstTodo} \union Elements(Tail(job.todo))
         /\ Distinct(job.todo) => Distinct(Tail(job.todo)) /\ FirstTodo \notin Elements(Tail(job.todo))
<1>1. job.todo \in Seq(Targets)
  BY DEF Updating, Updates, Lists
<1> QED
  BY <1>1, TailElements DEF FirstTodo, Todo, Lists

LEMMA StageKeeps == ASSUME InstallerIInv, Stage PROVE InstallerIInv'
<1> USE DEF InstallerIInv
<1>1. /\ Updating /\ job.at = "stage" /\ job.todo # <<>> /\ UNCHANGED <<disk, backup, folder, kept, torn>>
      /\ staged' = [staged EXCEPT ![FirstTodo] = IF @ = Missing THEN Part ELSE job.wanted[FirstTodo]]
      /\ job' = IF staged[FirstTodo] = Missing THEN job ELSE [job EXCEPT !.todo = Tail(@)]
  BY JobKinds DEF Stage, Goes, Updating
<1>2. FirstTodo \in Targets /\ FirstTodo \in Todo /\ Tail(job.todo) \in Lists /\ Todo = {FirstTodo} \union Elements(Tail(job.todo))
  BY <1>1, FirstOf
<1>3. /\ job' \in Updates /\ job'.at = "stage" /\ job'.plan = job.plan /\ job'.wanted = job.wanted
      /\ job'.published = job.published /\ job'.result = job.result
      /\ job'.todo = IF staged[FirstTodo] = Missing THEN job.todo ELSE Tail(job.todo)
  BY <1>1, <1>2 DEF Updating, Updates
<1>4. Part \in FileContents /\ job.wanted[FirstTodo] \in FileContents
  BY <1>1, <1>2, ContentKinds, FileFields DEF Updating
<1>5. staged' \in Disks
  BY <1>1, <1>2, <1>4 DEF Disks, InstallerTypes
<1>6. InstallerTypes' /\ HostIsWhole' /\ InstallOK' /\ UninstallOK' /\ UpdateOK'
  BY <1>1, <1>3, <1>5, UpdateGoesOn DEF InstallerTypes
<1>7. StageOK'
  <2>1. ASSUME NEW n \in Plan PROVE staged'[n] = job.wanted[n] \/ n \in Todo'
    <3>1. n \in Targets /\ staged \in Disks
      BY <1>1, InPlan DEF InstallerTypes
    <3>2. staged[n] = job.wanted[n] \/ n \in Todo
      BY <1>1, <2>1 DEF StageOK
    <3>3. n # FirstTodo => staged'[n] = staged[n]
      BY <1>1, <3>1 DEF Disks
    <3>4. n = FirstTodo /\ staged[FirstTodo] # Missing => staged'[n] = job.wanted[n]
      BY <1>1, <3>1 DEF Disks
    <3> QED
      BY <1>2, <1>3, <3>2, <3>3, <3>4 DEF Todo
  <2>2. \A n \in Targets : Untouched(n)'
    BY <1>1 DEF StageOK, Untouched
  <2>3. Plan' = Plan /\ job.published = {} /\ job.result = "failed"
    BY <1>1, <1>3 DEF Plan, StageOK
  <2> QED
    BY <1>3, <2>1, <2>2, <2>3 DEF StageOK
<1>8. (PublishOK /\ RestoreOK /\ CleanOK)'
  BY <1>3 DEF PublishOK, RestoreOK, CleanOK
<1>9. NothingIsLost'
  BY <1>3, <1>6, <1>7, <1>8, NothingLostYet DEF Updating
<1> QED
  BY <1>6, <1>7, <1>8, <1>9

LEMMA StagedKeeps == ASSUME InstallerIInv, Staged PROVE InstallerIInv'
<1> USE DEF InstallerIInv
<1>1. /\ Updating /\ job.at = "stage" /\ job.todo = <<>> /\ UNCHANGED <<disk, staged, backup, folder, kept, torn>>
      /\ job' = [job EXCEPT !.at = "backup", !.todo = job.plan]
  BY JobKinds DEF Staged, Goes, onDisk, Updating
<1>2. /\ job' \in Updates /\ job'.at = "backup" /\ job'.plan = job.plan /\ job'.wanted = job.wanted
      /\ job'.published = job.published /\ job'.result = job.result /\ job'.todo = job.plan
  BY <1>1 DEF Updating, Updates
<1>3. InstallerTypes' /\ HostIsWhole' /\ InstallOK' /\ UninstallOK' /\ UpdateOK'
  BY <1>1, <1>2, UpdateGoesOn DEF InstallerTypes
<1>4. /\ Plan' = Plan /\ Todo' = Plan /\ Todo = {} /\ job.published = {} /\ job.result = "failed"
      /\ Distinct(job'.todo) /\ \A n \in Targets : Untouched(n)'
  BY <1>1, <1>2, EmptyElements DEF Plan, Todo, StageOK, UpdateOK, Untouched
<1>5. StageOK'
  BY <1>2, <1>4 DEF StageOK
<1>6. PublishOK'
  <2>1. \A n \in Plan : staged'[n] = job'.wanted[n]
    BY <1>1, <1>2, <1>4 DEF StageOK
  <2> QED
    BY <1>1, <1>2, <1>3, <1>4, <2>1, InPlan DEF PublishOK, Replaced
<1>7. (RestoreOK /\ CleanOK)'
  BY <1>2 DEF RestoreOK, CleanOK
<1>8. NothingIsLost'
  BY <1>2, <1>3, <1>5, <1>6, <1>7, NothingLostYet DEF Updating
<1> QED
  BY <1>3, <1>5, <1>6, <1>7, <1>8

LEMMA BackupKeeps == ASSUME InstallerIInv, Backup PROVE InstallerIInv'
<1> USE DEF InstallerIInv
<1>1. /\ Updating /\ job.at = "backup" /\ job.todo # <<>> /\ UNCHANGED <<staged, folder, kept, torn>>
      /\ disk' = [disk EXCEPT ![FirstTodo] = Missing] /\ backup' = [backup EXCEPT ![FirstTodo] = disk[FirstTodo]]
      /\ job' = [job EXCEPT !.at = "publish"]
  BY JobKinds DEF Backup, Goes, Updating
<1>2. FirstTodo \in Targets /\ FirstTodo \in Todo
  BY <1>1, FirstOf
<1>3. /\ job' \in Updates /\ job'.at = "publish" /\ job'.plan = job.plan /\ job'.wanted = job.wanted
      /\ job'.published = job.published /\ job'.result = job.result /\ job'.todo = job.todo
  BY <1>1 DEF Updating, Updates
<1>4. disk' \in Disks /\ backup' \in Disks /\ disk[FirstTodo] \in FileContents
  BY <1>1, <1>2, ContentKinds, FileFields DEF Disks, InstallerTypes
<1>5. InstallerTypes' /\ HostIsWhole' /\ InstallOK' /\ UninstallOK' /\ UpdateOK'
  BY <1>1, <1>3, <1>4, UpdateGoesOn DEF InstallerTypes
<1>6. Plan' = Plan /\ Todo' = Todo /\ FirstTodo' = FirstTodo
  BY <1>3 DEF Plan, Todo, FirstTodo
<1>7. PublishOK /\ Todo \subseteq Plan /\ Plan \subseteq Targets
  BY <1>1, InPlan DEF PublishOK
<1>8. \A n \in Targets \ {FirstTodo} : disk'[n] = disk[n] /\ backup'[n] = backup[n]
  BY <1>1 DEF Disks, InstallerTypes
<1>9. disk'[FirstTodo] = Missing /\ backup'[FirstTodo] = kept.before[FirstTodo]
  <2>1. disk[FirstTodo] = kept.before[FirstTodo]
    BY <1>1, <1>2 DEF PublishOK, Untouched
  <2> QED
    BY <1>1, <1>2, <2>1 DEF Disks, InstallerTypes
<1>10. StageOK'
  BY <1>1, <1>3, <1>6 DEF StageOK
<1>11. PublishOK'
  <2>1. \A n \in Targets \ Plan : Untouched(n)'
    BY <1>1, <1>2, <1>7, <1>8 DEF PublishOK, Untouched
  <2>2. \A n \in Plan \ Todo : Replaced(n)'
    BY <1>1, <1>2, <1>3, <1>7, <1>8 DEF PublishOK, Replaced
  <2>3. \A n \in Todo : IF n = FirstTodo THEN disk'[n] = Missing /\ backup'[n] = kept.before[n] ELSE Untouched(n)'
    BY <1>1, <1>7, <1>8, <1>9 DEF PublishOK, Untouched
  <2>4. Distinct(job'.todo) /\ \A n \in Todo : staged'[n] = job'.wanted[n]
    BY <1>1, <1>3 DEF PublishOK
  <2> QED
    BY <1>1, <1>3, <1>6, <1>7, <2>1, <2>2, <2>3, <2>4 DEF PublishOK
<1>12. (RestoreOK /\ CleanOK)'
  BY <1>3 DEF RestoreOK, CleanOK
<1>13. NothingIsLost'
  BY <1>3, <1>5, <1>10, <1>11, <1>12, NothingLostYet DEF Updating
<1> QED
  BY <1>5, <1>10, <1>11, <1>12, <1>13

LEMMA PublishKeeps == ASSUME InstallerIInv, PublishNew PROVE InstallerIInv'
<1> USE DEF InstallerIInv
<1>1. /\ Updating /\ job.at = "publish" /\ UNCHANGED <<backup, folder, kept, torn>>
      /\ disk' = [disk EXCEPT ![FirstTodo] = staged[FirstTodo]] /\ staged' = [staged EXCEPT ![FirstTodo] = Missing]
      /\ job' = [job EXCEPT !.at = "backup", !.todo = Tail(@), !.published = @ \union {FirstTodo}]
  BY JobKinds DEF PublishNew, Goes, Updating
<1>2. job.todo # <<>> /\ Distinct(job.todo) /\ Todo \subseteq Plan /\ Plan \subseteq Targets
  BY <1>1, InPlan DEF PublishOK
<1> DEFINE rest == Elements(Tail(job.todo))
<1>3. FirstTodo \in Targets /\ Todo = {FirstTodo} \union rest /\ FirstTodo \notin rest /\ Tail(job.todo) \in Lists /\ Distinct(Tail(job.todo))
  BY <1>1, <1>2, FirstOf
<1> HIDE DEF rest
<1>4. /\ job' \in Updates /\ job'.at = "backup" /\ job'.plan = job.plan /\ job'.wanted = job.wanted
      /\ job'.published = job.published \union {FirstTodo} /\ job'.result = job.result /\ job'.todo = Tail(job.todo)
  BY <1>1, <1>3 DEF Updating, Updates
<1>5. disk' \in Disks /\ staged' \in Disks
  BY <1>1, <1>3, ContentKinds, FileFields DEF Disks, InstallerTypes
<1>6. InstallerTypes' /\ HostIsWhole' /\ InstallOK' /\ UninstallOK' /\ UpdateOK'
  BY <1>1, <1>4, <1>5, UpdateGoesOn DEF InstallerTypes
<1>7. Plan' = Plan /\ Todo' = rest
  BY <1>4 DEF Plan, Todo, rest
<1>8. \A n \in Targets \ {FirstTodo} : disk'[n] = disk[n] /\ staged'[n] = staged[n]
  BY <1>1 DEF Disks, InstallerTypes
<1>9. disk'[FirstTodo] = job.wanted[FirstTodo] /\ backup'[FirstTodo] = kept.before[FirstTodo]
  <2>1. staged[FirstTodo] = job.wanted[FirstTodo] /\ backup[FirstTodo] = kept.before[FirstTodo]
    BY <1>1, <1>3 DEF PublishOK
  <2> QED
    BY <1>1, <1>3, <2>1 DEF Disks, InstallerTypes
<1>10. StageOK'
  <2>1. job.published = Plan \ Todo /\ job.result = "failed"
    BY <1>1 DEF StageOK
  <2>2. (Plan \ Todo) \union {FirstTodo} = Plan \ rest
    BY <1>2, <1>3
  <2> QED
    BY <1>4, <1>7, <2>1, <2>2 DEF StageOK
<1>11. PublishOK'
  <2>1. \A n \in Targets \ Plan : Untouched(n)'
    BY <1>1, <1>2, <1>3, <1>8 DEF PublishOK, Untouched
  <2>2. ASSUME NEW n \in Plan \ rest PROVE Replaced(n)'
    <3>1. CASE n = FirstTodo
      BY <1>1, <1>4, <1>9, <3>1 DEF Replaced
    <3>2. CASE n # FirstTodo
      BY <1>1, <1>2, <1>3, <1>4, <1>8, <3>2 DEF PublishOK, Replaced
    <3> QED
      BY <3>1, <3>2
  <2>3. \A n \in rest : Untouched(n)'
    BY <1>1, <1>2, <1>3, <1>8 DEF PublishOK, Untouched
  <2>4. \A n \in rest : staged'[n] = job'.wanted[n]
    BY <1>1, <1>2, <1>3, <1>4, <1>8 DEF PublishOK
  <2> QED
    BY <1>2, <1>3, <1>4, <1>7, <2>1, <2>2, <2>3, <2>4 DEF PublishOK
<1>12. (RestoreOK /\ CleanOK)'
  BY <1>4 DEF RestoreOK, CleanOK
<1>13. NothingIsLost'
  BY <1>4, <1>6, <1>10, <1>11, <1>12, NothingLostYet DEF Updating
<1> QED
  BY <1>6, <1>10, <1>11, <1>12, <1>13

LEMMA SucceedKeeps == ASSUME InstallerIInv, Succeed PROVE InstallerIInv'
<1> USE DEF InstallerIInv
<1>1. /\ Updating /\ job.at = "backup" /\ job.todo = <<>> /\ UNCHANGED <<disk, staged, backup, folder, kept, torn>>
      /\ job' = [job EXCEPT !.at = "clean", !.result = "succeeded"]
  BY JobKinds DEF Succeed, Goes, onDisk, Updating
<1>2. /\ job' \in Updates /\ job'.at = "clean" /\ job'.plan = job.plan /\ job'.wanted = job.wanted
      /\ job'.result = "succeeded"
  BY <1>1 DEF Updating, Updates
<1>3. InstallerTypes' /\ HostIsWhole' /\ InstallOK' /\ UninstallOK' /\ UpdateOK'
  BY <1>1, <1>2, UpdateGoesOn DEF InstallerTypes
<1>4. (StageOK /\ PublishOK /\ RestoreOK)'
  BY <1>2 DEF StageOK, PublishOK, RestoreOK
<1>5. disk = job.wanted
  <2>1. Todo = {}
    BY <1>1, EmptyElements DEF Todo
  <2>2. \A n \in Plan : disk[n] = job.wanted[n]
    BY <1>1, <2>1 DEF PublishOK, Replaced
  <2>3. \A n \in Targets \ Plan : disk[n] = job.wanted[n]
    BY <1>1 DEF PublishOK, Untouched, UpdateOK
  <2>4. disk \in Disks /\ job.wanted \in Disks
    BY <1>1 DEF InstallerTypes, Updating, Updates
  <2> QED
    BY <2>2, <2>3, <2>4 DEF Disks
<1>6. CleanOK'
  BY <1>1, <1>2, <1>5 DEF CleanOK
<1>7. NothingIsLost'
  BY <1>1 DEF NothingIsLost
<1> QED
  BY <1>3, <1>4, <1>6, <1>7
LEMMA RestoreKeeps == ASSUME InstallerIInv, Restore PROVE InstallerIInv'
<1> USE DEF InstallerIInv
<1>1. /\ Updating /\ job.at = "restore" /\ job.todo # <<>> /\ UNCHANGED <<staged, folder, kept>>
      /\ RestoreOK /\ Todo \subseteq Plan /\ Distinct(job.todo) /\ job.result = "failed"
  BY JobKinds DEF Restore, Goes, Updating, RestoreOK
<1> DEFINE rest == Elements(Tail(job.todo))
<1>2. FirstTodo \in Targets /\ Todo = {FirstTodo} \union rest /\ FirstTodo \notin rest /\ Tail(job.todo) \in Lists /\ Distinct(Tail(job.todo))
  BY <1>1, FirstOf
<1> HIDE DEF rest
\* It goes on to the next target.
<1>3. ASSUME job' = [job EXCEPT !.todo = Tail(@)], torn' = torn, disk' \in Disks, backup' \in Disks,
             \A n \in Targets \ {FirstTodo} : disk'[n] = disk[n] /\ backup'[n] = backup[n],
             disk'[FirstTodo] = kept.before[FirstTodo], backup'[FirstTodo] = Missing
      PROVE  InstallerIInv'
  <2>1. /\ job' \in Updates /\ job'.at = "restore" /\ job'.plan = job.plan /\ job'.wanted = job.wanted
        /\ job'.published = job.published /\ job'.result = job.result /\ job'.todo = Tail(job.todo)
    BY <1>1, <1>2, <1>3 DEF Updating, Updates
  <2>2. InstallerTypes' /\ HostIsWhole' /\ InstallOK' /\ UninstallOK' /\ UpdateOK'
    BY <1>1, <1>3, <2>1, UpdateGoesOn DEF InstallerTypes
  <2>3. (StageOK /\ PublishOK /\ CleanOK)'
    BY <2>1 DEF StageOK, PublishOK, CleanOK
  <2>4. Plan' = Plan /\ Todo' = rest
    BY <2>1 DEF Plan, Todo, rest
  <2>5. RestoreOK'
    <3>1. ASSUME NEW n \in Targets \ rest PROVE Untouched(n)'
      <4>1. CASE n = FirstTodo
        BY <1>1, <1>3, <4>1 DEF Untouched
      <4>2. CASE n # FirstTodo
        BY <1>1, <1>2, <1>3, <4>2 DEF RestoreOK, Untouched
      <4> QED
        BY <4>1, <4>2
    <3>2. Todo \subseteq Targets
      BY <1>1, InPlan
    <3>3. ASSUME NEW n \in rest
          PROVE  \/ backup'[n] # Missing /\ backup'[n] = kept'.before[n]
                 \/ backup'[n] = Missing /\ n \in job'.published /\ kept'.before[n] = Missing
                 \/ n \notin job'.published /\ Untouched(n)'
      <4>1. n \in Todo /\ disk'[n] = disk[n] /\ backup'[n] = backup[n] /\ kept' = kept
        BY <1>1, <1>2, <1>3, <3>2
      <4> QED
        BY <1>1, <2>1, <4>1 DEF RestoreOK, Untouched
    <3> QED
      BY <1>1, <1>2, <2>1, <2>4, <3>1, <3>3 DEF RestoreOK
  <2>6. NothingIsLost'
    BY <2>1, <2>2, <2>3, <2>5, NothingLostYet DEF Updating
  <2> QED
    BY <2>2, <2>3, <2>5, <2>6
<1>4. CASE ComesBack(FirstTodo) /\ disk' = [disk EXCEPT ![FirstTodo] = backup[FirstTodo]]
           /\ backup' = [backup EXCEPT ![FirstTodo] = Missing] /\ Goes([job EXCEPT !.todo = Tail(@)])
  <2>1. backup[FirstTodo] = kept.before[FirstTodo] /\ backup[FirstTodo] \in FileContents
    BY <1>1, <1>2, <1>4, FileFields DEF RestoreOK, Untouched, ComesBack
  <2>2. disk' \in Disks /\ backup' \in Disks
    BY <1>2, <1>4, <2>1, ContentKinds DEF Disks, InstallerTypes
  <2>3. /\ \A n \in Targets \ {FirstTodo} : disk'[n] = disk[n] /\ backup'[n] = backup[n]
        /\ disk'[FirstTodo] = kept.before[FirstTodo] /\ backup'[FirstTodo] = Missing
    BY <1>2, <1>4, <2>1 DEF Disks, InstallerTypes
  <2> QED
    BY <1>3, <1>4, <2>2, <2>3 DEF Goes
<1>5. CASE ~ComesBack(FirstTodo) /\ disk' = (IF FirstTodo \in job.published THEN [disk EXCEPT ![FirstTodo] = Missing] ELSE disk)
           /\ UNCHANGED backup /\ Goes([job EXCEPT !.todo = Tail(@)])
  <2>1. backup[FirstTodo] = Missing
    BY <1>5 DEF ComesBack
  <2>2. IF FirstTodo \in job.published THEN kept.before[FirstTodo] = Missing ELSE disk[FirstTodo] = kept.before[FirstTodo]
    BY <1>1, <1>2, <2>1 DEF RestoreOK, Untouched
  <2>3. disk' \in Disks /\ backup' \in Disks
    BY <1>2, <1>5, ContentKinds DEF Disks, InstallerTypes
  <2>4. /\ \A n \in Targets \ {FirstTodo} : disk'[n] = disk[n] /\ backup'[n] = backup[n]
        /\ disk'[FirstTodo] = kept.before[FirstTodo] /\ backup'[FirstTodo] = Missing
    BY <1>2, <1>5, <2>1, <2>2 DEF Disks, InstallerTypes
  <2> QED
    BY <1>3, <1>5, <2>3, <2>4 DEF Goes
<1>6. CASE job' = [job EXCEPT !.at = "clean", !.result = "stuck"] /\ torn' = TRUE /\ UNCHANGED <<disk, backup, runs, edits, kept>>
  <2>1. /\ job' \in Updates /\ job'.at = "clean" /\ job'.plan = job.plan /\ job'.wanted = job.wanted /\ job'.result = "stuck"
    BY <1>1, <1>6 DEF Updating, Updates
  <2>2. torn' \in BOOLEAN /\ torn'
    BY <1>6, Zenon
  <2>3. InstallerTypes' /\ HostIsWhole' /\ InstallOK' /\ UninstallOK' /\ UpdateOK'
    BY <1>1, <1>6, <2>1, <2>2, UpdateGoesOn DEF InstallerTypes
  <2>4. (StageOK /\ PublishOK /\ RestoreOK /\ CleanOK)'
    BY <2>1, <2>2 DEF StageOK, PublishOK, RestoreOK, CleanOK
  <2>5. NothingIsLost'
    BY <1>6 DEF NothingIsLost
  <2> QED
    BY <2>3, <2>4, <2>5
<1> QED
  BY <1>4, <1>5, <1>6 DEF Restore

LEMMA RestoredKeeps == ASSUME InstallerIInv, Restored PROVE InstallerIInv'
<1> USE DEF InstallerIInv
<1>1. /\ Updating /\ job.at = "restore" /\ job.todo = <<>> /\ UNCHANGED <<disk, staged, backup, folder, kept, torn>>
      /\ job' = [job EXCEPT !.at = "clean"]
  BY JobKinds DEF Restored, Goes, onDisk, Updating
<1>2. /\ job' \in Updates /\ job'.at = "clean" /\ job'.plan = job.plan /\ job'.wanted = job.wanted /\ job'.result = job.result
  BY <1>1 DEF Updating, Updates
<1>3. InstallerTypes' /\ HostIsWhole' /\ InstallOK' /\ UninstallOK' /\ UpdateOK'
  BY <1>1, <1>2, UpdateGoesOn DEF InstallerTypes
<1>4. (StageOK /\ PublishOK /\ RestoreOK)'
  BY <1>2 DEF StageOK, PublishOK, RestoreOK
<1>5. disk = kept.before /\ job.result = "failed"
  <2>1. Todo = {}
    BY <1>1, EmptyElements DEF Todo
  <2>2. job.result = "failed" /\ \A n \in Targets : disk[n] = kept.before[n]
    BY <1>1, <2>1 DEF RestoreOK, Untouched
  <2>3. disk \in Disks /\ kept.before \in Disks
    BY DEF InstallerTypes
  <2> QED
    BY <2>2, <2>3 DEF Disks
<1>6. CleanOK'
  BY <1>1, <1>2, <1>5 DEF CleanOK
<1>7. NothingIsLost'
  BY <1>1 DEF NothingIsLost
<1> QED
  BY <1>3, <1>4, <1>6, <1>7

LEMMA CleanKeeps == ASSUME InstallerIInv, Clean PROVE InstallerIInv'
<1> USE DEF InstallerIInv
<1>1. Updating /\ job.at = "clean" /\ UNCHANGED <<disk, folder, kept, torn, job>>
  BY JobKinds DEF Clean, Goes, Updating
<1>2. staged' \in Disks /\ backup' \in Disks /\ (backup' = backup \/ job.result = "succeeded")
  <2>1. CASE \E n \in Leftover(staged) : staged' = [staged EXCEPT ![n] = Missing] /\ UNCHANGED backup
    BY <2>1, ContentKinds DEF Leftover, Disks, InstallerTypes
  <2>2. CASE /\ Leftover(staged) = {} /\ DropsBackups
             /\ \E n \in Leftover(backup) : backup' = [backup EXCEPT ![n] = Missing] /\ UNCHANGED staged
    BY <2>2, ContentKinds DEF Leftover, Disks, InstallerTypes, DropsBackups
  <2> QED
    BY <2>1, <2>2 DEF Clean
<1>3. InstallerTypes' /\ HostIsWhole' /\ InstallOK' /\ UninstallOK' /\ UpdateOK'
  BY <1>1, <1>2, UpdateGoesOn DEF InstallerTypes, Updating
<1>4. (StageOK /\ PublishOK /\ RestoreOK /\ CleanOK)'
  BY <1>1 DEF StageOK, PublishOK, RestoreOK, CleanOK, Updating
<1>5. NothingIsLost'
  <2>1. CASE backup' = backup
    BY <1>1, <2>1 DEF NothingIsLost
  <2>2. CASE job.result = "succeeded"
    <3>1. disk = kept.wanted
      BY <1>1, <2>2 DEF CleanOK, UpdateOK
    <3> QED
      BY <1>1, <3>1 DEF NothingIsLost
  <2> QED
    BY <1>2, <2>1, <2>2
<1> QED
  BY <1>3, <1>4, <1>5

\* An update gives up.
LEMMA UpdateFails ==
  ASSUME InstallerIInv, job.at \in {"stage", "backup", "publish"}, job.todo # <<>>,
         Goes([job EXCEPT !.at = "restore", !.todo = Reverse(job.plan)]), UNCHANGED onDisk
  PROVE  InstallerIInv'
<1> USE DEF InstallerIInv
<1>1. /\ Updating /\ UNCHANGED <<disk, staged, backup, folder, kept, torn>>
      /\ job' = [job EXCEPT !.at = "restore", !.todo = Reverse(job.plan)]
  BY JobKinds DEF Goes, onDisk, Updating
<1>2. /\ Reverse(job.plan) \in Lists /\ Elements(Reverse(job.plan)) = Plan
      /\ Distinct(job.plan) => Distinct(Reverse(job.plan))
  <2>1. job.plan \in Seq(Targets)
    BY <1>1 DEF Updating, Updates, Lists
  <2> QED
    BY <2>1, ReverseElements DEF Plan, Lists
<1>3. /\ job' \in Updates /\ job'.at = "restore" /\ job'.plan = job.plan /\ job'.wanted = job.wanted
      /\ job'.published = job.published /\ job'.result = job.result /\ job'.todo = Reverse(job.plan)
  BY <1>1, <1>2 DEF Updating, Updates
<1>4. InstallerTypes' /\ HostIsWhole' /\ InstallOK' /\ UninstallOK' /\ UpdateOK'
  BY <1>1, <1>3, UpdateGoesOn DEF InstallerTypes
<1>5. (StageOK /\ PublishOK /\ CleanOK)'
  BY <1>3 DEF StageOK, PublishOK, CleanOK
<1>6. Plan' = Plan /\ Todo' = Plan /\ Distinct(job'.todo) /\ job'.result = "failed"
  BY <1>1, <1>2, <1>3 DEF Plan, Todo, UpdateOK, StageOK
<1>7. \A n \in Targets \ Plan : Untouched(n)'
  <2>1. CASE job.at = "stage"
    BY <1>1, <2>1 DEF StageOK, Untouched
  <2>2. CASE job.at \in {"backup", "publish"}
    BY <1>1, <2>2 DEF PublishOK, Untouched
  <2> QED
    BY <2>1, <2>2
<1>8. ASSUME NEW n \in Plan
      PROVE  \/ backup'[n] # Missing /\ backup'[n] = kept'.before[n]
             \/ backup'[n] = Missing /\ n \in job'.published /\ kept'.before[n] = Missing
             \/ n \notin job'.published /\ Untouched(n)'
  <2>1. job.published = IF job.at = "stage" THEN {} ELSE Plan \ Todo
    BY <1>1 DEF StageOK
  <2>2. n \in Targets
    BY <1>1, InPlan
  <2>3. CASE job.at = "stage"
    BY <1>1, <1>3, <2>1, <2>2, <2>3 DEF StageOK, Untouched
  <2>4. CASE job.at # "stage" /\ n \notin Todo
    <3>1. backup[n] = kept.before[n] /\ n \in job.published
      BY <1>1, <2>1, <2>4 DEF PublishOK, Replaced
    <3> QED
      BY <1>1, <1>3, <3>1
  <2>5. CASE job.at # "stage" /\ n \in Todo
    <3>1. n \notin job.published
      BY <2>1, <2>5
    <3>2. Untouched(n) \/ (disk[n] = Missing /\ backup[n] = kept.before[n])
      BY <1>1, <2>5 DEF PublishOK
    <3> QED
      BY <1>1, <1>3, <3>1, <3>2 DEF Untouched
  <2> QED
    BY <2>3, <2>4, <2>5
<1>9. RestoreOK'
  BY <1>3, <1>6, <1>7, <1>8 DEF RestoreOK
<1>10. NothingIsLost'
  BY <1>1 DEF NothingIsLost
<1> QED
  BY <1>4, <1>5, <1>9, <1>10

-----------------------------------------------------------------------------
(* The invariant, and what it says of an installation.                     *)

LEMMA InstallerInitial == ASSUME InstallerAssumption, InstallerInit PROVE InstallerIInv
<1>1. Empty \in Disks /\ \A n \in Targets : Empty[n] = Missing
  BY ContentKinds DEF Empty, Disks
<1>2. /\ disk = Empty /\ staged = Empty /\ backup = Empty /\ folder = FALSE
      /\ job = NoJob /\ kept = NotKept /\ torn = FALSE
  BY DEF InstallerInit
<1>3. folder \in BOOLEAN /\ torn \in BOOLEAN /\ ~folder
  BY <1>2, Zenon
<1>4. InstallerTypes
  BY <1>1, <1>2, <1>3 DEF InstallerTypes, NotKept
<1>5. Unloaded
  BY <1>1, <1>2, FileNames DEF Unloaded
<1>6. HostIsWhole
  BY <1>1, <1>2, <1>5 DEF HostIsWhole
<1>7. InstallOK /\ UninstallOK /\ UpdateOK /\ StageOK /\ PublishOK /\ RestoreOK /\ CleanOK
  BY <1>2, OtherJob, NoJobOK
<1>8. NothingIsLost
  BY <1>2, Kinds DEF NothingIsLost, NotKept, Empty
<1> QED
  BY <1>4, <1>6, <1>7, <1>8 DEF InstallerIInv

LEMMA InstallerStep == ASSUME InstallerAssumption, InstallerIInv, [InstallerNext]_installerVars PROVE InstallerIInv'
<1>1. CASE \E build \in Builds, o \in Commands : RunsWith(build, o)
  BY <1>1, InstallKeeps, UpdateKeeps DEF RunsWith
<1>2. CASE Uninstall \/ RemoveFile
  BY <1>2, UninstallKeeps, RemoveFileKeeps
<1>3. CASE Create \/ Copy \/ Undo
  BY <1>3, CreateKeeps, CopyKeeps, UndoKeeps
<1>4. CASE Stage \/ Staged \/ Backup \/ PublishNew \/ Succeed
  BY <1>4, StageKeeps, StagedKeeps, BackupKeeps, PublishKeeps, SucceedKeeps
<1>5. CASE Restore \/ Restored \/ Clean
  BY <1>5, RestoreKeeps, RestoredKeeps, CleanKeeps
<1>6. CASE Fail
  <2>1. CASE job.at \in {"next", "copy"} /\ job.kind = "install" /\ job.todo # <<>> /\ Goes([job EXCEPT !.at = "undo"]) /\ UNCHANGED onDisk
    BY <1>6, <2>1, InstallFails
  <2>2. CASE job.at \in {"stage", "backup", "publish"} /\ job.todo # <<>>
             /\ Goes([job EXCEPT !.at = "restore", !.todo = Reverse(job.plan)]) /\ UNCHANGED onDisk
    BY <2>2, UpdateFails
  <2>3. CASE job.at = "clean"
    BY <1>6, <2>3, Halts
  <2> QED
    BY <1>6, <2>1, <2>2, <2>3 DEF Fail
<1>7. CASE FinishRun \/ ProcessEnds
  BY <1>7, Halts
<1>8. CASE Tidy \/ \E n \in Targets : Edit(n)
  BY <1>8, UserKeeps
<1>9. CASE UNCHANGED installerVars
  <2>1. UNCHANGED <<disk, staged, backup, folder, job, kept, torn>>
    BY <1>9 DEF installerVars, onDisk
  <2> QED
    BY <2>1 DEF InstallerIInv, InstallerTypes, HostIsWhole, InstallOK, UninstallOK, UpdateOK, StageOK, PublishOK, RestoreOK,
       CleanOK, NothingIsLost, Updating, Unloaded, FirstTodo, Untouched, Replaced, Todo, Plan
<1> QED
  BY <1>1, <1>2, <1>3, <1>4, <1>5, <1>6, <1>7, <1>8, <1>9 DEF InstallerNext, GoesOn

\* The invariant of the installer holds in every state of a run and between two.
THEOREM InstallerInvariant == InstallerSpec => []InstallerIInv
<1>1. InstallerInit => InstallerIInv
  BY InstallerAssumed, InstallerInitial
<1>2. InstallerIInv /\ [InstallerNext]_installerVars => InstallerIInv'
  BY InstallerAssumed, InstallerStep
<1> QED
  BY <1>1, <1>2, PTL DEF InstallerSpec

LEMMA WholeIsSafe == ASSUME InstallerAssumption, InstallerIInv PROVE InstallationIsSafe /\ ModesAgree
<1> USE DEF InstallerIInv
<1>1. ProxyLast
  <2> SUFFICES ASSUME ~torn, disk[Proxy] # Missing, ~(job.at # "idle" /\ job.kind = "update")
               PROVE  /\ disk[Receipt].is = "receipt" /\ Required \subseteq DOMAIN Owned
                      /\ \A n \in DOMAIN Owned \ {Proxy} : disk[n] = File(Owned[n])
    BY DEF ProxyLast
  <2>1. ~Updating
    BY JobKinds, Apart DEF Updating
  <2>2. Complete(disk)
    BY <2>1 DEF HostIsWhole, Unloaded, Sound
  <2>3. Owned \in Releases
    BY <2>2, FileFields DEF Complete
  <2> QED
    BY <2>2, <2>3 DEF Complete, Owned, Releases
<1>2. job.at = "clean" => Updating
  BY JobKinds DEF Updating
<1>3. AllOrNothing
  BY <1>2 DEF AllOrNothing, CleanOK, UpdateOK, Intact, IntactOn, Owned
<1>4. ModesAgree
  <2>1. ASSUME job.at = "clean", job.result = "succeeded"
        PROVE  (Conflict(disk) => Conflict(kept.before)) /\ (LuaRefused(disk) => LuaRefused(kept.before))
    BY <1>2, <2>1 DEF CleanOK, UpdateOK
  <2>2. ASSUME ~torn, job.at = "idle", disk[Proxy] # Missing PROVE ~Conflict(disk) /\ ~LuaRefused(disk)
    <3>1. ~Updating
      BY <2>2, JobKinds, Apart DEF Updating
    <3> QED
      BY <2>2, <3>1 DEF HostIsWhole, Unloaded, Sound
  <2> QED
    BY <2>1, <2>2 DEF ModesAgree
<1> QED
  BY <1>1, <1>3, <1>4 DEF InstallationIsSafe

\* Wherever an installation, an update or a removal fails or is cut short, the loader is
\* not there without what it needs, no file is lost, what the user made is not touched,
\* and an update is undone or done (tools/install.py).
THEOREM InstallationSafe == InstallerSpec => []InstallationIsSafe
<1>1. InstallerIInv => InstallationIsSafe
  BY InstallerAssumed, WholeIsSafe
<1>2. InstallerSpec => []InstallerIInv
  BY InstallerInvariant
<1> QED
  BY <1>1, <1>2, PTL

\* No succession of options leaves markers of modes that do not start together, or
\* engine Lua without the mode it needs (tools/install.py, runtime/entry.cpp).
THEOREM ModesAgreed == InstallerSpec => []ModesAgree
<1>1. InstallerIInv => ModesAgree
  BY InstallerAssumed, WholeIsSafe
<1>2. InstallerSpec => []InstallerIInv
  BY InstallerInvariant
<1> QED
  BY <1>1, <1>2, PTL
=============================================================================
