--------------------------- MODULE CrashSafeStore ---------------------------
(***************************************************************************)
(* What docs/mod-storage.md promises of one record per mod id, without     *)
(* files, threads or staging: a register whose replacement is atomic, that *)
(* survives a crash at any moment, and whose status tells the truth.       *)
(***************************************************************************)
CONSTANTS
  Ids,        \* mod ids
  Contents,   \* the byte strings a mod can store
  Absent,     \* no record was ever saved
  Corrupt,    \* a record that cannot be read
  Closed,     \* the id is not attached in this session
  Nothing     \* no write is in flight

VARIABLES
  durable,    \* what a restart would find
  visible,    \* what a read returns
  inflight,   \* the accepted write that is not yet resolved
  persisted,  \* the ids whose write has become durable
  status      \* what storage_status reports

vars == <<durable, visible, inflight, persisted, status>>

Init ==
  /\ durable \in [Ids -> Contents \union {Absent, Corrupt}]
  /\ visible = [id \in Ids |-> Closed]
  /\ inflight = [id \in Ids |-> Nothing]
  /\ persisted = {}
  /\ status = [id \in Ids |-> "IDLE"]

\* A session attaches an id: it finds the durable record, or fails to read it.
Attach(id) ==
  /\ visible[id] = Closed
  /\ \E found \in {durable[id], Corrupt} : visible' = [visible EXCEPT ![id] = found]
  /\ UNCHANGED <<durable, inflight, persisted, status>>

Accept(id, bytes) ==
  /\ visible[id] # Closed /\ status[id] # "PENDING"
  /\ inflight' = [inflight EXCEPT ![id] = bytes]
  /\ status' = [status EXCEPT ![id] = "PENDING"]
  /\ UNCHANGED <<durable, visible, persisted>>

\* The replacement is one step: no other value is ever durable in between.
Persist(id) ==
  /\ status[id] = "PENDING" /\ id \notin persisted
  /\ durable' = [durable EXCEPT ![id] = inflight[id]]
  /\ persisted' = persisted \union {id}
  /\ UNCHANGED <<visible, inflight, status>>

\* Status 2 follows durability, and only then do reads see the new record.
Save(id) ==
  /\ status[id] = "PENDING" /\ id \in persisted
  /\ visible' = [visible EXCEPT ![id] = inflight[id]]
  /\ inflight' = [inflight EXCEPT ![id] = Nothing]
  /\ persisted' = persisted \ {id}
  /\ status' = [status EXCEPT ![id] = "SAVED"]
  /\ UNCHANGED durable

\* Status -5 means the write never took effect: the old record is preserved.
Fail(id) ==
  /\ status[id] = "PENDING" /\ id \notin persisted
  /\ inflight' = [inflight EXCEPT ![id] = Nothing]
  /\ status' = [status EXCEPT ![id] = "FAILED"]
  /\ UNCHANGED <<durable, visible, persisted>>

\* The session ends.  What was durable stays; the rest is gone.
End ==
  /\ visible' = [id \in Ids |-> Closed]
  /\ inflight' = [id \in Ids |-> Nothing]
  /\ persisted' = {}
  /\ status' = [id \in Ids |-> "IDLE"]
  /\ UNCHANGED durable

Next ==
  \/ \E id \in Ids :
       \/ Attach(id) \/ Persist(id) \/ Save(id) \/ Fail(id)
       \/ \E bytes \in Contents : Accept(id, bytes)
  \/ End

Spec == Init /\ [][Next]_vars
=============================================================================
