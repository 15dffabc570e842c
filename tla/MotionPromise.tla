--------------------------- MODULE MotionPromise ---------------------------
(***************************************************************************)
(* What docs/api.md promises a guest that moves the player: its own record *)
(* of the lease and of the cancellation it has not been told of, which no  *)
(* other guest can touch.  A reason it was told of stays readable until a  *)
(* new owner needs the record.  At most one guest moves the player.        *)
(***************************************************************************)
CONSTANTS Guests, Reasons

VARIABLE record   \* what each guest would read

Idle            == [state |-> "idle", reason |-> "none", pending |-> FALSE]
Active          == [state |-> "active", reason |-> "none", pending |-> FALSE]
Stopped(why, p) == [state |-> "stopped", reason |-> why, pending |-> p]

Init == record = [g \in Guests |-> Idle]

\* Those whose record is only kept for reference.
Told == {g \in Guests : record[g].state = "stopped" /\ ~record[g].pending}

\* A guest that knows how its last lease ended may have the player, if no other
\* has; the record of one that was told may be reused for it.
Grant(g) ==
  /\ ~record[g].pending
  /\ \A other \in Guests : record[other].state # "active"
  /\ \E reused \in Told \union {g} :
       record' = [record EXCEPT ![reused] = Idle, ![g] = Active]

\* The host ends a lease.
Cancel(g) ==
  /\ record[g].state = "active"
  /\ \E why \in Reasons : record' = [record EXCEPT ![g] = Stopped(why, TRUE)]

\* The next request is refused, once; the reason stays.
Tell(g) ==
  /\ record[g].pending
  /\ record' = [record EXCEPT ![g].pending = FALSE]

\* The guest gives up, or is unloaded.
Release(g) == record' = [record EXCEPT ![g] = Idle]

Next == \E g \in Guests : Grant(g) \/ Cancel(g) \/ Tell(g) \/ Release(g)

Spec == Init /\ [][Next]_record
=============================================================================
