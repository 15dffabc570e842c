--------------------------- MODULE UiChannelProofs ---------------------------
(***************************************************************************)
(* Proofs about UiService and UiChannel, for any mods, screens, deadlines  *)
(* and ring size, and for any pages, polls in flight and visits.           *)
(*                                                                         *)
(* The service.  Every operation treats the mailbox in a few ways only: it *)
(* sweeps an expired command, takes a report, withdraws the command,       *)
(* queues one or delivers one.  So the part of the invariant that relates  *)
(* the command, the receipts and the watermarks is stated once, over       *)
(* arbitrary values (MailboxOK), each of these treatments is shown to keep *)
(* it, and an operation is their composition.                              *)
(*                                                                         *)
(* The channel.  The service and the page agree only through polls that    *)
(* are lost, repeated and late, so no state of the one determines the      *)
(* other's.  What they do have is that a command is offered in one         *)
(* response (UiService, OfferedOnce): until the page that got this         *)
(* response has looked at it the command is awaited and nobody says        *)
(* anything of it; afterwards what was done with it never changes, and     *)
(* everything that is said of it, by the page, in a poll or in a receipt,  *)
(* is that.                                                                *)
(***************************************************************************)
EXTENDS UiChannel, FiniteSetTheorems, TLAPS

USE OwnersAssumption, ScreensAssumption, TimeAssumption, BoundsAssumption

\* The mailbox: command, receipts, page, both watermarks, the last command's id
\* and what the page has been offered.
MailboxOK(cmd, rs, pg, acked, delivered, newest, off) ==
  /\ cmd \in Commands /\ rs \in [Slots -> Receipts] /\ off \in [Ids -> Nat]
  /\ acked \in Nat /\ delivered \in Nat /\ newest \in 0..MaxCommand
  /\ acked <= delivered /\ delivered <= newest
  /\ cmd.id <= newest
  /\ \A id \in Ids : off[id] <= 1 /\ (id > newest => off[id] = 0)
  /\ cmd.id # 0 =>
       /\ acked < cmd.id
       /\ cmd.delivered  => cmd.id = delivered /\ off[cmd.id] = 1
       /\ ~cmd.delivered => delivered < cmd.id /\ off[cmd.id] = 0
  /\ \A i \in Slots :
       /\ rs[i].id <= newest
       /\ \A j \in Slots : rs[i].id # 0 /\ rs[i].id = rs[j].id => i = j
       /\ rs[i].id # 0 =>
            /\ rs[i].status = "QUEUED"    <=> cmd.id = rs[i].id /\ ~cmd.delivered
            /\ rs[i].status = "DELIVERED" <=> cmd.id = rs[i].id /\ cmd.delivered
            /\ rs[i].status \in InFlight => rs[i].page = pg /\ rs[i].owner = cmd.owner
            /\ off[rs[i].id] = 0 <=> rs[i].status \in Withdrawn \union {"QUEUED"}

\* The ring, from the slot to be written next: the oldest receipt first.
RingSorted(rs, next) ==
  \A i, j \in Slots :
    /\ i < j /\ (j < next \/ next <= i) => rs[i].id <= rs[j].id
    /\ i < next /\ next <= j => rs[j].id <= rs[i].id

IInv ==
  /\ TypeOK
  /\ MailboxOK(command, receipts, page, lastAck, lastDelivery, nextCommand, offers)
  /\ RingSorted(receipts, nextReceipt)
  /\ CommandIsCurrent
  /\ ReleasedOwnsNothing
  /\ \A t \in DOMAIN leases : sampled /\ leases[t].screen = screen

-----------------------------------------------------------------------------
(* What happens to a mailbox.                                               *)

\* finish_command leaves a mailbox without command in which every receipt is
\* settled, whatever page and watermarks follow.
LEMMA FinishKeeps ==
  ASSUME NEW cmd, NEW rs, NEW pg, NEW a, NEW d, NEW n, NEW off,
         MailboxOK(cmd, rs, pg, a, d, n, off),
         NEW undelivered \in Withdrawn,
         NEW pg2, NEW a2 \in Nat, NEW d2 \in Nat, a2 <= d2, d2 <= n
  PROVE  MailboxOK(NoCommand, Finish(rs, cmd, undelivered), pg2, a2, d2, n, off)
<1> DEFINE fs == Finish(rs, cmd, undelivered)
<1> USE DEF MailboxOK, InFlight, Withdrawn
<1>1. NoCommand \in Commands
  BY DEF NoCommand, Commands, CommandCap
<1>2. ASSUME NEW i \in Slots
      PROVE  /\ fs[i] \in Receipts /\ fs[i].id = rs[i].id
             /\ fs[i].status = IF cmd.id # 0 /\ rs[i].id = cmd.id
                               THEN IF cmd.delivered THEN "OUTCOME_UNKNOWN" ELSE undelivered
                               ELSE rs[i].status
  <2>1. rs[i] \in Receipts
    OBVIOUS
  <2>2. CASE cmd.id # 0 /\ rs[i].id = cmd.id
    <3>1. fs[i] = [rs[i] EXCEPT !.status = IF cmd.delivered THEN "OUTCOME_UNKNOWN"
                                           ELSE undelivered]
      BY <2>2 DEF Finish
    <3> HIDE DEF fs, MailboxOK
    <3> QED
      BY <2>1, <2>2, <3>1 DEF Receipts, Statuses, Definitive, Reported
  <2>3. CASE ~(cmd.id # 0 /\ rs[i].id = cmd.id)
    BY <2>1, <2>3 DEF Finish
  <2> QED
    BY <2>2, <2>3
<1>3. fs = [i \in Slots |-> fs[i]]
  BY DEF Finish
<1> HIDE DEF fs
<1>4. fs \in [Slots -> Receipts] /\ \A i \in Slots : fs[i].id = rs[i].id
  BY <1>2, <1>3
<1>5. ASSUME NEW i \in Slots, fs[i].id # 0
      PROVE  /\ fs[i].status \notin InFlight
             /\ off[fs[i].id] = 0 <=> fs[i].status \in Withdrawn \union {"QUEUED"}
  <2>1. rs[i] \in Receipts /\ fs[i].id = rs[i].id
    BY <1>4
  <2>2. CASE cmd.id # 0 /\ rs[i].id = cmd.id
    <3>1. fs[i].status = IF cmd.delivered THEN "OUTCOME_UNKNOWN" ELSE undelivered
      BY <1>2, <2>2
    <3>2. CASE cmd.delivered
      BY <2>1, <2>2, <3>1, <3>2
    <3>3. CASE ~cmd.delivered
      BY <2>1, <2>2, <3>1, <3>3
    <3> QED
      BY <3>2, <3>3
  <2>3. CASE ~(cmd.id # 0 /\ rs[i].id = cmd.id)
    <3>1. fs[i].status = rs[i].status
      BY <1>2, <2>3
    <3>2. rs[i].status # "QUEUED" /\ rs[i].status # "DELIVERED"
      BY <1>5, <2>1, <2>3
    <3> QED
      BY <1>5, <2>1, <3>1, <3>2
  <2> QED
    BY <2>2, <2>3
<1>6. \A i \in Slots :
        /\ fs[i].id <= n
        /\ \A j \in Slots : fs[i].id # 0 /\ fs[i].id = fs[j].id => i = j
  BY <1>4
<1>7. NoCommand.id = 0
  BY DEF NoCommand
<1> HIDE DEF MailboxOK
<1>8. /\ off \in [Ids -> Nat] /\ n \in 0..MaxCommand
      /\ \A id \in Ids : off[id] <= 1 /\ (id > n => off[id] = 0)
  BY DEF MailboxOK
<1> QED
  BY <1>1, <1>4, <1>5, <1>6, <1>7, <1>8 DEF MailboxOK, fs

\* expire keeps the mailbox.
LEMMA SweepKeeps ==
  ASSUME NEW late \in Lags,
         MailboxOK(command, receipts, page, lastAck, lastDelivery, nextCommand, offers)
  PROVE  MailboxOK(LiveCommand(late), LiveReceipts(late), page, lastAck, lastDelivery,
                   nextCommand, offers)
<1>1. CASE Overdue(late)
  <2>1. "EXPIRED" \in Withdrawn
    BY DEF Withdrawn
  <2>2. lastAck \in Nat /\ lastDelivery \in Nat /\ lastAck <= lastDelivery
        /\ lastDelivery <= nextCommand
    BY DEF MailboxOK
  <2> QED
    BY <1>1, <2>1, <2>2, FinishKeeps DEF LiveCommand, LiveReceipts
<1>2. CASE ~Overdue(late)
  BY <1>2 DEF LiveCommand, LiveReceipts
<1> QED
  BY <1>1, <1>2

\* A report that the page is entitled to settles the receipt of a delivered
\* command, and only that; the command goes with it.
LEMMA ReportKeeps ==
  ASSUME NEW cmd, NEW rs, NEW d, NEW n, NEW off, NEW poll \in Polls,
         MailboxOK(cmd, rs, page, lastAck, d, n, off),
         WellFormed(poll), poll.ack <= d
  PROVE  MailboxOK(Acknowledge(cmd, poll), Resolve(rs, poll), page,
                   IF poll.ack > lastAck THEN poll.ack ELSE lastAck, d, n, off)
<1> DEFINE rr == Resolve(rs, poll)
           ac == Acknowledge(cmd, poll)
<1>0. /\ cmd \in Commands /\ rs \in [Slots -> Receipts] /\ off \in [Ids -> Nat]
      /\ lastAck \in Nat /\ d \in Nat /\ n \in 0..MaxCommand
      /\ lastAck <= d /\ d <= n /\ cmd.id <= n
      /\ \A id \in Ids : off[id] <= 1 /\ (id > n => off[id] = 0)
  BY DEF MailboxOK
<1>1. poll.ack \in 0..MaxCommand /\ poll.outcome \in Reported \union {"NONE", "LEGACY"}
  BY DEF Polls
<1>2. ASSUME NEW i \in Slots
      PROVE  /\ rr[i] \in Receipts /\ rr[i].id = rs[i].id
             /\ rr[i].page = rs[i].page /\ rr[i].owner = rs[i].owner
             /\ IF /\ poll.ack # 0 /\ rs[i].id = poll.ack /\ rs[i].page = page
                   /\ rs[i].status \in {"DELIVERED", "OUTCOME_UNKNOWN"}
                THEN rr[i].status \in Reported \union {"OUTCOME_UNKNOWN"}
                ELSE rr[i].status = rs[i].status
  <2>1. rs[i] \in Receipts
    BY <1>0
  <2>2. CASE /\ poll.ack # 0 /\ rs[i].id = poll.ack /\ rs[i].page = page
             /\ rs[i].status \in {"DELIVERED", "OUTCOME_UNKNOWN"}
    <3>1. rr[i] = [rs[i] EXCEPT !.status = IF poll.outcome = "LEGACY" THEN "OUTCOME_UNKNOWN"
                                           ELSE poll.outcome]
      BY <2>2 DEF Resolve
    <3>2. poll.outcome # "NONE"
      BY <2>2 DEF WellFormed
    <3> HIDE DEF rr
    <3> QED
      BY <1>1, <2>1, <2>2, <3>1, <3>2 DEF Receipts, Statuses, Definitive, Reported
  <2>3. CASE ~(/\ poll.ack # 0 /\ rs[i].id = poll.ack /\ rs[i].page = page
               /\ rs[i].status \in {"DELIVERED", "OUTCOME_UNKNOWN"})
    BY <2>1, <2>3 DEF Resolve
  <2> QED
    BY <2>2, <2>3
<1>3. rr = [i \in Slots |-> rr[i]]
  BY DEF Resolve
<1>4. \/ ac = cmd /\ ~(poll.ack > lastAck /\ cmd.id = poll.ack /\ cmd.delivered)
      \/ ac = NoCommand /\ poll.ack > lastAck /\ cmd.id = poll.ack /\ cmd.delivered
  BY DEF Acknowledge
<1> HIDE DEF rr, ac
<1>5. rr \in [Slots -> Receipts]
  BY <1>2, <1>3
<1>6. NoCommand \in Commands /\ NoCommand.id = 0
  BY DEF NoCommand, Commands, CommandCap
<1>7. ASSUME ac.id # 0
      PROVE  /\ ac = cmd
             /\ (IF poll.ack > lastAck THEN poll.ack ELSE lastAck) < cmd.id
             /\ cmd.delivered  => cmd.id = d /\ off[cmd.id] = 1
             /\ ~cmd.delivered => d < cmd.id /\ off[cmd.id] = 0
  <2>1. ac = cmd /\ ~(poll.ack > lastAck /\ cmd.id = poll.ack /\ cmd.delivered)
    BY <1>4, <1>6, <1>7
  <2>2. /\ lastAck < cmd.id
        /\ cmd.delivered  => cmd.id = d /\ off[cmd.id] = 1
        /\ ~cmd.delivered => d < cmd.id /\ off[cmd.id] = 0
    BY <1>7, <2>1 DEF MailboxOK
  <2>3. cmd.id \in Nat /\ cmd.delivered \in BOOLEAN
    BY <1>0 DEF Commands
  <2> QED
    BY <1>0, <1>1, <2>1, <2>2, <2>3
<1>8. ASSUME NEW i \in Slots, rr[i].id # 0
      PROVE  /\ rr[i].status = "QUEUED"    <=> ac.id = rr[i].id /\ ~ac.delivered
             /\ rr[i].status = "DELIVERED" <=> ac.id = rr[i].id /\ ac.delivered
             /\ rr[i].status \in InFlight => rr[i].page = page /\ rr[i].owner = ac.owner
             /\ off[rr[i].id] = 0 <=> rr[i].status \in Withdrawn \union {"QUEUED"}
  <2>1. /\ rs[i].status = "QUEUED"    <=> cmd.id = rs[i].id /\ ~cmd.delivered
        /\ rs[i].status = "DELIVERED" <=> cmd.id = rs[i].id /\ cmd.delivered
        /\ rs[i].status \in InFlight => rs[i].page = page /\ rs[i].owner = cmd.owner
        /\ off[rs[i].id] = 0 <=> rs[i].status \in Withdrawn \union {"QUEUED"}
    BY <1>2, <1>8 DEF MailboxOK
  <2>2. cmd.id # 0 => lastAck < cmd.id
    BY DEF MailboxOK
  <2>3. CASE /\ poll.ack # 0 /\ rs[i].id = poll.ack /\ rs[i].page = page
             /\ rs[i].status \in {"DELIVERED", "OUTCOME_UNKNOWN"}
    <3>1. rr[i].status \in Reported \union {"OUTCOME_UNKNOWN"}
      BY <1>2, <2>3
    <3>2. ~(ac.id = rr[i].id)
      <4>1. CASE cmd.id = poll.ack
        <5>1. cmd.delivered
          BY <2>1, <2>3, <4>1, <1>0 DEF Withdrawn, MailboxOK, Commands
        <5> QED
          BY <1>0, <1>1, <1>2, <1>4, <1>6, <1>8, <2>2, <2>3, <4>1, <5>1
      <4>2. CASE cmd.id # poll.ack
        BY <1>2, <1>4, <2>3, <4>2
      <4> QED
        BY <4>1, <4>2
    <3> QED
      BY <1>2, <2>1, <2>3, <3>1, <3>2 DEF Reported, Withdrawn, InFlight
  <2>4. CASE ~(/\ poll.ack # 0 /\ rs[i].id = poll.ack /\ rs[i].page = page
               /\ rs[i].status \in {"DELIVERED", "OUTCOME_UNKNOWN"})
    <3>1. rr[i].status = rs[i].status /\ rr[i].id = rs[i].id /\ rr[i].page = rs[i].page
          /\ rr[i].owner = rs[i].owner
      BY <1>2, <2>4
    <3>2. CASE ac = cmd
      BY <2>1, <3>1, <3>2
    <3>3. CASE ac = NoCommand /\ poll.ack > lastAck /\ cmd.id = poll.ack /\ cmd.delivered
      <4>1. cmd.id # rs[i].id
        BY <2>1, <2>4, <3>3, <1>8, <3>1 DEF InFlight
      <4> QED
        BY <1>6, <1>8, <2>1, <3>1, <3>3, <4>1 DEF InFlight
    <3> QED
      BY <1>4, <3>2, <3>3
  <2> QED
    BY <2>3, <2>4
<1>9. \A i \in Slots :
        /\ rr[i].id <= n
        /\ \A j \in Slots : rr[i].id # 0 /\ rr[i].id = rr[j].id => i = j
  BY <1>2 DEF MailboxOK
<1>10. ac \in Commands /\ ac.id <= n
  BY <1>0, <1>4, <1>6
<1>11. (IF poll.ack > lastAck THEN poll.ack ELSE lastAck) \in Nat
       /\ (IF poll.ack > lastAck THEN poll.ack ELSE lastAck) <= d
  BY <1>0, <1>1
<1> QED
  BY <1>0, <1>5, <1>7, <1>8, <1>9, <1>10, <1>11 DEF MailboxOK, ac, rr

\* A tracked or untracked command enters an empty mailbox; a tracked one takes
\* a slot of the ring.
LEMMA QueueKeeps ==
  ASSUME NEW old, NEW rs, NEW pg \in 0..MaxPage, NEW a, NEW d, NEW n, NEW off,
         MailboxOK(old, rs, pg, a, d, n, off), old.id = 0, n < MaxCommand,
         NEW cmd \in Commands, cmd.id = n + 1, ~cmd.delivered, cmd.owner \in Owners,
         NEW slot \in Slots, NEW tracked \in BOOLEAN
  PROVE  MailboxOK(cmd,
                   IF tracked
                   THEN [rs EXCEPT ![slot] = [owner |-> cmd.owner, id |-> n + 1, page |-> pg,
                                              status |-> "QUEUED"]]
                   ELSE rs,
                   pg, a, d, n + 1, off)
<1> DEFINE new == [owner |-> cmd.owner, id |-> n + 1, page |-> pg, status |-> "QUEUED"]
<1>1. /\ rs \in [Slots -> Receipts] /\ off \in [Ids -> Nat]
      /\ a \in Nat /\ d \in Nat /\ n \in 0..MaxCommand
      /\ a <= d /\ d <= n
      /\ \A id \in Ids : off[id] <= 1 /\ (id > n => off[id] = 0)
      /\ \A i, j \in Slots : rs[i].id # 0 /\ rs[i].id = rs[j].id => i = j
      /\ \A i \in Slots : rs[i].id \in 0..n
  BY DEF MailboxOK, Receipts
<1>2. n + 1 \in Ids /\ off[n + 1] = 0
  BY <1>1 DEF Ids
<1>3. ASSUME NEW i \in Slots, rs[i].id # 0
      PROVE  /\ rs[i].status # "QUEUED" /\ rs[i].status # "DELIVERED" /\ rs[i].status \notin InFlight
             /\ off[rs[i].id] = 0 <=> rs[i].status \in Withdrawn \union {"QUEUED"}
  BY <1>3 DEF MailboxOK, InFlight
<1>4. /\ n + 1 \in 0..MaxCommand /\ d <= n + 1 /\ cmd.id <= n + 1 /\ a < cmd.id
      /\ d < cmd.id /\ off[cmd.id] = 0 /\ cmd.id # 0
      /\ \A id \in Ids : off[id] <= 1 /\ (id > n + 1 => off[id] = 0)
  BY <1>1, <1>2 DEF Ids
<1>5. CASE ~tracked
  <2>1. \A i \in Slots : rs[i].id <= n + 1 /\ rs[i].id # cmd.id
    BY <1>1
  <2>2. ASSUME NEW i \in Slots, rs[i].id # 0
        PROVE  /\ rs[i].status = "QUEUED"    <=> cmd.id = rs[i].id /\ ~cmd.delivered
               /\ rs[i].status = "DELIVERED" <=> cmd.id = rs[i].id /\ cmd.delivered
               /\ rs[i].status \in InFlight => rs[i].page = pg /\ rs[i].owner = cmd.owner
               /\ off[rs[i].id] = 0 <=> rs[i].status \in Withdrawn \union {"QUEUED"}
    BY <1>3, <2>1, <2>2
  <2>3. MailboxOK(cmd, rs, pg, a, d, n + 1, off)
    BY <1>1, <1>2, <1>4, <2>1, <2>2 DEF MailboxOK
  <2> QED
    BY <1>5, <2>3
<1>6. CASE tracked
  <2> DEFINE qs == [rs EXCEPT ![slot] = new]
  <2>1. new \in Receipts
    BY <1>1 DEF Receipts, Statuses, InFlight
  <2>2. qs \in [Slots -> Receipts] /\ qs[slot] = new
        /\ \A i \in Slots : i # slot => qs[i] = rs[i]
    BY <1>1, <2>1
  <2>3. new.id = n + 1 /\ new.status = "QUEUED" /\ new.page = pg /\ new.owner = cmd.owner
    OBVIOUS
  <2> HIDE DEF qs, new
  <2>4. \A i \in Slots :
          /\ qs[i].id <= n + 1
          /\ \A j \in Slots : qs[i].id # 0 /\ qs[i].id = qs[j].id => i = j
    BY <1>1, <2>2, <2>3
  <2>5. ASSUME NEW i \in Slots, qs[i].id # 0
        PROVE  /\ qs[i].status = "QUEUED"    <=> cmd.id = qs[i].id /\ ~cmd.delivered
               /\ qs[i].status = "DELIVERED" <=> cmd.id = qs[i].id /\ cmd.delivered
               /\ qs[i].status \in InFlight => qs[i].page = pg /\ qs[i].owner = cmd.owner
               /\ off[qs[i].id] = 0 <=> qs[i].status \in Withdrawn \union {"QUEUED"}
    <3>1. CASE i = slot
      BY <1>2, <2>2, <2>3, <3>1
    <3>2. CASE i # slot
      BY <1>1, <1>3, <2>2, <2>5, <3>2
    <3> QED
      BY <3>1, <3>2
  <2>6. MailboxOK(cmd, qs, pg, a, d, n + 1, off)
    BY <1>1, <1>4, <2>2, <2>4, <2>5 DEF MailboxOK
  <2> QED
    BY <1>6, <2>6 DEF qs, new
<1> QED
  BY <1>5, <1>6

\* The response that carries the command is its first.
LEMMA DeliverKeeps ==
  ASSUME NEW cmd, NEW rs, NEW pg, NEW a, NEW d, NEW n, NEW off,
         MailboxOK(cmd, rs, pg, a, d, n, off), cmd.id # 0, ~cmd.delivered
  PROVE  MailboxOK([cmd EXCEPT !.delivered = TRUE],
                   [i \in Slots |-> IF rs[i].id = cmd.id
                                    THEN [rs[i] EXCEPT !.status = "DELIVERED"] ELSE rs[i]],
                   pg, a, cmd.id, n, [off EXCEPT ![cmd.id] = @ + 1])
<1> DEFINE given == [cmd EXCEPT !.delivered = TRUE]
           ds   == [i \in Slots |-> IF rs[i].id = cmd.id
                                    THEN [rs[i] EXCEPT !.status = "DELIVERED"] ELSE rs[i]]
           of   == [off EXCEPT ![cmd.id] = @ + 1]
<1>1. /\ cmd \in Commands /\ rs \in [Slots -> Receipts] /\ off \in [Ids -> Nat]
      /\ a \in Nat /\ d \in Nat /\ n \in 0..MaxCommand
      /\ a <= d /\ d <= n /\ cmd.id <= n /\ d < cmd.id /\ off[cmd.id] = 0
      /\ \A id \in Ids : off[id] <= 1 /\ (id > n => off[id] = 0)
      /\ \A i, j \in Slots : rs[i].id # 0 /\ rs[i].id = rs[j].id => i = j
      /\ \A i \in Slots : rs[i].id <= n
  BY DEF MailboxOK
<1>2. cmd.id \in Ids /\ cmd.id \in 0..MaxCommand
  BY <1>1 DEF Commands, Ids
<1>3. given \in Commands /\ given.id = cmd.id /\ given.delivered /\ given.owner = cmd.owner
  BY <1>1 DEF Commands
<1>4. of \in [Ids -> Nat] /\ of[cmd.id] = 1 /\ \A id \in Ids : id # cmd.id => of[id] = off[id]
  BY <1>1, <1>2
<1>5. ASSUME NEW i \in Slots
      PROVE  /\ ds[i] \in Receipts /\ ds[i].id = rs[i].id /\ ds[i].page = rs[i].page
             /\ ds[i].owner = rs[i].owner
             /\ ds[i].status = IF rs[i].id = cmd.id THEN "DELIVERED" ELSE rs[i].status
  <2>1. rs[i] \in Receipts
    BY <1>1
  <2>2. CASE rs[i].id = cmd.id
    BY <2>1, <2>2 DEF Receipts, Statuses, InFlight
  <2>3. CASE rs[i].id # cmd.id
    BY <2>1, <2>3
  <2> QED
    BY <2>2, <2>3
<1>6. ds = [i \in Slots |-> ds[i]]
  OBVIOUS
<1> HIDE DEF given, ds, of
<1>7. ds \in [Slots -> Receipts]
  BY <1>5, <1>6
<1>8. ASSUME NEW i \in Slots, ds[i].id # 0
      PROVE  /\ ds[i].status = "QUEUED"    <=> given.id = ds[i].id /\ ~given.delivered
             /\ ds[i].status = "DELIVERED" <=> given.id = ds[i].id /\ given.delivered
             /\ ds[i].status \in InFlight => ds[i].page = pg /\ ds[i].owner = given.owner
             /\ of[ds[i].id] = 0 <=> ds[i].status \in Withdrawn \union {"QUEUED"}
  <2>1. rs[i].id # 0 /\ rs[i].id \in Ids
    BY <1>1, <1>5, <1>8 DEF Receipts, Ids
  <2>2. /\ rs[i].status = "QUEUED"    <=> cmd.id = rs[i].id /\ ~cmd.delivered
        /\ rs[i].status = "DELIVERED" <=> cmd.id = rs[i].id /\ cmd.delivered
        /\ rs[i].status \in InFlight => rs[i].page = pg /\ rs[i].owner = cmd.owner
        /\ off[rs[i].id] = 0 <=> rs[i].status \in Withdrawn \union {"QUEUED"}
    BY <2>1 DEF MailboxOK
  <2>3. CASE rs[i].id = cmd.id
    BY <1>3, <1>4, <1>5, <2>2, <2>3 DEF Withdrawn, InFlight
  <2>4. CASE rs[i].id # cmd.id
    BY <1>3, <1>4, <1>5, <2>1, <2>2, <2>4 DEF InFlight
  <2> QED
    BY <2>3, <2>4
<1>9. \A i \in Slots :
        /\ ds[i].id <= n
        /\ \A j \in Slots : ds[i].id # 0 /\ ds[i].id = ds[j].id => i = j
  BY <1>1, <1>5
<1>10. \A id \in Ids : of[id] <= 1 /\ (id > n => of[id] = 0)
  BY <1>1, <1>2, <1>4
<1>11. a < cmd.id /\ cmd.id \in Nat /\ a <= cmd.id
  BY <1>1, <1>2
<1>12. MailboxOK(given, ds, pg, a, cmd.id, n, of)
  BY <1>1, <1>3, <1>4, <1>7, <1>8, <1>9, <1>10, <1>11 DEF MailboxOK
<1> QED
  BY <1>12 DEF given, ds, of

\* Growing older changes nothing.
LEMMA AgeKeeps ==
  ASSUME NEW cmd, NEW rs, NEW pg, NEW a, NEW d, NEW n, NEW off,
         MailboxOK(cmd, rs, pg, a, d, n, off), NEW age \in 0..CommandCap
  PROVE  MailboxOK([cmd EXCEPT !.age = age], rs, pg, a, d, n, off)
<1> DEFINE old == [cmd EXCEPT !.age = age]
<1>1. old \in Commands /\ old.id = cmd.id /\ old.delivered = cmd.delivered /\ old.owner = cmd.owner
  BY DEF MailboxOK, Commands
<1> HIDE DEF old
<1>2. MailboxOK(old, rs, pg, a, d, n, off)
  BY <1>1 DEF MailboxOK
<1> QED
  BY <1>2 DEF old

-----------------------------------------------------------------------------
(* The order of the ring.                                                   *)

\* Only the order of the ids counts.
LEMMA SortedById ==
  ASSUME NEW rs, NEW rs2, NEW next, RingSorted(rs, next),
         \A i \in Slots : rs2[i].id = rs[i].id
  PROVE  RingSorted(rs2, next)
BY DEF RingSorted

\* finish_command and a report leave the ids where they are.
LEMMA SameIds ==
  ASSUME NEW rs \in [Slots -> Receipts], NEW cmd, NEW undelivered, NEW poll
  PROVE  /\ \A i \in Slots : Finish(rs, cmd, undelivered)[i].id = rs[i].id
         /\ \A i \in Slots : Resolve(rs, poll)[i].id = rs[i].id
<1>1. ASSUME NEW i \in Slots
      PROVE  Finish(rs, cmd, undelivered)[i].id = rs[i].id
  <2>1. rs[i] \in Receipts
    OBVIOUS
  <2>2. CASE cmd.id # 0 /\ rs[i].id = cmd.id
    <3>1. Finish(rs, cmd, undelivered)[i] =
            [rs[i] EXCEPT !.status = IF cmd.delivered THEN "OUTCOME_UNKNOWN" ELSE undelivered]
      BY <2>2 DEF Finish
    <3> QED
      BY <2>1, <3>1 DEF Receipts
  <2>3. CASE ~(cmd.id # 0 /\ rs[i].id = cmd.id)
    BY <2>3 DEF Finish
  <2> QED
    BY <2>2, <2>3
<1>2. ASSUME NEW i \in Slots
      PROVE  Resolve(rs, poll)[i].id = rs[i].id
  <2> DEFINE told == /\ poll.ack # 0 /\ rs[i].id = poll.ack /\ rs[i].page = page
                     /\ rs[i].status \in {"DELIVERED", "OUTCOME_UNKNOWN"}
  <2>1. rs[i] \in Receipts
    OBVIOUS
  <2>2. CASE told
    <3>1. Resolve(rs, poll)[i] =
            [rs[i] EXCEPT !.status = IF poll.outcome = "LEGACY" THEN "OUTCOME_UNKNOWN"
                                     ELSE poll.outcome]
      BY <2>2 DEF Resolve
    <3> QED
      BY <2>1, <3>1 DEF Receipts
  <2>3. CASE ~told
    BY <2>3 DEF Resolve
  <2> QED
    BY <2>2, <2>3
<1> QED
  BY <1>1, <1>2

\* A sweep leaves the ids where they are.
LEMMA LiveIds ==
  ASSUME NEW late, receipts \in [Slots -> Receipts]
  PROVE  \A i \in Slots : LiveReceipts(late)[i].id = receipts[i].id
BY SameIds DEF LiveReceipts

\* The slot after the newest receipt.
LEMMA NextSlotValue ==
  ASSUME nextReceipt \in Slots
  PROVE  /\ NextSlot(TRUE) = IF nextReceipt + 1 = RingSize THEN 0 ELSE nextReceipt + 1
         /\ NextSlot(FALSE) = nextReceipt
         /\ NextSlot(TRUE) \in Slots
<1> DEFINE after == IF nextReceipt + 1 = RingSize THEN 0 ELSE nextReceipt + 1
<1>1. nextReceipt + 1 \in Nat /\ nextReceipt + 1 <= RingSize
  BY DEF Slots
<1>2. (nextReceipt + 1) % RingSize = after
  <2>1. CASE nextReceipt + 1 = RingSize
    BY <2>1
  <2>2. CASE nextReceipt + 1 < RingSize
    BY <1>1, <2>2
  <2> QED
    BY <1>1, <2>1, <2>2
<1>3. NextSlot(TRUE) = (nextReceipt + 1) % RingSize /\ NextSlot(FALSE) = nextReceipt
  BY DEF NextSlot
<1>4. after \in Slots
  BY <1>1 DEF Slots
<1> HIDE DEF after
<1>5. NextSlot(TRUE) = after /\ NextSlot(FALSE) = nextReceipt
  BY <1>2, <1>3, Zenon
<1> QED
  BY <1>4, <1>5, Zenon DEF after

\* The newest receipt overwrites the oldest.
LEMMA AppendSorted ==
  ASSUME NEW rs \in [Slots -> Receipts], NEW next \in Slots, RingSorted(rs, next),
         NEW n \in Nat, \A i \in Slots : rs[i].id <= n,
         NEW new \in Receipts, new.id = n + 1
  PROVE  RingSorted([rs EXCEPT ![next] = new],
                    IF next + 1 = RingSize THEN 0 ELSE next + 1)
<1> DEFINE qs == [rs EXCEPT ![next] = new]
<1>1. qs[next] = new /\ \A i \in Slots : i # next => qs[i] = rs[i]
  OBVIOUS
<1>2. \A i \in Slots : i \in Nat /\ i < RingSize /\ rs[i].id \in Nat
  BY DEF Slots, Receipts
<1> HIDE DEF qs
<1>3. \A i \in Slots : rs[i].id <= n + 1
  BY <1>2
<1> QED
  <2>1. CASE next + 1 = RingSize
    BY <1>1, <1>2, <1>3, <2>1 DEF RingSorted
  <2>2. CASE next + 1 # RingSize
    BY <1>1, <1>2, <1>3, <2>2 DEF RingSorted
  <2> QED
    BY <2>1, <2>2

-----------------------------------------------------------------------------
(* The operations keep the invariant.                                       *)

\* The service starts with an empty mailbox and ring.
LEMMA InitIInv == Init => IInv
<1> SUFFICES ASSUME Init PROVE IInv
  OBVIOUS
<1>1. /\ NoCommand \in Commands /\ NoCommand.id = 0
      /\ NoReceipt \in Receipts /\ NoReceipt.id = 0
  BY DEF NoCommand, NoReceipt, Commands, Receipts, CommandCap, Statuses
<1>2. receipts \in [Slots -> Receipts] /\ \A i \in Slots : receipts[i].id = 0
  BY <1>1 DEF Init
<1>3. offers \in [Ids -> Nat] /\ \A id \in Ids : offers[id] = 0
  BY DEF Init
<1>4. DOMAIN leases = {}
  BY DEF Init, NoLeases
<1>5. TypeOK
  <2>1. 0 \in Slots /\ 0 \in 0..SampleCap
    BY DEF Slots, SampleCap
  <2>2. enabled \in BOOLEAN /\ sampled \in BOOLEAN /\ actions \in BOOLEAN
    BY DEF Init
  <2>3. /\ page \in 0..MaxPage /\ generation \in 0..MaxGeneration
        /\ sequence \in 0..MaxSequence /\ nextCommand \in 0..MaxCommand
        /\ lastAck \in 0..MaxCommand /\ lastDelivery \in 0..MaxCommand
    BY DEF Init
  <2>4. screen \in Screens /\ released \subseteq Owners
    BY DEF Init
  <2>5. sampleAge \in 0..SampleCap /\ nextReceipt \in Slots /\ command \in Commands
    BY <1>1, <2>1 DEF Init
  <2>6. \A t \in DOMAIN leases : leases[t] \in Leases
    BY <1>4
  <2> QED
    BY <1>2, <1>3, <1>4, <2>2, <2>3, <2>4, <2>5, <2>6 DEF TypeOK
<1>6. MailboxOK(command, receipts, page, lastAck, lastDelivery, nextCommand, offers)
  BY <1>1, <1>2, <1>3 DEF Init, MailboxOK
<1>7. RingSorted(receipts, nextReceipt)
  <2>1. \A i, j \in Slots : receipts[i].id <= receipts[j].id
    BY <1>2
  <2> QED
    BY <2>1, Zenon DEF RingSorted
<1>8. CommandIsCurrent /\ ReleasedOwnsNothing
  BY <1>1, <1>4 DEF Init, CommandIsCurrent, ReleasedOwnsNothing
<1> QED
  BY <1>4, <1>5, <1>6, <1>7, <1>8 DEF IInv

\* What a sweep leaves of the command and the leases.
LEMMA SweepLeaves ==
  ASSUME NEW late \in Lags, IInv
  PROVE  /\ LiveCommand(late) = command \/ LiveCommand(late) = NoCommand
         /\ NoCommand.id = 0 /\ NoCommand \in Commands
         /\ DOMAIN LiveLeases(late) \subseteq DOMAIN leases
         /\ \A t \in DOMAIN LiveLeases(late) :
              LiveLeases(late)[t] = leases[t] /\ leases[t] \in Leases
BY DEF LiveCommand, LiveLeases, IInv, TypeOK, NoCommand, Commands, CommandCap

\* Calls that only sweep, and then do something to the leases.
LEMMA SweepStep ==
  ASSUME NEW late \in Lags, IInv,
         command' = LiveCommand(late), receipts' = LiveReceipts(late),
         UNCHANGED <<enabled, page, sampleVars, nextCommand, nextReceipt, lastAck,
                     lastDelivery, historyVars>>,
         \A t \in DOMAIN leases' :
           /\ t \in Targets /\ leases'[t] \in Leases /\ leases'[t].owner \notin released
           /\ sampled /\ leases'[t].screen = screen
  PROVE  IInv'
<1>1. MailboxOK(command', receipts', page', lastAck', lastDelivery', nextCommand', offers')
  BY SweepKeeps DEF IInv, historyVars
<1>2. RingSorted(receipts', nextReceipt')
  <2>1. \A i \in Slots : LiveReceipts(late)[i].id = receipts[i].id
    BY LiveIds DEF IInv, TypeOK
  <2> QED
    BY <2>1, SortedById DEF IInv
<1>3. TypeOK'
  BY <1>1 DEF IInv, TypeOK, MailboxOK, sampleVars, historyVars
<1>4. (command' = command \/ command' = NoCommand) /\ NoCommand.id = 0
  BY SweepLeaves
<1>5. CommandIsCurrent'
  BY <1>4 DEF IInv, CommandIsCurrent, sampleVars
<1>6. ReleasedOwnsNothing'
  BY <1>4 DEF IInv, ReleasedOwnsNothing, historyVars
<1>7. \A t \in DOMAIN leases' : sampled' /\ leases'[t].screen = screen'
  BY DEF sampleVars
<1> QED
  BY <1>1, <1>2, <1>3, <1>5, <1>6, <1>7 DEF IInv

\* A command that is withdrawn, whatever page follows.
LEMMA WithdrawStep ==
  ASSUME IInv, NEW undelivered \in Withdrawn,
         command' = NoCommand, receipts' = Finish(receipts, command, undelivered),
         UNCHANGED <<generation, nextCommand, nextReceipt, offers>>,
         enabled' \in BOOLEAN, page' \in 0..MaxPage, sampled' \in BOOLEAN,
         sampleAge' \in 0..SampleCap, sequence' \in 0..MaxSequence, screen' \in Screens,
         actions' \in BOOLEAN, released' \subseteq Owners,
         lastAck' \in Nat, lastDelivery' \in Nat,
         lastAck' <= lastDelivery', lastDelivery' <= lastDelivery,
         \A t \in DOMAIN leases' :
           /\ t \in Targets /\ leases'[t] \in Leases /\ leases'[t].owner \notin released'
           /\ sampled' /\ leases'[t].screen = screen'
  PROVE  IInv'
<1>1. MailboxOK(command', receipts', page', lastAck', lastDelivery', nextCommand', offers')
  <2>1. /\ MailboxOK(command, receipts, page, lastAck, lastDelivery, nextCommand, offers)
        /\ lastDelivery' <= nextCommand
    BY DEF IInv, MailboxOK
  <2> QED
    BY <2>1, FinishKeeps
<1>2. RingSorted(receipts', nextReceipt')
  <2>1. \A i \in Slots : Finish(receipts, command, undelivered)[i].id = receipts[i].id
    BY SameIds DEF IInv, TypeOK
  <2> QED
    BY <2>1, SortedById DEF IInv
<1>3. lastAck' \in 0..MaxCommand /\ lastDelivery' \in 0..MaxCommand
  BY DEF IInv, TypeOK
<1>4. TypeOK'
  BY <1>1, <1>3 DEF IInv, TypeOK, MailboxOK
<1>5. command'.id = 0
  BY DEF NoCommand
<1>6. CommandIsCurrent' /\ ReleasedOwnsNothing'
  BY <1>5 DEF CommandIsCurrent, ReleasedOwnsNothing
<1> QED
  BY <1>1, <1>2, <1>4, <1>6 DEF IInv

\* A refused submission, a status query and a presentation call keep the
\* invariant: they sweep, and touch leases of a live owner only.
LEMMA HostCallsKeep ==
  ASSUME IInv, NEW o \in Owners, NEW late \in Lags,
         \/ \E gen \in 1..MaxGeneration : QueueRefused(o, gen, late)
         \/ Status(o, late)
         \/ \E target \in Targets, duration \in Durations : Hide(o, target, duration, late)
         \/ \E target \in Targets : Show(o, target, late)
  PROVE  IInv'
<1> DEFINE kept == LiveLeases(late)
<1>1. /\ command' = LiveCommand(late) /\ receipts' = LiveReceipts(late)
      /\ UNCHANGED <<enabled, page, sampleVars, nextCommand, nextReceipt, lastAck,
                     lastDelivery, historyVars>>
  BY DEF QueueRefused, Status, Hide, Show
<1>2. \A t \in DOMAIN kept :
        /\ t \in Targets /\ kept[t] \in Leases /\ kept[t].owner \notin released
        /\ sampled /\ kept[t].screen = screen
  BY SweepLeaves DEF IInv, TypeOK, ReleasedOwnsNothing
<1>3. CASE (\E gen \in 1..MaxGeneration : QueueRefused(o, gen, late)) \/ Status(o, late)
  <2>1. leases' = kept
    BY <1>3 DEF QueueRefused, Status
  <2> QED
    BY <1>1, <1>2, <2>1, SweepStep
<1>4. ASSUME NEW target \in Targets, Show(o, target, late) PROVE IInv'
  <2>1. leases' = [t \in {u \in DOMAIN kept : ~(u = target /\ kept[u].owner = o)} |-> kept[t]]
    BY <1>4 DEF Show
  <2>2. \A t \in DOMAIN leases' : t \in DOMAIN kept /\ leases'[t] = kept[t]
    BY <2>1
  <2> QED
    BY <1>1, <1>2, <2>2, SweepStep
<1>5. ASSUME NEW target \in Targets, NEW duration \in Durations, Hide(o, target, duration, late)
      PROVE  IInv'
  <2> DEFINE held  == target \in DOMAIN kept
             taken == [owner |-> o, screen |-> IF held THEN kept[target].screen ELSE screen,
                       age |-> late, duration |-> duration]
  <2>1. taken \in Leases /\ taken.owner \notin released /\ sampled /\ taken.screen = screen
    <3>1. o \notin released /\ sampled /\ screen \in Screens
      BY <1>5 DEF Hide, Fresh, IInv, TypeOK
    <3>2. (IF held THEN kept[target].screen ELSE screen) = screen
      BY <1>2
    <3>3. late \in 0..LeaseCap
      BY DEF Lags, LeaseCap
    <3> QED
      BY <3>1, <3>2, <3>3 DEF Leases
  <2>2. \/ leases' = kept
        \/ leases' = [t \in DOMAIN kept \union {target} |-> IF t = target THEN taken ELSE kept[t]]
    BY <1>5 DEF Hide
  <2> HIDE DEF taken, kept
  <2>3. \A t \in DOMAIN leases' :
          \/ t \in DOMAIN kept /\ leases'[t] = kept[t]
          \/ t = target /\ leases'[t] = taken
    BY <2>2
  <2>4. \A t \in DOMAIN leases' :
          /\ t \in Targets /\ leases'[t] \in Leases /\ leases'[t].owner \notin released
          /\ sampled /\ leases'[t].screen = screen
    BY <1>2, <2>1, <2>3
  <2> QED
    BY <1>1, <2>4, SweepStep
<1> QED
  BY <1>3, <1>4, <1>5

\* An accepted submission keeps it: the mailbox was empty, the screen current.
LEMMA QueueStep ==
  ASSUME IInv, NEW o \in Owners, NEW gen \in 1..MaxGeneration, NEW late \in Lags,
         NEW tracked \in BOOLEAN, Queue(o, gen, late, tracked)
  PROVE  IInv'
<1> DEFINE rs  == LiveReceipts(late)
           new == [owner |-> o, id |-> nextCommand + 1, page |-> page, status |-> "QUEUED"]
<1>1. /\ nextCommand \in 0..MaxCommand /\ nextCommand < MaxCommand
      /\ generation \in 0..MaxGeneration /\ screen \in Screens /\ page \in 0..MaxPage
      /\ nextReceipt \in Slots /\ released \subseteq Owners
      /\ receipts \in [Slots -> Receipts]
  BY DEF IInv, TypeOK, Queue
<1>2. late \in 0..CommandCap
  BY DEF Lags, CommandCap
<1>3. /\ command' \in Commands /\ command'.id = nextCommand + 1 /\ ~command'.delivered
      /\ command'.owner = o /\ command'.generation = gen /\ command'.screen = screen
  BY <1>1, <1>2 DEF Queue, Commands
<1>4. MailboxOK(LiveCommand(late), rs, page, lastAck, lastDelivery, nextCommand, offers)
  BY SweepKeeps DEF IInv
<1>5. receipts' = IF tracked THEN [rs EXCEPT ![nextReceipt] = new] ELSE rs
  BY DEF Queue
<1>6. LiveCommand(late).id = 0
  BY DEF Queue
<1>7. MailboxOK(command', receipts', page, lastAck, lastDelivery, nextCommand + 1, offers)
  BY <1>1, <1>3, <1>4, <1>5, <1>6, QueueKeeps
<1>8. /\ nextCommand' = nextCommand + 1 /\ nextReceipt' = NextSlot(tracked)
      /\ leases' = LiveLeases(late)
      /\ UNCHANGED <<enabled, page, sampleVars, lastAck, lastDelivery, historyVars>>
  BY DEF Queue
<1>9. MailboxOK(command', receipts', page', lastAck', lastDelivery', nextCommand', offers')
  BY <1>7, <1>8 DEF historyVars
<1>10. nextReceipt' \in Slots /\ RingSorted(receipts', nextReceipt')
  <2>1. RingSorted(rs, nextReceipt)
    BY <1>1, LiveIds, SortedById DEF IInv
  <2>2. rs \in [Slots -> Receipts] /\ \A i \in Slots : rs[i].id <= nextCommand
    BY <1>4 DEF MailboxOK
  <2>3. CASE tracked
    <3>1. new \in Receipts /\ new.id = nextCommand + 1
      BY <1>1 DEF Receipts, Statuses, InFlight
    <3>2. /\ nextReceipt' = (IF nextReceipt + 1 = RingSize THEN 0 ELSE nextReceipt + 1)
          /\ nextReceipt' \in Slots
      <4>1. tracked = TRUE
        BY <2>3
      <4> QED
        BY <1>1, <1>8, <4>1, NextSlotValue, Zenon
    <3>3. receipts' = [rs EXCEPT ![nextReceipt] = new]
      BY <1>5, <2>3
    <3> HIDE DEF rs, new
    <3>4. nextCommand \in Nat
      BY <1>1
    <3>5. RingSorted([rs EXCEPT ![nextReceipt] = new],
                     IF nextReceipt + 1 = RingSize THEN 0 ELSE nextReceipt + 1)
      BY <1>1, <2>1, <2>2, <3>1, <3>4, AppendSorted
    <3> QED
      BY <3>2, <3>3, <3>5, Zenon
  <2>4. CASE ~tracked
    <3>1. nextReceipt' = nextReceipt
      <4>1. tracked = FALSE
        BY <2>4
      <4> QED
        BY <1>1, <1>8, <4>1, NextSlotValue, Zenon
    <3> QED
      BY <1>1, <1>5, <2>1, <2>4, <3>1
  <2> QED
    BY <2>3, <2>4
<1>11. TypeOK'
  <2>1. DOMAIN leases' \subseteq Targets /\ \A t \in DOMAIN leases' : leases'[t] \in Leases
    BY <1>8, SweepLeaves DEF IInv, TypeOK
  <2>2. nextCommand' \in 0..MaxCommand
    BY <1>1, <1>8
  <2>3. receipts' \in [Slots -> Receipts]
    BY <1>7 DEF MailboxOK
  <2> QED
    BY <1>3, <1>8, <1>10, <2>1, <2>2, <2>3 DEF IInv, TypeOK, sampleVars, historyVars
<1>12. CommandIsCurrent'
  BY <1>3, <1>8 DEF CommandIsCurrent, Queue, MayQueue, Fresh, Eligible, sampleVars
<1>13. ReleasedOwnsNothing' /\ \A t \in DOMAIN leases' : sampled' /\ leases'[t].screen = screen'
  <2>1. o \notin released
    BY DEF Queue, MayQueue
  <2> QED
    BY <1>3, <1>8, <2>1, SweepLeaves DEF IInv, ReleasedOwnsNothing, sampleVars, historyVars
<1> QED
  BY <1>9, <1>10, <1>11, <1>12, <1>13 DEF IInv

\* Teardown keeps it: what the owner had is gone before it counts as released.
LEMMA ReleaseStep ==
  ASSUME IInv, NEW o \in Owners, Release(o)
  PROVE  IInv'
<1>1. /\ released' = released \union {o}
      /\ leases' = [t \in {u \in DOMAIN leases : leases[u].owner # o} |-> leases[t]]
      /\ UNCHANGED <<enabled, page, sampleVars, nextCommand, nextReceipt, lastAck,
                     lastDelivery, offers>>
  BY DEF Release
<1>2. \A t \in DOMAIN leases' :
        /\ t \in Targets /\ leases'[t] \in Leases /\ leases'[t].owner \notin released'
        /\ sampled' /\ leases'[t].screen = screen'
  BY <1>1 DEF IInv, TypeOK, ReleasedOwnsNothing, sampleVars
<1>3. /\ enabled' \in BOOLEAN /\ page' \in 0..MaxPage /\ sampled' \in BOOLEAN
      /\ sampleAge' \in 0..SampleCap /\ sequence' \in 0..MaxSequence /\ screen' \in Screens
      /\ actions' \in BOOLEAN /\ released' \subseteq Owners
      /\ lastAck' \in Nat /\ lastDelivery' \in Nat
      /\ lastAck' <= lastDelivery' /\ lastDelivery' <= lastDelivery
  BY <1>1 DEF IInv, TypeOK, MailboxOK, sampleVars
<1>4. CASE command.owner = o
  <2>1. "CANCELLED" \in Withdrawn
    BY DEF Withdrawn
  <2>2. command' = NoCommand /\ receipts' = Finish(receipts, command, "CANCELLED")
    BY <1>4 DEF Release
  <2> QED
    BY <1>1, <1>2, <1>3, <2>1, <2>2, WithdrawStep DEF sampleVars
<1>5. CASE command.owner # o
  <2>1. UNCHANGED <<command, receipts>>
    BY <1>5 DEF Release
  <2>2. MailboxOK(command', receipts', page', lastAck', lastDelivery', nextCommand', offers')
    BY <1>1, <2>1 DEF IInv
  <2>3. RingSorted(receipts', nextReceipt')
    BY <1>1, <2>1 DEF IInv
  <2>4. TypeOK'
    BY <1>1, <1>2, <1>3, <2>1 DEF IInv, TypeOK, sampleVars
  <2>5. CommandIsCurrent'
    BY <1>1, <2>1 DEF IInv, CommandIsCurrent, sampleVars
  <2>6. ReleasedOwnsNothing'
    BY <1>1, <1>2, <1>5, <2>1 DEF IInv, ReleasedOwnsNothing
  <2> QED
    BY <1>2, <2>2, <2>3, <2>4, <2>5, <2>6 DEF IInv
<1> QED
  BY <1>4, <1>5

\* The mailbox after a poll's sweep and report, and after its new generation.
LEMMA PollMailbox ==
  ASSUME IInv, NEW poll \in Polls, NEW late \in Lags, Accepted(poll),
         NEW acked, acked = IF poll.ack > lastAck THEN poll.ack ELSE lastAck
  PROVE  /\ MailboxOK(ReportedCommand(poll, late), ReportedReceipts(poll, late), page, acked,
                      lastDelivery, nextCommand, offers)
         /\ MailboxOK(CurrentCommand(poll, late), CurrentReceipts(poll, late), page, acked,
                      lastDelivery, nextCommand, offers)
         /\ \A i \in Slots : /\ ReportedReceipts(poll, late)[i].id = receipts[i].id
                             /\ CurrentReceipts(poll, late)[i].id = receipts[i].id
         /\ ReportedCommand(poll, late) \in {command, NoCommand}
         /\ acked \in 0..MaxCommand
<1> DEFINE cmd == ReportedCommand(poll, late)
           rs  == ReportedReceipts(poll, late)
<1>1. MailboxOK(LiveCommand(late), LiveReceipts(late), page, lastAck, lastDelivery,
                nextCommand, offers)
  BY SweepKeeps DEF IInv
<1>2. WellFormed(poll) /\ poll.ack <= lastDelivery
  BY DEF Accepted
<1>3. MailboxOK(cmd, rs, page, acked, lastDelivery, nextCommand, offers)
  BY <1>1, <1>2, ReportKeeps DEF ReportedCommand, ReportedReceipts
<1>4. cmd \in {command, NoCommand}
  BY SweepLeaves DEF ReportedCommand, Acknowledge
<1>5. LiveReceipts(late) \in [Slots -> Receipts] /\ receipts \in [Slots -> Receipts]
      /\ rs \in [Slots -> Receipts]
  BY <1>1, <1>3 DEF MailboxOK, IInv
<1>6. \A i \in Slots : rs[i].id = receipts[i].id
  <2>1. \A i \in Slots : LiveReceipts(late)[i].id = receipts[i].id
    BY <1>5, LiveIds
  <2>2. \A i \in Slots : Resolve(LiveReceipts(late), poll)[i].id = LiveReceipts(late)[i].id
    BY <1>5, SameIds
  <2> QED
    BY <2>1, <2>2 DEF ReportedReceipts
<1>7. acked \in 0..MaxCommand
  BY DEF IInv, TypeOK, Polls
<1> HIDE DEF cmd, rs
<1>8. MailboxOK(NoCommand, Finish(rs, cmd, "CANCELLED"), page, acked, lastDelivery,
                nextCommand, offers)
  <2>1. "CANCELLED" \in Withdrawn
    BY DEF Withdrawn
  <2>2. acked \in Nat /\ lastDelivery \in Nat /\ acked <= lastDelivery
        /\ lastDelivery <= nextCommand
    BY <1>3 DEF MailboxOK
  <2> QED
    BY <1>3, <2>1, <2>2, FinishKeeps
<1>9. CASE NewGeneration(poll)
  <2>1. /\ CurrentCommand(poll, late) = NoCommand
        /\ CurrentReceipts(poll, late) = Finish(rs, cmd, "CANCELLED")
    BY <1>9 DEF CurrentCommand, CurrentReceipts, rs, cmd
  <2>2. \A i \in Slots : CurrentReceipts(poll, late)[i].id = receipts[i].id
    <3>1. \A i \in Slots : Finish(rs, cmd, "CANCELLED")[i].id = rs[i].id
      BY <1>5, SameIds
    <3> QED
      BY <1>6, <2>1, <3>1
  <2> QED
    BY <1>3, <1>4, <1>6, <1>7, <1>8, <2>1, <2>2 DEF cmd, rs
<1>10. CASE ~NewGeneration(poll)
  <2>1. CurrentCommand(poll, late) = cmd /\ CurrentReceipts(poll, late) = rs
    BY <1>10 DEF CurrentCommand, CurrentReceipts, rs, cmd
  <2> QED
    BY <1>3, <1>4, <1>6, <1>7, <2>1 DEF cmd, rs
<1> QED
  BY <1>9, <1>10

\* What an answered or unanswered poll makes of everything but the delivery.
LEMMA SampleFacts ==
  ASSUME IInv, NEW poll \in Polls, NEW late \in Lags, Sample(poll, late)
  PROVE  /\ enabled' \in BOOLEAN /\ sampled' \in BOOLEAN /\ actions' \in BOOLEAN
         /\ page' \in 0..MaxPage /\ generation' \in 0..MaxGeneration
         /\ sampleAge' \in 0..SampleCap /\ sequence' \in 0..MaxSequence
         /\ screen' \in Screens /\ nextCommand' \in 0..MaxCommand
         /\ nextReceipt' \in Slots /\ released' \subseteq Owners
         /\ page' = page /\ nextCommand' = nextCommand /\ nextReceipt' = nextReceipt
         /\ \A t \in DOMAIN leases' :
              /\ t \in Targets /\ leases'[t] \in Leases /\ leases'[t].owner \notin released'
              /\ sampled' /\ leases'[t].screen = screen'
         /\ CurrentCommand(poll, late).id # 0 =>
              /\ CurrentCommand(poll, late) = command
              /\ enabled' /\ sampled' /\ command.generation = generation'
              /\ command.screen = screen' /\ screen' \in ContinueScreens /\ actions'
              /\ command.owner \notin released'
<1>1. poll.screen \in Screens /\ poll.sequence \in 1..MaxSequence /\ poll.actions \in BOOLEAN
  BY DEF Polls
<1>2. /\ generation' = IF NewGeneration(poll) THEN generation + 1 ELSE generation
      /\ NewGeneration(poll) => generation < MaxGeneration
      /\ sampled' = TRUE /\ sampleAge' = late /\ screen' = poll.screen
      /\ actions' = Offered(poll) /\ sequence' = poll.sequence
      /\ UNCHANGED <<enabled, page, nextCommand, nextReceipt, released>>
      /\ leases' = IF NewScreen(poll) THEN NoLeases ELSE LiveLeases(late)
      /\ enabled
  BY DEF Sample, Accepted
<1>3. generation' \in 0..MaxGeneration
  BY <1>2 DEF IInv, TypeOK
<1>4. late \in 0..SampleCap
  BY DEF Lags, SampleCap
<1>5. sequence' \in 0..MaxSequence /\ screen' \in Screens
  BY <1>1, <1>2
<1>6. /\ enabled' \in BOOLEAN /\ page' \in 0..MaxPage /\ nextCommand' \in 0..MaxCommand
      /\ nextReceipt' \in Slots /\ released' \subseteq Owners
  BY <1>2 DEF IInv, TypeOK
<1>7. sampled' \in BOOLEAN /\ actions' \in BOOLEAN
  BY <1>1, <1>2 DEF Offered
<1>8. ASSUME NEW t \in DOMAIN leases'
      PROVE  /\ t \in Targets /\ leases'[t] \in Leases /\ leases'[t].owner \notin released'
             /\ sampled' /\ leases'[t].screen = screen'
  <2>1. ~NewScreen(poll) /\ leases' = LiveLeases(late)
    BY <1>2, <1>8 DEF NoLeases
  <2>2. t \in DOMAIN leases /\ leases'[t] = leases[t] /\ leases[t] \in Leases
    BY <1>8, <2>1, SweepLeaves
  <2> QED
    BY <1>2, <2>1, <2>2 DEF IInv, TypeOK, ReleasedOwnsNothing, NewScreen
<1>9. ASSUME CurrentCommand(poll, late).id # 0
      PROVE  /\ CurrentCommand(poll, late) = command
             /\ enabled' /\ sampled' /\ command.generation = generation'
             /\ command.screen = screen' /\ screen' \in ContinueScreens /\ actions'
             /\ command.owner \notin released'
  <2>1. NoCommand.id = 0
    BY DEF NoCommand
  <2>2. ~NewGeneration(poll) /\ CurrentCommand(poll, late) = command
    <3>1. ReportedCommand(poll, late) \in {command, NoCommand}
      BY SweepLeaves DEF ReportedCommand, Acknowledge
    <3> QED
      BY <1>9, <2>1, <3>1 DEF CurrentCommand
  <2>3. /\ command.generation = generation /\ command.screen = screen
        /\ screen \in ContinueScreens /\ actions /\ command.owner \notin released
    BY <1>9, <2>2 DEF IInv, CommandIsCurrent, ReleasedOwnsNothing
  <2>4. screen' = screen /\ actions' = actions /\ generation' = generation
    BY <1>2, <2>2 DEF NewGeneration
  <2> QED
    BY <1>2, <2>2, <2>3, <2>4
<1> QED
  BY <1>2, <1>3, <1>4, <1>5, <1>6, <1>7, <1>8, <1>9

\* A poll that is answered, or whose answer cannot be built, keeps it.
LEMMA PollStep ==
  ASSUME IInv, NEW poll \in Polls, NEW late \in Lags,
         Exchange(poll, late) \/ ExchangeUnanswered(poll, late)
  PROVE  IInv'
<1> DEFINE cmd == CurrentCommand(poll, late)
           rs  == CurrentReceipts(poll, late)
<1>1. Sample(poll, late) /\ Accepted(poll)
  BY DEF Exchange, ExchangeUnanswered, Sample
<1>2. lastAck' = IF poll.ack > lastAck THEN poll.ack ELSE lastAck
  BY <1>1 DEF Sample
<1>3. /\ MailboxOK(cmd, rs, page, lastAck', lastDelivery, nextCommand, offers)
      /\ \A i \in Slots : rs[i].id = receipts[i].id
      /\ lastAck' \in 0..MaxCommand
  BY <1>1, <1>2, PollMailbox
<1>4. /\ page' = page /\ nextCommand' = nextCommand /\ nextReceipt' = nextReceipt
  BY <1>1, SampleFacts
<1>5. cmd.id # 0 =>
        /\ cmd = command
        /\ enabled' /\ sampled' /\ command.generation = generation'
        /\ command.screen = screen' /\ screen' \in ContinueScreens /\ actions'
        /\ command.owner \notin released'
  BY <1>1, SampleFacts
<1>6. /\ MailboxOK(command', receipts', page', lastAck', lastDelivery', nextCommand', offers')
      /\ \A i \in Slots : receipts'[i].id = receipts[i].id
      /\ lastDelivery' \in 0..MaxCommand
      /\ command'.id # 0 =>
           /\ cmd.id # 0 /\ command'.owner = cmd.owner
           /\ command'.generation = cmd.generation /\ command'.screen = cmd.screen
  <2>1. lastDelivery \in 0..MaxCommand
    BY DEF IInv, TypeOK
  <2>2. CASE UNCHANGED <<lastDelivery, offers>> /\ command' = cmd /\ receipts' = rs
    BY <1>3, <1>4, <2>1, <2>2
  <2>3. CASE /\ Exchange(poll, late) /\ Deliverable(cmd, generation')
    <3> DEFINE given == [cmd EXCEPT !.delivered = TRUE]
               ds   == [i \in Slots |-> IF rs[i].id = cmd.id
                                        THEN [rs[i] EXCEPT !.status = "DELIVERED"] ELSE rs[i]]
    <3>1. /\ command' = given /\ lastDelivery' = cmd.id /\ receipts' = ds
          /\ offers' = [offers EXCEPT ![cmd.id] = @ + 1]
      BY <2>3 DEF Exchange
    <3>2. cmd.id # 0 /\ ~cmd.delivered
      BY <2>3 DEF Deliverable
    <3> HIDE DEF cmd, rs
    <3>3. MailboxOK(given, ds, page, lastAck', cmd.id, nextCommand,
                    [offers EXCEPT ![cmd.id] = @ + 1])
      BY <1>3, <3>2, DeliverKeeps
    <3>4. cmd \in Commands /\ rs \in [Slots -> Receipts]
      BY <1>3 DEF MailboxOK
    <3>5. \A i \in Slots : ds[i].id = rs[i].id
      <4>1. \A i \in Slots : rs[i] \in Receipts
        BY <3>4
      <4> QED
        BY <4>1 DEF Receipts
    <3>6. given.owner = cmd.owner /\ given.generation = cmd.generation /\ given.screen = cmd.screen
          /\ cmd.id \in 0..MaxCommand
      BY <3>4 DEF Commands
    <3> HIDE DEF given, ds
    <3>7. MailboxOK(command', receipts', page', lastAck', lastDelivery', nextCommand', offers')
      BY <1>4, <3>1, <3>3
    <3> QED
      BY <1>3, <3>1, <3>2, <3>5, <3>6, <3>7
  <2>4. \/ UNCHANGED <<lastDelivery, offers>> /\ command' = cmd /\ receipts' = rs
        \/ Exchange(poll, late) /\ Deliverable(cmd, generation')
    BY DEF Exchange, ExchangeUnanswered
  <2> QED
    BY <2>2, <2>3, <2>4
<1> HIDE DEF cmd, rs
<1>7. RingSorted(receipts', nextReceipt')
  BY <1>4, <1>6, SortedById DEF IInv
<1>8. TypeOK'
  <2>1. command' \in Commands /\ receipts' \in [Slots -> Receipts] /\ offers' \in [Ids -> Nat]
    BY <1>6 DEF MailboxOK
  <2> QED
    BY <1>1, <1>3, <1>6, <2>1, SampleFacts DEF TypeOK
<1>9. CommandIsCurrent'
  BY <1>5, <1>6 DEF CommandIsCurrent
<1>10. ReleasedOwnsNothing' /\ \A t \in DOMAIN leases' : sampled' /\ leases'[t].screen = screen'
  BY <1>1, <1>5, <1>6, SampleFacts DEF ReleasedOwnsNothing
<1> QED
  BY <1>6, <1>7, <1>8, <1>9, <1>10 DEF IInv

\* A poll that finds no generation left keeps it.
LEMMA ExhaustedStep ==
  ASSUME IInv, NEW poll \in Polls, NEW late \in Lags, ExchangeExhausted(poll, late)
  PROVE  IInv'
<1>1. /\ Accepted(poll)
      /\ command' = ReportedCommand(poll, late) /\ receipts' = ReportedReceipts(poll, late)
      /\ lastAck' = IF poll.ack > lastAck THEN poll.ack ELSE lastAck
      /\ leases' = IF NewScreen(poll) THEN NoLeases ELSE LiveLeases(late)
      /\ UNCHANGED <<enabled, page, sampleVars, nextCommand, nextReceipt, lastDelivery,
                     historyVars>>
  BY DEF ExchangeExhausted
<1>2. /\ MailboxOK(command', receipts', page, lastAck', lastDelivery, nextCommand, offers)
      /\ \A i \in Slots : receipts'[i].id = receipts[i].id
      /\ command' \in {command, NoCommand}
      /\ lastAck' \in 0..MaxCommand
  BY <1>1, PollMailbox
<1>3. MailboxOK(command', receipts', page', lastAck', lastDelivery', nextCommand', offers')
  BY <1>1, <1>2 DEF historyVars
<1>4. RingSorted(receipts', nextReceipt')
  BY <1>1, <1>2, SortedById DEF IInv
<1>5. \A t \in DOMAIN leases' :
        /\ t \in Targets /\ leases'[t] \in Leases /\ leases'[t].owner \notin released'
        /\ sampled' /\ leases'[t].screen = screen'
  <2>1. \A t \in DOMAIN leases' : t \in DOMAIN leases /\ leases'[t] = leases[t]
    BY <1>1, SweepLeaves DEF NoLeases
  <2> QED
    BY <1>1, <2>1 DEF IInv, TypeOK, ReleasedOwnsNothing, sampleVars, historyVars
<1>6. TypeOK'
  <2>1. command' \in Commands /\ receipts' \in [Slots -> Receipts]
    BY <1>2 DEF MailboxOK
  <2> QED
    BY <1>1, <1>2, <1>5, <2>1 DEF IInv, TypeOK, sampleVars, historyVars
<1>7. NoCommand.id = 0
  BY DEF NoCommand
<1>8. CommandIsCurrent'
  BY <1>1, <1>2, <1>7 DEF IInv, CommandIsCurrent, sampleVars
<1>9. ReleasedOwnsNothing'
  BY <1>1, <1>2, <1>5, <1>7 DEF IInv, ReleasedOwnsNothing, historyVars
<1> QED
  BY <1>3, <1>4, <1>5, <1>6, <1>8, <1>9 DEF IInv

\* Enabling keeps it.
LEMMA EnableStep == IInv /\ Enable => IInv'
<1> SUFFICES ASSUME IInv, Enable PROVE IInv'
  OBVIOUS
<1>1. /\ enabled' = TRUE
      /\ UNCHANGED <<page, sampleVars, lastAck, lastDelivery, commandVars, leases, historyVars>>
  BY DEF Enable
<1> QED
  BY <1>1 DEF IInv, TypeOK, MailboxOK, RingSorted, CommandIsCurrent, ReleasedOwnsNothing,
              sampleVars, commandVars, historyVars

\* Disabling keeps it: it withdraws the command and drops the sample.
LEMMA DisableStep == IInv /\ Disable => IInv'
<1> SUFFICES ASSUME IInv, Disable PROVE IInv'
  OBVIOUS
<1>1. "CANCELLED" \in Withdrawn /\ 0 \in 0..SampleCap /\ DOMAIN leases' = {}
  BY DEF Withdrawn, SampleCap, Disable, NoLeases
<1>2. /\ command' = NoCommand /\ receipts' = Finish(receipts, command, "CANCELLED")
      /\ UNCHANGED <<generation, nextCommand, nextReceipt, offers, released, page, sequence,
                     screen, actions, lastAck, lastDelivery>>
  BY DEF Disable, historyVars
<1>3. sampleAge' = 0 /\ enabled' \in BOOLEAN /\ sampled' \in BOOLEAN
  BY DEF Disable
<1>4. /\ page' \in 0..MaxPage /\ sequence' \in 0..MaxSequence /\ screen' \in Screens
      /\ actions' \in BOOLEAN /\ released' \subseteq Owners
      /\ lastAck' \in Nat /\ lastDelivery' \in Nat
      /\ lastAck' <= lastDelivery' /\ lastDelivery' <= lastDelivery
  BY <1>2 DEF IInv, TypeOK, MailboxOK
<1> QED
  BY <1>1, <1>2, <1>3, <1>4, WithdrawStep

\* A page load keeps it: receipts of the old page are settled or cancelled.
LEMMA OpenPageStep == IInv /\ OpenPage => IInv'
<1> SUFFICES ASSUME IInv, OpenPage PROVE IInv'
  OBVIOUS
<1>1. "CANCELLED" \in Withdrawn /\ 0 \in 0..SampleCap /\ DOMAIN leases' = {}
  BY DEF Withdrawn, SampleCap, OpenPage, NoLeases
<1>2. /\ command' = NoCommand /\ receipts' = Finish(receipts, command, "CANCELLED")
      /\ UNCHANGED <<generation, nextCommand, nextReceipt, offers, released, enabled>>
  BY DEF OpenPage, historyVars
<1>3. sampleAge' = 0 /\ sequence' = 0 /\ screen' = NoScreen /\ lastAck' = 0 /\ lastDelivery' = 0
      /\ page' = page + 1 /\ page < MaxPage
  BY DEF OpenPage
<1>4. sampled' \in BOOLEAN /\ actions' \in BOOLEAN
  BY DEF OpenPage
<1>5. enabled' \in BOOLEAN /\ released' \subseteq Owners
  BY <1>2 DEF IInv, TypeOK
<1>6. /\ page' \in 0..MaxPage /\ sequence' \in 0..MaxSequence /\ screen' \in Screens
      /\ lastAck' \in Nat /\ lastDelivery' \in Nat
      /\ lastAck' <= lastDelivery' /\ lastDelivery' <= lastDelivery
  BY <1>3 DEF IInv, TypeOK
<1> QED
  BY <1>1, <1>2, <1>3, <1>4, <1>5, <1>6, WithdrawStep

\* The clock keeps it: ages saturate within their types.
LEMMA TickStep == IInv /\ Tick => IInv'
<1> SUFFICES ASSUME IInv, Tick PROVE IInv'
  OBVIOUS
<1>1. /\ sampleAge' = IF sampled THEN Older(sampleAge, SampleCap) ELSE 0
      /\ command' = IF command.id = 0 THEN command
                    ELSE [command EXCEPT !.age = Older(@, CommandCap)]
      /\ leases' = [t \in DOMAIN leases |-> [leases[t] EXCEPT !.age = Older(@, LeaseCap)]]
      /\ UNCHANGED <<enabled, page, generation, sampled, sequence, screen, actions,
                     nextCommand, lastAck, lastDelivery, receipts, nextReceipt, historyVars>>
  BY DEF Tick
<1>2. /\ command \in Commands /\ sampleAge \in 0..SampleCap
      /\ SampleCap \in Nat /\ CommandCap \in Nat /\ LeaseCap \in Nat
      /\ \A t \in DOMAIN leases : leases[t] \in Leases
  BY DEF IInv, TypeOK, SampleCap, CommandCap, LeaseCap
<1>3. ASSUME NEW cap \in Nat, NEW age \in 0..cap
      PROVE  Older(age, cap) \in 0..cap
  BY DEF Older
<1>4. sampleAge' \in 0..SampleCap
  <2>1. Older(sampleAge, SampleCap) \in 0..SampleCap /\ 0 \in 0..SampleCap
    BY <1>2, <1>3
  <2> QED
    BY <1>1, <2>1, Zenon
<1>5. MailboxOK(command', receipts, page, lastAck, lastDelivery, nextCommand, offers)
  <2>1. Older(command.age, CommandCap) \in 0..CommandCap
    BY <1>2, <1>3 DEF Commands
  <2> DEFINE aged == [command EXCEPT !.age = Older(command.age, CommandCap)]
  <2>2. MailboxOK(aged, receipts, page, lastAck, lastDelivery, nextCommand, offers)
    BY <2>1, AgeKeeps DEF IInv
  <2>3. command' = command \/ command' = aged
    BY <1>1
  <2> HIDE DEF aged
  <2> QED
    BY <2>2, <2>3 DEF IInv
<1>6. /\ command'.id = command.id /\ command'.owner = command.owner
      /\ command'.generation = command.generation /\ command'.screen = command.screen
  BY <1>1, <1>2 DEF Commands
<1>7. ASSUME NEW t \in DOMAIN leases'
      PROVE  /\ t \in DOMAIN leases /\ leases'[t] \in Leases
             /\ leases'[t].owner = leases[t].owner /\ leases'[t].screen = leases[t].screen
  <2>1. t \in DOMAIN leases /\ leases'[t] = [leases[t] EXCEPT !.age = Older(leases[t].age, LeaseCap)]
    BY <1>1, <1>7
  <2>2. leases[t] \in Leases
    BY <1>2, <2>1
  <2>3. Older(leases[t].age, LeaseCap) \in 0..LeaseCap
    BY <1>2, <1>3, <2>2 DEF Leases
  <2> QED
    BY <2>1, <2>2, <2>3 DEF Leases
<1>8. MailboxOK(command', receipts', page', lastAck', lastDelivery', nextCommand', offers')
  BY <1>1, <1>5 DEF historyVars
<1>9. RingSorted(receipts', nextReceipt')
  BY <1>1 DEF IInv
<1>10. TypeOK'
  <2>1. command' \in Commands
    BY <1>5 DEF MailboxOK
  <2> QED
    BY <1>1, <1>4, <1>7, <2>1 DEF IInv, TypeOK, historyVars
<1>11. CommandIsCurrent'
  BY <1>1, <1>6 DEF IInv, CommandIsCurrent
<1>12. ReleasedOwnsNothing' /\ \A t \in DOMAIN leases' : sampled' /\ leases'[t].screen = screen'
  BY <1>1, <1>6, <1>7 DEF IInv, ReleasedOwnsNothing, historyVars
<1> QED
  BY <1>8, <1>9, <1>10, <1>11, <1>12 DEF IInv

\* Every step keeps the invariant.
LEMMA NextIInv == IInv /\ [Next]_vars => IInv'
<1> SUFFICES ASSUME IInv, [Next]_vars PROVE IInv'
  OBVIOUS
<1>1. ASSUME NEW o \in Owners, Guest(o) PROVE IInv'
  <2>1. PICK late \in Lags :
          \/ \E gen \in 1..MaxGeneration :
               \/ \E tracked \in BOOLEAN : Queue(o, gen, late, tracked)
               \/ QueueRefused(o, gen, late)
          \/ Status(o, late)
          \/ \E target \in Targets :
               \/ \E duration \in Durations : Hide(o, target, duration, late)
               \/ Show(o, target, late)
    BY <1>1 DEF Guest
  <2>2. ASSUME NEW gen \in 1..MaxGeneration, NEW tracked \in BOOLEAN,
               Queue(o, gen, late, tracked)
        PROVE  IInv'
    BY <2>2, QueueStep
  <2>3. ASSUME NEW gen \in 1..MaxGeneration, QueueRefused(o, gen, late) PROVE IInv'
    BY <2>3, HostCallsKeep
  <2>4. CASE Status(o, late)
    BY <2>4, HostCallsKeep
  <2>5. ASSUME NEW target \in Targets, NEW duration \in Durations,
               Hide(o, target, duration, late)
        PROVE  IInv'
    BY <2>5, HostCallsKeep
  <2>6. ASSUME NEW target \in Targets, Show(o, target, late) PROVE IInv'
    BY <2>6, HostCallsKeep
  <2> QED
    BY <2>1, <2>2, <2>3, <2>4, <2>5, <2>6
<1>2. ASSUME NEW o \in Owners, Release(o) PROVE IInv'
  BY <1>2, ReleaseStep
<1>3. CASE Poll
  BY <1>3, PollStep, ExhaustedStep DEF Poll
<1>4. CASE UNCHANGED vars
  BY <1>4 DEF vars, IInv, TypeOK, MailboxOK, RingSorted, CommandIsCurrent,
              ReleasedOwnsNothing, sampleVars, commandVars, historyVars
<1> QED
  BY <1>1, <1>2, <1>3, <1>4, EnableStep, DisableStep, OpenPageStep, TickStep DEF Next

\* The invariant holds in every reachable state.
LEMMA AlwaysIInv == Spec => []IInv
BY InitIInv, NextIInv, PTL DEF Spec

-----------------------------------------------------------------------------
(* What mods may rely on.                                                   *)

\* The variables keep their types, whatever the widths of the counters.
THEOREM TypeCorrect == Spec => []TypeOK
<1>1. IInv => TypeOK
  BY DEF IInv
<1> QED
  BY <1>1, AlwaysIInv, PTL

\* Receipts say QUEUED and DELIVERED exactly of the command in the mailbox.
THEOREM ReceiptsFollow == Spec => []ReceiptsFollowCommand
<1>1. IInv => ReceiptsFollowCommand
  BY DEF IInv, MailboxOK, ReceiptsFollowCommand
<1> QED
  BY <1>1, AlwaysIInv, PTL

\* EXPIRED and CANCELLED are given to commands that no response ever carried,
\* and to no others.
THEOREM WithdrawnSafe == Spec => []WithdrawnMeansNeverOffered
<1>1. IInv => WithdrawnMeansNeverOffered
  BY DEF IInv, MailboxOK, WithdrawnMeansNeverOffered
<1> QED
  BY <1>1, AlwaysIInv, PTL

\* No command is in two responses.
THEOREM AtMostOnce == Spec => []OfferedAtMostOnce
<1>1. IInv => OfferedAtMostOnce
  BY DEF IInv, MailboxOK, OfferedAtMostOnce
<1> QED
  BY <1>1, AlwaysIInv, PTL

\* The command in the mailbox belongs to the screen and generation reported.
THEOREM CommandCurrent == Spec => []CommandIsCurrent
<1>1. IInv => CommandIsCurrent
  BY DEF IInv
<1> QED
  BY <1>1, AlwaysIInv, PTL

\* A torn-down owner has nothing in the service.
THEOREM ReleasedClean == Spec => []ReleasedOwnsNothing
<1>1. IInv => ReleasedOwnsNothing
  BY DEF IInv
<1> QED
  BY <1>1, AlwaysIInv, PTL

\* The ring overwrites its oldest receipt.
THEOREM OldestEvicted == Spec => []EvictsOldest
<1>1. IInv => EvictsOldest
  <2> SUFFICES ASSUME IInv, NEW i \in Slots
               PROVE  receipts[nextReceipt].id <= receipts[i].id
    BY DEF EvictsOldest
  <2>1. /\ nextReceipt \in Slots /\ RingSorted(receipts, nextReceipt)
        /\ \A j \in Slots : receipts[j].id \in Nat
    BY DEF IInv, TypeOK, Receipts
  <2>2. nextReceipt \in Nat /\ i \in Nat
    BY <2>1 DEF Slots
  <2>3. CASE i < nextReceipt
    BY <2>1, <2>2, <2>3 DEF RingSorted
  <2>4. CASE i = nextReceipt
    BY <2>1, <2>4
  <2>5. CASE nextReceipt < i
    BY <2>1, <2>2, <2>5 DEF RingSorted
  <2> QED
    BY <2>2, <2>3, <2>4, <2>5
<1> QED
  BY <1>1, AlwaysIInv, PTL

\* A page is handed a command at most once, and never a withdrawn one.
THEOREM OfferedOnce == Spec => []OfferedOnceOrWithdrawn
  BY AtMostOnce, WithdrawnSafe, PTL DEF OfferedOnceOrWithdrawn

\* The ring holds the newest receipts, in step with the mailbox.
THEOREM ReceiptsKept == Spec => []ReceiptsAreKept
  BY ReceiptsFollow, OldestEvicted, PTL DEF ReceiptsAreKept

-----------------------------------------------------------------------------
(* The leases fit into their table.                                         *)

LeasesFit ==
  IsFiniteSet(DOMAIN leases) /\ Cardinality(DOMAIN leases) <= LeaseSlots

\* An operation that only takes leases away leaves a table that fits.
LEMMA FewerLeasesFit ==
  ASSUME LeasesFit, NEW left, DOMAIN left \subseteq DOMAIN leases
  PROVE  IsFiniteSet(DOMAIN left) /\ Cardinality(DOMAIN left) <= LeaseSlots
<1>1. /\ IsFiniteSet(DOMAIN left)
      /\ Cardinality(DOMAIN left) <= Cardinality(DOMAIN leases)
  BY FS_Subset DEF LeasesFit
<1>2. Cardinality(DOMAIN left) \in Nat /\ Cardinality(DOMAIN leases) \in Nat
  BY <1>1, FS_CardinalityType DEF LeasesFit
<1> QED
  BY <1>1, <1>2 DEF LeasesFit

\* A call that hides an element takes a slot only when one is free.
LEMMA HideFits ==
  ASSUME LeasesFit, NEW o \in Owners, NEW target \in Targets, NEW duration \in Durations,
         NEW late \in Lags, Hide(o, target, duration, late)
  PROVE  LeasesFit'
<1> DEFINE live == LiveLeases(late)
<1>1. IsFiniteSet(DOMAIN live) /\ Cardinality(DOMAIN live) <= LeaseSlots
  BY FewerLeasesFit DEF LiveLeases
<1>2. Cardinality(DOMAIN live) \in Nat
  BY <1>1, FS_CardinalityType
<1>3. \/ leases' = live
      \/ /\ DOMAIN leases' = DOMAIN live \union {target}
         /\ target \in DOMAIN live \/ ~(Cardinality(DOMAIN live) >= LeaseSlots)
  BY DEF Hide
<1> HIDE DEF live
<1>4. CASE leases' = live
  BY <1>1, <1>4 DEF LeasesFit
<1>5. CASE DOMAIN leases' = DOMAIN live \union {target} /\ target \in DOMAIN live
  <2>1. DOMAIN leases' = DOMAIN live
    BY <1>5
  <2> QED
    BY <1>1, <2>1 DEF LeasesFit
<1>6. CASE /\ DOMAIN leases' = DOMAIN live \union {target}
           /\ target \notin DOMAIN live /\ ~(Cardinality(DOMAIN live) >= LeaseSlots)
  <2>1. /\ IsFiniteSet(DOMAIN live \union {target})
        /\ Cardinality(DOMAIN live \union {target}) = Cardinality(DOMAIN live) + 1
    BY <1>1, <1>6, FS_AddElement
  <2> QED
    BY <1>2, <1>6, <2>1 DEF LeasesFit
<1> QED
  BY <1>3, <1>4, <1>5, <1>6

\* No operation but Hide adds a lease.
LEMMA NextLeasesFit == LeasesFit /\ [Next]_vars => LeasesFit'
<1> SUFFICES ASSUME LeasesFit, [Next]_vars PROVE LeasesFit'
  OBVIOUS
<1>1. ASSUME DOMAIN leases' \subseteq DOMAIN leases PROVE LeasesFit'
  BY <1>1, FewerLeasesFit DEF LeasesFit
<1>2. ASSUME NEW o \in Owners, Guest(o) PROVE LeasesFit'
  <2>1. PICK late \in Lags :
          \/ \E gen \in 1..MaxGeneration :
               \/ \E tracked \in BOOLEAN : Queue(o, gen, late, tracked)
               \/ QueueRefused(o, gen, late)
          \/ Status(o, late)
          \/ \E target \in Targets :
               \/ \E duration \in Durations : Hide(o, target, duration, late)
               \/ Show(o, target, late)
    BY <1>2 DEF Guest
  <2>2. \/ DOMAIN leases' \subseteq DOMAIN leases
        \/ \E target \in Targets, duration \in Durations : Hide(o, target, duration, late)
    BY <2>1 DEF Queue, QueueRefused, Status, Show, LiveLeases
  <2> QED
    BY <1>1, <2>2, HideFits
<1>3. ASSUME NEW o \in Owners, Release(o) PROVE LeasesFit'
  BY <1>1, <1>3 DEF Release
<1>4. CASE Poll
  <2>1. DOMAIN leases' \subseteq DOMAIN leases
    BY <1>4 DEF Poll, Exchange, ExchangeUnanswered, ExchangeExhausted, Sample, LiveLeases, NoLeases
  <2> QED
    BY <1>1, <2>1
<1>5. CASE Enable \/ Disable \/ OpenPage \/ Tick \/ UNCHANGED vars
  BY <1>1, <1>5 DEF Enable, Disable, OpenPage, Tick, NoLeases, vars
<1> QED
  BY <1>2, <1>3, <1>4, <1>5 DEF Next

\* A lease is only held for the screen that is shown, and there are never more of
\* them than slots.
THEOREM LeasesCurrent == Spec => []LeasesAreForThisScreen
<1>1. Init => LeasesFit
  <2>1. Init => DOMAIN leases = {}
    BY DEF Init, NoLeases
  <2> QED
    BY <2>1, FS_EmptySet DEF LeasesFit
<1>2. Spec => []LeasesFit
  BY <1>1, NextLeasesFit, PTL DEF Spec
<1>3. IInv /\ LeasesFit => LeasesAreForThisScreen
  BY DEF IInv, LeasesFit, LeasesAreForThisScreen
<1> QED
  BY <1>2, <1>3, AlwaysIInv, PTL

-----------------------------------------------------------------------------
(* What may happen to the receipts.                                         *)

\* The receipts move on in their slots: a definitive status stays, and a report
\* settles only receipts of page pg.
Settles(rs, rs2, pg) ==
  \A i \in Slots :
    /\ rs2[i].id = rs[i].id /\ rs2[i].page = rs[i].page
    /\ rs[i].status \in Definitive => rs2[i].status = rs[i].status
    /\ rs2[i].status \in Reported /\ rs[i].status \notin Reported => rs[i].page = pg

LEMMA SettlesTwice ==
  ASSUME NEW rs, NEW rs2, NEW rs3, NEW pg, Settles(rs, rs2, pg), Settles(rs2, rs3, pg)
  PROVE  Settles(rs, rs3, pg)
  BY DEF Settles, Definitive

\* The receipt of the command in the mailbox has no definitive status yet.
LEMMA MailboxOpen ==
  ASSUME NEW cmd, NEW rs, NEW pg, NEW a, NEW d, NEW n, NEW off,
         MailboxOK(cmd, rs, pg, a, d, n, off), cmd.id # 0,
         NEW i \in Slots, rs[i].id = cmd.id
  PROVE  rs[i].status = IF cmd.delivered THEN "DELIVERED" ELSE "QUEUED"
  BY DEF MailboxOK, Commands

\* finish_command settles only the receipt of its command, and never as reported.
LEMMA FinishSettles ==
  ASSUME NEW cmd, NEW rs, NEW pg, NEW a, NEW d, NEW n, NEW off,
         MailboxOK(cmd, rs, pg, a, d, n, off), NEW undelivered \in Withdrawn, NEW pg2
  PROVE  Settles(rs, Finish(rs, cmd, undelivered), pg2)
<1> DEFINE fs == Finish(rs, cmd, undelivered)
<1> SUFFICES ASSUME NEW i \in Slots
             PROVE  /\ fs[i].id = rs[i].id /\ fs[i].page = rs[i].page
                    /\ rs[i].status \in Definitive => fs[i].status = rs[i].status
                    /\ fs[i].status \in Reported => rs[i].status \in Reported
  BY DEF Settles
<1>1. rs[i] \in Receipts
  BY DEF MailboxOK
<1>2. CASE cmd.id # 0 /\ rs[i].id = cmd.id
  <2>1. fs[i] = [rs[i] EXCEPT !.status = IF cmd.delivered THEN "OUTCOME_UNKNOWN"
                                         ELSE undelivered]
    BY <1>2 DEF Finish
  <2>2. rs[i].status \in InFlight
    BY <1>2, MailboxOpen DEF InFlight
  <2> HIDE DEF fs
  <2>3. /\ fs[i].id = rs[i].id /\ fs[i].page = rs[i].page
        /\ fs[i].status \in Withdrawn \union {"OUTCOME_UNKNOWN"}
    BY <1>1, <2>1 DEF Receipts
  <2> QED
    BY <2>2, <2>3 DEF InFlight, Withdrawn, Definitive, Reported
<1>3. CASE ~(cmd.id # 0 /\ rs[i].id = cmd.id)
  <2>1. fs[i] = rs[i]
    BY <1>3 DEF Finish
  <2> QED
    BY <2>1
<1> QED
  BY <1>2, <1>3

\* A report settles receipts that are still open, of the page that is open.
LEMMA ResolveSettles ==
  ASSUME NEW rs \in [Slots -> Receipts], NEW poll
  PROVE  Settles(rs, Resolve(rs, poll), page)
<1> DEFINE rr == Resolve(rs, poll)
<1> SUFFICES ASSUME NEW i \in Slots
             PROVE  /\ rr[i].id = rs[i].id /\ rr[i].page = rs[i].page
                    /\ rs[i].status \in Definitive => rr[i].status = rs[i].status
                    /\ rr[i].status \in Reported /\ rs[i].status \notin Reported
                         => rs[i].page = page
  BY DEF Settles
<1>1. rs[i] \in Receipts
  OBVIOUS
<1>2. CASE /\ poll.ack # 0 /\ rs[i].id = poll.ack /\ rs[i].page = page
           /\ rs[i].status \in {"DELIVERED", "OUTCOME_UNKNOWN"}
  <2>1. rr[i] = [rs[i] EXCEPT !.status = IF poll.outcome = "LEGACY" THEN "OUTCOME_UNKNOWN"
                                         ELSE poll.outcome]
    BY <1>2 DEF Resolve
  <2> HIDE DEF rr
  <2>2. rr[i].id = rs[i].id /\ rr[i].page = rs[i].page
    BY <1>1, <2>1 DEF Receipts
  <2> QED
    BY <1>2, <2>2 DEF Definitive, Reported, Withdrawn
<1>3. CASE ~(/\ poll.ack # 0 /\ rs[i].id = poll.ack /\ rs[i].page = page
             /\ rs[i].status \in {"DELIVERED", "OUTCOME_UNKNOWN"})
  <2>1. rr[i] = rs[i]
    BY <1>3 DEF Resolve
  <2> QED
    BY <2>1
<1> QED
  BY <1>2, <1>3

\* Delivery touches only the receipt of the command it hands out.
LEMMA DeliverSettles ==
  ASSUME NEW cmd, NEW rs, NEW pg, NEW a, NEW d, NEW n, NEW off,
         MailboxOK(cmd, rs, pg, a, d, n, off), cmd.id # 0, ~cmd.delivered, NEW pg2
  PROVE  Settles(rs, [i \in Slots |-> IF rs[i].id = cmd.id
                                      THEN [rs[i] EXCEPT !.status = "DELIVERED"] ELSE rs[i]], pg2)
<1> DEFINE ds == [i \in Slots |-> IF rs[i].id = cmd.id
                                  THEN [rs[i] EXCEPT !.status = "DELIVERED"] ELSE rs[i]]
<1> SUFFICES ASSUME NEW i \in Slots
             PROVE  /\ ds[i].id = rs[i].id /\ ds[i].page = rs[i].page
                    /\ rs[i].status \in Definitive => ds[i].status = rs[i].status
                    /\ ds[i].status \in Reported => rs[i].status \in Reported
  BY DEF Settles
<1>1. rs[i] \in Receipts
  BY DEF MailboxOK
<1>2. CASE rs[i].id = cmd.id
  <2>1. rs[i].status = "QUEUED"
    BY <1>2, MailboxOpen
  <2>2. ds[i] = [rs[i] EXCEPT !.status = "DELIVERED"]
    BY <1>2
  <2> HIDE DEF ds
  <2>3. ds[i].id = rs[i].id /\ ds[i].page = rs[i].page /\ ds[i].status = "DELIVERED"
    BY <1>1, <2>2 DEF Receipts
  <2> QED
    BY <2>1, <2>3 DEF Definitive, Reported, Withdrawn
<1>3. CASE rs[i].id # cmd.id
  BY <1>3
<1> QED
  BY <1>2, <1>3

\* The sweep of expired commands, and a poll, move the receipts on.
LEMMA SweepSettles ==
  ASSUME IInv, NEW late \in Lags
  PROVE  Settles(receipts, LiveReceipts(late), page)
<1>1. "EXPIRED" \in Withdrawn
  BY DEF Withdrawn
<1>2. Settles(receipts, Finish(receipts, command, "EXPIRED"), page)
  BY <1>1, FinishSettles DEF IInv
<1>3. Settles(receipts, receipts, page)
  BY DEF Settles
<1> QED
  BY <1>2, <1>3 DEF LiveReceipts

LEMMA PollSettles ==
  ASSUME IInv, NEW poll \in Polls, NEW late \in Lags, Accepted(poll)
  PROVE  /\ Settles(receipts, ReportedReceipts(poll, late), page)
         /\ Settles(receipts, CurrentReceipts(poll, late), page)
<1> DEFINE acked == IF poll.ack > lastAck THEN poll.ack ELSE lastAck
<1>1. MailboxOK(ReportedCommand(poll, late), ReportedReceipts(poll, late), page, acked,
                lastDelivery, nextCommand, offers)
  BY PollMailbox
<1>2. LiveReceipts(late) \in [Slots -> Receipts]
  BY SweepKeeps DEF IInv, MailboxOK
<1>3. Settles(receipts, ReportedReceipts(poll, late), page)
  BY <1>2, SweepSettles, ResolveSettles, SettlesTwice DEF ReportedReceipts
<1> HIDE DEF acked
<1>4. Settles(ReportedReceipts(poll, late),
              Finish(ReportedReceipts(poll, late), ReportedCommand(poll, late), "CANCELLED"), page)
  <2>1. "CANCELLED" \in Withdrawn
    BY DEF Withdrawn
  <2> QED
    BY <1>1, <2>1, FinishSettles
<1>5. Settles(receipts, CurrentReceipts(poll, late), page)
  <2>1. Settles(receipts, Finish(ReportedReceipts(poll, late), ReportedCommand(poll, late),
                                 "CANCELLED"), page)
    BY <1>3, <1>4, SettlesTwice
  <2> QED
    BY <1>3, <2>1 DEF CurrentReceipts
<1> QED
  BY <1>3, <1>5

\* What one step may do to the receipts.
SettleStep ==
  \A i \in Slots :
    /\ receipts[i].status \in Definitive /\ receipts'[i].id = receipts[i].id
         => receipts'[i].status = receipts[i].status
    /\ receipts'[i].status \in Reported /\ receipts[i].status \notin Reported
         => receipts'[i].page = page

LEMMA SettlesIsStep ==
  ASSUME Settles(receipts, receipts', page)
  PROVE  SettleStep
  BY DEF Settles, SettleStep

\* A new command takes a slot with an id no receipt had.
LEMMA QueueSettles ==
  ASSUME IInv, NEW o \in Owners, NEW gen \in 1..MaxGeneration, NEW late \in Lags,
         NEW tracked \in BOOLEAN, Queue(o, gen, late, tracked)
  PROVE  SettleStep
<1>1. Settles(receipts, LiveReceipts(late), page)
  BY SweepSettles
<1>2. CASE ~tracked
  BY <1>1, <1>2, SettlesIsStep DEF Queue
<1>3. CASE tracked
  <2>1. LiveReceipts(late) \in [Slots -> Receipts] /\ nextReceipt \in Slots
    BY SweepKeeps DEF IInv, MailboxOK, TypeOK
  <2>2. \A i \in Slots : i # nextReceipt => receipts'[i] = LiveReceipts(late)[i]
    BY <1>3, <2>1 DEF Queue
  <2>3. receipts'[nextReceipt].id = nextCommand + 1 /\ receipts'[nextReceipt].status = "QUEUED"
    BY <1>3, <2>1 DEF Queue
  <2>4. receipts[nextReceipt].id <= nextCommand /\ receipts[nextReceipt].id \in Nat
        /\ nextCommand \in Nat
    BY <2>1 DEF IInv, MailboxOK, TypeOK, Receipts
  <2>5. receipts'[nextReceipt].id # receipts[nextReceipt].id
        /\ receipts'[nextReceipt].status \notin Reported
    BY <2>3, <2>4 DEF Reported
  <2> QED
    BY <1>1, <2>2, <2>5 DEF Settles, SettleStep
<1> QED
  BY <1>2, <1>3

\* Every step moves the receipts on.
LEMMA NextSettles == IInv /\ [Next]_vars => SettleStep
<1> SUFFICES ASSUME IInv, [Next]_vars PROVE SettleStep
  OBVIOUS
<1>1. Settles(receipts, receipts, page)
  BY DEF Settles
<1>2. Settles(receipts, Finish(receipts, command, "CANCELLED"), page)
  <2>1. "CANCELLED" \in Withdrawn
    BY DEF Withdrawn
  <2> QED
    BY <2>1, FinishSettles DEF IInv
<1>3. ASSUME NEW o \in Owners, Guest(o) PROVE SettleStep
  <2>1. PICK late \in Lags :
          \/ \E gen \in 1..MaxGeneration :
               \/ \E tracked \in BOOLEAN : Queue(o, gen, late, tracked)
               \/ QueueRefused(o, gen, late)
          \/ Status(o, late)
          \/ \E target \in Targets :
               \/ \E duration \in Durations : Hide(o, target, duration, late)
               \/ Show(o, target, late)
    BY <1>3 DEF Guest
  <2>2. \/ receipts' = LiveReceipts(late)
        \/ \E gen \in 1..MaxGeneration, tracked \in BOOLEAN : Queue(o, gen, late, tracked)
    BY <2>1 DEF QueueRefused, Status, Hide, Show
  <2> QED
    BY <2>2, SweepSettles, SettlesIsStep, QueueSettles
<1>4. ASSUME NEW o \in Owners, Release(o) PROVE SettleStep
  BY <1>1, <1>2, <1>4, SettlesIsStep DEF Release
<1>5. CASE Poll
  <2>1. PICK poll \in Polls, late \in Lags :
          /\ Accepted(poll)
          /\ \/ Exchange(poll, late)
             \/ ExchangeUnanswered(poll, late)
             \/ ExchangeExhausted(poll, late)
    BY <1>5 DEF Poll
  <2> DEFINE cmd == CurrentCommand(poll, late)
             rs  == CurrentReceipts(poll, late)
             ds  == [i \in Slots |-> IF rs[i].id = cmd.id
                                     THEN [rs[i] EXCEPT !.status = "DELIVERED"] ELSE rs[i]]
  <2>2. \/ receipts' = ReportedReceipts(poll, late)
        \/ receipts' = rs
        \/ receipts' = ds /\ Deliverable(cmd, generation')
    BY <2>1 DEF Exchange, ExchangeUnanswered, ExchangeExhausted
  <2> HIDE DEF cmd, rs
  <2>3. ASSUME cmd.id # 0, ~cmd.delivered PROVE Settles(receipts, ds, page)
    <3>1. Settles(rs, ds, page)
      BY <2>1, <2>3, PollMailbox, DeliverSettles DEF cmd, rs
    <3> HIDE DEF ds
    <3> QED
      BY <2>1, <3>1, PollSettles, SettlesTwice DEF rs
  <2> HIDE DEF ds
  <2>4. Settles(receipts, receipts', page)
    BY <2>1, <2>2, <2>3, PollSettles DEF rs, Deliverable
  <2> QED
    BY <2>4, SettlesIsStep
<1>6. CASE Enable \/ Disable \/ OpenPage \/ Tick \/ UNCHANGED vars
  BY <1>1, <1>2, <1>6, SettlesIsStep DEF Enable, Disable, OpenPage, Tick, commandVars, vars
<1> QED
  BY <1>3, <1>4, <1>5, <1>6 DEF Next

\* A receipt is settled by a report at most once, and by the page it was offered
\* to, whatever polls are repeated, late or from a page that was replaced.
THEOREM ReportsSettle == Spec => ReportsSettleOnce
<1>1. SettleStep =>
        /\ \A i \in Slots :
             receipts[i].status \in Definitive /\ receipts'[i].id = receipts[i].id
               => receipts'[i].status = receipts[i].status
        /\ \A i \in Slots :
             receipts'[i].status \in Reported /\ receipts[i].status \notin Reported
               => receipts'[i].page = page
  BY DEF SettleStep
<1>2. Spec => [][SettleStep]_vars
  BY AlwaysIInv, NextSettles, PTL DEF Spec
<1> QED
  BY <1>1, <1>2, PTL DEF ReportsSettleOnce, DefinitiveStays, OnlyItsPageReports
-----------------------------------------------------------------------------
(* The channel: what a mod is told is what happened in the renderer.       *)


Fates   == {"none", "returned", "threw"}
Answers == [id : 0..MaxCommand, screen : Screens]
PageStates ==
  [sequence : 0..MaxSequence, acknowledged : 0..MaxCommand, outcome : Reported \union {"NONE"},
   lastId : 0..MaxCommand, screen : Screens \union {Unseen}, ready : BOOLEAN, calm : BOOLEAN,
   continued : BOOLEAN, pending : 0..MaxSequence, undisturbed : BOOLEAN,
   answer : Answers \union {NoAnswer}]

ChannelTypes ==
  /\ shown \in Screens /\ ready \in BOOLEAN
  /\ pages \in [Running -> PageStates] /\ Running \subseteq 1..page
  /\ wire \subseteq Polls
  /\ fate \in [Ids -> Fates]
  /\ queuedOn \in [Ids -> Screens]
  /\ sent \in [1..MaxPage -> Nat]

\* The page has the response that carries the command, and has yet to act on it.
Has(pg, id)    == pg.answer # NoAnswer /\ pg.answer.id = id
Awaits(pg, id) == Has(pg, id) /\ id > pg.lastId
AwaitedIds     == {id \in Ids : \E p \in Running : Awaits(pages[p], id)}

\* The mailbox knows the screen its command was queued for.
QueuedHere == command.id # 0 => queuedOn[command.id] = command.screen

\* A response is the only one that carries its command, and it is for the screen
\* the command was queued for.
AnswersOK ==
  \A p \in Running, id \in Ids :
    Has(pages[p], id) =>
      /\ offers[id] = 1
      /\ pages[p].answer.screen = queuedOn[id] /\ queuedOn[id] \in ContinueScreens
      /\ \A q \in Running : Has(pages[q], id) => p = q
      /\ id > pages[p].lastId => fate[id] = "none"

\* The game has only seen commands that were offered.
FatesOK == \A id \in Ids : fate[id] # "none" => offers[id] = 1

\* What is said of a command is true, and will be: it was offered, and the page
\* that got it has acted.
Told(happened, outcome) ==
  /\ outcome = "DISPATCHED"      => happened = "returned"
  /\ outcome = "DISPATCH_FAILED" => happened = "threw"
  /\ outcome = "SKIPPED"         => happened = "none"
Claim(id, outcome, off, happened, awaited) ==
  outcome \in Reported =>
    id \in Ids /\ off[id] = 1 /\ id \notin awaited /\ Told(happened[id], outcome)

PageClaims    == \A p \in Running :
                   Claim(pages[p].acknowledged, pages[p].outcome, offers, fate, AwaitedIds)
WireClaims    == \A poll \in wire : Claim(poll.ack, poll.outcome, offers, fate, AwaitedIds)
ReceiptClaims == \A i \in Slots :
                   Claim(receipts[i].id, receipts[i].status, offers, fate, AwaitedIds)

\* A page that has sent the event in this visit knows that it has.
SentOK ==
  \A p \in 1..MaxPage :
    /\ sent[p] <= 1
    /\ sent[p] = 1 => p <= page
    /\ sent[p] = 1 /\ p \in Running => pages[p].continued /\ pages[p].screen = shown

ChannelIInv ==
  /\ IInv
  /\ ChannelTypes
  /\ QueuedHere /\ AnswersOK /\ FatesOK
  /\ PageClaims /\ WireClaims /\ ReceiptClaims
  /\ SentOK
-----------------------------------------------------------------------------
(* The steps of the service.                                                *)

\* The statuses that claim something are those that were there, and what a report
\* says of the command it names.
ReportsFrom(rs, rs2, ack, outcome) ==
  \A i \in Slots :
    rs2[i].status \in Reported =>
      \/ rs2[i].id = rs[i].id /\ rs2[i].status = rs[i].status
      \/ rs2[i].id = ack /\ rs2[i].status = outcome

LEMMA ReportsTwice ==
  ASSUME NEW rs, NEW rs2, NEW rs3, NEW ack, NEW outcome,
         ReportsFrom(rs, rs2, ack, outcome), ReportsFrom(rs2, rs3, ack, outcome)
  PROVE  ReportsFrom(rs, rs3, ack, outcome)
  BY DEF ReportsFrom

\* finish_command and a delivery report nothing.
LEMMA FinishReports ==
  ASSUME NEW rs \in [Slots -> Receipts], NEW cmd, NEW undelivered \in Withdrawn,
         NEW ack, NEW outcome
  PROVE  ReportsFrom(rs, Finish(rs, cmd, undelivered), ack, outcome)
<1> DEFINE fs == Finish(rs, cmd, undelivered)
<1> SUFFICES ASSUME NEW i \in Slots, fs[i].status \in Reported
             PROVE  fs[i].id = rs[i].id /\ fs[i].status = rs[i].status
  BY DEF ReportsFrom
<1>1. rs[i] \in Receipts
  OBVIOUS
<1>2. CASE cmd.id # 0 /\ rs[i].id = cmd.id
  <2>1. fs[i] = [rs[i] EXCEPT !.status = IF cmd.delivered THEN "OUTCOME_UNKNOWN"
                                         ELSE undelivered]
    BY <1>2 DEF Finish
  <2> HIDE DEF fs
  <2>2. fs[i].status \in Withdrawn \union {"OUTCOME_UNKNOWN"}
    BY <1>1, <2>1 DEF Receipts
  <2> QED
    BY <2>2 DEF Withdrawn, Reported
<1>3. CASE ~(cmd.id # 0 /\ rs[i].id = cmd.id)
  BY <1>3 DEF Finish
<1> QED
  BY <1>2, <1>3

LEMMA DeliverReports ==
  ASSUME NEW rs \in [Slots -> Receipts], NEW cmd, NEW ack, NEW outcome
  PROVE  ReportsFrom(rs, [i \in Slots |-> IF rs[i].id = cmd.id
                                          THEN [rs[i] EXCEPT !.status = "DELIVERED"] ELSE rs[i]],
                     ack, outcome)
<1> DEFINE ds == [i \in Slots |-> IF rs[i].id = cmd.id
                                  THEN [rs[i] EXCEPT !.status = "DELIVERED"] ELSE rs[i]]
<1> SUFFICES ASSUME NEW i \in Slots, ds[i].status \in Reported
             PROVE  ds[i].id = rs[i].id /\ ds[i].status = rs[i].status
  BY DEF ReportsFrom
<1>1. rs[i] \in Receipts
  OBVIOUS
<1>2. CASE rs[i].id = cmd.id
  <2>1. ds[i] = [rs[i] EXCEPT !.status = "DELIVERED"]
    BY <1>2
  <2> HIDE DEF ds
  <2>2. ds[i].status = "DELIVERED"
    BY <1>1, <2>1 DEF Receipts
  <2> QED
    BY <2>2 DEF Reported
<1>3. CASE rs[i].id # cmd.id
  BY <1>3
<1> QED
  BY <1>2, <1>3

\* A report says what the poll says.
LEMMA ResolveReports ==
  ASSUME NEW rs \in [Slots -> Receipts], NEW poll
  PROVE  ReportsFrom(rs, Resolve(rs, poll), poll.ack, poll.outcome)
<1> DEFINE rr == Resolve(rs, poll)
<1> SUFFICES ASSUME NEW i \in Slots, rr[i].status \in Reported
             PROVE  \/ rr[i].id = rs[i].id /\ rr[i].status = rs[i].status
                    \/ rr[i].id = poll.ack /\ rr[i].status = poll.outcome
  BY DEF ReportsFrom
<1>1. rs[i] \in Receipts
  OBVIOUS
<1>2. CASE /\ poll.ack # 0 /\ rs[i].id = poll.ack /\ rs[i].page = page
           /\ rs[i].status \in {"DELIVERED", "OUTCOME_UNKNOWN"}
  <2>1. rr[i] = [rs[i] EXCEPT !.status = IF poll.outcome = "LEGACY" THEN "OUTCOME_UNKNOWN"
                                         ELSE poll.outcome]
    BY <1>2 DEF Resolve
  <2> HIDE DEF rr
  <2>2. rr[i].id = rs[i].id /\ rr[i].status \in {poll.outcome, "OUTCOME_UNKNOWN"}
    BY <1>1, <2>1 DEF Receipts
  <2> QED
    BY <1>2, <2>2 DEF Reported
<1>3. CASE ~(/\ poll.ack # 0 /\ rs[i].id = poll.ack /\ rs[i].page = page
             /\ rs[i].status \in {"DELIVERED", "OUTCOME_UNKNOWN"})
  <2>1. rr[i] = rs[i]
    BY <1>3 DEF Resolve
  <2> QED
    BY <2>1
<1> QED
  BY <1>2, <1>3

LEMMA SweepReports ==
  ASSUME IInv, NEW late \in Lags, NEW ack, NEW outcome
  PROVE  /\ ReportsFrom(receipts, LiveReceipts(late), ack, outcome)
         /\ LiveReceipts(late) \in [Slots -> Receipts]
<1>1. "EXPIRED" \in Withdrawn /\ receipts \in [Slots -> Receipts]
  BY DEF Withdrawn, IInv, TypeOK
<1>2. ReportsFrom(receipts, Finish(receipts, command, "EXPIRED"), ack, outcome)
  BY <1>1, FinishReports
<1>3. ReportsFrom(receipts, receipts, ack, outcome)
  BY DEF ReportsFrom
<1>4. LiveReceipts(late) \in [Slots -> Receipts]
  BY SweepKeeps DEF IInv, MailboxOK
<1> QED
  BY <1>2, <1>3, <1>4 DEF LiveReceipts

\* The receipts after a poll.
LEMMA PollReports ==
  ASSUME IInv, NEW poll \in Polls, NEW late \in Lags,
         \/ Exchange(poll, late) \/ ExchangeUnanswered(poll, late) \/ ExchangeExhausted(poll, late)
  PROVE  ReportsFrom(receipts, receipts', poll.ack, poll.outcome)
<1> DEFINE rs0 == LiveReceipts(late)
           rs1 == ReportedReceipts(poll, late)
           rs2 == CurrentReceipts(poll, late)
           cmd == CurrentCommand(poll, late)
           ds  == [i \in Slots |-> IF rs2[i].id = cmd.id
                                   THEN [rs2[i] EXCEPT !.status = "DELIVERED"] ELSE rs2[i]]
<1>1. Accepted(poll)
  BY DEF Exchange, ExchangeUnanswered, ExchangeExhausted, Sample
<1>2. \E acked : acked = IF poll.ack > lastAck THEN poll.ack ELSE lastAck
  OBVIOUS
<1>3. rs1 \in [Slots -> Receipts] /\ rs2 \in [Slots -> Receipts]
  BY <1>1, <1>2, PollMailbox DEF MailboxOK
<1>4. ReportsFrom(receipts, rs1, poll.ack, poll.outcome)
  BY SweepReports, ResolveReports, ReportsTwice DEF ReportedReceipts
<1>5. ReportsFrom(receipts, rs2, poll.ack, poll.outcome)
  <2>1. "CANCELLED" \in Withdrawn
    BY DEF Withdrawn
  <2>2. ReportsFrom(rs1, Finish(rs1, ReportedCommand(poll, late), "CANCELLED"), poll.ack, poll.outcome)
    BY <1>3, <2>1, FinishReports
  <2> HIDE DEF rs1
  <2>3. rs2 \in {rs1, Finish(rs1, ReportedCommand(poll, late), "CANCELLED")}
    BY DEF CurrentReceipts, rs1
  <2> HIDE DEF rs2
  <2> QED
    BY <1>4, <2>2, <2>3, ReportsTwice
<1>6. receipts' \in {rs1, rs2, ds}
  BY DEF Exchange, ExchangeUnanswered, ExchangeExhausted
<1> HIDE DEF rs1, rs2, cmd
<1>7. ReportsFrom(rs2, ds, poll.ack, poll.outcome)
  BY <1>3, DeliverReports
<1> HIDE DEF ds
<1> QED
  BY <1>4, <1>5, <1>6, <1>7, ReportsTwice

\* The other operations of the service report nothing.
LEMMA QuietReports ==
  ASSUME IInv,
         \/ Enable \/ Tick \/ OpenPage
         \/ \E o \in Owners :
              \/ Release(o)
              \/ \E late \in Lags :
                   \/ Status(o, late)
                   \/ \E gen \in 1..MaxGeneration :
                        \/ QueueRefused(o, gen, late)
                        \/ \E tracked \in BOOLEAN : Queue(o, gen, late, tracked)
  PROVE  ReportsFrom(receipts, receipts', 0, "NONE")
<1> DEFINE Good(rs) == ReportsFrom(receipts, rs, 0, "NONE")
<1>1. Good(receipts)
  BY DEF ReportsFrom
<1>2. Good(Finish(receipts, command, "CANCELLED"))
  BY FinishReports DEF IInv, TypeOK, Withdrawn
<1>3. \A late \in Lags : Good(LiveReceipts(late)) /\ LiveReceipts(late) \in [Slots -> Receipts]
  BY SweepReports
<1> HIDE DEF Good
<1>4. ASSUME Enable \/ Tick \/ OpenPage PROVE Good(receipts')
  BY <1>1, <1>2, <1>4 DEF Enable, Tick, OpenPage, commandVars
<1>5. ASSUME NEW o \in Owners, Release(o) PROVE Good(receipts')
  BY <1>1, <1>2, <1>5 DEF Release
<1>6. ASSUME NEW o \in Owners, NEW late \in Lags,
             Status(o, late) \/ \E gen \in 1..MaxGeneration : QueueRefused(o, gen, late)
      PROVE  Good(receipts')
  BY <1>3, <1>6 DEF Status, QueueRefused
<1>7. ASSUME NEW o \in Owners, NEW late \in Lags, NEW gen \in 1..MaxGeneration,
             NEW tracked \in BOOLEAN, Queue(o, gen, late, tracked)
      PROVE  Good(receipts')
  <2>1. nextReceipt \in Slots
    BY DEF IInv, TypeOK
  <2>2. CASE ~tracked
    BY <1>3, <1>7, <2>2 DEF Queue
  <2>3. CASE tracked
    <3>1. receipts' = [LiveReceipts(late) EXCEPT ![nextReceipt] =
                         [owner |-> o, id |-> nextCommand + 1, page |-> page, status |-> "QUEUED"]]
      BY <1>7, <2>3 DEF Queue
    <3>2. receipts'[nextReceipt].status = "QUEUED"
          /\ \A i \in Slots : i # nextReceipt => receipts'[i] = LiveReceipts(late)[i]
      BY <1>3, <2>1, <3>1
    <3> QED
      BY <1>3, <3>2 DEF Good, ReportsFrom, Reported
  <2> QED
    BY <2>2, <2>3
<1> QED
  BY <1>4, <1>5, <1>6, <1>7 DEF Good

-----------------------------------------------------------------------------
(* What is claimed of the commands.                                         *)

\* A claim outlasts whatever happens to the commands that are awaited or have not
\* been offered.
LEMMA ClaimsLast ==
  ASSUME NEW id, NEW outcome, NEW off, NEW happened, NEW awaited, NEW off2, NEW happened2,
         NEW awaited2, Claim(id, outcome, off, happened, awaited),
         \A k \in Ids : off[k] = 1 /\ k \notin awaited =>
           off2[k] = 1 /\ happened2[k] = happened[k] /\ k \notin awaited2
  PROVE  Claim(id, outcome, off2, happened2, awaited2)
  BY DEF Claim

\* The receipts claim what they did, and what a true report says.
LEMMA ReceiptsClaim ==
  ASSUME ReceiptClaims, NEW ack, NEW outcome, ReportsFrom(receipts, receipts', ack, outcome),
         Claim(ack, outcome, offers, fate, AwaitedIds),
         \A k \in Ids : offers[k] = 1 /\ k \notin AwaitedIds =>
           offers'[k] = 1 /\ fate'[k] = fate[k] /\ k \notin AwaitedIds'
  PROVE  ReceiptClaims'
<1> SUFFICES ASSUME NEW i \in Slots
             PROVE  Claim(receipts'[i].id, receipts'[i].status, offers', fate', AwaitedIds')
  BY DEF ReceiptClaims
<1>1. Claim(receipts'[i].id, receipts'[i].status, offers, fate, AwaitedIds)
  BY DEF ReceiptClaims, ReportsFrom, Claim
<1> QED
  BY <1>1, ClaimsLast

\* A response that was carried once is not forgotten.
LEMMA OffersStay ==
  ASSUME IInv, IInv', \/ UNCHANGED offers
                      \/ \E id \in Ids : offers' = [offers EXCEPT ![id] = @ + 1]
  PROVE  \A k \in Ids : offers[k] = 1 => offers'[k] = 1
  BY DEF IInv, TypeOK, MailboxOK

-----------------------------------------------------------------------------
(* The steps of the pages.                                                  *)

\* A page moves on: it may drop its answer, and settle the fate of the command it
\* awaited.
LEMMA PageStep ==
  ASSUME ChannelIInv, NEW p \in Running, NEW pg \in PageStates,
         pages' = [pages EXCEPT ![p] = pg], UNCHANGED <<vars, gameVars, queuedOn>>,
         fate' \in [Ids -> Fates], sent' \in [1..MaxPage -> Nat],
         pg.answer \in {pages[p].answer, NoAnswer}, pg.lastId >= pages[p].lastId,
         \A k \in Ids : fate'[k] # fate[k] => Awaits(pages[p], k) /\ pg.answer = NoAnswer,
         \A poll \in wire' :
           \/ poll \in wire
           \/ /\ poll \in Polls /\ poll.ack = pages[p].acknowledged
              /\ poll.outcome = pages[p].outcome,
         Claim(pg.acknowledged, pg.outcome, offers, fate', AwaitedIds'),
         SentOK'
  PROVE  ChannelIInv'
<1>1. pages' \in [Running -> PageStates] /\ pages'[p] = pg /\ DOMAIN pages' = Running
      /\ \A q \in Running : q # p => pages'[q] = pages[q]
  BY DEF ChannelIInv, ChannelTypes, Running
<1>2. /\ page \in Nat /\ IInv' /\ ChannelTypes'
  <2>1. IInv' /\ page' = page
    BY NextIInv DEF ChannelIInv, vars
  <2>2. wire' \subseteq Polls
    BY DEF ChannelIInv, ChannelTypes
  <2>3. page \in Nat
    BY DEF ChannelIInv, IInv, TypeOK
  <2> QED
    BY <1>1, <2>1, <2>2, <2>3 DEF ChannelIInv, ChannelTypes, Running, gameVars
<1>3. offers' = offers /\ receipts' = receipts /\ command' = command
  BY DEF vars
<1>4. \A k \in Ids : k \in Nat /\ pg.lastId \in Nat /\ pages[p].lastId \in Nat
  BY DEF Ids, PageStates, ChannelIInv, ChannelTypes
<1>5. ASSUME NEW q \in Running, NEW k \in Ids, Has(pages'[q], k)
      PROVE  /\ Has(pages[q], k) /\ pages'[q].answer = pages[q].answer
             /\ k > pages'[q].lastId => k > pages[q].lastId
  <2>1. CASE q = p
    BY <1>1, <1>4, <1>5, <2>1 DEF Has
  <2>2. CASE q # p
    BY <1>1, <1>5, <2>2
  <2> QED
    BY <2>1, <2>2
<1>6. AwaitedIds' \subseteq AwaitedIds
  BY <1>1, <1>5 DEF AwaitedIds, Awaits, Running
<1>7. \A k \in Ids : offers[k] = 1 /\ k \notin AwaitedIds =>
        offers'[k] = 1 /\ fate'[k] = fate[k] /\ k \notin AwaitedIds'
  BY <1>3, <1>6 DEF AwaitedIds
<1>8. AnswersOK'
  <2> SUFFICES ASSUME NEW q \in Running, NEW k \in Ids, Has(pages'[q], k)
               PROVE  /\ offers'[k] = 1
                      /\ pages'[q].answer.screen = queuedOn'[k] /\ queuedOn'[k] \in ContinueScreens
                      /\ \A r \in Running : Has(pages'[r], k) => q = r
                      /\ k > pages'[q].lastId => fate'[k] = "none"
    BY <1>1 DEF AnswersOK, Running
  <2>1. /\ offers[k] = 1
        /\ pages[q].answer.screen = queuedOn[k] /\ queuedOn[k] \in ContinueScreens
        /\ \A r \in Running : Has(pages[r], k) => q = r
        /\ k > pages[q].lastId => fate[k] = "none"
    BY <1>5 DEF ChannelIInv, AnswersOK
  <2>2. fate'[k] = fate[k]
    BY <1>1, <1>5, <2>1 DEF Has, Awaits
  <2> QED
    BY <1>3, <1>5, <2>1, <2>2
<1>9. FatesOK'
  BY <1>3 DEF ChannelIInv, FatesOK, AnswersOK, Awaits
<1>10. PageClaims'
  <2> SUFFICES ASSUME NEW q \in Running
               PROVE  Claim(pages'[q].acknowledged, pages'[q].outcome, offers', fate', AwaitedIds')
    BY <1>1 DEF PageClaims, Running
  <2>1. CASE q = p
    BY <1>1, <1>3, <2>1
  <2>2. CASE q # p
    BY <1>1, <1>7, <2>2, ClaimsLast DEF ChannelIInv, PageClaims
  <2> QED
    BY <2>1, <2>2
<1>11. WireClaims'
  <2> SUFFICES ASSUME NEW poll \in wire'
               PROVE  Claim(poll.ack, poll.outcome, offers', fate', AwaitedIds')
    BY DEF WireClaims
  <2>1. Claim(poll.ack, poll.outcome, offers, fate, AwaitedIds)
    BY DEF ChannelIInv, WireClaims, PageClaims
  <2> QED
    BY <1>7, <2>1, ClaimsLast
<1>12. ReceiptClaims'
  <2> SUFFICES ASSUME NEW i \in Slots
               PROVE  Claim(receipts'[i].id, receipts'[i].status, offers', fate', AwaitedIds')
    BY DEF ReceiptClaims
  <2>1. Claim(receipts[i].id, receipts[i].status, offers, fate, AwaitedIds)
    BY DEF ChannelIInv, ReceiptClaims
  <2> QED
    BY <1>3, <1>7, <2>1, ClaimsLast
<1> QED
  BY <1>2, <1>3, <1>8, <1>9, <1>10, <1>11, <1>12 DEF ChannelIInv, QueuedHere

\* snapshot keeps what the page says and awaits, and the knowledge that it has sent
\* the event in this visit.
LEMMA SeeFacts ==
  ASSUME NEW pg \in PageStates, shown \in Screens, ready \in BOOLEAN
  PROVE  /\ See(pg) \in PageStates
         /\ See(pg).acknowledged = pg.acknowledged /\ See(pg).outcome = pg.outcome
         /\ See(pg).lastId = pg.lastId /\ See(pg).answer = pg.answer
         /\ See(pg).screen = shown /\ See(pg).ready = ready
         /\ See(pg).continued = (pg.continued /\ pg.screen = shown)
         /\ See(pg).sequence = pg.sequence
<1> DEFINE calm        == pg.calm /\ pg.screen = shown /\ pg.ready = ready
           undisturbed == pg.undisturbed /\ pg.screen = shown /\ pg.ready = ready
           continued   == pg.continued /\ pg.screen = shown
<1>1. See(pg) = [pg EXCEPT !.screen = shown, !.ready = ready, !.calm = calm,
                           !.undisturbed = undisturbed, !.continued = continued]
  BY DEF See, PageStates
<1>2. calm \in BOOLEAN /\ undisturbed \in BOOLEAN /\ continued \in BOOLEAN
  OBVIOUS
<1>3. See(pg).screen = shown /\ See(pg).continued = (pg.continued /\ pg.screen = shown)
  BY DEF See, PageStates
<1> HIDE DEF calm, undisturbed, continued
<1>4. See(pg) \in PageStates
  BY <1>1, <1>2 DEF PageStates
<1>5. /\ See(pg).acknowledged = pg.acknowledged /\ See(pg).outcome = pg.outcome
      /\ See(pg).lastId = pg.lastId /\ See(pg).answer = pg.answer
      /\ See(pg).ready = ready /\ See(pg).sequence = pg.sequence
  BY <1>1 DEF PageStates
<1> QED
  BY <1>3, <1>4, <1>5

\* What a page that only looks, sends, waits or gives up does.
LEMMA QuietPageStep ==
  ASSUME ChannelIInv, NEW p \in Running, NEW pg \in PageStates,
         pages' = [pages EXCEPT ![p] = pg], UNCHANGED <<vars, gameVars, queuedOn, fate, sent>>,
         pg.answer \in {pages[p].answer, NoAnswer}, pg.lastId = pages[p].lastId,
         pg.acknowledged = pages[p].acknowledged, pg.outcome = pages[p].outcome,
         pages[p].continued /\ pages[p].screen = shown => pg.continued /\ pg.screen = shown,
         \A poll \in wire' :
           \/ poll \in wire
           \/ /\ poll \in Polls /\ poll.ack = pages[p].acknowledged
              /\ poll.outcome = pages[p].outcome
  PROVE  ChannelIInv'
<1>1. /\ fate' \in [Ids -> Fates] /\ sent' \in [1..MaxPage -> Nat]
      /\ pages[p] \in PageStates
  BY DEF ChannelIInv, ChannelTypes
<1>2. pages'[p] = pg /\ \A q \in Running : q # p => pages'[q] = pages[q]
  BY DEF ChannelIInv, ChannelTypes, Running
<1>3. Running' = Running
  BY DEF ChannelIInv, ChannelTypes, Running
<1>4. AwaitedIds' \subseteq AwaitedIds
  BY <1>2, <1>3 DEF AwaitedIds, Awaits, Has
<1>5. Claim(pg.acknowledged, pg.outcome, offers, fate', AwaitedIds')
  BY <1>4, ClaimsLast DEF ChannelIInv, PageClaims
<1>6. SentOK'
  <2>1. page' = page /\ sent' = sent /\ shown' = shown
    BY DEF vars, gameVars
  <2>2. \A q \in Running : pages[q].continued /\ pages[q].screen = shown =>
                             pages'[q].continued /\ pages'[q].screen = shown
    BY <1>2
  <2> QED
    BY <1>3, <2>1, <2>2 DEF ChannelIInv, SentOK
<1>7. pg.lastId >= pages[p].lastId
  BY <1>1 DEF PageStates
<1> QED
  BY <1>1, <1>5, <1>6, <1>7, PageStep

LEMMA LookSteps ==
  ASSUME ChannelIInv, NEW p \in Running,
         SendPoll(p) \/ JustLook(p) \/ GiveUp(p) \/ Settle(p) \/ DateGoesBack(p)
  PROVE  ChannelIInv'
<1>1. /\ pages[p] \in PageStates /\ shown \in Screens /\ ready \in BOOLEAN
      /\ p \in 1..MaxPage /\ wire \subseteq Polls
  BY DEF ChannelIInv, ChannelTypes, IInv, TypeOK
<1> DEFINE pg == See(pages[p])
<1>2. /\ pg \in PageStates
      /\ pg.acknowledged = pages[p].acknowledged /\ pg.outcome = pages[p].outcome
      /\ pg.lastId = pages[p].lastId /\ pg.answer = pages[p].answer
      /\ pg.screen = shown /\ pg.ready = ready
      /\ pg.continued = (pages[p].continued /\ pages[p].screen = shown)
      /\ pg.sequence = pages[p].sequence
  BY <1>1, SeeFacts
<1> HIDE DEF pg
<1>3. ASSUME JustLook(p) PROVE ChannelIInv'
  BY <1>2, <1>3, QuietPageStep DEF JustLook, Keep, pg
<1>4. ASSUME SendPoll(p) PROVE ChannelIInv'
  <2> DEFINE st == [pg EXCEPT !.sequence = @ + 1, !.pending = pg.sequence + 1,
                              !.undisturbed = TRUE]
             sent1 == [page |-> p, sequence |-> pg.sequence + 1, screen |-> pg.screen,
                       actions |-> Offers(pg), ack |-> pg.acknowledged, outcome |-> pg.outcome]
  <2>1. /\ pages' = [pages EXCEPT ![p] = st] /\ pg.sequence < MaxSequence
        /\ wire' = wire \union {sent1}
        /\ UNCHANGED <<vars, gameVars, fate, queuedOn, sent>>
    BY <1>4 DEF SendPoll, Keep, pg
  <2>2. pg.sequence + 1 \in 0..MaxSequence /\ pg.sequence + 1 \in 1..MaxSequence
    BY <1>2, <2>1 DEF PageStates
  <2>3. /\ st \in PageStates
        /\ st.answer = pg.answer /\ st.lastId = pg.lastId
        /\ st.acknowledged = pg.acknowledged /\ st.outcome = pg.outcome
        /\ st.continued = pg.continued /\ st.screen = pg.screen
    BY <1>2, <2>2 DEF PageStates
  <2>4. Offers(pg) \in BOOLEAN
    BY DEF Offers
  <2>5. sent1 \in Polls
    <3>1. pg.acknowledged \in 0..MaxCommand /\ pg.outcome \in Reported \union {"NONE", "LEGACY"}
      BY <1>2 DEF PageStates
    <3> QED
      BY <1>1, <1>2, <2>2, <2>4, <3>1 DEF Polls
  <2>6. sent1.ack = pg.acknowledged /\ sent1.outcome = pg.outcome
    OBVIOUS
  <2> HIDE DEF st, sent1
  <2> QED
    BY <1>2, <2>1, <2>3, <2>5, <2>6, QuietPageStep
<1>5. ASSUME GiveUp(p) PROVE ChannelIInv'
  <2> DEFINE st == [pages[p] EXCEPT !.pending = 0, !.answer = NoAnswer]
  <2>0. 0 \in 0..MaxSequence /\ NoAnswer \in Answers \union {NoAnswer}
    OBVIOUS
  <2>1. /\ st \in PageStates
        /\ st.answer = NoAnswer /\ st.lastId = pages[p].lastId
        /\ st.acknowledged = pages[p].acknowledged /\ st.outcome = pages[p].outcome
        /\ st.continued = pages[p].continued /\ st.screen = pages[p].screen
    BY <1>1, <2>0 DEF PageStates
  <2>2. pages' = [pages EXCEPT ![p] = st] /\ UNCHANGED <<vars, wire, gameVars, fate, queuedOn, sent>>
    BY <1>5 DEF GiveUp, Keep
  <2> HIDE DEF st
  <2> QED
    BY <2>1, <2>2, QuietPageStep
<1>6. ASSUME Settle(p) \/ DateGoesBack(p) PROVE ChannelIInv'
  <2>1. PICK calm \in BOOLEAN, still \in BOOLEAN :
          pages' = [pages EXCEPT ![p] = [pages[p] EXCEPT !.calm = calm, !.undisturbed = still]]
    <3>1. CASE Settle(p)
      <4>1. [pages[p] EXCEPT !.calm = TRUE]
              = [pages[p] EXCEPT !.calm = TRUE, !.undisturbed = pages[p].undisturbed]
        BY <1>1 DEF PageStates
      <4>2. pages[p].undisturbed \in BOOLEAN
        BY <1>1 DEF PageStates
      <4> QED
        BY <3>1, <4>1, <4>2 DEF Settle, Keep
    <3>2. CASE DateGoesBack(p)
      <4>1. pages[p].undisturbed \in BOOLEAN
        BY <1>1 DEF PageStates
      <4> QED
        BY <3>2, <4>1 DEF DateGoesBack, Keep
    <3> QED
      BY <1>6, <3>1, <3>2
  <2> DEFINE st == [pages[p] EXCEPT !.calm = calm, !.undisturbed = still]
  <2>2. /\ st \in PageStates
        /\ st.answer = pages[p].answer /\ st.lastId = pages[p].lastId
        /\ st.acknowledged = pages[p].acknowledged /\ st.outcome = pages[p].outcome
        /\ st.continued = pages[p].continued /\ st.screen = pages[p].screen
    BY <1>1 DEF PageStates
  <2>3. UNCHANGED <<vars, wire, gameVars, fate, queuedOn, sent>>
    BY <1>6 DEF Settle, DateGoesBack
  <2> HIDE DEF st
  <2> QED
    BY <2>1, <2>2, <2>3, QuietPageStep DEF st
<1> QED
  BY <1>3, <1>4, <1>5, <1>6

\* The page as it is when it has taken the answer off its request, acknowledged the
\* command and looked at the game.
Looked(p) == See(Mark([pages[p] EXCEPT !.pending = 0, !.answer = NoAnswer], pages[p].answer))

LEMMA LookedFacts ==
  ASSUME ChannelIInv, NEW p \in Running, pages[p].answer # NoAnswer
  PROVE  /\ pages[p] \in PageStates /\ pages[p].answer \in Answers
         /\ Looked(p) \in PageStates /\ Looked(p).answer = NoAnswer
         /\ Looked(p).screen = shown /\ Looked(p).ready = ready
         /\ Looked(p).continued = (pages[p].continued /\ pages[p].screen = shown)
         /\ IF pages[p].answer.id > pages[p].lastId
            THEN /\ Looked(p).lastId = pages[p].answer.id
                 /\ Looked(p).acknowledged = pages[p].answer.id
                 /\ Looked(p).outcome = "SKIPPED"
            ELSE /\ Looked(p).lastId = pages[p].lastId
                 /\ Looked(p).acknowledged = pages[p].acknowledged
                 /\ Looked(p).outcome = pages[p].outcome
<1> DEFINE answer == pages[p].answer
           taken  == [pages[p] EXCEPT !.pending = 0, !.answer = NoAnswer]
           marked == Mark(taken, answer)
<1>1. /\ pages[p] \in PageStates /\ shown \in Screens /\ ready \in BOOLEAN
      /\ 0 \in 0..MaxSequence /\ NoAnswer \in Answers \union {NoAnswer}
  BY DEF ChannelIInv, ChannelTypes
<1>2. answer \in Answers
  BY <1>1 DEF PageStates
<1>3. /\ taken \in PageStates /\ taken.answer = NoAnswer /\ taken.lastId = pages[p].lastId
      /\ taken.acknowledged = pages[p].acknowledged /\ taken.outcome = pages[p].outcome
      /\ taken.continued = pages[p].continued /\ taken.screen = pages[p].screen
  BY <1>1 DEF PageStates
<1> HIDE DEF taken
<1>4. CASE answer.id > pages[p].lastId
  <2>1. marked = [taken EXCEPT !.lastId = answer.id, !.acknowledged = answer.id,
                               !.outcome = "SKIPPED"]
    BY <1>3, <1>4 DEF Mark
  <2>2. answer.id \in 0..MaxCommand /\ "SKIPPED" \in Reported \union {"NONE"}
    BY <1>2 DEF Answers, Reported
  <2> HIDE DEF marked, answer
  <2>3. /\ marked \in PageStates /\ marked.answer = NoAnswer
        /\ marked.lastId = answer.id /\ marked.acknowledged = answer.id
        /\ marked.outcome = "SKIPPED"
        /\ marked.continued = taken.continued /\ marked.screen = taken.screen
    BY <1>3, <2>1, <2>2 DEF PageStates
  <2> QED
    BY <1>1, <1>2, <1>3, <1>4, <2>3, SeeFacts DEF Looked, marked, taken, answer
<1>5. CASE ~(answer.id > pages[p].lastId)
  <2>1. Looked(p) = See(taken)
    BY <1>3, <1>5 DEF Mark, Looked, taken
  <2> QED
    BY <1>1, <1>2, <1>3, <1>5, <2>1, SeeFacts
<1> QED
  BY <1>4, <1>5

\* Who has taken its answer awaits nothing, and nobody else awaited the same.
LEMMA TakenIsSettled ==
  ASSUME ChannelIInv, NEW p \in Running, pages[p].answer # NoAnswer,
         NEW pg \in PageStates, pg.answer = NoAnswer, pages' = [pages EXCEPT ![p] = pg]
  PROVE  /\ AwaitedIds' \subseteq AwaitedIds
         /\ pages[p].answer.id \notin AwaitedIds'
<1>1. /\ pages'[p] = pg /\ Running' = Running
      /\ \A q \in Running : q # p => pages'[q] = pages[q]
  BY DEF ChannelIInv, ChannelTypes, Running
<1>2. AwaitedIds' \subseteq AwaitedIds
  BY <1>1 DEF AwaitedIds, Awaits, Has
<1>3. ASSUME pages[p].answer.id \in AwaitedIds' PROVE FALSE
  <2>1. PICK q \in Running : Awaits(pages'[q], pages[p].answer.id)
    BY <1>1, <1>3 DEF AwaitedIds
  <2>2. q # p /\ Has(pages[q], pages[p].answer.id) /\ Has(pages[p], pages[p].answer.id)
    BY <1>1, <2>1 DEF Awaits, Has
  <2>3. pages[p].answer.id \in Ids
    BY <1>3 DEF AwaitedIds
  <2> QED
    BY <2>2, <2>3 DEF ChannelIInv, AnswersOK
<1> QED
  BY <1>2, <1>3

\* What happens when a page acts on its answer: nothing, or its command reaches the
\* game while the game shows the screen the command was queued for.
LEMMA ReceiveFacts ==
  ASSUME ChannelIInv, NEW p \in Running, Receive(p)
  PROVE  /\ pages[p].answer # NoAnswer
         /\ UNCHANGED <<vars, wire, gameVars, queuedOn>>
         /\ \/ /\ pages' = [pages EXCEPT ![p] = Looked(p)]
               /\ UNCHANGED <<fate, sent>>
            \/ /\ pages[p].answer.id > pages[p].lastId
               /\ pages[p].answer.id \in Ids /\ Has(pages[p], pages[p].answer.id)
               /\ shown = queuedOn[pages[p].answer.id] /\ shown \in ContinueScreens /\ ready
               /\ ~Looked(p).continued
               /\ \/ /\ pages' = [pages EXCEPT ![p] =
                            [Looked(p) EXCEPT !.continued = TRUE, !.outcome = "DISPATCHED"]]
                     /\ fate' = [fate EXCEPT ![pages[p].answer.id] = "returned"]
                     /\ sent' = [sent EXCEPT ![p] = @ + 1]
                  \/ /\ pages' = [pages EXCEPT ![p] =
                            [Looked(p) EXCEPT !.continued = FALSE, !.outcome = "DISPATCH_FAILED"]]
                     /\ fate' = [fate EXCEPT ![pages[p].answer.id] = "threw"]
                     /\ UNCHANGED sent
<1> DEFINE id == pages[p].answer.id
<1>1. pages[p].answer # NoAnswer /\ UNCHANGED <<vars, wire, gameVars, queuedOn>>
  BY DEF Receive
<1>2. \/ /\ pages' = [pages EXCEPT ![p] = Looked(p)]
         /\ UNCHANGED <<fate, sent>>
      \/ /\ id > pages[p].lastId /\ StillWanted(Looked(p), pages[p].answer)
         /\ \/ /\ pages' = [pages EXCEPT ![p] =
                      [Looked(p) EXCEPT !.continued = TRUE, !.outcome = "DISPATCHED"]]
               /\ fate' = [fate EXCEPT ![id] = "returned"]
               /\ sent' = [sent EXCEPT ![p] = @ + 1]
            \/ /\ pages' = [pages EXCEPT ![p] =
                      [Looked(p) EXCEPT !.continued = FALSE, !.outcome = "DISPATCH_FAILED"]]
               /\ fate' = [fate EXCEPT ![id] = "threw"]
               /\ UNCHANGED sent
  BY DEF Receive, Keep, Looked
<1>3. ASSUME id > pages[p].lastId, StillWanted(Looked(p), pages[p].answer)
      PROVE  /\ id \in Ids /\ Has(pages[p], id)
             /\ shown = queuedOn[id] /\ shown \in ContinueScreens /\ ready
             /\ ~Looked(p).continued
  <2>1. /\ pages[p] \in PageStates /\ pages[p].answer \in Answers
        /\ Looked(p).screen = shown /\ Looked(p).ready = ready
    BY <1>1, LookedFacts
  <2>2. id \in 0..MaxCommand /\ pages[p].lastId \in 0..MaxCommand
    BY <2>1 DEF Answers, PageStates
  <2>3. id \in Ids
    BY <1>3, <2>2 DEF Ids
  <2>4. Has(pages[p], id)
    BY <1>1 DEF Has
  <2>5. pages[p].answer.screen = queuedOn[id] /\ queuedOn[id] \in ContinueScreens
    BY <2>3, <2>4 DEF ChannelIInv, AnswersOK
  <2> QED
    BY <1>3, <2>1, <2>3, <2>4, <2>5 DEF StillWanted, Offers
<1> HIDE DEF id
<1> QED
  BY <1>1, <1>2, <1>3 DEF id

LEMMA ReceiveStep ==
  ASSUME ChannelIInv, NEW p \in Running, Receive(p)
  PROVE  ChannelIInv'
<1> DEFINE id == pages[p].answer.id
<1>1. /\ pages[p].answer # NoAnswer /\ UNCHANGED <<vars, wire, gameVars, queuedOn>>
      /\ p \in 1..MaxPage /\ page' = page /\ shown' = shown /\ wire' = wire
      /\ sent \in [1..MaxPage -> Nat] /\ fate \in [Ids -> Fates] /\ offers' = offers
  <2>1. pages[p].answer # NoAnswer /\ UNCHANGED <<vars, wire, gameVars, queuedOn>>
    BY ReceiveFacts
  <2>2. page' = page /\ shown' = shown /\ wire' = wire /\ offers' = offers
    BY <2>1 DEF vars, gameVars
  <2>3. /\ p \in 1..MaxPage
        /\ sent \in [1..MaxPage -> Nat] /\ fate \in [Ids -> Fates]
    BY DEF ChannelIInv, ChannelTypes, IInv, TypeOK
  <2> QED
    BY <2>1, <2>2, <2>3
<1>2. /\ pages[p] \in PageStates /\ pages[p].answer \in Answers
      /\ Looked(p) \in PageStates /\ Looked(p).answer = NoAnswer
      /\ Looked(p).screen = shown
      /\ Looked(p).continued = (pages[p].continued /\ pages[p].screen = shown)
      /\ IF id > pages[p].lastId
         THEN /\ Looked(p).lastId = id /\ Looked(p).acknowledged = id
              /\ Looked(p).outcome = "SKIPPED"
         ELSE /\ Looked(p).lastId = pages[p].lastId
              /\ Looked(p).acknowledged = pages[p].acknowledged
              /\ Looked(p).outcome = pages[p].outcome
  BY <1>1, LookedFacts
<1>3. /\ id \in 0..MaxCommand /\ pages[p].lastId \in 0..MaxCommand
      /\ id > pages[p].lastId => id \in Ids /\ Awaits(pages[p], id)
  <2>1. pages[p].answer.id \in 0..MaxCommand /\ pages[p].lastId \in 0..MaxCommand
    BY <1>2 DEF Answers, PageStates
  <2>2. id > pages[p].lastId => id \in Ids
    BY <2>1 DEF Ids
  <2> QED
    BY <1>1, <2>1, <2>2 DEF Awaits, Has
<1>4. Looked(p).lastId >= pages[p].lastId
  BY <1>2, <1>3
<1>5. id > pages[p].lastId => offers[id] = 1 /\ fate[id] = "none" /\ sent[p] \in {0, 1}
  BY <1>1, <1>3 DEF ChannelIInv, AnswersOK, Awaits, SentOK
<1> HIDE DEF id
<1>6. ASSUME pages' = [pages EXCEPT ![p] = Looked(p)], UNCHANGED <<fate, sent>>
      PROVE  ChannelIInv'
  <2>1. AwaitedIds' \subseteq AwaitedIds /\ id \notin AwaitedIds'
    BY <1>1, <1>2, <1>6, TakenIsSettled DEF id
  <2>2. Claim(Looked(p).acknowledged, Looked(p).outcome, offers, fate', AwaitedIds')
    <3>1. CASE id > pages[p].lastId
      BY <1>2, <1>3, <1>5, <1>6, <2>1, <3>1 DEF Claim, Told
    <3>2. CASE ~(id > pages[p].lastId)
      <4>1. Claim(pages[p].acknowledged, pages[p].outcome, offers, fate, AwaitedIds)
        BY DEF ChannelIInv, PageClaims
      <4> QED
        BY <1>2, <1>6, <2>1, <3>2, <4>1, ClaimsLast
    <3> QED
      BY <3>1, <3>2
  <2>3. SentOK'
    <3>1. /\ Running' = Running /\ pages'[p] = Looked(p)
          /\ \A q \in Running : q # p => pages'[q] = pages[q]
      BY <1>6 DEF ChannelIInv, ChannelTypes, Running
    <3>2. \A q \in Running : pages[q].continued /\ pages[q].screen = shown =>
                               pages'[q].continued /\ pages'[q].screen = shown
      BY <1>2, <3>1
    <3> QED
      BY <1>1, <1>6, <3>1, <3>2 DEF ChannelIInv, SentOK
  <2> QED
    BY <1>1, <1>2, <1>4, <1>6, <2>2, <2>3, PageStep
<1>7. ASSUME NEW went \in BOOLEAN, NEW outcome \in Reported, NEW happened \in Fates,
             id > pages[p].lastId, ~Looked(p).continued, Told(happened, outcome),
             pages' = [pages EXCEPT ![p] =
                         [Looked(p) EXCEPT !.continued = went, !.outcome = outcome]],
             fate' = [fate EXCEPT ![id] = happened],
             sent' = IF went THEN [sent EXCEPT ![p] = @ + 1] ELSE sent
      PROVE  ChannelIInv'
  <2> DEFINE pg == [Looked(p) EXCEPT !.continued = went, !.outcome = outcome]
  <2>1. /\ pg \in PageStates /\ pg.answer = NoAnswer /\ pg.continued = went
        /\ pg.lastId = id /\ pg.acknowledged = id /\ pg.outcome = outcome
        /\ pg.screen = shown
    <3>1. outcome \in Reported \union {"NONE"}
      OBVIOUS
    <3> QED
      BY <1>2, <1>7, <3>1 DEF PageStates
  <2>2. pages' = [pages EXCEPT ![p] = pg]
    BY <1>7
  <2> HIDE DEF pg
  <2>3. AwaitedIds' \subseteq AwaitedIds /\ id \notin AwaitedIds'
    BY <1>1, <2>1, <2>2, TakenIsSettled DEF id
  <2>4. fate' \in [Ids -> Fates] /\ fate'[id] = happened
        /\ \A k \in Ids : k # id => fate'[k] = fate[k]
    BY <1>1, <1>3, <1>7
  <2>5. Claim(pg.acknowledged, pg.outcome, offers, fate', AwaitedIds')
    BY <1>3, <1>5, <1>7, <2>1, <2>3, <2>4 DEF Claim
  <2>6. sent[p] = 0
    <3>1. ~(pages[p].continued /\ pages[p].screen = shown)
      BY <1>2, <1>7
    <3>2. sent[p] # 1
      BY <1>1, <3>1 DEF ChannelIInv, SentOK
    <3> QED
      BY <1>5, <1>7, <3>2
  <2>7. /\ sent' \in [1..MaxPage -> Nat] /\ sent'[p] = IF went THEN 1 ELSE 0
        /\ \A q \in 1..MaxPage : q # p => sent'[q] = sent[q]
    BY <1>1, <1>7, <2>6
  <2>8. SentOK'
    <3>1. /\ Running' = Running /\ pages'[p] = pg
          /\ \A q \in Running : q # p => pages'[q] = pages[q]
      BY <2>2 DEF ChannelIInv, ChannelTypes, Running
    <3>2. p <= page
      BY DEF ChannelIInv, ChannelTypes, IInv, TypeOK
    <3> SUFFICES ASSUME NEW q \in 1..MaxPage
                 PROVE  /\ sent'[q] <= 1
                        /\ sent'[q] = 1 => q <= page
                        /\ sent'[q] = 1 /\ q \in Running =>
                             pages'[q].continued /\ pages'[q].screen = shown
      BY <1>1, <3>1 DEF SentOK
    <3>3. CASE q = p
      <4>1. CASE went
        <5>1. pages'[q].continued /\ pages'[q].screen = shown
          BY <2>1, <3>1, <3>3, <4>1
        <5>2. sent'[q] = 1 /\ q <= page
          BY <2>7, <3>2, <3>3, <4>1
        <5> QED
          BY <5>1, <5>2
      <4>2. CASE ~went
        BY <2>7, <3>3, <4>2
      <4> QED
        BY <4>1, <4>2
    <3>4. CASE q # p
      BY <2>7, <3>1, <3>4 DEF ChannelIInv, SentOK
    <3> QED
      BY <3>3, <3>4
  <2>9. \A k \in Ids : fate'[k] # fate[k] => Awaits(pages[p], k)
    BY <1>3, <1>7, <2>4
  <2>10. pg.lastId >= pages[p].lastId
    BY <1>3, <1>7, <2>1
  <2> QED
    BY <1>1, <2>1, <2>2, <2>4, <2>5, <2>7, <2>8, <2>9, <2>10, PageStep
<1>8. /\ "DISPATCHED" \in Reported /\ "DISPATCH_FAILED" \in Reported
      /\ "returned" \in Fates /\ "threw" \in Fates
      /\ Told("returned", "DISPATCHED") /\ Told("threw", "DISPATCH_FAILED")
  BY DEF Reported, Fates, Told
<1>9. \/ pages' = [pages EXCEPT ![p] = Looked(p)] /\ UNCHANGED <<fate, sent>>
      \/ /\ id > pages[p].lastId /\ ~Looked(p).continued
         /\ \/ /\ pages' = [pages EXCEPT ![p] =
                      [Looked(p) EXCEPT !.continued = TRUE, !.outcome = "DISPATCHED"]]
               /\ fate' = [fate EXCEPT ![id] = "returned"]
               /\ sent' = [sent EXCEPT ![p] = @ + 1]
            \/ /\ pages' = [pages EXCEPT ![p] =
                      [Looked(p) EXCEPT !.continued = FALSE, !.outcome = "DISPATCH_FAILED"]]
               /\ fate' = [fate EXCEPT ![id] = "threw"]
               /\ sent' = sent
  BY ReceiveFacts DEF id
<1> QED
  BY <1>6, <1>7, <1>8, <1>9

-----------------------------------------------------------------------------
(* The steps of the service, the game and the mods.                         *)

\* A step in which no response is carried, no page acts and the receipts report
\* nothing: pages may stop, and new ones open.
LEMMA NoResponseStep ==
  ASSUME ChannelIInv, [Next]_vars,
         pages' \in [Running' -> PageStates], Running' \subseteq 1..page',
         \A q \in Running' :
           (q \in Running /\ pages'[q] = pages[q]) \/ pages'[q] = NewPage,
         UNCHANGED <<wire, fate, offers>>,
         shown' \in Screens, ready' \in BOOLEAN, sent' \in [1..MaxPage -> Nat],
         queuedOn' \in [Ids -> Screens],
         \A k \in Ids : offers[k] = 1 => queuedOn'[k] = queuedOn[k],
         ReportsFrom(receipts, receipts', 0, "NONE"),
         QueuedHere', SentOK'
  PROVE  ChannelIInv'
<1>1. IInv' /\ ChannelTypes'
  BY NextIInv DEF ChannelIInv, ChannelTypes
<1>2. NewPage.answer = NoAnswer /\ NewPage.outcome = "NONE"
  BY DEF NewPage
<1>3. \A q \in Running', k \in Ids :
        Has(pages'[q], k) => q \in Running /\ pages'[q] = pages[q] /\ Has(pages[q], k)
  BY <1>2 DEF Has
<1>4. AwaitedIds' \subseteq AwaitedIds
  BY <1>3 DEF AwaitedIds, Awaits
<1>5. \A k \in Ids : offers[k] = 1 /\ k \notin AwaitedIds =>
        offers'[k] = 1 /\ fate'[k] = fate[k] /\ k \notin AwaitedIds'
  BY <1>4
<1>6. AnswersOK'
  <2> SUFFICES ASSUME NEW q \in Running', NEW k \in Ids, Has(pages'[q], k)
               PROVE  /\ offers'[k] = 1
                      /\ pages'[q].answer.screen = queuedOn'[k] /\ queuedOn'[k] \in ContinueScreens
                      /\ \A r \in Running' : Has(pages'[r], k) => q = r
                      /\ k > pages'[q].lastId => fate'[k] = "none"
    BY DEF AnswersOK
  <2>1. q \in Running /\ pages'[q] = pages[q] /\ Has(pages[q], k)
    BY <1>3
  <2>2. /\ offers[k] = 1
        /\ pages[q].answer.screen = queuedOn[k] /\ queuedOn[k] \in ContinueScreens
        /\ \A r \in Running : Has(pages[r], k) => q = r
        /\ k > pages[q].lastId => fate[k] = "none"
    BY <2>1 DEF ChannelIInv, AnswersOK
  <2> QED
    BY <1>3, <2>1, <2>2
<1>7. FatesOK'
  BY DEF ChannelIInv, FatesOK
<1>8. PageClaims'
  <2> SUFFICES ASSUME NEW q \in Running'
               PROVE  Claim(pages'[q].acknowledged, pages'[q].outcome, offers', fate', AwaitedIds')
    BY DEF PageClaims
  <2>1. CASE q \in Running /\ pages'[q] = pages[q]
    BY <1>5, <2>1, ClaimsLast DEF ChannelIInv, PageClaims
  <2>2. CASE pages'[q] = NewPage
    BY <1>2, <2>2 DEF Claim, Reported
  <2> QED
    BY <2>1, <2>2
<1>9. WireClaims'
  <2> SUFFICES ASSUME NEW poll \in wire
               PROVE  Claim(poll.ack, poll.outcome, offers', fate', AwaitedIds')
    BY DEF WireClaims
  <2> QED
    BY <1>5, ClaimsLast DEF ChannelIInv, WireClaims
<1>10. ReceiptClaims'
  <2>1. Claim(0, "NONE", offers, fate, AwaitedIds)
    BY DEF Claim, Reported
  <2> QED
    BY <1>5, <2>1, ReceiptsClaim DEF ChannelIInv
<1> QED
  BY <1>1, <1>6, <1>7, <1>8, <1>9, <1>10 DEF ChannelIInv

\* What the steps that leave something alone give.
LEMMA ChannelFacts ==
  ASSUME ChannelIInv
  PROVE  /\ pages \in [Running -> PageStates] /\ Running \subseteq 1..page
         /\ shown \in Screens /\ ready \in BOOLEAN /\ sent \in [1..MaxPage -> Nat]
         /\ queuedOn \in [Ids -> Screens] /\ wire \subseteq Polls
         /\ page \in 0..MaxPage /\ screen \in Screens
         /\ ReportsFrom(receipts, receipts, 0, "NONE")
  BY DEF ChannelIInv, ChannelTypes, IInv, TypeOK, ReportsFrom

LEMMA StopPageStep ==
  ASSUME ChannelIInv, NEW p \in Running, StopPage(p)
  PROVE  ChannelIInv'
<1>1. /\ pages' = [q \in Running \ {p} |-> pages[q]] /\ Running' = Running \ {p}
      /\ UNCHANGED vars /\ UNCHANGED <<wire, fate, sent, queuedOn, shown, ready>>
  BY DEF StopPage, Running, gameVars
<1>2. UNCHANGED <<page, offers, receipts, command>>
  BY <1>1 DEF vars
<1>3. pages' \in [Running' -> PageStates] /\ Running' \subseteq 1..page'
  BY <1>1, <1>2, ChannelFacts
<1>4. \A q \in Running' : q \in Running /\ pages'[q] = pages[q]
  BY <1>1
<1>5. QueuedHere' /\ SentOK'
  BY <1>1, <1>2, <1>4 DEF ChannelIInv, QueuedHere, SentOK
<1> QED
  BY <1>1, <1>2, <1>3, <1>4, <1>5, ChannelFacts, NoResponseStep

LEMMA GameStep ==
  ASSUME ChannelIInv, GameMoves
  PROVE  ChannelIInv'
<1>1. UNCHANGED <<vars, pages, wire, fate, queuedOn>> /\ Running' = Running
  BY DEF GameMoves, pageVars, Running
<1>2. UNCHANGED <<page, offers, receipts, command>>
  BY <1>1 DEF vars
<1>3. /\ shown' \in Screens /\ ready' \in BOOLEAN /\ sent' \in [1..MaxPage -> Nat]
      /\ (sent' = sent /\ shown' = shown) \/ sent' = [p \in 1..MaxPage |-> 0]
  <2>1. \/ shown' \in Screens /\ sent' = [p \in 1..MaxPage |-> 0]
        \/ shown' = shown /\ sent' = sent
    BY DEF GameMoves
  <2>2. ready' \in BOOLEAN
    BY DEF GameMoves
  <2> QED
    BY <2>1, <2>2, ChannelFacts
<1>4. QueuedHere'
  BY <1>1, <1>2 DEF ChannelIInv, QueuedHere
<1>5. SentOK'
  BY <1>1, <1>2, <1>3 DEF ChannelIInv, SentOK
<1> QED
  BY <1>1, <1>2, <1>3, <1>4, <1>5, ChannelFacts, NoResponseStep

LEMMA LoadPageStep ==
  ASSUME ChannelIInv, LoadPage
  PROVE  ChannelIInv'
<1>1. /\ OpenPage /\ UNCHANGED <<wire, fate, queuedOn, sent, shown, ready>>
      /\ pages' = [p \in Running \union {page'} |-> IF p = page' THEN NewPage ELSE pages[p]]
      /\ page' = page + 1 /\ page < MaxPage /\ command' = NoCommand /\ offers' = offers
  BY DEF LoadPage, OpenPage, gameVars, historyVars
<1>2. NewPage \in PageStates
  BY DEF NewPage, PageStates
<1>3. /\ Running' = Running \union {page'}
      /\ pages'[page'] = NewPage /\ page' \notin Running /\ page' \in 1..MaxPage
      /\ \A q \in Running : pages'[q] = pages[q]
  BY <1>1, ChannelFacts DEF Running
<1>4. pages' \in [Running' -> PageStates] /\ Running' \subseteq 1..page'
  BY <1>1, <1>2, <1>3, ChannelFacts
<1>5. QueuedHere'
  BY <1>1 DEF QueuedHere, NoCommand
<1>6. SentOK'
  BY <1>1, <1>3, ChannelFacts DEF ChannelIInv, SentOK
<1>7. ReportsFrom(receipts, receipts', 0, "NONE")
  BY <1>1, QuietReports DEF ChannelIInv
<1>8. [Next]_vars
  BY <1>1 DEF Next
<1> QED
  BY <1>1, <1>3, <1>4, <1>5, <1>6, <1>7, <1>8, ChannelFacts, NoResponseStep

LEMMA SubmitStep ==
  ASSUME ChannelIInv, NEW o \in Owners, NEW gen \in 1..MaxGeneration, NEW late \in Lags,
         NEW tracked \in BOOLEAN, Submit(o, gen, late, tracked)
  PROVE  ChannelIInv'
<1>1. /\ Queue(o, gen, late, tracked)
      /\ queuedOn' = [queuedOn EXCEPT ![nextCommand'] = screen]
      /\ UNCHANGED <<pages, wire, fate, sent, shown, ready, visit>>
      /\ Running' = Running
  BY DEF Submit, gameVars, pageVars, Running
<1>2. /\ nextCommand < MaxCommand /\ nextCommand' = nextCommand + 1
      /\ command'.id = nextCommand + 1 /\ command'.screen = screen
      /\ UNCHANGED <<page, offers>>
  BY <1>1 DEF Queue, historyVars
<1>3. /\ nextCommand \in 0..MaxCommand /\ nextCommand' \in Ids
      /\ \A k \in Ids : offers[k] = 1 => k # nextCommand'
  <2>1. nextCommand \in 0..MaxCommand
        /\ \A k \in Ids : offers[k] <= 1 /\ (k > nextCommand => offers[k] = 0)
    BY DEF ChannelIInv, IInv, MailboxOK
  <2> QED
    BY <1>2, <2>1 DEF Ids
<1>4. queuedOn' \in [Ids -> Screens] /\ queuedOn'[nextCommand'] = screen
      /\ \A k \in Ids : k # nextCommand' => queuedOn'[k] = queuedOn[k]
  BY <1>1, <1>3, ChannelFacts
<1>5. QueuedHere'
  BY <1>2, <1>4 DEF QueuedHere
<1>6. SentOK'
  BY <1>1, <1>2 DEF ChannelIInv, SentOK
<1>7. ReportsFrom(receipts, receipts', 0, "NONE")
  BY <1>1, QuietReports DEF ChannelIInv
<1>8. [Next]_vars
  BY <1>1 DEF Next, Guest
<1> QED
  BY <1>1, <1>2, <1>3, <1>4, <1>5, <1>6, <1>7, <1>8, ChannelFacts, NoResponseStep

LEMMA AloneStep ==
  ASSUME ChannelIInv, ServiceAlone
  PROVE  ChannelIInv'
<1>1. /\ \/ Enable \/ Tick
         \/ \E o \in Owners :
              \/ Release(o)
              \/ \E late \in Lags :
                   Status(o, late) \/ \E gen \in 1..MaxGeneration : QueueRefused(o, gen, late)
      /\ UNCHANGED <<pages, wire, fate, queuedOn, sent, shown, ready>>
      /\ Running' = Running
  BY DEF ServiceAlone, channelVars, gameVars, pageVars, Running
<1>2. /\ page' = page /\ offers' = offers
      /\ command'.id # 0 => command'.id = command.id /\ command'.screen = command.screen
  <2>1. NoCommand.id = 0
    BY DEF NoCommand
  <2>2. command \in Commands
    BY DEF ChannelIInv, IInv, TypeOK
  <2>3. CASE Enable
    BY <2>3 DEF Enable, commandVars, historyVars
  <2>4. CASE Tick
    BY <2>2, <2>4 DEF Tick, historyVars, Commands
  <2>5. ASSUME NEW o \in Owners, Release(o)
        PROVE  /\ page' = page /\ offers' = offers
               /\ command'.id # 0 => command'.id = command.id /\ command'.screen = command.screen
    BY <2>1, <2>5 DEF Release
  <2>6. ASSUME NEW o \in Owners, NEW late \in Lags,
               Status(o, late) \/ \E gen \in 1..MaxGeneration : QueueRefused(o, gen, late)
        PROVE  /\ page' = page /\ offers' = offers
               /\ command'.id # 0 => command'.id = command.id /\ command'.screen = command.screen
    BY <2>1, <2>6 DEF Status, QueueRefused, LiveCommand, historyVars
  <2> QED
    BY <1>1, <2>3, <2>4, <2>5, <2>6
<1>3. QueuedHere'
  BY <1>1, <1>2 DEF ChannelIInv, QueuedHere
<1>4. SentOK'
  BY <1>1, <1>2 DEF ChannelIInv, SentOK
<1>5. ReportsFrom(receipts, receipts', 0, "NONE")
  BY <1>1, QuietReports DEF ChannelIInv
<1>6. [Next]_vars
  BY <1>1 DEF Next, Guest
<1> QED
  BY <1>1, <1>2, <1>3, <1>4, <1>5, <1>6, ChannelFacts, NoResponseStep

\* The command a response carries: nobody was offered it before, and it is for the
\* screen the poll reports.
LEMMA DeliveryFacts ==
  ASSUME IInv, QueuedHere, NEW poll \in Polls, NEW late \in Lags, Exchange(poll, late),
         NEW id, id = IF Deliverable(CurrentCommand(poll, late), generation')
                      THEN CurrentCommand(poll, late).id ELSE 0
  PROVE  /\ id \in 0..MaxCommand
         /\ id = 0 => offers' = offers
         /\ id # 0 => /\ offers[id] = 0 /\ offers' = [offers EXCEPT ![id] = @ + 1]
                      /\ queuedOn[id] = poll.screen /\ poll.screen \in ContinueScreens
         /\ command'.id # 0 => command'.id = command.id /\ command'.screen = command.screen
<1> DEFINE cmd == CurrentCommand(poll, late)
<1>1. Accepted(poll) /\ screen' = poll.screen
  BY DEF Exchange, Sample
<1>2. \E acked : acked = IF poll.ack > lastAck THEN poll.ack ELSE lastAck
  OBVIOUS
<1>3. /\ cmd \in Commands
      /\ cmd.id # 0 /\ ~cmd.delivered => offers[cmd.id] = 0
      /\ cmd \in {command, NoCommand}
  <2>1. /\ cmd \in Commands
        /\ cmd.id # 0 /\ ~cmd.delivered => offers[cmd.id] = 0
    BY <1>1, <1>2, PollMailbox DEF MailboxOK
  <2>2. ReportedCommand(poll, late) \in {command, NoCommand}
    BY <1>1, <1>2, PollMailbox
  <2> QED
    BY <2>1, <2>2 DEF CurrentCommand
<1>4. /\ NoCommand.id = 0
      /\ cmd.id \in 0..MaxCommand
  BY <1>3 DEF NoCommand, Commands
<1>5. CommandIsCurrent'
  <2>1. Next
    BY <1>1 DEF Next, Poll
  <2> QED
    BY <2>1, NextIInv DEF IInv
<1>6. CASE Deliverable(cmd, generation')
  <2>1. command' = [cmd EXCEPT !.delivered = TRUE] /\ offers' = [offers EXCEPT ![cmd.id] = @ + 1]
    BY <1>6 DEF Exchange
  <2>2. id = cmd.id /\ cmd.id # 0 /\ ~cmd.delivered
    BY <1>6 DEF Deliverable
  <2> HIDE DEF cmd
  <2>3. cmd = command /\ command'.id = cmd.id /\ command'.screen = cmd.screen
    BY <1>3, <1>4, <2>1, <2>2 DEF Commands
  <2>4. command'.screen = screen' /\ screen' \in ContinueScreens
    BY <1>5, <2>2, <2>3 DEF CommandIsCurrent
  <2>5. queuedOn[id] = command.screen
    BY <2>2, <2>3 DEF QueuedHere
  <2> QED
    BY <1>1, <1>3, <1>4, <2>1, <2>2, <2>3, <2>4, <2>5
<1>7. CASE ~Deliverable(cmd, generation')
  <2>1. command' = cmd /\ offers' = offers /\ id = 0
    BY <1>7 DEF Exchange
  <2>2. id \in 0..MaxCommand
    BY <2>1
  <2> HIDE DEF cmd
  <2> QED
    BY <1>3, <1>4, <2>1, <2>2
<1> QED
  BY <1>6, <1>7

\* A poll is served: the page whose request it is may get one command that nobody
\* was offered before.
LEMMA ServeFacts ==
  ASSUME ChannelIInv, NEW poll \in wire, NEW late \in Lags, Serve(poll, late)
  PROVE  /\ poll \in Polls /\ [Next]_vars /\ page' = page
         /\ wire' \subseteq wire /\ UNCHANGED <<fate, queuedOn, sent, shown, ready>>
         /\ ReportsFrom(receipts, receipts', poll.ack, poll.outcome)
         /\ command'.id # 0 => command'.id = command.id /\ command'.screen = command.screen
         /\ \E id \in 0..MaxCommand :
              /\ id = 0 => offers' = offers
              /\ id # 0 => /\ offers[id] = 0 /\ offers' = [offers EXCEPT ![id] = @ + 1]
                           /\ queuedOn[id] = poll.screen /\ poll.screen \in ContinueScreens
              /\ \/ pages' = pages
                 \/ pages' = [q \in Running |->
                                IF q = poll.page /\ pages[q].pending = poll.sequence
                                THEN [pages[q] EXCEPT !.answer = [id |-> id, screen |-> poll.screen]]
                                ELSE pages[q]]
<1>1. poll \in Polls /\ IInv /\ QueuedHere
  BY ChannelFacts DEF ChannelIInv
<1>2. wire' \subseteq wire /\ UNCHANGED <<fate, queuedOn, sent, shown, ready>>
  BY DEF Serve, gameVars
<1>3. CASE Exchange(poll, late)
  <2> DEFINE id == IF Deliverable(CurrentCommand(poll, late), generation')
                   THEN CurrentCommand(poll, late).id ELSE 0
  <2>1. /\ id \in 0..MaxCommand
        /\ id = 0 => offers' = offers
        /\ id # 0 => /\ offers[id] = 0 /\ offers' = [offers EXCEPT ![id] = @ + 1]
                     /\ queuedOn[id] = poll.screen /\ poll.screen \in ContinueScreens
        /\ command'.id # 0 => command'.id = command.id /\ command'.screen = command.screen
    BY <1>1, <1>3, DeliveryFacts
  <2>2. [Next]_vars /\ page' = page
    BY <1>1, <1>3 DEF Next, Poll, Exchange, Sample
  <2>3. ReportsFrom(receipts, receipts', poll.ack, poll.outcome)
    BY <1>1, <1>3, PollReports
  <2>4. \/ pages' = pages
        \/ pages' = [q \in Running |->
                       IF q = poll.page /\ pages[q].pending = poll.sequence
                       THEN [pages[q] EXCEPT !.answer = [id |-> id, screen |-> poll.screen]]
                       ELSE pages[q]]
    BY DEF Serve
  <2> HIDE DEF id
  <2> QED
    BY <1>1, <1>2, <2>1, <2>2, <2>3, <2>4
<1>4. CASE ExchangeUnanswered(poll, late) \/ ExchangeExhausted(poll, late)
  <2>1. Accepted(poll) /\ page' = page /\ offers' = offers
    BY <1>4 DEF ExchangeUnanswered, ExchangeExhausted, Sample, historyVars
  <2>2. [Next]_vars
    BY <1>1, <1>4, <2>1 DEF Next, Poll
  <2>3. ReportsFrom(receipts, receipts', poll.ack, poll.outcome)
    BY <1>1, <1>4, PollReports
  <2>4. command'.id # 0 => command'.id = command.id /\ command'.screen = command.screen
    <3>1. \E acked : acked = IF poll.ack > lastAck THEN poll.ack ELSE lastAck
      OBVIOUS
    <3>2. ReportedCommand(poll, late) \in {command, NoCommand}
      BY <1>1, <2>1, <3>1, PollMailbox
    <3>3. command' \in {command, NoCommand}
      BY <1>4, <3>2 DEF ExchangeUnanswered, ExchangeExhausted, CurrentCommand
    <3> QED
      BY <3>3 DEF NoCommand
  <2>5. pages' = pages \/ Exchange(poll, late)
    BY DEF Serve
  <2> QED
    BY <1>1, <1>2, <1>3, <2>1, <2>2, <2>3, <2>4, <2>5
<1>5. CASE pages' = pages /\ UNCHANGED vars
  <2>1. page' = page /\ offers' = offers /\ receipts' = receipts /\ command' = command
    BY <1>5 DEF vars
  <2>2. ReportsFrom(receipts, receipts', poll.ack, poll.outcome)
    BY <2>1 DEF ReportsFrom
  <2>3. 0 \in 0..MaxCommand
    OBVIOUS
  <2> QED
    BY <1>1, <1>2, <1>5, <2>1, <2>2, <2>3
<1> QED
  BY <1>3, <1>4, <1>5 DEF Serve

LEMMA ServeStep ==
  ASSUME ChannelIInv, NEW poll \in wire, NEW late \in Lags, Serve(poll, late)
  PROVE  ChannelIInv'
<1>1. /\ poll \in Polls /\ [Next]_vars /\ page' = page
      /\ wire' \subseteq wire /\ UNCHANGED <<fate, queuedOn, sent, shown, ready>>
      /\ ReportsFrom(receipts, receipts', poll.ack, poll.outcome)
      /\ command'.id # 0 => command'.id = command.id /\ command'.screen = command.screen
  BY ServeFacts
<1>2. PICK id \in 0..MaxCommand :
        /\ id = 0 => offers' = offers
        /\ id # 0 => /\ offers[id] = 0 /\ offers' = [offers EXCEPT ![id] = @ + 1]
                     /\ queuedOn[id] = poll.screen /\ poll.screen \in ContinueScreens
        /\ \/ pages' = pages
           \/ pages' = [q \in Running |->
                          IF q = poll.page /\ pages[q].pending = poll.sequence
                          THEN [pages[q] EXCEPT !.answer = [id |-> id, screen |-> poll.screen]]
                          ELSE pages[q]]
  BY ServeFacts
<1>3. /\ offers \in [Ids -> Nat] /\ IInv' /\ page \in Nat
      /\ id # 0 => id \in Ids
  <2>1. IInv'
    BY <1>1, NextIInv DEF ChannelIInv
  <2>2. offers \in [Ids -> Nat] /\ page \in Nat
    BY DEF ChannelIInv, IInv, TypeOK
  <2> QED
    BY <2>1, <2>2 DEF Ids
<1> DEFINE answer == [id |-> id, screen |-> poll.screen]
<1>4. answer \in Answers /\ answer.id = id /\ answer.screen = poll.screen
  BY <1>1 DEF Answers, Polls
<1> HIDE DEF answer
<1>5. /\ Running' = Running
      /\ \A q \in Running :
           \/ pages'[q] = pages[q]
           \/ q = poll.page /\ pages'[q] = [pages[q] EXCEPT !.answer = answer]
  BY <1>2, ChannelFacts DEF Running, answer
<1>6. ASSUME NEW q \in Running
      PROVE  /\ pages'[q] \in PageStates
             /\ pages'[q].acknowledged = pages[q].acknowledged
             /\ pages'[q].outcome = pages[q].outcome
             /\ pages'[q].lastId = pages[q].lastId
             /\ pages'[q].continued = pages[q].continued
             /\ pages'[q].screen = pages[q].screen
             /\ \/ pages'[q].answer = pages[q].answer
                \/ q = poll.page /\ pages'[q].answer = answer
  <2>1. pages[q] \in PageStates
    BY ChannelFacts
  <2>2. answer \in Answers \union {NoAnswer}
    BY <1>4
  <2>3. CASE pages'[q] = pages[q]
    BY <2>1, <2>3
  <2>4. CASE q = poll.page /\ pages'[q] = [pages[q] EXCEPT !.answer = answer]
    BY <2>1, <2>2, <2>4 DEF PageStates
  <2> QED
    BY <1>5, <2>3, <2>4
<1>7. ChannelTypes'
  <2>1. pages' \in [Running' -> PageStates]
    <3>1. pages' = [q \in Running |-> pages'[q]]
      BY <1>2, ChannelFacts
    <3> QED
      BY <1>5, <1>6, <3>1
  <2> QED
    BY <1>1, <1>5, <2>1 DEF ChannelIInv, ChannelTypes
<1>8. \A k \in Ids : offers[k] = 1 => k # id /\ offers'[k] = 1
  <2>1. ASSUME NEW k \in Ids, offers[k] = 1 PROVE k # id /\ offers'[k] = 1
    <3>1. k # 0
      BY DEF Ids
    <3>2. CASE id = 0
      BY <1>2, <2>1, <3>1, <3>2
    <3>3. CASE id # 0
      BY <1>2, <1>3, <2>1, <3>3
    <3> QED
      BY <3>2, <3>3
  <2> QED
    BY <2>1
<1>9. ASSUME NEW q \in Running, NEW k \in Ids, Has(pages'[q], k)
      PROVE  \/ k # id /\ Has(pages[q], k) /\ pages'[q].answer = pages[q].answer
             \/ k = id /\ q = poll.page /\ pages'[q].answer = answer
  <2>1. CASE pages'[q].answer = pages[q].answer
    <3>1. Has(pages[q], k)
      BY <1>9, <2>1 DEF Has
    <3>2. offers[k] = 1
      BY <3>1 DEF ChannelIInv, AnswersOK
    <3> QED
      BY <1>8, <2>1, <3>1, <3>2
  <2>2. CASE q = poll.page /\ pages'[q].answer = answer
    BY <1>4, <1>9, <2>2 DEF Has
  <2> QED
    BY <1>6, <2>1, <2>2
<1>10. AwaitedIds' \subseteq AwaitedIds \union {id}
  BY <1>5, <1>6, <1>9 DEF AwaitedIds, Awaits
<1>11. \A k \in Ids : offers[k] = 1 /\ k \notin AwaitedIds =>
         offers'[k] = 1 /\ fate'[k] = fate[k] /\ k \notin AwaitedIds'
  BY <1>1, <1>8, <1>10
<1>12. AnswersOK'
  <2> SUFFICES ASSUME NEW q \in Running, NEW k \in Ids, Has(pages'[q], k)
               PROVE  /\ offers'[k] = 1
                      /\ pages'[q].answer.screen = queuedOn[k] /\ queuedOn[k] \in ContinueScreens
                      /\ \A r \in Running : Has(pages'[r], k) => q = r
                      /\ k > pages'[q].lastId => fate[k] = "none"
    BY <1>1, <1>5 DEF AnswersOK
  <2>1. CASE k # id /\ Has(pages[q], k) /\ pages'[q].answer = pages[q].answer
    <3>1. /\ offers[k] = 1
          /\ pages[q].answer.screen = queuedOn[k] /\ queuedOn[k] \in ContinueScreens
          /\ \A r \in Running : Has(pages[r], k) => q = r
          /\ k > pages[q].lastId => fate[k] = "none"
      BY <2>1 DEF ChannelIInv, AnswersOK
    <3> QED
      BY <1>6, <1>8, <1>9, <2>1, <3>1
  <2>2. CASE k = id /\ q = poll.page /\ pages'[q].answer = answer
    <3>1. /\ offers[k] = 0 /\ offers' = [offers EXCEPT ![k] = @ + 1]
          /\ queuedOn[k] = poll.screen /\ poll.screen \in ContinueScreens
      BY <1>2, <2>2 DEF Ids
    <3>2. offers'[k] = 1 /\ fate[k] = "none"
      BY <1>3, <3>1 DEF ChannelIInv, FatesOK, ChannelTypes
    <3> QED
      BY <1>4, <1>9, <2>2, <3>1, <3>2
  <2> QED
    BY <1>9, <2>1, <2>2
<1>13. FatesOK'
  BY <1>1, <1>8 DEF ChannelIInv, FatesOK
<1>14. PageClaims'
  <2> SUFFICES ASSUME NEW q \in Running
               PROVE  Claim(pages'[q].acknowledged, pages'[q].outcome, offers', fate', AwaitedIds')
    BY <1>5 DEF PageClaims
  <2> QED
    BY <1>6, <1>11, ClaimsLast DEF ChannelIInv, PageClaims
<1>15. WireClaims'
  <2> SUFFICES ASSUME NEW other \in wire
               PROVE  Claim(other.ack, other.outcome, offers', fate', AwaitedIds')
    BY <1>1 DEF WireClaims
  <2> QED
    BY <1>11, ClaimsLast DEF ChannelIInv, WireClaims
<1>16. ReceiptClaims'
  BY <1>1, <1>11, ReceiptsClaim DEF ChannelIInv, WireClaims
<1>17. QueuedHere' /\ SentOK'
  BY <1>1, <1>5, <1>6 DEF ChannelIInv, QueuedHere, SentOK
<1> QED
  BY <1>3, <1>7, <1>12, <1>13, <1>14, <1>15, <1>16, <1>17 DEF ChannelIInv

-----------------------------------------------------------------------------
(* What mods may rely on.                                                   *)

LEMMA ChannelInitIInv == ChannelInit => ChannelIInv
<1> SUFFICES ASSUME ChannelInit PROVE ChannelIInv
  OBVIOUS
<1>1. IInv
  BY InitIInv DEF ChannelInit
<1>2. /\ pages = [p \in {} |-> NewPage] /\ Running = {} /\ wire = {}
      /\ shown \in Screens /\ ready = FALSE
      /\ fate = [id \in Ids |-> "none"] /\ queuedOn = [id \in Ids |-> NoScreen]
      /\ sent = [p \in 1..MaxPage |-> 0]
      /\ command = NoCommand /\ receipts = [i \in Slots |-> NoReceipt]
  BY DEF ChannelInit, Init, Running
<1>3. ChannelTypes
  <2>1. NoScreen \in Screens /\ "none" \in Fates
    BY DEF Fates
  <2>2. pages \in [Running -> PageStates]
    BY <1>2
  <2> QED
    BY <1>2, <2>1, <2>2 DEF ChannelTypes
<1>4. QueuedHere /\ AnswersOK /\ FatesOK /\ PageClaims /\ WireClaims /\ SentOK
  BY <1>2 DEF QueuedHere, NoCommand, AnswersOK, FatesOK, PageClaims, WireClaims, SentOK
<1>5. ReceiptClaims
  BY <1>2 DEF ReceiptClaims, Claim, NoReceipt, Reported
<1> QED
  BY <1>1, <1>3, <1>4, <1>5 DEF ChannelIInv

LEMMA ChannelNextIInv == ChannelIInv /\ [ChannelNext]_allVars => ChannelIInv'
<1> SUFFICES ASSUME ChannelIInv, [ChannelNext]_allVars PROVE ChannelIInv'
  OBVIOUS
<1>1. CASE GameMoves \/ LoadPage \/ ServiceAlone
  BY <1>1, GameStep, LoadPageStep, AloneStep
<1>2. ASSUME NEW p \in Running, Page(p) PROVE ChannelIInv'
  BY <1>2, LookSteps, StopPageStep, ReceiveStep DEF Page
<1>3. ASSUME NEW poll \in wire, NEW late \in Lags, Serve(poll, late) PROVE ChannelIInv'
  BY <1>3, ServeStep
<1>4. ASSUME NEW o \in Owners, NEW gen \in 1..MaxGeneration, NEW late \in Lags,
             NEW tracked \in BOOLEAN, Submit(o, gen, late, tracked)
      PROVE  ChannelIInv'
  BY <1>4, SubmitStep
<1>5. CASE UNCHANGED allVars
  <2>1. /\ UNCHANGED <<vars, pages, wire, fate, queuedOn, sent, shown, ready>>
        /\ Running' = Running
    BY <1>5 DEF allVars, channelVars, gameVars, pageVars, Running
  <2>2. UNCHANGED <<page, offers, receipts, command>>
    BY <2>1 DEF vars
  <2>3. QueuedHere' /\ SentOK'
    BY <2>1, <2>2 DEF ChannelIInv, QueuedHere, SentOK
  <2> QED
    BY <2>1, <2>2, <2>3, ChannelFacts, NoResponseStep
<1> QED
  BY <1>1, <1>2, <1>3, <1>4, <1>5 DEF ChannelNext

LEMMA AlwaysChannelIInv == ChannelSpec => []ChannelIInv
  BY ChannelInitIInv, ChannelNextIInv, PTL DEF ChannelSpec

\* What a receipt says is what happened in the renderer, and stays true.
THEOREM ReceiptsTrue == ChannelSpec => []ReceiptsTellTheTruth
<1>1. ChannelIInv => ReceiptsTellTheTruth
  <2> SUFFICES ASSUME ChannelIInv, NEW i \in Slots, receipts[i].id # 0
               PROVE  LET happened == fate[receipts[i].id]
                      IN  /\ receipts[i].status = "DISPATCHED"      => happened = "returned"
                          /\ receipts[i].status = "DISPATCH_FAILED" => happened = "threw"
                          /\ receipts[i].status \in Withdrawn \union {"QUEUED", "SKIPPED"}
                               => happened = "none"
    BY DEF ReceiptsTellTheTruth
  <2>1. Claim(receipts[i].id, receipts[i].status, offers, fate, AwaitedIds)
    BY DEF ChannelIInv, ReceiptClaims
  <2>2. receipts[i].id \in Ids
    BY DEF ChannelIInv, IInv, TypeOK, Receipts, Ids
  <2>3. receipts[i].status \in Withdrawn \union {"QUEUED"} => offers[receipts[i].id] = 0
    BY DEF ChannelIInv, IInv, MailboxOK
  <2>4. receipts[i].status \in Withdrawn \union {"QUEUED"} => fate[receipts[i].id] = "none"
    BY <2>2, <2>3 DEF ChannelIInv, FatesOK
  <2> QED
    BY <2>1, <2>4 DEF Claim, Told, Reported
<1> QED
  BY <1>1, AlwaysChannelIInv, PTL

\* A page sends the event at most once in a visit of a screen.
THEOREM SentOnce == ChannelSpec => []OncePerVisit
<1>1. ChannelIInv => OncePerVisit
  BY DEF ChannelIInv, SentOK, OncePerVisit
<1> QED
  BY <1>1, AlwaysChannelIInv, PTL

\* A command only reaches the game while it shows the screen the command was
\* queued for, and is ready.
RightScreen ==
  \A id \in Ids : fate'[id] # fate[id] =>
    shown = queuedOn[id] /\ shown \in ContinueScreens /\ ready

LEMMA NextRightScreen == ChannelIInv /\ [ChannelNext]_allVars => RightScreen
<1> SUFFICES ASSUME ChannelIInv, [ChannelNext]_allVars PROVE RightScreen
  OBVIOUS
<1>1. ASSUME NEW p \in Running, Receive(p) PROVE RightScreen
  <2>1. fate \in [Ids -> Fates]
    BY DEF ChannelIInv, ChannelTypes
  <2>2. \/ fate' = fate
        \/ /\ shown = queuedOn[pages[p].answer.id] /\ shown \in ContinueScreens /\ ready
           /\ \/ fate' = [fate EXCEPT ![pages[p].answer.id] = "returned"]
              \/ fate' = [fate EXCEPT ![pages[p].answer.id] = "threw"]
    BY <1>1, ReceiveFacts
  <2>3. \A id \in Ids : fate'[id] # fate[id] => id = pages[p].answer.id
    BY <2>1, <2>2
  <2> QED
    BY <2>2, <2>3 DEF RightScreen
<1>2. fate' = fate \/ \E p \in Running : Receive(p)
  BY DEF ChannelNext, allVars, channelVars, GameMoves, LoadPage, ServiceAlone, Page, SendPoll,
         JustLook, GiveUp, Settle, DateGoesBack, StopPage, Serve, Submit
<1> QED
  BY <1>1, <1>2 DEF RightScreen

THEOREM TriggersRight == ChannelSpec => TriggersItsScreen
<1>1. ChannelSpec => [][RightScreen]_allVars
  BY AlwaysChannelIInv, NextRightScreen, PTL DEF ChannelSpec
<1> QED
  BY <1>1 DEF RightScreen, TriggersItsScreen
=============================================================================
