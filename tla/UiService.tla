----------------------------- MODULE UiService -----------------------------
(***************************************************************************)
(* runtime/ui_service.{h,cpp}: the mailbox between the mods of the host    *)
(* thread and the one trusted page that runs in the game's renderer.       *)
(*                                                                         *)
(* At most one command (`command_`) is in flight.  A mod queues it, the    *)
(* page's next poll takes it, a later poll reports what came of it, and    *)
(* the mod reads the result from a ring of receipts.  Enabling, page       *)
(* loads, screen changes, owner teardown and the two-second deadline can   *)
(* each take the command away at any moment.                               *)
(*                                                                         *)
(* Every operation runs under `lock_`, so each is one action.  Guest and   *)
(* engine calls only try the lock: a call that finds it taken returns at   *)
(* once and changes nothing, which is a stuttering step here.  Time is     *)
(* kept as the age of what is stamped.  A call's clock is read before the  *)
(* lock is tried, so it may lie up to Skew ticks behind a stamp that the   *)
(* other thread has written in between; a call's `late` is that lag.  The  *)
(* page's poll, on the renderer's thread (native_ui.cpp:384), may lie      *)
(* behind a submission or a lease, a guest's call behind the page's sample *)
(* only: all guests share the host thread (OwnClock).                      *)
(*                                                                         *)
(* An operator named Slip... is a plausible mistake in the definition that *)
(* follows it and is used nowhere; it shows that a property can fail.      *)
(***************************************************************************)
EXTENDS Naturals, FiniteSets

CONSTANTS
  Owners,           \* tokens of mod instances; the runtime never reuses one
  NoOwner,          \* the zero token
  Screens,          \* the screens a page can report
  ContinueScreens,  \* those with a Continue action (can_continue)
  NoScreen,         \* CRML_UI_SCREEN_UNKNOWN
  Targets,          \* (kind, name) pairs a presentation lease can hide
  LeaseSlots,       \* size of leases_ (8)
  RingSize,         \* size of receipts_ (64)
  FreshFor,         \* ticks a sample may be read for (1000 ms)
  ExpireAfter,      \* ticks after which a command expires (2000 ms)
  Durations,        \* lease durations asked for, in ticks (1..1000 ms)
  Skew,             \* largest lag of a call's clock behind the other thread's stamp
  MaxPage,          \* UINT64_MAX
  MaxGeneration,    \* UINT64_MAX
  MaxSequence,      \* UINT32_MAX
  MaxCommand        \* UINT32_MAX

ASSUME OwnersAssumption == NoOwner \notin Owners
ASSUME ScreensAssumption == NoScreen \in Screens /\ ContinueScreens \subseteq Screens \ {NoScreen}
ASSUME TimeAssumption ==
  /\ FreshFor \in Nat /\ ExpireAfter \in Nat /\ Skew \in Nat
  /\ FreshFor <= ExpireAfter
  /\ Durations \subseteq 1..FreshFor
ASSUME BoundsAssumption ==
  /\ RingSize \in Nat \ {0} /\ LeaseSlots \in Nat
  /\ MaxPage \in Nat /\ MaxGeneration \in Nat /\ MaxSequence \in Nat /\ MaxCommand \in Nat

VARIABLES
  enabled,       \* enabled_
  page,          \* page_: number of the page whose polls are accepted
  generation,    \* generation_: bumped whenever screen or actions change
  sampled,       \* sampled_: the page has reported since it was opened
  sampleAge,     \* ticks since sampled_at_; 0 while there is no sample
  sequence,      \* sequence_: the newest poll of the page
  screen,        \* screen_
  actions,       \* actions_: the Continue bit
  nextCommand,   \* next_command_: the newest command id
  lastAck,       \* last_ack_
  lastDelivery,  \* last_delivery_: the newest id put into a response
  command,       \* command_; id 0 when there is none
  receipts,      \* receipts_
  nextReceipt,   \* next_receipt_
  leases,        \* leases_: held targets (a taken slot per target)
  offers,        \* history: responses that carried each command
  released       \* history: owners whose instance has been torn down

vars == <<enabled, page, generation, sampled, sampleAge, sequence, screen, actions,
          nextCommand, lastAck, lastDelivery, command, receipts, nextReceipt, leases,
          offers, released>>

sampleVars  == <<generation, sampled, sampleAge, sequence, screen, actions>>
commandVars == <<nextCommand, command, receipts, nextReceipt>>
historyVars == <<offers, released>>

Slots == 0..(RingSize - 1)
Ids   == 1..MaxCommand
Lags  == 0..Skew

InFlight   == {"QUEUED", "DELIVERED"}
Reported   == {"DISPATCHED", "SKIPPED", "DISPATCH_FAILED"}
Withdrawn  == {"EXPIRED", "CANCELLED"}
Definitive == Reported \union Withdrawn
Statuses   == InFlight \union Definitive \union {"OUTCOME_UNKNOWN", "EMPTY"}

\* Ages saturate one tick past the largest comparison any call can make.
SampleCap  == FreshFor + Skew + 1
CommandCap == ExpireAfter + Skew + 1
LeaseCap   == FreshFor + Skew
Older(age, cap) == IF age < cap THEN age + 1 ELSE cap

NoCommand == [owner |-> NoOwner, id |-> 0, generation |-> 0, age |-> 0,
              screen |-> NoScreen, delivered |-> FALSE]
NoReceipt == [owner |-> NoOwner, id |-> 0, page |-> 0, status |-> "EMPTY"]
NoLeases  == [t \in {} |-> NoOwner]

Commands == [owner : Owners \union {NoOwner}, id : 0..MaxCommand,
             generation : 0..MaxGeneration, age : 0..CommandCap,
             screen : Screens, delivered : BOOLEAN]
Receipts == [owner : Owners \union {NoOwner}, id : 0..MaxCommand,
             page : 0..MaxPage, status : Statuses]
Leases   == [owner : Owners, screen : Screens, age : 0..LeaseCap, duration : Durations]

Init ==
  /\ enabled = FALSE
  /\ page = 0 /\ generation = 0 /\ sequence = 0
  /\ sampled = FALSE /\ sampleAge = 0
  /\ screen = NoScreen /\ actions = FALSE
  /\ nextCommand = 0 /\ lastAck = 0 /\ lastDelivery = 0
  /\ command = NoCommand
  /\ receipts = [i \in Slots |-> NoReceipt] /\ nextReceipt = 0
  /\ leases = NoLeases
  /\ offers = [id \in Ids |-> 0] /\ released = {}

-----------------------------------------------------------------------------
(* Helpers of the handlers.  Each maps the part of the state it works on.   *)

Fresh(late) == /\ sampled
               /\ late <= sampleAge
               /\ sampleAge - late <= FreshFor

\* Slips of finish_command: the receipt of an undelivered command is forgotten;
\* a delivered command is reported as if the page had not seen it.
SlipFinishForgets(rs, cmd, undelivered) ==
  [i \in Slots |-> IF cmd.id # 0 /\ rs[i].id = cmd.id /\ cmd.delivered
                   THEN [rs[i] EXCEPT !.status = "OUTCOME_UNKNOWN"] ELSE rs[i]]
SlipFinishBlames(rs, cmd, undelivered) ==
  [i \in Slots |-> IF cmd.id # 0 /\ rs[i].id = cmd.id
                   THEN [rs[i] EXCEPT !.status = undelivered] ELSE rs[i]]

\* finish_command, seen from the receipts.
Finish(rs, cmd, undelivered) ==
  [i \in Slots |->
     IF cmd.id # 0 /\ rs[i].id = cmd.id
     THEN [rs[i] EXCEPT !.status = IF cmd.delivered THEN "OUTCOME_UNKNOWN" ELSE undelivered]
     ELSE rs[i]]

\* Slip: only an undelivered command has a deadline.
SlipOverdueUndelivered(late) ==
  /\ command.id # 0 /\ ~command.delivered
  /\ command.age < late \/ command.age - late > ExpireAfter

\* expire, for the command, its receipt and the leases.
Overdue(late) ==
  /\ command.id # 0
  /\ command.age < late \/ command.age - late > ExpireAfter
LiveCommand(late)  == IF Overdue(late) THEN NoCommand ELSE command
LiveReceipts(late) == IF Overdue(late) THEN Finish(receipts, command, "EXPIRED") ELSE receipts
Live(lease, late)  == lease.age >= late /\ lease.age - late < lease.duration
LiveLeases(late) ==
  [t \in {u \in DOMAIN leases : Live(leases[u], late)} |-> leases[t]]

-----------------------------------------------------------------------------
(* Calls of the host thread.                                                *)

\* Commands and leases are stamped on this thread, so its clock is not behind them.
OwnClock(late) ==
  /\ command.id # 0 => late <= command.age
  /\ \A t \in DOMAIN leases : late <= leases[t].age

Enable ==
  /\ enabled' = TRUE
  /\ UNCHANGED <<page, sampleVars, lastAck, lastDelivery, commandVars, leases, historyVars>>

Disable ==
  /\ enabled' = FALSE
  /\ sampled' = FALSE /\ sampleAge' = 0
  /\ receipts' = Finish(receipts, command, "CANCELLED")
  /\ command' = NoCommand
  /\ leases' = NoLeases
  /\ UNCHANGED <<page, generation, sequence, screen, actions, nextCommand,
                 lastAck, lastDelivery, nextReceipt, historyVars>>

\* queue_locked, up to the checks that return before the command is looked at.
MayQueue(o, gen, late) ==
  /\ o \in Owners \ released /\ OwnClock(late)
  /\ enabled /\ Fresh(late)
  /\ gen > 0

Eligible(gen) == gen = generation /\ actions /\ screen \in ContinueScreens

\* Slips: the ring's index moves for untracked commands too; it never wraps.
SlipAdvanceAlways(tracked) == (nextReceipt + 1) % RingSize
SlipNoWrap(tracked) == IF tracked THEN nextReceipt + 1 ELSE nextReceipt

NextSlot(tracked) == IF tracked THEN (nextReceipt + 1) % RingSize ELSE nextReceipt

\* ui_action_submit (tracked) and ui_activate: the command is accepted.
Queue(o, gen, late, tracked) ==
  /\ MayQueue(o, gen, late)
  /\ Eligible(gen)
  /\ LiveCommand(late).id = 0
  /\ nextCommand < MaxCommand
  /\ nextCommand' = nextCommand + 1
  /\ command' = [owner |-> o, id |-> nextCommand + 1, generation |-> gen, age |-> late,
                 screen |-> screen, delivered |-> FALSE]
  /\ receipts' = IF tracked
                 THEN [LiveReceipts(late) EXCEPT ![nextReceipt] =
                         [owner |-> o, id |-> nextCommand + 1, page |-> page,
                          status |-> "QUEUED"]]
                 ELSE LiveReceipts(late)
  /\ nextReceipt' = NextSlot(tracked)
  /\ leases' = LiveLeases(late)
  /\ UNCHANGED <<enabled, page, sampleVars, lastAck, lastDelivery, historyVars>>

\* A submission refused with -3, -2 or -5 has still swept what had expired.
QueueRefused(o, gen, late) ==
  /\ MayQueue(o, gen, late)
  /\ \/ ~Eligible(gen)
     \/ LiveCommand(late).id # 0
     \/ nextCommand = MaxCommand
  /\ command' = LiveCommand(late)
  /\ receipts' = LiveReceipts(late)
  /\ leases' = LiveLeases(late)
  /\ UNCHANGED <<enabled, page, sampleVars, nextCommand, nextReceipt, lastAck,
                 lastDelivery, historyVars>>

\* status_at: whatever the ticket, the call first sweeps what has expired.
Status(o, late) ==
  /\ o \in Owners \ released /\ OwnClock(late)
  /\ command' = LiveCommand(late)
  /\ receipts' = LiveReceipts(late)
  /\ leases' = LiveLeases(late)
  /\ UNCHANGED <<enabled, page, sampleVars, nextCommand, nextReceipt, lastAck,
                 lastDelivery, historyVars>>

\* present_at with hidden set: take a free slot, or renew one's own lease.
\* A renewal keeps the screen the lease was issued for.
Hide(o, target, duration, late) ==
  LET live == LiveLeases(late)
      held == target \in DOMAIN live
  IN  /\ o \in Owners \ released /\ OwnClock(late)
      /\ enabled /\ Fresh(late) /\ generation > 0
      /\ command' = LiveCommand(late)
      /\ receipts' = LiveReceipts(late)
      /\ leases' =
           IF \/ held /\ live[target].owner # o
              \/ ~held /\ Cardinality(DOMAIN live) >= LeaseSlots
           THEN live
           ELSE [t \in DOMAIN live \union {target} |->
                   IF t = target
                   THEN [owner |-> o, screen |-> IF held THEN live[t].screen ELSE screen,
                         age |-> late, duration |-> duration]
                   ELSE live[t]]
      /\ UNCHANGED <<enabled, page, sampleVars, nextCommand, nextReceipt, lastAck,
                     lastDelivery, historyVars>>

\* present_at with hidden clear: give up one's own lease.
Show(o, target, late) ==
  LET live == LiveLeases(late)
  IN  /\ o \in Owners \ released /\ OwnClock(late)
      /\ enabled /\ Fresh(late) /\ generation > 0
      /\ command' = LiveCommand(late)
      /\ receipts' = LiveReceipts(late)
      /\ leases' = [t \in {u \in DOMAIN live : ~(u = target /\ live[u].owner = o)} |-> live[t]]
      /\ UNCHANGED <<enabled, page, sampleVars, nextCommand, nextReceipt, lastAck,
                     lastDelivery, historyVars>>

\* Slip: release, too, only tries the lock and may change nothing.
SlipReleaseTries(o) ==
  /\ o \in Owners
  /\ released' = released \union {o}
  /\ UNCHANGED <<enabled, page, sampleVars, commandVars, leases, lastAck, lastDelivery, offers>>

\* release: the runtime tears an instance down.  This call waits for the lock.
Release(o) ==
  /\ o \in Owners
  /\ receipts' = IF command.owner = o THEN Finish(receipts, command, "CANCELLED") ELSE receipts
  /\ command' = IF command.owner = o THEN NoCommand ELSE command
  /\ leases' = [t \in {u \in DOMAIN leases : leases[u].owner # o} |-> leases[t]]
  /\ released' = released \union {o}
  /\ UNCHANGED <<enabled, page, sampleVars, nextCommand, nextReceipt, lastAck,
                 lastDelivery, offers>>

-----------------------------------------------------------------------------
(* Calls of the engine's resource hook.                                     *)

OpenPage ==
  /\ enabled /\ page < MaxPage
  /\ receipts' = Finish(receipts, command, "CANCELLED")
  /\ command' = NoCommand
  /\ page' = page + 1
  /\ sequence' = 0 /\ sampled' = FALSE /\ sampleAge' = 0
  /\ screen' = NoScreen /\ actions' = FALSE
  /\ leases' = NoLeases
  /\ lastAck' = 0 /\ lastDelivery' = 0
  /\ UNCHANGED <<enabled, generation, nextCommand, nextReceipt, historyVars>>

\* A poll is [page, sequence, screen, actions, ack, outcome]; `outcome` is
\* "LEGACY" for a v1 poll, whose acknowledgement proves receipt only, and
\* "NONE" for a v2 poll that reports nothing.
Polls == [page : 1..MaxPage, sequence : 1..MaxSequence, screen : Screens,
          actions : BOOLEAN, ack : 0..MaxCommand,
          outcome : Reported \union {"NONE", "LEGACY"}]

WellFormed(poll) == poll.outcome # "LEGACY" => (poll.ack = 0 <=> poll.outcome = "NONE")

\* The poll is answered with 200 or fails late; otherwise it is refused with
\* 400, 409 or 503 and changes nothing.
Accepted(poll) ==
  /\ WellFormed(poll)
  /\ enabled
  /\ poll.page = page /\ poll.sequence > sequence /\ poll.ack <= lastDelivery

Offered(poll) == poll.screen \in ContinueScreens /\ poll.actions

\* Slips: a changed screen does not drop the leases; changed actions alone make
\* no new generation.
SlipScreenKept(poll) == ~sampled
SlipActionsIgnored(poll) == ~sampled \/ screen # poll.screen

NewScreen(poll)     == ~sampled \/ screen # poll.screen
NewGeneration(poll) == ~sampled \/ screen # poll.screen \/ actions # Offered(poll)

\* Slips: a report overwrites a definitive status; a report reaches a receipt of
\* another page.
SlipReportOverwrites(rs, poll) ==
  [i \in Slots |->
     IF poll.ack # 0 /\ rs[i].id = poll.ack /\ rs[i].page = page
     THEN [rs[i] EXCEPT !.status = IF poll.outcome = "LEGACY" THEN "OUTCOME_UNKNOWN"
                                   ELSE poll.outcome]
     ELSE rs[i]]
SlipReportAnyPage(rs, poll) ==
  [i \in Slots |->
     IF /\ poll.ack # 0 /\ rs[i].id = poll.ack
        /\ rs[i].status \in {"DELIVERED", "OUTCOME_UNKNOWN"}
     THEN [rs[i] EXCEPT !.status = IF poll.outcome = "LEGACY" THEN "OUTCOME_UNKNOWN"
                                   ELSE poll.outcome]
     ELSE rs[i]]

\* Lines 165-168: what the report does to the acknowledged receipt.
Resolve(rs, poll) ==
  [i \in Slots |->
     IF /\ poll.ack # 0 /\ rs[i].id = poll.ack /\ rs[i].page = page
        /\ rs[i].status \in {"DELIVERED", "OUTCOME_UNKNOWN"}
     THEN [rs[i] EXCEPT !.status = IF poll.outcome = "LEGACY" THEN "OUTCOME_UNKNOWN"
                                   ELSE poll.outcome]
     ELSE rs[i]]

\* Lines 169-172: the acknowledged command leaves the mailbox.
Acknowledge(cmd, poll) ==
  IF poll.ack > lastAck /\ cmd.id = poll.ack /\ cmd.delivered THEN NoCommand ELSE cmd

\* The command and receipts after the sweep, the report and the acknowledgement.
ReportedCommand(poll, late)  == Acknowledge(LiveCommand(late), poll)
ReportedReceipts(poll, late) == Resolve(LiveReceipts(late), poll)

\* ... and after a new generation has cancelled what was left.
CurrentCommand(poll, late) ==
  IF NewGeneration(poll) THEN NoCommand ELSE ReportedCommand(poll, late)
CurrentReceipts(poll, late) ==
  IF NewGeneration(poll)
  THEN Finish(ReportedReceipts(poll, late), ReportedCommand(poll, late), "CANCELLED")
  ELSE ReportedReceipts(poll, late)

\* Lines 158-179, shared by the polls that get past the generation counter.
Sample(poll, late) ==
  /\ Accepted(poll)
  /\ NewGeneration(poll) => generation < MaxGeneration
  /\ lastAck' = IF poll.ack > lastAck THEN poll.ack ELSE lastAck
  /\ leases' = IF NewScreen(poll) THEN NoLeases ELSE LiveLeases(late)
  /\ generation' = IF NewGeneration(poll) THEN generation + 1 ELSE generation
  /\ sampled' = TRUE /\ sampleAge' = late
  /\ screen' = poll.screen /\ actions' = Offered(poll) /\ sequence' = poll.sequence
  /\ UNCHANGED <<enabled, page, nextCommand, nextReceipt, released>>

\* Slip: a command stays deliverable after its delivery.
SlipDeliverAgain(cmd, gen) == cmd.id # 0 /\ cmd.generation = gen

Deliverable(cmd, gen) == cmd.id # 0 /\ ~cmd.delivered /\ cmd.generation = gen

\* exchange answers 200; the response carries the command if there is one to
\* deliver.
Exchange(poll, late) ==
  LET cmd == CurrentCommand(poll, late)
      rs  == CurrentReceipts(poll, late)
  IN  /\ Sample(poll, late)
      /\ IF Deliverable(cmd, generation')
         THEN /\ command' = [cmd EXCEPT !.delivered = TRUE]
              /\ lastDelivery' = cmd.id
              /\ receipts' = [i \in Slots |-> IF rs[i].id = cmd.id
                                              THEN [rs[i] EXCEPT !.status = "DELIVERED"]
                                              ELSE rs[i]]
              /\ offers' = [offers EXCEPT ![cmd.id] = @ + 1]
         ELSE /\ command' = cmd /\ receipts' = rs
              /\ UNCHANGED <<lastDelivery, offers>>

\* The response could not be built (lines 184, 193): 503, nothing delivered.
ExchangeUnanswered(poll, late) ==
  /\ Sample(poll, late)
  /\ command' = CurrentCommand(poll, late)
  /\ receipts' = CurrentReceipts(poll, late)
  /\ UNCHANGED <<lastDelivery, offers>>

\* No generation is left (line 175): 503 after the report was taken.
ExchangeExhausted(poll, late) ==
  /\ Accepted(poll)
  /\ NewGeneration(poll) /\ generation = MaxGeneration
  /\ command' = ReportedCommand(poll, late)
  /\ receipts' = ReportedReceipts(poll, late)
  /\ lastAck' = IF poll.ack > lastAck THEN poll.ack ELSE lastAck
  /\ leases' = IF NewScreen(poll) THEN NoLeases ELSE LiveLeases(late)
  /\ UNCHANGED <<enabled, page, sampleVars, nextCommand, nextReceipt, lastDelivery,
                 historyVars>>

-----------------------------------------------------------------------------

\* GetTickCount64 advances.
Tick ==
  /\ sampleAge' = IF sampled THEN Older(sampleAge, SampleCap) ELSE 0
  /\ command' = IF command.id = 0 THEN command
                ELSE [command EXCEPT !.age = Older(@, CommandCap)]
  /\ leases' = [t \in DOMAIN leases |-> [leases[t] EXCEPT !.age = Older(@, LeaseCap)]]
  /\ UNCHANGED <<enabled, page, generation, sampled, sequence, screen, actions,
                 nextCommand, lastAck, lastDelivery, receipts, nextReceipt, historyVars>>

Guest(o) ==
  \E late \in Lags :
    \/ \E gen \in 1..MaxGeneration :
         \/ \E tracked \in BOOLEAN : Queue(o, gen, late, tracked)
         \/ QueueRefused(o, gen, late)
    \/ Status(o, late)
    \/ \E target \in Targets :
         \/ \E duration \in Durations : Hide(o, target, duration, late)
         \/ Show(o, target, late)

Poll ==
  \E poll \in {p \in Polls : Accepted(p)}, late \in Lags :
    \/ Exchange(poll, late)
    \/ ExchangeUnanswered(poll, late)
    \/ ExchangeExhausted(poll, late)

Next ==
  \/ Enable \/ Disable \/ OpenPage \/ Tick
  \/ \E o \in Owners : Guest(o) \/ Release(o)
  \/ Poll

Spec == Init /\ [][Next]_vars

\* The clock runs, and a mod that submitted keeps asking for its receipt.  A
\* call that loses the lock does nothing, so the fairness of Status says that
\* the lock, held only for short sections, is not lost for ever.
Fairness ==
  /\ WF_vars(Tick)
  /\ \A o \in Owners : WF_vars(Status(o, 0))

FairSpec == Spec /\ Fairness
=============================================================================
