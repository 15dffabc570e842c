------------------------------- MODULE Flight -------------------------------
(***************************************************************************)
(* runtime/noclip.{h,cpp} and the part of runtime/movement_probe.cpp that  *)
(* drives it: one guest at a time moves the player, by a lease it must     *)
(* keep renewing, until it stops or the host cancels it.                   *)
(*                                                                         *)
(* Two threads share the flight under sample_lock.  The game's controller  *)
(* callback publishes a sample of the player and moves it (Controller);    *)
(* the runtime worker serves the guests and watches the lease.  Poll and   *)
(* noclip_poll read the clock, the focus and the key before they wait for  *)
(* the lock, so each is two steps, and the controller may run between.     *)
(* The input hooks read the flight under the same lock (ActivePlayer).     *)
(*                                                                         *)
(* Time is kept as ages, in ticks, up to Cap; only the order of the three  *)
(* limits matters.  Positions are left out: what the arithmetic and the    *)
(* copy of the controller's view come to is one of Outcomes.  The evidence *)
(* for the log (stopped, restored, overrides) and the overlay are left     *)
(* out.  A request by a guest while another one flies is -2 and changes    *)
(* nothing, and so is not a step.                                          *)
(*                                                                         *)
(* An operator named Slip... is a plausible mistake in the definition that *)
(* follows it and is used nowhere; it shows that a property can fail.      *)
(***************************************************************************)
EXTENDS Naturals, FiniteSets

CONSTANTS
  Owners,        \* guests
  NoOwner,       \* owner 0
  Modes,         \* whether the Recorder may be made for the movement service (TRUE)
                 \* and for the F6 bridge (FALSE)
  Capacity,      \* cancellation_capacity
  Samples,       \* what the controller may see of the player
  Outcomes,      \* how a movement that passed the gates may end
  Inputs,        \* which of focused, escape, fresh and key may change
  AcquireLimit,  \* age of a sample that may start a flight (100 ms)
  StepGap,       \* age of one that may renew it, and the longest frame (250 ms)
  LeaseLimit,    \* lifetime of a lease, of a sample (500 ms)
  MaxSkew        \* bound on the ticks between reading the clock and the lock

ASSUME FlightAssumption ==
  /\ NoOwner \notin Owners
  /\ Modes \subseteq BOOLEAN
  /\ {Capacity, AcquireLimit, StepGap, LeaseLimit, MaxSkew} \subseteq Nat
  /\ AcquireLimit <= StepGap /\ StepGap <= LeaseLimit
  /\ Samples \subseteq [entity : Nat, world : Nat, disabled : BOOLEAN,
                        teleported : BOOLEAN, keyframed : BOOLEAN]
  /\ Outcomes \subseteq {"moved", "displacement", "coordinates", "view"}
  /\ Inputs \subseteq {"focused", "escape", "fresh", "key"}

VARIABLES
  flight,     \* Flight: the lease, and whom it moves
  receipts,   \* Flight::cancelled_guests
  held,       \* LeaseToggle::down
  latest,     \* latest: the last sample
  sampleAge,  \* now - latest_tick
  input,      \* the foreground window and the keyboard snapshot
  worker,     \* what the worker read before it waits for the lock
  closed,     \* the Recorder is destroyed
  motion,     \* Recorder::motion_, fixed when it is made
  toggles     \* history: how often the present press of F6 has switched the flight

vars == <<flight, receipts, held, latest, sampleAge, input, worker, closed, motion, toggles>>

Slots   == 1..Capacity
Cap     == LeaseLimit + MaxSkew + 1
Ages    == 0..Cap
NoStep  == Cap + 1                 \* last_step = 0
Reasons == {"focus", "escape", "stale_sample", "lease", "entity", "world", "disabled",
            "teleport", "keyframed", "tick_gap", "displacement", "coordinates", "view",
            "toggle", "shutdown"}

\* Flight{}, Sample{}, a free Cancellation, the worker between two calls.
Off      == [owner |-> NoOwner, entity |-> 0, world |-> 0, lease |-> 0, step |-> NoStep,
             enabled |-> FALSE, positioned |-> FALSE, guest |-> FALSE]
NoSample == [entity |-> 0, world |-> 0, disabled |-> FALSE, teleported |-> FALSE, keyframed |-> FALSE]
Free     == [owner |-> NoOwner, reason |-> "none", pending |-> FALSE]
AtRest   == [call |-> "none", owner |-> NoOwner, seen |-> FALSE, skew |-> 0]

Init ==
  /\ flight = Off
  /\ receipts = [s \in Slots |-> Free]
  /\ held = FALSE
  /\ latest = NoSample /\ sampleAge = Cap
  /\ input = [focused |-> TRUE, escape |-> FALSE, fresh |-> TRUE, key |-> FALSE]
  /\ worker = AtRest
  /\ closed = FALSE
  /\ motion \in Modes
  /\ toggles = 0
-----------------------------------------------------------------------------
\* The first slot that satisfies a condition, of a set of them.
First(slots) == CHOOSE s \in slots : \A t \in slots : s <= t

\* The reason of the first check that fires; checks are pairs in the code's order.
Verdict(checks) ==
  LET hits == {i \in DOMAIN checks : checks[i][1]}
  IN  IF hits = {} THEN "none" ELSE checks[First(hits)][2]

\* input::down is false, whatever is held, once the snapshot is too old.
Escape == input.fresh /\ input.escape
Key    == input.fresh /\ input.key

\* A sample as a clock sees it that was read skew ticks ago: not from the
\* future and not older than limit.
SampleWithin(limit, skew) == skew <= sampleAge /\ sampleAge - skew <= limit

TeleportBlocks(s) ==
  s.teleported /\ (flight.guest \/ ~(flight.enabled /\ flight.positioned))

SlotsOf(o) == {s \in Slots : receipts[s].owner = o}

\* What motion_read tells a guest.
MotionRead(o) ==
  LET record == IF SlotsOf(o) = {} THEN Free ELSE receipts[First(SlotsOf(o))] IN
  IF flight.enabled /\ flight.guest /\ flight.owner = o
    THEN [state |-> "active", reason |-> "none", pending |-> FALSE]
  ELSE IF record.reason = "none"
    THEN [state |-> "idle", reason |-> "none", pending |-> FALSE]
  ELSE [state |-> "stopped", reason |-> record.reason, pending |-> record.pending]

\* The receipts after reset(why): a guest's flight leaves its reason behind.
\* Slip: it is not marked as pending.
SlipNotPending(why) ==
  IF flight.enabled /\ flight.guest /\ SlotsOf(flight.owner) # {}
    THEN [receipts EXCEPT ![First(SlotsOf(flight.owner))].reason = why]
    ELSE receipts
Cancelled(why) ==
  IF flight.enabled /\ flight.guest /\ SlotsOf(flight.owner) # {}
    THEN [receipts EXCEPT ![First(SlotsOf(flight.owner))] =
            [@ EXCEPT !.reason = why, !.pending = TRUE]]
    ELSE receipts

\* Flight::reset.
Stop(why) ==
  /\ flight' = Off
  /\ receipts' = Cancelled(why)
-----------------------------------------------------------------------------
\* motion_set(o, TRUE).  While another guest flies it is refused; otherwise an
\* enabled flight is o's own.
Foreign(o) == flight.owner \notin {NoOwner, o}
Unasked    == <<held, latest, sampleAge, input, worker, closed, motion, toggles>>

\* request_sampled_motion: a renewal may use an older sample than an acquisition.
RequestBlocked ==
  Verdict(<< <<~input.focused, "focus">>,
             <<Escape, "escape">>,
             <<~SampleWithin(IF flight.enabled THEN StepGap ELSE AcquireLimit, 0), "stale_sample">>,
             <<~input.fresh, "stale_sample">> >>)

\* request_motion, once it holds a receipt.
RequestFailed ==
  Verdict(<< <<flight.enabled /\ flight.lease > LeaseLimit, "lease">>,
             <<flight.enabled /\ flight.entity # latest.entity, "entity">>,
             <<flight.enabled /\ flight.world # latest.world, "world">>,
             <<latest.disabled, "disabled">>,
             <<latest.teleported, "teleport">>,
             <<latest.entity = 0 \/ latest.world = 0 \/ latest.keyframed, "keyframed">> >>)

\* The receipt a request would use: its own, a free one, or one that was acknowledged.
\* Slips: a pending one is given up; a guest's own is not looked for.
SlipEvictsPending(o) ==
  IF SlotsOf(o) # {} THEN {First(SlotsOf(o))}
  ELSE IF SlotsOf(NoOwner) # {} THEN {First(SlotsOf(NoOwner))}
  ELSE {First(Slots)}
SlipAlwaysNew(o) ==
  LET settled == {s \in Slots : ~receipts[s].pending} IN
  IF settled # {} THEN {First(settled)} ELSE {}
ReceiptFor(o) ==
  LET settled == {s \in Slots : ~receipts[s].pending} IN
  IF SlotsOf(o) # {} THEN {First(SlotsOf(o))}
  ELSE IF SlotsOf(NoOwner) # {} THEN {First(SlotsOf(NoOwner))}
  ELSE IF settled # {} THEN {First(settled)}
  ELSE {}

\* The guest has a cancellation it was not told of.
OwesRefusal(o) ==
  ~flight.enabled /\ \E s \in SlotsOf(o) : receipts[s].pending

\* Refused because of what the player, the window or the lease is like: the
\* guest's flight ends.  Without a flight this refusal changes nothing, and so
\* does one for want of a receipt; neither is a step.
Refuse(o) ==
  /\ ~closed /\ motion /\ worker = AtRest /\ ~Foreign(o)
  /\ \/ RequestBlocked # "none" /\ Stop(RequestBlocked)
     \/ /\ RequestBlocked = "none" /\ ~OwesRefusal(o)
        /\ ReceiptFor(o) # {} /\ RequestFailed # "none"
        /\ Stop(RequestFailed)
  /\ flight.enabled
  /\ UNCHANGED Unasked

\* Refused once, to tell a guest how its last flight ended.
Tell(o) ==
  /\ ~closed /\ motion /\ worker = AtRest /\ ~Foreign(o)
  /\ RequestBlocked = "none" /\ OwesRefusal(o)
  /\ receipts' = [receipts EXCEPT ![First(SlotsOf(o))].pending = FALSE]
  /\ UNCHANGED <<flight, Unasked>>

\* Granted or renewed.
Grant(o) ==
  /\ ~closed /\ motion /\ worker = AtRest /\ ~Foreign(o)
  /\ RequestBlocked = "none" /\ ~OwesRefusal(o)
  /\ RequestFailed = "none"
  /\ \E s \in ReceiptFor(o) :
       receipts' = [receipts EXCEPT ![s] = [owner |-> o, reason |-> "none", pending |-> FALSE]]
  /\ flight' = IF flight.enabled THEN [flight EXCEPT !.guest = TRUE, !.lease = 0]
               ELSE [owner |-> o, entity |-> latest.entity, world |-> latest.world, lease |-> 0,
                     step |-> NoStep, enabled |-> TRUE, positioned |-> FALSE, guest |-> TRUE]
  /\ UNCHANGED Unasked

\* release_owner: Recorder::release, whoever flies, and motion_set(o, FALSE),
\* while no other guest does.  The baseline of the key is kept.  Slips: it is
\* not; only the owner is cleared.
SlipForgetsKey(o) ==
  /\ ~closed /\ worker = AtRest
  /\ flight' = IF flight.owner = o THEN Off ELSE flight
  /\ receipts' = [s \in Slots |-> IF receipts[s].owner = o THEN Free ELSE receipts[s]]
  /\ held' = FALSE
  /\ UNCHANGED <<latest, sampleAge, input, worker, closed, motion, toggles>>
SlipOwnerOnly(o) ==
  /\ ~closed /\ worker = AtRest
  /\ flight' = IF flight.owner = o THEN [flight EXCEPT !.owner = NoOwner] ELSE flight
  /\ receipts' = [s \in Slots |-> IF receipts[s].owner = o THEN Free ELSE receipts[s]]
  /\ UNCHANGED Unasked
Release(o) ==
  /\ ~closed /\ worker = AtRest
  /\ flight' = IF flight.owner = o THEN Off ELSE flight
  /\ receipts' = [s \in Slots |-> IF receipts[s].owner = o THEN Free ELSE receipts[s]]
  /\ UNCHANGED Unasked
-----------------------------------------------------------------------------
\* One switch of the flight by the key.
Switched == toggles' = IF toggles < 2 THEN toggles + 1 ELSE toggles

\* noclip_poll, up to the lock: the key and the clock are read.
NoclipBegin(o) ==
  /\ ~closed /\ ~motion /\ worker = AtRest
  /\ worker' = [call |-> "noclip", owner |-> o, seen |-> input.focused /\ Key, skew |-> 0]
  /\ UNCHANGED <<flight, receipts, held, latest, sampleAge, input, closed, motion, toggles>>

\* noclip_poll under the lock.  fallAvailable: fall::available accepts the player.
BridgeUsable(fallAvailable) ==
  /\ input.focused /\ input.fresh /\ SampleWithin(LeaseLimit, worker.skew)
  /\ ~latest.disabled /\ ~TeleportBlocks(latest) /\ ~latest.keyframed
  /\ flight.enabled \/ fallAvailable

BridgeReason ==
  Verdict(<< <<~input.focused, "focus">>,
             <<~input.fresh \/ ~SampleWithin(LeaseLimit, worker.skew), "stale_sample">>,
             <<latest.disabled, "disabled">>,
             <<latest.teleported, "teleport">>,
             <<TRUE, "keyframed">> >>)

Contended == flight.owner \notin {NoOwner, worker.owner}

\* LeaseToggle::sample refuses a guest that does not own the flight, and keeps
\* the owner's edge.
NoclipContended ==
  /\ ~closed /\ worker.call = "noclip" /\ Contended
  /\ worker' = AtRest
  /\ UNCHANGED <<flight, receipts, held, latest, sampleAge, input, closed, motion, toggles>>

Noclip ==
  /\ ~closed /\ worker.call = "noclip" /\ ~Contended
  /\ held' = worker.seen
  /\ \E fallAvailable \in BOOLEAN :
       \/ /\ ~BridgeUsable(fallAvailable)
          /\ Stop(BridgeReason) /\ UNCHANGED toggles
       \/ /\ BridgeUsable(fallAvailable)
          /\ worker.seen /\ ~held /\ flight.enabled
          /\ Stop("toggle") /\ Switched
       \/ /\ BridgeUsable(fallAvailable)
          /\ worker.seen /\ ~held /\ ~flight.enabled
          /\ flight' = [owner |-> worker.owner, entity |-> latest.entity, world |-> latest.world,
                        lease |-> worker.skew, step |-> NoStep, enabled |-> TRUE,
                        positioned |-> FALSE, guest |-> FALSE]
          /\ Switched /\ UNCHANGED receipts
       \/ /\ BridgeUsable(fallAvailable)
          /\ ~(worker.seen /\ ~held)
          /\ flight' = IF flight.enabled THEN [flight EXCEPT !.lease = worker.skew] ELSE flight
          /\ UNCHANGED <<receipts, toggles>>
  /\ worker' = AtRest
  /\ UNCHANGED <<latest, sampleAge, input, closed, motion>>

\* Recorder::poll, up to the lock: the focus and the clock are read.
PollBegin ==
  /\ ~closed /\ worker = AtRest
  /\ worker' = [call |-> "poll", owner |-> NoOwner, seen |-> input.focused, skew |-> 0]
  /\ UNCHANGED <<flight, receipts, held, latest, sampleAge, input, closed, motion, toggles>>

\* The watchdog's reasons to end a flight, on a clock read skew ticks ago.
PollVerdict(foreground, skew) ==
  Verdict(<< <<~foreground, "focus">>,
             <<Escape, "escape">>,
             <<~input.fresh \/ ~SampleWithin(LeaseLimit, skew), "stale_sample">>,
             <<flight.enabled /\ flight.lease > LeaseLimit + skew, "lease">> >>)

\* Slip: nothing is done in the background.
SlipForegroundOnly ==
  /\ ~closed /\ worker.call = "poll"
  /\ LET why == PollVerdict(worker.seen, worker.skew) IN
     IF why = "none" \/ ~worker.seen THEN UNCHANGED <<flight, receipts>> ELSE Stop(why)
  /\ worker' = AtRest
  /\ UNCHANGED <<held, latest, sampleAge, input, closed, motion, toggles>>
Poll ==
  /\ ~closed /\ worker.call = "poll"
  /\ LET why == PollVerdict(worker.seen, worker.skew) IN
     IF why = "none" THEN UNCHANGED <<flight, receipts>> ELSE Stop(why)
  /\ worker' = AtRest
  /\ UNCHANGED <<held, latest, sampleAge, input, closed, motion, toggles>>
-----------------------------------------------------------------------------
\* Flight::step, up to the arithmetic.
StepVerdict(s) ==
  Verdict(<< <<~input.focused, "focus">>,
             <<~input.fresh, "stale_sample">>,
             <<flight.lease > LeaseLimit, "lease">>,
             <<s.entity # flight.entity, "entity">>,
             <<s.world # flight.world, "world">>,
             <<s.disabled, "disabled">>,
             <<TeleportBlocks(s), "teleport">>,
             <<s.keyframed, "keyframed">>,
             <<flight.step # NoStep /\ flight.step > StepGap, "tick_gap">> >>)

\* Only a positioned flight can be found elsewhere than it put the player, and
\* a teleport that did not end it is then undone instead.
Possible(s, ending) ==
  ending = "displacement" => flight.positioned /\ ~s.teleported

\* The controller callback: it publishes the sample and moves the player.
Controller(s, ending) ==
  /\ ~closed
  /\ latest' = s /\ sampleAge' = 0
  /\ \/ /\ ~flight.enabled
        /\ UNCHANGED <<flight, receipts>>
     \/ /\ flight.enabled /\ Escape
        /\ Stop("escape")
     \/ /\ flight.enabled /\ ~Escape /\ StepVerdict(s) # "none"
        /\ Stop(StepVerdict(s))
     \/ /\ flight.enabled /\ ~Escape /\ StepVerdict(s) = "none"
        /\ Possible(s, ending)
        /\ IF ending = "moved"
           THEN /\ flight' = [flight EXCEPT !.step = 0, !.positioned = TRUE]
                /\ UNCHANGED receipts
           ELSE Stop(ending)
  /\ UNCHANGED <<held, input, worker, closed, motion, toggles>>

\* active_player: whether the input and recovery hooks act for the flight.  Slip:
\* the lease is not looked at.
SlipLeaselessPlayer ==
  /\ input.focused /\ input.fresh /\ ~Escape
  /\ flight.enabled /\ flight.entity = latest.entity /\ flight.world = latest.world
  /\ SampleWithin(LeaseLimit, 0)
  /\ ~latest.disabled /\ ~TeleportBlocks(latest) /\ ~latest.keyframed
ActivePlayer ==
  /\ input.focused /\ input.fresh /\ ~Escape
  /\ flight.enabled /\ flight.entity = latest.entity /\ flight.world = latest.world
  /\ SampleWithin(LeaseLimit, 0) /\ flight.lease <= LeaseLimit
  /\ ~latest.disabled /\ ~TeleportBlocks(latest) /\ ~latest.keyframed

\* ~Recorder.
Close ==
  /\ ~closed /\ worker = AtRest
  /\ closed' = TRUE
  /\ Stop("shutdown")
  /\ UNCHANGED <<held, latest, sampleAge, input, worker, motion, toggles>>
-----------------------------------------------------------------------------
\* The window, the keys and the age of the snapshot.  Pressing F6, or seeing it
\* again after the focus or the snapshot was lost, is a new press.
InputChanges(field) ==
  /\ ~closed
  /\ input' = [input EXCEPT ![field] = ~@]
  /\ toggles' = IF field = "escape" THEN toggles ELSE 0
  /\ UNCHANGED <<flight, receipts, held, latest, sampleAge, worker, closed, motion>>

Older(age) == IF age < Cap THEN age + 1 ELSE age

Tick ==
  /\ ~closed
  /\ worker # AtRest => worker.skew < MaxSkew
  /\ sampleAge' = Older(sampleAge)
  /\ flight' = IF flight.enabled
               THEN [flight EXCEPT !.lease = Older(@), !.step = IF @ = NoStep THEN NoStep ELSE Older(@)]
               ELSE flight
  /\ worker' = IF worker = AtRest THEN worker ELSE [worker EXCEPT !.skew = @ + 1]
  /\ UNCHANGED <<receipts, held, latest, input, closed, motion, toggles>>

Next ==
  \/ \E o \in Owners : Refuse(o) \/ Tell(o) \/ Grant(o) \/ Release(o) \/ NoclipBegin(o)
  \/ NoclipContended \/ Noclip \/ PollBegin \/ Poll \/ Close \/ Tick
  \/ \E s \in Samples, ending \in Outcomes : Controller(s, ending)
  \/ \E field \in Inputs : InputChanges(field)

Spec == Init /\ [][Next]_vars

\* Time passes, the worker finishes what it began and its loop polls again and
\* again, whatever the guests call in between; the guests, the game and the
\* player owe nothing.
Fairness ==
  /\ WF_vars(Tick) /\ WF_vars(Poll) /\ WF_vars(Noclip) /\ WF_vars(NoclipContended)
  /\ SF_vars(PollBegin)

FairSpec == Spec /\ Fairness
-----------------------------------------------------------------------------
\* Properties.

TypeOK ==
  /\ flight \in [owner : Owners \union {NoOwner}, entity : Nat, world : Nat, lease : Ages,
                 step : Ages \union {NoStep}, enabled : BOOLEAN, positioned : BOOLEAN, guest : BOOLEAN]
  /\ receipts \in [Slots -> [owner : Owners \union {NoOwner}, reason : Reasons \union {"none"},
                             pending : BOOLEAN]]
  /\ held \in BOOLEAN /\ closed \in BOOLEAN /\ motion \in Modes /\ toggles \in 0..2
  /\ latest \in Samples \union {NoSample} /\ sampleAge \in Ages
  /\ input \in [focused : BOOLEAN, escape : BOOLEAN, fresh : BOOLEAN, key : BOOLEAN]
  /\ worker \in [call : {"none", "poll", "noclip"}, owner : Owners \union {NoOwner},
                 seen : BOOLEAN, skew : 0..MaxSkew]
  /\ flight.enabled <=> flight.owner # NoOwner
  /\ flight.guest <=> flight.enabled /\ motion
  /\ worker.call = "none" <=> worker = AtRest

\* A guest has at most one receipt, and one that flies has an unspoilt one, so
\* that reset always finds where to leave its reason (noclip.cpp:21-23); a
\* receipt has a reason to tell if it is pending.
ReceiptsAgree ==
  /\ \A o \in Owners : \A s, t \in SlotsOf(o) : s = t
  /\ flight.guest => \E s \in SlotsOf(flight.owner) : receipts[s].reason = "none"
  /\ \A s \in Slots : receipts[s].pending => receipts[s].reason # "none"

\* The three copies of the rules agree: the hooks act for a flight exactly while
\* neither the next watchdog nor the next controller call, on the same sample,
\* would end it for anything but a gap between frames (movement_probe.cpp:67).
HooksFollowFlight ==
  (flight.enabled /\ ~closed) =>
    (ActivePlayer <=> /\ ~Escape
                      /\ StepVerdict(latest) \in {"none", "tick_gap"}
                      /\ PollVerdict(input.focused, 0) = "none")

\* One press of the key, while the window and the snapshot last, switches the
\* flight at most once, whoever polls and whoever is released meanwhile.
PressOnce == toggles <= 1

\* A guest that stops renewing does not keep the player: a lease that grows older
\* than any renewal leaves it is renewed or its flight ends.
FlightsEnd == ~<>[](flight.enabled /\ flight.lease > MaxSkew)

Records == [o \in Owners |-> MotionRead(o)]
Promise == INSTANCE MotionPromise WITH Guests <- Owners, record <- Records
\* The shared table of receipts gives each guest what the docs promise it: no guest
\* flies before a refusal told it of its cancellation, and nothing another guest
\* does loses a cancellation it was not told of (noclip.h:46, docs/api.md:560).
KeepsPromise == Promise!Spec
=============================================================================
