--------------------------- MODULE LuaController ---------------------------
(***************************************************************************)
(* runtime/lua_controller.{h,cpp} with the gate of lua_dispatch.cpp and    *)
(* the executor of lua_executor.cpp: the host that runs trusted Lua        *)
(* controllers inside the game's own Lua VMs.                              *)
(*                                                                         *)
(* Everything happens under one gate.  A tick only tries it and holds it   *)
(* while it visits the slots one after another; other threads, which       *)
(* submit code or tear down script owners and VMs, wait for it.  But the   *)
(* Lua code that a tick runs may itself make the engine tear things down,  *)
(* on the same thread and with the gate held: then the notification        *)
(* interrupts the running operation, and what that operation returns must  *)
(* be read with care.  Registry references are numbers which the VM gives  *)
(* out again, and a VM or a world may come back at the same address.       *)
(*                                                                         *)
(* When an invocation is due (next_tick) is left open.                     *)
(*                                                                         *)
(* An operator named Slip... is a plausible mistake in the definition that *)
(* follows it and is used nowhere; it shows that a property can fail.      *)
(***************************************************************************)
EXTENDS Naturals

CONSTANTS
  Ids,          \* package ids
  Capacity,     \* size of slots_ (16)
  Vms,          \* addresses of shared Lua global states
  Worlds,       \* addresses of worlds
  Owners,       \* script owners: tagged entities, never reused
  References,   \* registry reference numbers, which are reused
  None,         \* no id, VM, world, owner, context or operation
  Free, Game,   \* what a registry reference holds besides a slot's closure
  Cleaned,      \* home of an owner whose cleanup, or whose VM's close, has been hooked
  Lost,         \* home of an owner gone unnoticed; a closure abandoned on an error
  MaxSerial,    \* UINT64_MAX
  MaxTeardowns  \* bound on the teardowns of a run

ASSUME LuaAssumption ==
  /\ None \notin Ids \union Vms \union Worlds \union Owners
  /\ References \subseteq Nat \ {0}
  /\ {Free, Game, Lost} \intersect Nat = {} /\ Free \notin {Game, Lost}
  /\ {None, Cleaned, Lost} \intersect Vms = {}
  /\ None # Cleaned /\ None # Lost /\ Cleaned # Lost
ASSUME LuaBounds == Capacity \in Nat \ {0} /\ MaxSerial \in Nat /\ MaxTeardowns \in Nat

VARIABLES
  slots,     \* slots_
  serial,    \* serial_: revision number of the newest code
  halted,    \* halted_ of the host, or `faulted` of the dispatcher
  revision,  \* generation of the dispatcher
  tearing,   \* teardowns that have begun and not ended; `depth` counts them
  update,    \* the context captured for a script update, until its tick
  turn,      \* the running tick: its context and the slot it visits
  op,        \* the operation that the tick is executing
  world,     \* engine: the world of each VM, None while there is no such VM
  home,      \* engine: the VM in which each script owner lives
  registry,  \* engine: what each reference of a VM's registry holds
  closes,    \* history: how often each VM address has been closed
  shutdowns, \* history: shutdown calls of each slot's present controller
  acquired,  \* history: owners under which a slot's controllers have run and
             \* have not been shut down
  broken     \* history: code revisions that have failed

hostVars   == <<slots, serial>>
gateVars   == <<halted, revision, tearing>>
engineVars == <<world, home, registry, closes>>
history    == <<shutdowns, acquired, broken>>
vars == <<hostVars, gateVars, update, turn, op, engineVars, history>>

Slots   == 1..Capacity
Serials == 1..MaxSerial

Slot == [id : Ids \union {None}, desired : 0..MaxSerial, active : 0..MaxSerial,
         failed : 0..MaxSerial, vm : Vms \union {None}, world : Worlds \union {None},
         owner : Owners \union {None}, reference : References \union {0},
         retired : BOOLEAN, engineRetired : BOOLEAN, blocked : BOOLEAN]
EmptySlot == [id |-> None, desired |-> 0, active |-> 0, failed |-> 0, vm |-> None,
              world |-> None, owner |-> None, reference |-> 0,
              retired |-> FALSE, engineRetired |-> FALSE, blocked |-> FALSE]

Contexts == [vm : Vms, world : Worlds, owner : Owners, revision : Nat, closes : Nat]

\* An operation on the slot that the tick visits.  `phase` is "running" while
\* Lua runs, "releasing" before the registry release, "returned" after it all.
Operations == [action : {"initialize", "invoke", "unload", "release"},
               phase : {"running", "releasing", "returned"},
               interruption : {"none", "owner", "closed", "unknown"},
               failed : BOOLEAN, shutdown : BOOLEAN, attempted : BOOLEAN, released : BOOLEAN,
               reference : References \union {0}]
Operation(action, phase) ==
  [action |-> action, phase |-> phase, interruption |-> "none", failed |-> FALSE,
   shutdown |-> FALSE, attempted |-> FALSE, released |-> FALSE, reference |-> 0]
ASSUME NoOperation == None \notin Operations

Init ==
  /\ slots = [i \in Slots |-> EmptySlot] /\ serial = 0
  /\ halted = FALSE /\ revision = 0 /\ tearing = {}
  /\ update = None /\ turn = None /\ op = None
  /\ world = [g \in Vms |-> None] /\ home = [o \in Owners |-> None]
  /\ registry = [g \in Vms |-> [r \in References |-> Free]]
  /\ closes = [g \in Vms |-> 0]
  /\ shutdowns = [i \in Slots |-> 0] /\ acquired = [i \in Slots |-> {}]
  /\ broken = {}

\* The gate is free for other threads, or held by this thread's Lua call.
GateFree == turn = None
InLua    == op # None /\ op.phase # "releasing"

-----------------------------------------------------------------------------
(* The worker, which compiles sources and queues them.  A callback of the   *)
(* running controller may call submit and unload too.                       *)

Mine(id)  == {i \in Slots : slots[i].id = id}
Unused    == Mine(None)
FirstUnused == {i \in Unused : \A j \in Unused : i <= j}

Submit(id) ==
  /\ GateFree \/ InLua
  /\ ~halted /\ serial < MaxSerial
  /\ serial' = serial + 1
  /\ \E i \in IF Mine(id) # {} THEN Mine(id) ELSE FirstUnused :
       slots' = [slots EXCEPT ![i].id = id, ![i].desired = serial + 1]
  /\ UNCHANGED <<gateVars, update, turn, op, engineVars, history>>

Unload(id) ==
  /\ GateFree \/ InLua
  /\ slots' = [i \in Slots |-> IF slots[i].id = id THEN [slots[i] EXCEPT !.desired = 0] ELSE slots[i]]
  /\ UNCHANGED <<serial, gateVars, update, turn, op, engineVars, history>>

Stop ==
  /\ GateFree
  /\ slots' = [i \in Slots |-> [slots[i] EXCEPT !.desired = 0]]
  /\ UNCHANGED <<serial, gateVars, update, turn, op, engineVars, history>>

-----------------------------------------------------------------------------
(* Teardown: the engine's close and cleanup functions and their hooks.      *)

Teardowns ==
  [kind : {"close"}, vm : Vms, owner : {None}] \union
  [kind : {"cleanup"}, vm : Vms, owner : Owners]

Possible(t) ==
  /\ world[t.vm] # None
  /\ t.kind = "cleanup" => home[t.owner] = t.vm

\* Slip: a VM's closing is taken for the cleanup of all its owners.
SlipNotified(t) ==
  [i \in Slots |->
     IF slots[i].vm # t.vm \/ (t.kind = "cleanup" /\ slots[i].owner # t.owner) THEN slots[i]
     ELSE [slots[i] EXCEPT !.engineRetired = TRUE, !.blocked = FALSE,
                           !.retired = @ \/ slots[i].reference > 0]]

\* Slip: the slot of a closed VM still names the owner.
SlipOwnerKept(t) ==
  [i \in Slots |->
     IF t.kind = "close" /\ slots[i].vm = t.vm
     THEN [slots[i] EXCEPT !.engineRetired = TRUE, !.blocked = FALSE, !.reference = 0,
                           !.vm = None, !.world = None, !.retired = FALSE]
     ELSE slots[i]]

\* Slip: the owner's cleanup only concerns slots that hold a reference.
SlipHolders(t) ==
  [i \in Slots |->
     IF slots[i].reference = 0 \/ slots[i].vm # t.vm
        \/ (t.kind = "cleanup" /\ slots[i].owner # t.owner) THEN slots[i]
     ELSE IF t.kind = "close"
     THEN [slots[i] EXCEPT !.engineRetired = TRUE, !.blocked = FALSE, !.reference = 0,
                           !.vm = None, !.world = None, !.owner = None, !.retired = FALSE]
     ELSE [slots[i] EXCEPT !.engineRetired = TRUE, !.blocked = FALSE, !.retired = TRUE]]

\* notification: what a host's slots make of a teardown.
Notified(t) ==
  [i \in Slots |->
     IF slots[i].vm # t.vm \/ (t.kind = "cleanup" /\ slots[i].owner # t.owner) THEN slots[i]
     ELSE IF t.kind = "close"
     THEN [slots[i] EXCEPT !.engineRetired = TRUE, !.blocked = FALSE, !.reference = 0,
                           !.vm = None, !.world = None, !.owner = None, !.retired = FALSE]
     ELSE [slots[i] EXCEPT !.engineRetired = TRUE, !.blocked = FALSE,
                           !.retired = @ \/ slots[i].reference > 0]]

\* notify: what the running operation, if there is one, hears of it.
Interrupted(t) ==
  IF op = None \/ op.interruption = "unknown" \/ turn.ctx.vm # t.vm THEN op
  ELSE IF t.kind = "close" THEN [op EXCEPT !.interruption = "closed"]
  ELSE IF turn.ctx.owner = t.owner /\ op.interruption = "none"
  THEN [op EXCEPT !.interruption = "owner"]
  ELSE op

\* The engine may free what it tears down as soon as the hook has returned to it.
Gone(t) ==
  /\ home' = [o \in Owners |-> IF o = t.owner \/ (t.kind = "close" /\ home[o] = t.vm)
                               THEN Cleaned ELSE home[o]]
  /\ IF t.kind = "close"
     THEN /\ world' = [world EXCEPT ![t.vm] = None]
          /\ registry' = [registry EXCEPT ![t.vm] = [r \in References |-> Free]]
          /\ closes' = [closes EXCEPT ![t.vm] = @ + 1]
     ELSE UNCHANGED <<world, registry, closes>>

Begin(t) ==
  /\ GateFree \/ InLua
  /\ revision < MaxTeardowns /\ Possible(t)
  /\ tearing' = tearing \union {t}
  /\ revision' = revision + 1
  /\ \/ /\ slots' = Notified(t) /\ op' = Interrupted(t)
        /\ UNCHANGED halted
     \/ \* The hook could not read which VM it is.
        /\ halted' = TRUE
        /\ op' = IF op = None THEN op ELSE [op EXCEPT !.interruption = "unknown"]
        /\ UNCHANGED slots
  /\ Gone(t)
  /\ UNCHANGED <<serial, update, turn, history>>

\* The engine's own cleanup has removed what the owner's scripts had acquired.
End(t) ==
  /\ t \in tearing /\ (GateFree \/ op # None)
  /\ tearing' = tearing \ {t}
  /\ acquired' = [i \in Slots |-> {o \in acquired[i] : home[o] # Cleaned \/
                                    (t.kind = "cleanup" /\ o # t.owner)}]
  /\ UNCHANGED <<hostVars, halted, revision, update, turn, op, engineVars, shutdowns, broken>>

-----------------------------------------------------------------------------
(* The rest of the engine.                                                  *)

OpenVm(g, w) ==
  /\ world[g] = None /\ \A t \in tearing : t.vm # g
  /\ world' = [world EXCEPT ![g] = w]
  /\ UNCHANGED <<hostVars, gateVars, update, turn, op, home, registry, closes, history>>

Spawn(o, g) ==
  /\ home[o] = None /\ world[g] # None
  /\ home' = [home EXCEPT ![o] = g]
  /\ UNCHANGED <<hostVars, gateVars, update, turn, op, world, registry, closes, history>>

\* Another world takes the place of one no script of which is being updated.
\* No teardown is reported for the owners that go with it.
ChangeWorld(g, w) ==
  /\ update = None /\ GateFree
  /\ world[g] # None /\ w # world[g]
  /\ world' = [world EXCEPT ![g] = w]
  /\ home' = [o \in Owners |-> IF home[o] = g THEN Lost ELSE home[o]]
  /\ acquired' = [i \in Slots |-> {o \in acquired[i] : home[o] # g}]
  /\ UNCHANGED <<hostVars, gateVars, update, turn, op, registry, closes, shutdowns, broken>>

\* The game retains a value of its own.
GameRetains(g, r) ==
  /\ world[g] # None /\ registry[g][r] = Free
  /\ registry' = [registry EXCEPT ![g][r] = Game]
  /\ UNCHANGED <<hostVars, gateVars, update, turn, op, world, home, closes, history>>

\* before_call: a script owner's update begins.  If another one's had not ended,
\* that one's after_call will not tick.
Capture(o) ==
  /\ home[o] \in Vms
  /\ update' = [vm |-> home[o], world |-> world[home[o]], owner |-> o,
                revision |-> revision, closes |-> closes[home[o]]]
  /\ UNCHANGED <<hostVars, gateVars, turn, op, engineVars, history>>

\* after_call does not tick, or the tick finds the gate taken or itself refused.
Drop ==
  /\ update # None
  /\ update' = None
  /\ UNCHANGED <<hostVars, gateVars, turn, op, engineVars, history>>

-----------------------------------------------------------------------------
(* The tick.                                                                *)

Eligible(ctx) == ~halted /\ tearing = {} /\ ctx.revision = revision

StartTick ==
  /\ update # None /\ GateFree
  /\ Eligible(update)
  /\ turn' = [ctx |-> update, at |-> 1]
  /\ update' = None
  /\ UNCHANGED <<hostVars, gateVars, op, engineVars, history>>

\* Slip: the tick goes on after a teardown during one package.
SlipGoOn == IF turn.at = Capacity \/ halted' THEN None ELSE [turn EXCEPT !.at = @ + 1]

\* Lines 138-139: to the next slot, unless something was torn down meanwhile.
Onward ==
  IF turn.at = Capacity \/ halted' \/ revision' # turn.ctx.revision THEN None
  ELSE [turn EXCEPT !.at = @ + 1]

\* Lines 122-125: the slot as the tick sees it.
Seen(s, ctx) ==
  LET moved == s.world # None /\ s.world # ctx.world
      here  == IF moved
               THEN [s EXCEPT !.engineRetired = TRUE, !.retired = s.reference > 0, !.blocked = FALSE]
               ELSE s
  IN  IF here.reference > 0 /\ here.desired # here.active THEN [here EXCEPT !.retired = TRUE]
      ELSE here

Elsewhere(s, ctx) == s.id = None \/ (s.vm # None /\ s.vm # ctx.vm)

Retires(s, ctx) == s.reference > 0 /\ s.retired /\ (s.engineRetired \/ ctx.owner = s.owner)
Invokes(s, ctx) == s.reference > 0 /\ ~s.retired /\ ctx.owner = s.owner

\* Slip: a refused revision is tried again.
SlipRetries(s, ctx) ==
  /\ s.reference = 0 /\ ~s.blocked /\ s.desired # 0
  /\ s.owner = None \/ s.engineRetired \/ s.owner = ctx.owner

Initializes(s, ctx) ==
  /\ s.reference = 0 /\ ~s.blocked
  /\ s.desired # 0 /\ s.desired # s.failed
  /\ s.owner = None \/ s.engineRetired \/ s.owner = ctx.owner
Forgets(s) == s.reference = 0 /\ ~s.blocked /\ s.desired = 0

\* Whatever the slot needs, execute() first looks at the VM: it may be
\* suspended, its world replaced or the owner gone.
Attempts(ctx) == world[ctx.vm] = ctx.world /\ home[ctx.owner] = ctx.vm

Prepared(s, ctx) ==
  IF Initializes(s, ctx)
  THEN [s EXCEPT !.active = s.desired, !.vm = ctx.vm, !.world = ctx.world, !.owner = ctx.owner,
                 !.retired = FALSE, !.engineRetired = FALSE]
  ELSE s

\* One round of the loop that executes nothing.
Pass ==
  /\ turn # None /\ op = None
  /\ LET i == turn.at
         s == slots[i]
         v == Seen(s, turn.ctx)
     IN  slots' = [slots EXCEPT ![i] =
           IF Elsewhere(s, turn.ctx) THEN s
           ELSE IF Forgets(v) THEN EmptySlot
           ELSE Prepared(v, turn.ctx)]   \* rejected, waiting, or not due
  /\ UNCHANGED <<serial, gateVars, update, op, engineVars, history>>
  /\ turn' = Onward

\* A round that executes: step(), up to the engine's first call.
Start(action, phase) ==
  /\ turn # None /\ op = None
  /\ ~Elsewhere(slots[turn.at], turn.ctx) /\ Attempts(turn.ctx)
  /\ slots' = [slots EXCEPT ![turn.at] = Prepared(Seen(@, turn.ctx), turn.ctx)]
  /\ op' = Operation(action, phase)
  /\ UNCHANGED <<serial, gateVars, update, turn, engineVars, broken>>

Visited == Seen(slots[turn.at], turn.ctx)

StartInitialize ==
  /\ Start("initialize", "running") /\ Initializes(Visited, turn.ctx)
  /\ UNCHANGED <<shutdowns, acquired>>

StartInvoke ==
  /\ Start("invoke", "running") /\ Invokes(Visited, turn.ctx)
  /\ acquired' = [acquired EXCEPT ![turn.at] = @ \union {turn.ctx.owner}]
  /\ UNCHANGED shutdowns

\* Slip: the shutdown function is called although the owner is gone.
SlipShutdownAlways(s) == TRUE

MayShutDown(s) == ~s.engineRetired

StartUnload ==
  /\ Start("unload", "running") /\ Retires(Visited, turn.ctx) /\ MayShutDown(Visited)
  /\ shutdowns' = [shutdowns EXCEPT ![turn.at] = @ + 1]
  /\ UNCHANGED acquired

StartRelease ==
  /\ Start("release", "releasing") /\ Retires(Visited, turn.ctx) /\ ~MayShutDown(Visited)
  /\ UNCHANGED <<shutdowns, acquired>>

-----------------------------------------------------------------------------
(* The executor.                                                            *)

\* call_owner_live, when everything that was torn down in the call has ended.
Live == op.interruption = "none" /\ ~halted

Ending(outcome) == op' = [outcome EXCEPT !.phase = "returned"]
InPhase(phase, actions) == op # None /\ op.phase = phase /\ op.action \in actions /\ tearing = {}

\* The call returns into something torn down, and the body leaves at once.
Leave ==
  /\ InPhase("running", {"initialize", "invoke", "unload"}) /\ ~Live
  /\ Ending(op)
  /\ UNCHANGED <<hostVars, gateVars, update, turn, engineVars, history>>

\* The constructor raises an error, or its closure cannot be retained.
Fails ==
  /\ InPhase("running", {"initialize", "invoke"}) /\ Live
  /\ Ending([op EXCEPT !.failed = TRUE])
  /\ UNCHANGED <<hostVars, gateVars, update, turn, engineVars, history>>

Invoked ==
  /\ InPhase("running", {"invoke"}) /\ Live
  /\ Ending(op)
  /\ UNCHANGED <<hostVars, gateVars, update, turn, engineVars, history>>

Constructed ==
  /\ InPhase("running", {"initialize"}) /\ Live
  /\ \E r \in {s \in References : registry[turn.ctx.vm][s] = Free} :
       /\ registry' = [registry EXCEPT ![turn.ctx.vm][r] = turn.at]
       /\ Ending([op EXCEPT !.reference = r])
  /\ shutdowns' = [shutdowns EXCEPT ![turn.at] = 0]
  /\ UNCHANGED <<hostVars, gateVars, update, turn, world, home, closes, acquired, broken>>

\* The shutdown call returns, or raises an error; either way the closure goes.
ShutDown ==
  /\ InPhase("running", {"unload"}) /\ Live
  /\ \E ok \in BOOLEAN :
       /\ op' = [op EXCEPT !.phase = "releasing", !.shutdown = ok, !.failed = ~ok]
       /\ acquired' = IF ok THEN [acquired EXCEPT ![turn.at] = @ \ {turn.ctx.owner}] ELSE acquired
  /\ UNCHANGED <<hostVars, gateVars, update, turn, engineVars, shutdowns, broken>>

\* An error outside the protected shutdown call: the body ends before the release.
Aborts ==
  /\ InPhase("running", {"unload"}) /\ Live
  /\ Ending([op EXCEPT !.failed = TRUE])
  /\ UNCHANGED <<hostVars, gateVars, update, turn, engineVars, history>>

\* The registry release returns, or raises an error after or before its effect.
ReleaseRef ==
  /\ InPhase("releasing", {"unload", "release"})
  /\ \E ok, effect \in BOOLEAN :
       /\ ok => effect
       /\ Ending([op EXCEPT !.attempted = TRUE, !.released = ok, !.failed = @ \/ ~ok])
       /\ registry' = [registry EXCEPT ![turn.ctx.vm][slots[turn.at].reference] =
                         IF effect THEN Free ELSE Lost]
  /\ UNCHANGED <<hostVars, gateVars, update, turn, world, home, closes, history>>

\* A C++ exception leaves the executor: nothing runs any more.
Throw ==
  /\ op # None /\ tearing = {}
  /\ halted' = TRUE
  /\ revision' = IF halted THEN revision ELSE revision + 1
  /\ op' = None /\ turn' = None
  /\ UNCHANGED <<hostVars, tearing, update, engineVars, history>>

-----------------------------------------------------------------------------
(* step(), after the executor has returned.                                 *)

\* The slot and whether the operation has failed, for an operation that has
\* left the stack `restored`.
Failed(restored) ==
  \/ op.failed \/ ~restored
  \/ (op.action \in {"unload", "release"} /\ ~op.released)
  \/ (op.action = "unload" /\ op.interruption = "none" /\ ~op.shutdown)

\* Slip: the host does not wait for the cleanup after a failed shutdown.
SlipUnblocked(s, restored) ==
  LET gone == [s EXCEPT !.reference = 0, !.retired = FALSE, !.active = 0]
  IN  IF Failed(restored) THEN [gone EXCEPT !.failed = s.active] ELSE gone

\* Lines 103-113.
Relinquished(s, restored) ==
  LET gone == [s EXCEPT !.reference = 0, !.retired = FALSE, !.active = 0]
  IN  IF Failed(restored) THEN [gone EXCEPT !.failed = s.active, !.blocked = ~s.engineRetired]
      ELSE gone

\* Slip: the reference of a constructor whose owner went away is dropped.
SlipDropped(s, restored) ==
  IF op.interruption = "owner" THEN s
  ELSE [s EXCEPT !.reference = op.reference, !.failed = IF Failed(restored) THEN s.active ELSE @,
                 !.retired = Failed(restored) /\ op.reference > 0]

\* Lines 79-88.
Published(s, restored) ==
  IF op.interruption = "owner"
  THEN [s EXCEPT !.reference = op.reference, !.retired = op.reference > 0]
  ELSE IF Failed(restored)
  THEN [s EXCEPT !.reference = op.reference, !.retired = op.reference > 0, !.failed = s.active]
  ELSE [s EXCEPT !.reference = op.reference]

\* Lines 89-93.
Updated(s, restored) ==
  IF op.interruption = "none" /\ Failed(restored)
  THEN [s EXCEPT !.failed = s.active, !.retired = TRUE] ELSE s

\* Lines 94-102: the body left before it could release.
Unreleased == op.action \in {"unload", "release"} /\ ~op.attempted /\ ~op.released

Result(s, restored) ==
  IF op.interruption \in {"closed", "unknown"} THEN s
  ELSE IF op.action = "initialize" THEN Published(s, restored)
  ELSE IF op.action = "invoke" THEN Updated(s, restored)
  ELSE IF ~Unreleased THEN Relinquished(s, restored)
  ELSE IF op.interruption = "owner" THEN [s EXCEPT !.retired = TRUE]
  ELSE s

\* dispatch::halt: native state is in doubt.
Unsafe(restored) ==
  /\ op.interruption \in {"none", "owner"}
  /\ ~restored \/ (Unreleased /\ op.interruption = "none")

Finish(restored) ==
  /\ op # None /\ op.phase = "returned" /\ tearing = {}
  /\ slots' = [slots EXCEPT ![turn.at] = Result(@, restored)]
  /\ broken' = IF slots'[turn.at].failed # slots[turn.at].failed
               THEN broken \union {slots[turn.at].active} ELSE broken
  /\ halted' = (halted \/ Unsafe(restored))
  /\ revision' = IF halted' /\ ~halted THEN revision + 1 ELSE revision
  /\ op' = None /\ turn' = Onward
  /\ UNCHANGED <<serial, tearing, update, engineVars, shutdowns, acquired>>

-----------------------------------------------------------------------------

Host ==
  \/ \E id \in Ids : Submit(id) \/ Unload(id)
  \/ Stop
Tick ==
  \/ StartTick \/ Pass
  \/ StartInitialize \/ StartInvoke \/ StartUnload \/ StartRelease
  \/ Leave \/ Fails \/ Invoked \/ Constructed \/ ShutDown \/ Aborts \/ ReleaseRef \/ Throw
  \/ \E restored \in BOOLEAN : Finish(restored)
Engine ==
  \/ \E t \in Teardowns : Begin(t) \/ End(t)
  \/ \E g \in Vms, w \in Worlds : OpenVm(g, w) \/ ChangeWorld(g, w)
  \/ \E g \in Vms, o \in Owners : Spawn(o, g)
  \/ \E g \in Vms, r \in References : GameRetains(g, r)
  \/ \E o \in Owners : Capture(o)
  \/ Drop

Next == Host \/ Tick \/ Engine

Spec == Init /\ [][Next]_vars

\* The game goes on: a script owner that is there is updated again and again,
\* not always while another tick holds the gate, and not every tick is refused.
\* The calls of a tick return, as do the engine's teardowns, and a VM is not
\* suspended at every attempt.
Fairness ==
  /\ WF_vars(op = None /\ Pass) /\ WF_vars(op # None /\ Tick)
  /\ WF_vars(StartTick \/ Drop) /\ WF_vars(\E t \in Teardowns : End(t))
  /\ \A o \in Owners : SF_vars(Capture(o) /\ GateFree) /\ SF_vars(StartTick /\ turn'.ctx.owner = o)
  /\ SF_vars(StartUnload) /\ SF_vars(StartRelease)

FairSpec == Spec /\ Fairness

-----------------------------------------------------------------------------
(* Properties.                                                              *)

\* The host's and the engine's state have their types.
TypeOK ==
  /\ slots \in [Slots -> Slot] /\ serial \in 0..MaxSerial
  /\ halted \in BOOLEAN /\ revision \in Nat /\ tearing \subseteq Teardowns
  /\ update \in Contexts \union {None}
  /\ turn \in [ctx : Contexts, at : Slots] \union {None}
  /\ op \in Operations \union {None} /\ (op # None => turn # None)
  /\ world \in [Vms -> Worlds \union {None}]
  /\ home \in [Owners -> Vms \union {None, Cleaned, Lost}]
  /\ registry \in [Vms -> [References -> Slots \union {Free, Game, Lost}]]
  /\ closes \in [Vms -> Nat]
  /\ shutdowns \in [Slots -> Nat] /\ acquired \in [Slots -> SUBSET Owners]

\* The slots and the registries agree: a slot's reference holds that slot's
\* closure, and no closure is left in a registry without a slot that will
\* release it, whatever was torn down while it was made, called or released.
\* (`Lost` is the closure whose release raised an error before its effect.)
RegistryMatchesSlots ==
  ~halted =>
    \A i \in Slots : (op # None => turn.at # i) =>
      \A g \in Vms, r \in References :
        registry[g][r] = i <=> slots[i].vm = g /\ slots[i].reference = r

\* An operation that has not been interrupted works on a registry reference of
\* its own: it never fetches, calls or releases a number that the VM has given
\* to the game or to another package.
UsesItsOwnReference ==
  op # None /\ op.phase # "returned" /\ op.action # "initialize" /\ op.interruption = "none"
    /\ ~halted
  => registry[turn.ctx.vm][slots[turn.at].reference] = turn.at

\* Between two packages the tick's context still names the VM it was captured
\* in, not one that has been opened at the same address since, and nothing has
\* been halted (lua_controller.cpp:138).
ContextIsCurrent ==
  turn # None /\ op = None => closes[turn.ctx.vm] = turn.ctx.closes /\ ~halted

\* A controller is told to shut down once, even if the owner's cleanup or the
\* VM's closing interrupts its shutdown call (docs/engine-lua.md:92, lua_controller.cpp:96).
ShutdownAtMostOnce == \A i \in Slots : shutdowns[i] <= 1

\* A controller is constructed only when everything that earlier controllers of
\* the slot may have acquired is gone: they were shut down, or the engine has
\* cleaned up after their owner (docs/engine-lua.md:100, lua_controller.cpp:109).
NoOverlap == op # None /\ op.action = "initialize" /\ op.phase = "running"
             /\ op.interruption = "none" /\ ~halted => acquired[turn.at] = {}

\* Code that has failed is never constructed again: its package waits for
\* another revision (docs/engine-lua.md:59).
FailedNotRetried ==
  op # None /\ op.action = "initialize" => slots[turn.at].active \notin broken

\* Neither end of a controller's life happens twice (lua_controller.cpp:86, 95).
EachEndOnce == ShutdownAtMostOnce /\ FailedNotRetried

\* Lives of controllers follow one another: each ends once, and none begins in what
\* another may still hold.
LivesInTurn == EachEndOnce /\ NoOverlap

\* Neither an operation nor the pass over the packages leaves the VM it began in.
StaysInItsVm == UsesItsOwnReference /\ ContextIsCurrent

\* A slot's closure can be reached: its owner is there, or its going or a change
\* of the world could be noticed and another owner lives in the VM.
Reachable(s) ==
  s.vm # None /\
    \/ home[s.owner] = s.vm
    \/ /\ home[s.owner] = Cleaned \/ s.world # world[s.vm]
       /\ \E o \in Owners : home[o] = s.vm

\* Unloading and stopping take effect: a closure whose package is no longer
\* wanted is released, so that the service can be said to have stopped
\* (lua_source.cpp:109), unless nobody who could do it is left.
UnwantedIsReleased ==
  \A i \in Slots :
    []<>(slots[i].reference = 0 \/ slots[i].desired # 0 \/ halted \/ ~Reachable(slots[i]))
=============================================================================
