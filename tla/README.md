# Formal model of the Control Resonant mod loader

TLA+ specifications of the mod loader's own protocols, the TLC runs that check
them on small instances, and TLAPS proofs of the ones that matter most. Source
paths are relative to the repository root (`src/` here); "page" is the HTML
script that runs in the game's renderer, "guest" a WebAssembly mod, "engine"
the game.

## 1. The system

`loader/xinput.cpp` gets the runtime DLL into the game. `runtime/entry.cpp`
starts one **worker thread** ("host thread") that loads the guests and calls
their `tick`. Guests call *services* of the host (UI commands, storage, flight,
visibility, physics, lists, ...). The services are drained by code on other
threads: **engine hooks** (simulation and render callbacks), and the **page**,
which asks for URLs of the form `coui://crml/...` that a hook answers. Lua
controllers are the exception: they run inside the game's own Lua VMs, from a
hook of a script update.

Three threads with different rules therefore meet in every service:

| who | may block | lifetime of what it holds |
| --- | --- | --- |
| host thread (guest calls, `release` at teardown) | briefly | owner token, never reused |
| engine hooks | no: they *try* a lock and give up | bodies, entities, worlds, VMs that the engine ends at will |
| page | asynchronous requests that may be lost, late or repeated | a page number; an old page can outlive its successor |

### Inventory

| component | state | operations | interacts with | hard behaviour | correct when |
| --- | --- | --- | --- | --- | --- |
| UI command service (`ui_service`) | one command, receipt ring, leases, page/screen/generation | enable, open_page, submit, status, present, release, exchange | guests, page | expiry, page reload, late reports, clock read before the lock | a receipt never lies, a command is offered at most once, nothing outlives owner or screen |
| Bootstrap page (`ui_bootstrap.html`, `native_ui.cpp`) | sequence, pending poll, last id, acknowledged outcome | poll, receive, snapshot, stop | UI service, data models of the game | lost and late responses, give-up after a timeout, screen changes in between | the action is triggered at most once and on the screen it was meant for |
| Mod storage (`mod_storage`) | records, worker, two files per id | attach, read, write, status, shutdown | guests, disk | crashes between file operations, worker without the lock | what was saved is there after a crash; old or new, never torn |
| Damping trial (`physics_trial`) | target, original, applied, deadline | apply, poll | physics callback, engine | failed or disbelieved writes, replaced bodies, clock steps | the original is restored, or is not ours to restore |
| Lua controllers (`lua_controller`, `lua_dispatch`, `lua_executor`, `lua_lifetime`, `lua_probe`) | slots, operation in progress, gate, teardown revision | submit, unload, tick (initialize, invoke, unload, release), notification | package scan, engine VMs and owners | teardown re-entering the running step; VM and world addresses and reference numbers reused | each closure released once, shut down at most once, never under a foreign reference |
| Lua packages, sources, sessions (`lua_packages`, `lua_source`, `lua_session`, `lua_references`) | scanned files, session reference | poll, start, stop | Lua controllers | files changing while scanned; teardown during load | same as above, for one chunk |
| Physics session (`physics_session`) | command word, selection, results, one trial | select, apply, restore, release, poll | guests, simulation callback, destroy/release hooks | bits taken between checks; samples retired after selection | no trial for a stale selection, no owner inherits another's |
| Visibility (`visibility`) | lease, epoch, two evidence epochs | poll, read_state, release, apply hook | guests, render thread | lock-free | evidence belongs to the lease it is read under |
| Flight (`noclip`, `movement_probe`) | owner, lease, cancellation receipts, toggle edge | poll, set motion, read, step | guests, controller hook | several owners, cancellation between calls | a cancelled guest is told before it flies again |
| Action rules (`action_rules`) | 32 leases, latest deadline | set, read, release, allowed | guests, action hooks | engine reads while host writes | fails closed, expires, only for its identity |
| Story restriction (`action_restriction_observer`, `structural_lifecycle`, `player_status_lifecycle`) | record of the last write, counters of engine events | write, begin, end, query | action rules, engine threads | several counters read one after another while writers move them | only a restriction made for areas alone is skipped |
| Feedback, tutorials, lists (`mod_feedback`, `mod_tutorials`, `mod_lists`) | per-owner entry, tickets or revisions | show, status, dismiss, take, report, publish, activate | guests, page or native presenter | reports about replaced or detached tickets; a cancellation read before it is given | a status describes the ticket it was asked for and what was shown; what is lent to the game is taken back |
| Actions, settings (`mod_actions`, `mod_settings`, `settings_ui`) | bindings, definitions with revisions | bind, define, set, read | guests, panel page | two writers of one setting | compare-and-set on the revision |
| Media skip (`media_service`, `media_hook`) | movie generation, request | observe, read, request, release | guests, movie hook | one movie follows another at one address | a request skips only the movie it was made for |
| Guest runtime (`runtime`, `entry`) | packages, stages, owner numbers, budgets | load, tick, call of an import, trap, shutdown | every service | a guest faults half-way through a call; services outlive a runtime | every service has forgotten its owner and no other; a call is charged for itself only |
| Guards, camera, controller, input (`boundary_guard`, `fall_guard`, `camera_*`, `controller_hook`, `input_filter`) | flags | one hook each | engine | little | out of scope: per-frame arithmetic |
| Drawing (`mod_drawing`) | surfaces, annotation sets, projections, claims, events, editor | publish, poll, report, edit, claim | guests, page, map hooks, marker key | a projection or document replaced between two calls; one key for several guests | what the player does is told about what was on the map, and to the guest it was for |
| Overlay, navigation, sonar, map views | snapshots | format, project | engine memory | none | out of scope: pure computation |
| Installer (`tools/install.py`) | files, staging folder, receipt, marker files | install, update, remove | user, disk, start of the loader | cut short between any two operations on files | no loader without what it needs, no file lost, no modes that do not start together |
| Other diagnostics (`runtime/diagnostics`) | samples | observe | engine memory | build-specific layouts | out of scope: fixed by memory the repository does not hold |
| Compatibility, logs, loader, other tools | files | start-up | disk | none | out of scope: input and output |

`PROJECT.json` lists every component with its sources and status, and under
`hazards` the places where this code can go wrong in ways a test hardly reaches.

## 2. Modules

| module | models | extends / uses |
| --- | --- | --- |
| `UiService`, `UiServiceProps` | `runtime/ui_service.{h,cpp}` and its properties | |
| `UiChannel` | the page `ui_bootstrap.html`, the wire, and the service between them | `UiServiceProps` |
| `ModStorage` | `runtime/mod_storage.cpp` | refines `CrashSafeStore` |
| `CrashSafeStore` | the register that `docs/mod-storage.md` promises | |
| `DampingTrial` | `runtime/physics_trial.{h,cpp}` | |
| `PhysicsSession` | `runtime/physics_session.cpp`, with the trial reduced to its state | |
| `LuaController` | `runtime/lua_controller.cpp` with the gate, the hooks and the executor | |
| `Flight` | `runtime/noclip.{h,cpp}` and the part of `movement_probe.cpp` that drives it | refines `MotionPromise` |
| `MotionPromise` | what `docs/api.md` promises a guest that moves the player | |
| `VisibilityLease` | `runtime/visibility.{h,cpp}` | |
| `MediaSkip` | `runtime/media_service.cpp` and the route of `media_hook.cpp` | |
| `ActionRules` | `runtime/action_rules.cpp`: the leases and the hint read without the lock | |
| `StoryRestriction` | `diagnostics/action_restriction_observer.cpp`, `applied_story_state.h`, `structural_lifecycle.cpp`, `player_status_lifecycle.cpp` | |
| `GuestRuntime` | `runtime/runtime.cpp` with the worker loop of `entry.cpp` | |
| `ModPanel` | `native_ui_panel.html`, `settings_ui.cpp`, `mod_settings.cpp`, `mod_lists.cpp` | |
| `Feedback` | `mod_feedback.cpp` and the page `native_ui_feedback.html` | |
| `Tutorials` | `mod_tutorials.cpp` and its two presenters (`tutorial_hint.cpp`; `tutorial_native.cpp`, `tutorial_panel.cpp`) | |
| `Notices` | what is promised of messages and tutorials, side by side | `Feedback`, `Tutorials` |
| `Drawing` | `runtime/mod_drawing.cpp` | |
| `Installer` | `tools/install.py`, and the markers `entry.cpp` reads | |
| `UiChannelProofs` | theorems about the service and the page | `UiChannel`, TLAPS |
| `DiskProofs` | about store and installation | `ModStorage`, `Installer`, TLAPS |
| `LuaControllerProofs` | about the slots | `LuaController`, TLAPS |
| `FlightProofs` | about flight | `Flight`, TLAPS |
| `LeaseProofs` | about leases of player and map | `VisibilityLease`, `Drawing`, TLAPS |
| `PhysicsProofs` | about bodies of the game | `PhysicsSession`, `DampingTrial`, TLAPS |
| `ServiceProofs` | about services that answer while others write | `StoryRestriction`, `ActionRules`, `ModPanel`, `MediaSkip`, TLAPS |
| `GuestProofs` | about guests and what they show | `GuestRuntime`, `Notices`, TLAPS |
| `MC...` | the instances for TLC (section 3) | |

Conventions. A variable has the name of the field it stands for, and an action
the name of the function; the comment at its declaration says which. *History*
variables (marked so) record what happened and are read by properties and never
by a guard. An operator whose name begins with `Slip` is a plausible mistake in
the definition after it; nothing uses it, it is there to show that a property
can fail, and `PROJECT.json` says which one it breaks.

### UiService

One action per public function, each of them atomic because the function holds
`lock_` throughout. A try-lock that fails returns at once and changes nothing:
a stutter. Time is the *age* of what is stamped, so the state space is finite;
a call's clock is read before it tries the lock, and `late` (at most `Skew`) is
what it lies behind a stamp of the other thread. All guests share the host
thread, which stamps commands and leases, so a guest's call is never behind one
of these (`OwnClock`), only behind the page's sample; the page's poll, whose
hook reads the clock on the renderer's thread (`diagnostics/native_ui.cpp:384`),
may be behind a command or a lease. `Exchange` is the whole of `exchange()`: validation, expiry, the
report, the new sample and the response; `ExchangeUnanswered` and
`ExchangeExhausted` are its error returns after the state has changed.

### UiChannel

Adds what the service cannot see: the page's own record of the poll it waits
for, of the last command id it acted on and of the outcome it will report next;
requests on the wire, which may be lost or answered late, and a page that gives
up on one of them; the game's screen, which moves under both. `Serve` composes
the request with `UiService`'s `Exchange`. `fate` remembers what the page really
did with each command, and `ReceiptsTellTheTruth` compares a receipt with it.

### ModStorage

The record table under the mutex; the worker, whose file operations are one
action each (clear, create, write, flush, move, delete), each of which may fail;
`Crash` at any point, after which `Open` and `Attach` see only the files. An
unflushed file is `Torn` after a crash. `CrashSafeStore` is the register that
the documentation describes: accepted, saved or failed, atomic, durable.

### DampingTrial and PhysicsSession

`DampingTrial` cuts `apply` and `poll` at every backend call, because the engine
may write the value or replace the body between any two. `mixed` marks bodies
whose game value the trial can no longer tell from its own.

In `PhysicsSession` guests post commands and the simulation callback carries
them out under a lock that everybody only tries. Two things never wait for it:
the release of an owner and the hooks that see bodies and scenes go. The
accesses of `dispatch` that these can meet are therefore steps of their own.

### LuaController

A tick is `StartTick`, one `Pass` or `Start...` per slot, and `Finish`; between
the start and the end of an operation the engine may begin and end teardowns
(`Begin`, `End`) *on the same thread*, which runs `notification` inside the
step. `registry` is the VM's registry with reference numbers that the game can
take again; `home` says where each script owner lives. When a package is due to
be invoked (`next_tick`) is left open.

### Flight

Two threads share the flight under `sample_lock`. `Controller` is the whole
controller callback: it publishes the sample, applies the gates of
`Flight::step` and moves the player or cancels. The worker's calls that read a
clock before they wait for the lock (`Recorder::poll`, `noclip_poll`) are two
actions each, with the callback and the clock between them; `motion_set`, which
reads it under the lock, is one, with an action per result: `Refuse`, `Tell`,
`Grant`. `Release` stands for the two ways a guest gives up. `ActivePlayer` is
what the input and recovery hooks ask. `Verdict` takes the checks of a function
in the order of the code and returns the reason of the first that fires, so the
three lists of rules can be compared. `motion` says whether the recorder was
made for the movement service or for the F6 bridge, which never run together
(`docs/api.md`, "explicit movement takes precedence"). Positions are reduced to
how a movement that passed the gates ends (`Outcomes`).

`MotionPromise` gives each guest a record of its own, which no other guest can
touch as long as it is active or not told; a reason that was acknowledged stays
readable until a new owner needs the record, as the documentation allows.
`Flight` keeps a shared table of receipts, smaller than the number of guests,
and implements it.

### VisibilityLease

No lock: each access to an atomic is an action. `Renew` stores the deadline and
`Announce` the epoch of a new lease; a render callback goes through `TakeToken`,
`CheckDeadline`, `CheckEpoch`, `Hide` and a load and a swap per counter, and two
of them may overlap. The code's orderings are acquire and release on the
atomics, and the properties relate single atomics and the worker's own reads, so
the interleavings of the model are those that matter.

### MediaSkip

`QueryPlaying` is a call of the game's loop from one of its two sites: the
throttle of `route_at`, then all of `observe_at`, written as a pipeline of
operators on a record of the service's fields in the order of the code. The game
(`StartMovie`, `EndMovie`, `MediaTick`) may replace a movie by one of the same
address and name between two observations; a picture may stall.

### ActionRules and StoryRestriction

The engine asks in the middle of a callback and must never wait. `ActionRules`
has the leases of the guests: a guest call reads gate, player and clock before
it gets the lock (`host`); the engine reads a hint (`pending`) without it, then
tries it (`allowed`). `StoryRestriction` has what an answer rests on: the record
of the last write of the story flag (a sequence and a count of writes in
progress), the counters of structural and player events, and the reasons in
force. Each read of a counter and each step of a write is an action, and every
value is read again after it was used; a writer looks twice whether writes are
tracked (`Call`, `Forward`), and between the two tracking may stop. Events are
counted in and out (`CountedIn`, `CountedOut`), one within another. The leases
there are any answer.

### GuestRuntime

A `Runtime` runs one function of one guest at a time. `queue[r]` holds the
places, in the order of the package paths, that a pass still has to come to. A
`HostCall` charges a budget, checks, and reaches a service if the manifest asked
for it; `Return` and `Trap` end the call. The services outlive a runtime, are
shared by several and know a guest by its owner number: `attached` and `held`
are what they keep of it.

### ModPanel, Feedback, Tutorials

`ModPanel`: the page shows a copy; an edit waits in its queue, travels in a
numbered request that may be late, repeated or given up, and is applied if its
revision still is the current one. A request is three locked sections (the
change, the copy of the settings, the copy of the lists), between which the
guest may change both. `Feedback`: the page polls with a growing sequence
number, draws what the answer lists and acknowledges what a frame has shown;
requests and answers may be lost or late, and a new document may replace the
page while the old one runs. `Tutorials`: a presenter claims a request, lends
private data to the game and must have taken it back before it reports the end;
it reads whether the request was cancelled and acts on that later.

### Drawing

Guests publish surfaces and sets of annotations under leases; hooks bring the
projections of map and minimap, and a new projection is a new context; the page
polls, names the focus and the editor, and sends edits; a hook asks whether the
marker key is for a guest. Each call is one step but a poll, which takes the
mutex twice.

### Installer

Every operation on a file is an action and may fail, which runs the program's
handlers; the process may end between any two. The receipt is a file like the
others. `Conflict` and `LuaRefused` are what the start of the loader makes of the
marker files that are left.

## 3. Runs

| run | instance | shows |
| --- | --- | --- |
| `UiCommands` | 1 owner, ring of 2, 3 commands, 3 generations, 2 pages, 3 polls | receipts follow the command through every path that ends it |
| `UiLeases` | 2 owners, 3 screens, 2 targets, 1 lease slot, 2 commands, the clock of either thread one tick behind the other's stamps, fair callers | commands and leases end with owner, screen and deadline; every tracked command settles even if the page is gone |
| `UiLateClock` | 1 owner, 1 command, a poll whose clock may be one tick behind | **violation**: see section 6 |
| `UiEndToEnd` | 1 owner, ring of 1, 2 commands, 4 polls, 1 change of screen, lossy wire | receipts agree with what the page did, which it did once and on the right screen |
| `Storage` | 2 ids, 2 contents, 2 sessions, fair worker | durability, exclusivity, refinement of `CrashSafeStore`; pending writes resolve and shutdown returns |
| `LuaControllers` | 2 packages, 2 submissions, 2 owners, 2 worlds, 1 VM, 1 reference, 1 teardown | the life of a slot, and the pass over several |
| `Endings` | Lua: 1 package, 2 owners, 1 world, 1 teardown; trial: 1 body, 2 values, 2 incarnations, 1 clock step back; physics: 1 guest, 1 selection, 1 rejection | what is unloaded is released; changes of the damping are owed until settled, and trials end; a released guest loses the session |
| `FlightRules` | 2 guests, 1 receipt, both services, 6 views of the player, every input, fair worker | hooks, watchdog and controller agree; one press, one switch; an unrenewed flight ends; refinement of `MotionPromise` |
| `PlayerLeases` | visibility: 2 guests, 2 callbacks, 2 epochs, 3 ticks; media: 2 movies at 1 address, 1 name | evidence is current, only grows, and the mesh is hidden under a lease; a skip ends its own movie, promptly |
| `Host` | guests: 2 of a worker, both with a tick, 1 of a tool, 3 owner numbers; installer: 2 builds, 3 runs, and every option after every other | every service forgets a guest that ends and no other; calls are charged for themselves; a fault costs no other guest its tick; an installer cut short leaves a loader that starts or none |
| `Services` | panel: 1 setting with 2 changes by the guest, or a list of 2 rows published twice; 2 documents, 3 requests; messages: 2 tickets, 2 pages; tutorials: 1 guest with every kind, and 2 that compete for panels in one world; rules: 2 guests, 2 players, 2 slots | edits and clicks act on what was seen; what is said of messages and tutorials is true and final (`Notices`); the hint hides no lease, and a closed service has none |
| `Engine` | 2 writers with 3 increments, or 1 write with worlds and players whose events nest; physics: 2 guests, 1 retirement; drawing: notes of 1 guest, keys of 2 on 2 pages, waits of 3, surfaces of 2 on 2 pages | only restrictions of areas are skipped; the session tells of a body that is still there; focus, events and key claims agree with map, page and order |

The last runs put independent parts into one state space (`part` in `MCEndings`,
`MCPlayerLeases`, `MCHost`, `MCServices`, `MCEngine`): the parts share no state,
and a behaviour is one of one part, under the fairness of that part. The MC
modules extend the components, so that the runs check the very definitions the
theorems are about; `MCEndings` alone takes smaller instances of two components,
which other runs check in full. A part may begin in fewer states than the
component allows: `Tutorials` starts with any guests attached and any presenters
whose prompt comes with the hint it is drawn in, `Services` chooses both for each
of its parts. Its panel comes in two parts: one without a list, and one whose
setting stays as it is while a list is published, taken off and published again
with other rows, so that a row is activated on a list that has become another.
The two guests of the worker in `Host` both have a tick, and the first of a pass
may trap in it before the second has had its own.

Bounds. Every counter the code bounds by its width (`MaxCommand`, `MaxPage`,
`MaxSerial`, `MaxOwner`, ...) has that bound as a constant, and the exhaustion
path is part of the model, so a small value both bounds the run and exercises
the path. Two commands in a ring of one or three in a ring of two are enough for
overwriting and for a report about a command that was succeeded; two owners for
every contention, since a third would do what the second does; two pages for an
old one and its successor; two contents and two sessions for old against new and
before against after. `Skew`, ages and durations of one or two ticks separate
before, at and after each deadline. `MaxTeardowns`, `MaxIncarnations`,
`MaxRewinds`, `MaxVisit`, `MaxWrites`, `MaxRuns` and their like bound the
environment and nothing in the code.

`Storage` starts in an empty directory (`FreshInit`); the second session starts
in whatever the first or its crash left, and reading a file may fail at any
attach. The proofs start in every directory. The two packages of
`LuaControllers` compete for one registry reference, which the game also takes,
so that a number that was given back is soon another's; two packages that hold
references at the same time are beyond this instance, and covered by the proofs.
`UnwantedIsReleased` has one package, since a slot waits for its own owner only.

In `Flight` only the order of the three ages 100, 250 and 500 ms matters, and
they are 0, 1 and 2 ticks; `Capacity` is 1 where the code has 32, with two
guests so that the table is full; `MaxSkew` lets the clock move once between
reading it and the lock. The views of the run have one world; the proofs have
any. `VisibilityLease` has leases of one tick and three ticks of time, in which
two leases can begin and end under one callback; the guards against a clock and
an epoch that wrap are exercised at `MaxTime` and `MaxEpoch`. In `MediaSkip`, 16,
250, 1000 and 2000 ms are 1, 2, 2 and 2 ticks: a request lasts here as long as a
movie takes to become skippable, twice as long as in the code, so the instance
gives a request more chances to meet the wrong movie. In `Engine` two
writers with no event inside, or one with worlds and players, are what one
question can meet without being refused at once.

`CHECK_DEADLOCK FALSE` stands in the runs because their environments are
bounded, or the system stops: when the last session, teardown, command or tick
is used up, nothing need happen.

Symmetry is used only in runs without liveness properties (`LuaControllers`,
`PlayerLeases`, `Engine`), and only over model values that no definition of a
component distinguishes. The parts of `Engine` for one guest leave the other as
it began, so no two of their states are taken for one.

### Fairness

* `UiLeases`: time passes, and a guest that has a ticket keeps asking for it
  (the documented use, `docs/api.md`). Nothing is assumed of the page.
* `Storage`: the worker thread is scheduled and its file operations
  return; nothing is assumed of the guests. The worker takes the first pending
  record in key order (`mod_storage.cpp:136`), so only the first two ids are
  sure to be served: with saves slower than the one-second interval a third one
  can wait for ever. The property says exactly that much, of two ids in the run.
* `Endings`, Lua: an owner that exists is updated again and again, its calls
  return, and not every one of its ticks finds the gate taken or the VM
  suspended (strong fairness: each of these may be refused any number of times
  in between). Trial: time passes, simulation callbacks keep coming, and an
  access that can succeed again and again sometimes does. Physics: the release
  of an owner runs to its end, the player's world is simulated again and again,
  a callback and a hook that began return, and a trial that can end does.
* `FlightRules`: time passes, the worker finishes a call it began, and its loop
  comes to `Recorder::poll` again and again, whatever the guests call in between
  (strong fairness, since the worker is not at rest during their calls). Nothing
  is assumed of the guests, the game or the player.
* `Host`: a call of a guest returns or traps (its fuel is finite), a pass the
  worker began goes on, and the worker's loop ticks while a guest is active.
  Nothing is assumed of the installer, which may be cut short anywhere.

## 4. Proofs

Each theorem holds for all values of the constants that satisfy the assumptions
named at the head of the component (`...Assumption`, `...Assumed`, `...Bounds`);
TLC evaluates these in the runs. They say that sentinels differ from real values,
that bounds are natural numbers and what is finite is, that the durations the
code compares are in the order it has them, that packages belong to one runtime,
and that a build the installer is given has what the loader needs.

Every safety property that a run checks is a theorem. None of them is inductive
alone, so each is proved from an inductive invariant. Where TLC can evaluate it,
TLC checked it first on instances like those of the runs: `LuaIInv` on 0.8
million states, `FlightIInv` 2.5, `StoryIInv` 3.6, `PanelIInv` 3.5, `MediaIInv`
1.1 and `GuestsIInv` 0.28 million; the two of `Notices` on 8 million states of a
larger instance, which it did not exhaust.

| module | theorems (property of a run) | the invariant, and why it is needed |
| --- | --- | --- |
| `UiChannelProofs`, the service | `ReceiptsKept` (`ReceiptsAreKept`), `OfferedOnce` (`OfferedOnceOrWithdrawn`), `CommandCurrent` (`CommandIsCurrent`), `ReleasedClean` (`ReleasedOwnsNothing`), `LeasesCurrent` (`LeasesAreForThisScreen`), `ReportsSettle` (`ReportsSettleOnce`) | `IInv`: the command in the mailbox is the newest and its receipt is in the state its delivery says (`MailboxOK`); ids lie in the ring in the order of its cursor (`RingSorted`), so that only the newest command can still be offered; the leases fit the table (`LeasesFit`). That a step only moves receipts on, and a report only those of its page, is shown operator by operator (`Settles`) |
| `UiChannelProofs`, with the page | `ReceiptsTrue` (`ReceiptsTellTheTruth`), `SentOnce` (`OncePerVisit`), `TriggersRight` (`TriggersItsScreen`) | `ChannelIInv`: a command is offered in one response only; until the page that got it has looked at it the command is awaited and nothing is said of it, and afterwards what was done never changes and every claim (page, poll on the wire, receipt) agrees with it. Lifts `IInv` of the service to the composition |
| `DiskProofs`, the store | `RecordsMatch` (`RecordsMatchFiles`), `WorkerExclusive` (`WorkerOwnsItsBytes`), `ShutdownComplete` (`ShutdownDrains`), `Refinement` (`ImplementsRegister`) | `IInv` with `Bookkeeping`: in which worker step what is staged, that a pending record has bytes, and that a record not attached has no state. Each worker step is a step of the register or a stutter; the only one with an effect there is the rename |
| `DiskProofs`, the installation | `InstallationSafe` (`InstallationIsSafe`), `ModesAgreed` (`ModesAgree`) | `InstallerIInv`: what an installation has not done yet is still on its list, with the proxy last to come and first to go (`InstallOK`, `UninstallOK`); where an update has each target, untouched, moved aside or replaced (`StageOK`, `PublishOK`, `RestoreOK`), so that it ends with all of it or none (`CleanOK`); outside an update nothing the proxy needs is missing while it is there (`HostIsWhole`). The lists come from sets put in some order (`SetToSeq`), and lemmas about lists show that any order will do |
| `LuaControllerProofs` | `RegistryMatches` (`RegistryMatchesSlots`), `LivesFollow` (`LivesInTurn`), `VmKept` (`StaysInItsVm`) | `LuaIInv`: a context of the present revision names a VM, a world and an owner that are there (`ContextsOK`); a notification that reaches a slot reaches the operation that runs on it (`OperationOK`); so every closure is where its slot says (`ClosuresOK`), who was told to shut down is not told again (`EndingsOK`), and a holder is there or being cleaned up (`HoldersOK`) |
| `FlightProofs` | `HooksFollow` (`HooksFollowFlight`), `PressSwitchesOnce` (`PressOnce`), `Refinement` (`KeepsPromise`), `ReceiptsSound` | `FlightIInv`: a guest has at most one receipt, and the one of a guest that flies is unspoilt (`ReceiptsAgree`); only the F6 bridge flies without a receipt (`BridgeOnly`); once a press has switched the flight, what the worker remembers of the key cannot make another edge of it (`PressOK`). The three lists of rules are compared by lemmas about `Verdict` |
| `LeaseProofs`, visibility | `EvidenceTrue` (`EvidenceIsTrue`) | `IInv`: what a token in a callback's hands is still good for: an older one can no longer become evidence of the present lease, an equal one was taken under it, and its history knows what the callback did |
| `LeaseProofs`, drawing | `EventsCurrent` (`EventsAreCurrent`), `FocusCurrent` (`FocusIsCurrent`), `ClaimsOrderly` (`ClaimsAreOrderly`) | `BoardIInv`: of any of those in the line for a claim, one came first, and who is shown and wants a claim is in its line (`LineOK`); the selection is of a set that is shown and, if it was reported under the revision in force, of the holder (`HoverOK`); every deletion that was asked for is remembered under its revision (`DeletionsOK`); surfaces fit and are of the projection in force (`SurfacesOK`). Every call begins with `expire`, so what `expire` makes of a board that may hold lapsed leases is shown first |
| `PhysicsProofs`, the session | `SessionSound` (`SessionIsSound`) | `SessionIInv`: the guests, the hooks and the callback share counters and no lock, so it says what a counter that has not moved since it was read still tells: the body that was found, and what was sampled of it, is the one that is there (`TargetOK`, `SampleOK`); a search begins only for a guest that asked (`AskedOK`), and what it found is watched (`SearchOK`) |
| `PhysicsProofs`, the trial | `RestorationOwed` (`RestorationIsOwed`) | `TrialIInv`: a pending trial knows a body, a value of its own and another one to restore (`AimsAtBody`), and what the game gave the body is not the trial's value unless the game wrote just that (`GamesDiffer`), so a value that was disbelieved is known for what it is |
| `ServiceProofs`, the restriction | `SkipsRight` (`SkipsOnlyAreas`) | `StoryIInv`: everything only moves on (`BehindOK`), so whoever finds a noted context unchanged knows that nothing happened in between (`RecordsOK`, `WritersOK`, `QueryOK`); `active` counts the writers inside (`CountOK`), so it tells whether an unnoted write is under way |
| `ServiceProofs`, the rules | `HintRight` (`HintIsRight`) | `RulesIInv`: the hint is not before any deadline (`LatestOK`), also after a lease was taken back and the hint was computed anew; a call that was under way when the service closed leaves no lease (`ClosedOK`) |
| `ServiceProofs`, the panel | `ActsRight` (`ActsOnWhatWasSeen`) | `PanelIInv`: revisions only grow, so a copy or change that carries the present one carries the present value (`CopiesOK`, `QueuedOK`, `SentOK`); a change is in the queue or in one request, and a request is served once (`IdsOK`, `EffectsOK`), so a change takes effect once however often it arrives |
| `ServiceProofs`, the movies | `SkipRight` (`SkipsItsMovie`) | `MediaIInv`: a movie nobody saw begin is younger than the last sample, or the sample is too old to be continued (`SampleOK`), so what can be skipped and goes on is what was sampled, and what a guest read of the same generation (`SeenOK`, `WantedOK`); while it is asked for, a request is no older than the clock of the site that acts, or that site has yet to ask (`PromptOK`) |
| `GuestProofs`, the guests | `ChargedRight` (`ChargedForThisCall`), `OwnedRight` (`GuestsOwnWhatIsTheirs`), `NobodyPassed` (the half of `EveryGuestTicks` about one pass) | `GuestsIInv`: owner numbers are never shared (`OwnersOK`), so every entry of a service has one live guest behind it that could reach the service (`HeldOK`), and the registries it has a pointer to and the game services are all it has to let go; a runtime is at one guest, in the stage its operation needs (`CallsOK`), and what is charged to it was charged in this call (`ChargedOK`) |
| `GuestProofs`, what they show | `NoticesTrue` (`NoticesAreTrue`) | `FeedbackIInv`: an entry says of its ticket what the histories say (`MessagesOK`); a page acknowledges only what it drew, and counts from when it asked, which is before the answer was made, so nothing is shown beyond its deadline (`PagesOK`); entries only begin while there is room (`RoomOK`). `TutorialsIInv`: no two requests have one ticket (`TicketsOK`); what is given out of a kind is what the presenter of that kind holds, and the other way round (`SessionOK`, `LiveOK`); only after a fault is the session kept while its request has failed, and then nothing is at work any more (`HintOK`); the game shows nothing but what is held and its own (`PanelOK`) |

The types of the variables are part of every one of these invariants; where the
component states them itself, `TypeCorrect` is listed as a theorem too.

Two refinements are theorems: `ModStorage` implements `CrashSafeStore`, and
`Flight` implements `MotionPromise`. Both go step by step: the initial states map
to initial states, and each action to an action of the promise or to a stutter.

Some properties speak of steps (`ReportsSettleOnce`, `TriggersItsScreen`,
`EvidenceIsTrue`, `GuestsOwnWhatIsTheirs`, `RestorationIsOwed`,
`ClaimsAreOrderly`, `ActsOnWhatWasSeen`, `SkipsItsMovie`, `NoticesAreTrue`): they
are proved of the steps between two states that satisfy the invariant.

The lemmas come in three kinds. Some are about data: the lists of an
installation, the queue of the panel, the line for a claim, the number of entries
that stand, the latest of finitely many deadlines (by well-foundedness, since
induction over data is not at hand). Some are about one operator of a component:
what `expire`, `Verdict`, an observation of a movie or the end of a request
returns or preserves, whoever calls it. The others take one action each, so that
the invariance of the whole is a case distinction.

Only model-checked: the six liveness properties (`EveryReceiptSettles`, `WorkEnds`,
`HoldsEnd`, `UnwantedIsReleased`, `FlightsEnd`, `EveryGuestTicks`; of the last, what
one pass does is proved, `NobodyIsPassed`). They need
`ENABLED` and fairness and are beyond the prover.

## 5. What the models leave out

* Contents: texts, names, colours, URLs, JSON, hashes. A target of a lease is a
  model value, a stored record is a model value with a checksum that is right or
  wrong.
* The failure of an allocation, except where the code handles it.
* Windows itself: a rename is atomic and a flushed file survives.
* In `LuaController`, an owner that vanishes unnoticed while a world returns at
  the very address of the last one (`lua_controller.cpp:123`): the code cannot
  see the difference and the slot waits for an update that never comes.
  `Reachable` states the assumption. The engine is also taken not to run an
  update of an owner it is tearing down.
* In `Flight`, positions and speeds, the overlay, the log's evidence of stops,
  and the history that the overlay reads (`last_poll`). In `VisibilityLease`, how
  the player's mesh is found, what is written to the renderer, and installing
  the hook. In `MediaSkip`, counters for diagnostics, and names that are empty or
  too long.
* In `StoryRestriction`, tracking starts with no write in progress; the two
  increments that open a write are one step, and the two that close it, since
  between them every reader refuses as after them; counters are not read once
  tracking has stopped; a player's world keeps its address; an engine event has
  its effect when it is counted in, since readers refuse until it is counted
  out; writes admitted for diagnostics alone are left out.
* In `PhysicsSession`, the geometry of the search and the clock: any deadline may
  have passed and any search may find something. One object is retired at a
  time, there is one scene, and `requested_target` is left out. `HoldsEnd` is
  checked without retirements, `SessionIsSound` with one.
* In `Drawing`, rate limits, validation, positions and the limits of counters;
  the four locked calls of a cancelled edit are one step, a document has one
  request at a time, and the order in which guests arrive stands for their order
  numbers. Rendering and the overlay are not modelled.
* In `Installer`, the user is quiet while an installer runs; directories and the
  format of the receipt are abstracted.
* In `GuestRuntime`, fuel and memory (a call may trap anywhere), profiles, the
  parsing of manifests, and the start-up of the worker.
* Components without a module are listed with their reasons in `PROJECT.json`.

## 6. Findings

`UiLateClock`: `docs/api.md:242` documents `EXPIRED` as "Two-second deadline
passed before delivery". `expire()` also expires a command whose `queued_at`
lies after the caller's clock (`ui_service.cpp:52`). The page's poll comes on the
renderer's thread, whose hook reads the clock (`diagnostics/native_ui.cpp:384`)
before `exchange()` tries the lock. A command that a mod queues in between, with
a later tick of the clock, is expired by that poll when it is a few milliseconds
old, though no deadline has passed: the run queues it and polls one tick behind.
A guest's own calls cannot do this, since they share one thread.

Not a finding, but worth knowing: `Recorder::poll` reads its clock before it
waits for `sample_lock` (`movement_probe.cpp:272`), and takes a sample newer than
that clock for a stale one (line 277). When the controller callback publishes
after a clock step, the watchdog cancels a flight as `stale_sample` whose sample
could not be fresher. The model has these steps (`PollBegin`, `Poll`); what a
guest is promised holds in spite of them. `motion_set` reads its clock under the
lock and has no such case.

## 7. Plan

What to prove next: nothing a run checks for safety is left. What would say more
are compositions, each a refinement of what is there: the guests of `GuestRuntime`
as the guests of a service (`held` against the owners of `Feedback` and
`Tutorials`), and `PhysicsSession` over `DampingTrial` itself instead of its state.

What to model next:

1. `LuaPackages` (`lua_packages.cpp`, `lua_source.cpp`): from files that change
   while they are scanned to submissions, composed with `LuaController`; and the
   ledger of references (`lua_references.cpp`) with `LuaSession`.
2. The drawing page (`native_ui_drawing.html`) against `Drawing`.
3. The start of the worker in `entry.cpp` with the log and the compatibility
   checks it waits for.
4. The guards on falls and boundaries, with the leases that drive them.
