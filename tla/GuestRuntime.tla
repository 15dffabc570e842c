---------------------------- MODULE GuestRuntime ----------------------------
(***************************************************************************)
(* runtime/runtime.cpp: the WebAssembly guests, what each may call, and    *)
(* what each holds in the services of the host; with the loop of the       *)
(* worker, runtime/entry.cpp.                                              *)
(*                                                                         *)
(* A guest is run only by its Runtime, one function at a time: its start   *)
(* function, crml_abi_version and crml_init while it is loaded, crml_tick, *)
(* crml_shutdown.  In between it calls imports, which the linker defines   *)
(* only for what its manifest asks for; every import first charges one of  *)
(* the budgets of the call, then checks its arguments and the memory of    *)
(* the guest, and only then reaches a service.  Whatever fails is a trap.  *)
(*                                                                         *)
(* The services outlive a Runtime and are shared by several.  They know a  *)
(* guest by its owner number.  A guest is attached to the registries it    *)
(* asked for, and holds whatever it started there or in a game service.    *)
(* What ends by itself (a lease that runs out) is modelled with its        *)
(* service; here everything lasts until the guest or the host ends it.     *)
(*                                                                         *)
(* An operator named Slip... is a plausible mistake in the definition that *)
(* follows it and is used nowhere; it shows that a property can fail.      *)
(***************************************************************************)
EXTENDS Naturals, Sequences, TLC

CONSTANTS
  Runtimes,   \* instances of Runtime
  Workers,    \* those run by the worker loop; the others by a tool
  Order,      \* Order[r]: the packages of r in the order of their paths
  Caps,       \* Caps[g]: what the manifest of g asks for
  HasTick,    \* guests that export crml_tick
  HasStop,    \* and crml_shutdown
  Used,       \* names of the imports the guests of this instance call
  Limit,      \* Limit[b]: calls allowed of budget b
  MaxOwner    \* UINT64_MAX, which is never given out

PackagesOf(r) == {Order[r][i] : i \in DOMAIN Order[r]}
Guests == UNION {PackagesOf(r) : r \in Runtimes}

ASSUME RuntimeAssumption ==
  /\ \A r \in Runtimes : Order[r] \in Seq(Guests)
  /\ \A r, s \in Runtimes : r # s => PackagesOf(r) \intersect PackagesOf(s) = {}
  /\ MaxOwner \in Nat \ {0}
-----------------------------------------------------------------------------
(* What a guest may call: the capability it takes, the budget it charges,  *)
(* the service it reaches, and whether that starts something the guest     *)
(* then holds, ends it, or neither.                                        *)
Import(cap, budget, service, does) ==
  [cap |-> cap, budget |-> budget, service |-> service, does |-> does]

ListImports ==
  [list_publish |-> Import("lists", "command", "lists", "take"),
   list_next    |-> Import("lists", "read", "lists", "look"),
   list_hide    |-> Import("lists", "command", "lists", "drop")]

DrawingImports ==
  [drawing_publish |-> Import("drawing", "command", "drawing", "take"),
   drawing_hide    |-> Import("drawing", "command", "drawing", "drop")]
AnnotationImports ==
  [annotations_publish |-> Import("drawing", "command", "drawing", "take"),
   annotations_next    |-> Import("drawing", "read", "drawing", "look"),
   annotations_status  |-> Import("drawing", "read", "drawing", "look")]
MapImports ==
  [map_publish |-> Import("drawing", "command", "drawing", "take"),
   map_read    |-> Import("drawing", "read", "drawing", "look")]

TutorialImports ==
  [tutorial_show    |-> Import("tutorials", "tutorial", "tutorials", "take"),
   tutorial_present |-> Import("tutorials", "tutorial", "tutorials", "take"),
   tutorial_status  |-> Import("tutorials", "tutorial", "tutorials", "look"),
   tutorial_dismiss |-> Import("tutorials", "tutorial", "tutorials", "drop")]

FeedbackImports ==
  [feedback_show    |-> Import("feedback", "feedback", "feedback", "take"),
   feedback_status  |-> Import("feedback", "feedback", "feedback", "look"),
   feedback_dismiss |-> Import("feedback", "feedback", "feedback", "drop")]

SettingsImports ==
  [settings_register      |-> Import("settings", "settings", "settings", "take"),
   settings_read          |-> Import("settings", "settings", "settings", "look"),
   settings_set           |-> Import("settings", "settings", "settings", "look"),
   settings_text_register |-> Import("settings", "settings", "settings", "take")]

\* Storage is known by the mod id, is never detached and has nothing to release.
StorageImports ==
  [storage_read  |-> Import("storage", "storage", "storage", "look"),
   storage_write |-> Import("storage", "storage", "storage", "look")]

InputImports ==
  [input_bind |-> Import("input.actions", "binding", "actions", "take"),
   input_read |-> Import("input.actions", "read", "actions", "look")]

PlayerImports ==
  [noclip_poll    |-> Import("player.noclip", "command", "player", "take"),
   motion_set     |-> Import("player.motion", "command", "player", "take"),
   visibility_set |-> Import("player.visibility", "command", "player", "take")]
PhysicsImports ==
  [physics_select |-> Import("physics.damping", "command", "physics", "take"),
   physics_target |-> Import("physics.damping", "read", "physics", "look"),
   physics_apply  |-> Import("physics.damping", "command", "physics", "take")]
RuleImports == [action_rule_set |-> Import("player.action_rules", "command", "rules", "take")]
UiImports ==
  [ui_activate      |-> Import("ui.activate", "command", "ui", "take"),
   ui_action_status |-> Import("ui.activate", "read", "ui", "look"),
   ui_present       |-> Import("ui.presentation", "command", "ui", "take")]
MediaImports == [media_skip |-> Import("media.skip", "command", "media", "take")]
StateImports == [player_read |-> Import("player.read", "read", "player", "look")]
LogImports == [log |-> Import("log", "log", "log", "look")]

Imports == ListImports @@ DrawingImports @@ AnnotationImports @@ MapImports
  @@ TutorialImports @@ FeedbackImports @@ SettingsImports @@ StorageImports @@ InputImports
  @@ PlayerImports @@ PhysicsImports @@ RuleImports @@ UiImports @@ MediaImports
  @@ StateImports @@ LogImports

\* load_one defines an import in the linker only for a capability of the manifest.
Linked(g) == {i \in Used : Imports[i].cap \in Caps[g]}

Game == {"player", "physics", "ui", "media", "rules"}
Registry == [cap \in {"settings", "feedback", "tutorials", "drawing", "lists", "input.actions"} |->
               IF cap = "input.actions" THEN "actions" ELSE cap]
RegistriesOf(g) == {Registry[cap] : cap \in Caps[g] \intersect DOMAIN Registry}
\* The registries whose requests crml_release cancels.
Cancelling == {"feedback", "tutorials", "drawing", "lists"}
Budgets == {Imports[i].budget : i \in Used}
-----------------------------------------------------------------------------
VARIABLES
  op,         \* op[r]: what the host has called, "idle" between two calls
  queue,      \* queue[r]: the places in Order[r] the operation has still to come to
  call,       \* call[r]: the function of Current(r) that runs, or "none"
  loaded,     \* loaded[r]: the last function load_one has run
  requested,  \* requested[r]: the capabilities prepare was told of
  stage,      \* stage[g]
  owner,      \* owner[g], 0 before it has one
  nextOwner,  \* allocate_owner
  uses,       \* uses[g]: the registries the guest has a pointer to
  spent,      \* spent[g][b]: calls charged to budget b
  attached,   \* <<registry, owner>>
  held,       \* <<service, owner>>
  made        \* history: made[r][b], calls made in the function that runs

host     == <<op, queue, call, loaded, requested>>
services == <<attached, held>>
vars     == <<host, stage, owner, nextOwner, uses, spent, services, made>>

Unspent == [b \in Budgets |-> 0]

Init ==
  /\ op = [r \in Runtimes |-> "new"]
  /\ queue = [r \in Runtimes |-> {}]
  /\ call = [r \in Runtimes |-> "none"]
  /\ loaded = [r \in Runtimes |-> "none"]
  /\ requested = [r \in Runtimes |-> {}]
  /\ stage = [g \in Guests |-> "unseen"]
  /\ owner = [g \in Guests |-> 0]
  /\ nextOwner = 1
  /\ uses = [g \in Guests |-> {}]
  /\ spent = [g \in Guests |-> Unspent]
  /\ attached = {} /\ held = {}
  /\ made = [r \in Runtimes |-> Unspent]

\* The guest the operation is at: shutdown takes them in reverse order.
Place(r) == CHOOSE i \in queue[r] : \A j \in queue[r] : IF op[r] = "shutdown" THEN j <= i ELSE i <= j
Current(r) == Order[r][Place(r)]
Places(r, guests) == {i \in DOMAIN Order[r] : Order[r][i] \in guests}
Active(r) == {g \in PackagesOf(r) : stage[g] = "active"}

\* fault, shutdown and ~Mod: the game services by the router, then each registry.
SlipForgetsLists(g) ==
  LET left == (Game \union uses[g]) \ {"lists"} IN
  /\ attached' = attached \ (left \X {owner[g]})
  /\ held' = held \ (left \X {owner[g]})
LetGo(g) ==
  /\ attached' = attached \ (uses[g] \X {owner[g]})
  /\ held' = held \ ((Game \union uses[g]) \X {owner[g]})

\* The operation goes on with the guests behind this one.
Continue(r) == queue' = [queue EXCEPT ![r] = @ \ {Place(r)}]
-----------------------------------------------------------------------------
(* Loading.                                                                *)

\* Runtime::load up to prepare: some manifests are rejected.
Scan(r) ==
  /\ op[r] = "new"
  /\ \E accepted \in SUBSET PackagesOf(r) :
       /\ stage' = [g \in Guests |-> IF g \notin PackagesOf(r) THEN stage[g]
                                     ELSE IF g \in accepted THEN "listed" ELSE "rejected"]
       /\ queue' = [queue EXCEPT ![r] = Places(r, accepted)]
       /\ requested' = [requested EXCEPT ![r] = UNION {Caps[g] : g \in accepted}]
  /\ op' = [op EXCEPT ![r] = "load"]
  /\ UNCHANGED <<call, loaded, owner, nextOwner, uses, spent, services, made>>

\* load_one up to the module, with allocate_owner: a registry may be full or know the id already.
Attach(r) ==
  /\ op[r] = "load" /\ queue[r] # {} /\ call[r] = "none"
  /\ LET g == Current(r) IN
     /\ stage[g] = "listed"
     /\ IF nextOwner = MaxOwner
        THEN /\ stage' = [stage EXCEPT ![g] = "rejected"]
             /\ Continue(r)
             /\ UNCHANGED <<owner, nextOwner, uses, services>>
        ELSE /\ owner' = [owner EXCEPT ![g] = nextOwner]
             /\ nextOwner' = nextOwner + 1
             /\ \E full \in SUBSET RegistriesOf(g) :
                  LET accepts == RegistriesOf(g) \ full IN
                  \* ModActions refuses with an exception, before the others are asked.
                  IF "actions" \in full
                  THEN /\ stage' = [stage EXCEPT ![g] = "rejected"]
                       /\ Continue(r)
                       /\ UNCHANGED <<uses, services>>
                  ELSE /\ stage' = [stage EXCEPT ![g] = "loading"]
                       /\ uses' = [uses EXCEPT ![g] = accepts]
                       /\ attached' = attached \union (accepts \X {owner'[g]})
                       /\ UNCHANGED <<queue, held>>
  /\ loaded' = [loaded EXCEPT ![r] = "none"]
  /\ UNCHANGED <<op, call, requested, spent, made>>

\* Mod::budget.
SlipKeepsTutorials(g) == [b \in Budgets |-> IF b = "tutorial" THEN spent[g][b] ELSE 0]
Budget(g) == Unspent

\* Mod::call, or the start function in wasmtime_linker_instantiate.
Enter(r, phase) ==
  /\ call' = [call EXCEPT ![r] = phase]
  /\ spent' = [spent EXCEPT ![Current(r)] = Budget(Current(r))]
  /\ UNCHANGED made

After == [none |-> "start", start |-> "abi", abi |-> "init"]

\* The module is read, compiled and linked, then run.
LoadCall(r) ==
  /\ op[r] = "load" /\ queue[r] # {} /\ call[r] = "none"
  /\ stage[Current(r)] = "loading"
  /\ Enter(r, After[loaded[r]])
  /\ UNCHANGED <<op, queue, loaded, requested, stage, owner, nextOwner, uses, services>>

\* The guest is not loaded: its Mod is destroyed.
Rejected(r) ==
  /\ LetGo(Current(r))
  /\ stage' = [stage EXCEPT ![Current(r)] = "rejected"]
  /\ uses' = [uses EXCEPT ![Current(r)] = {}]
  /\ Continue(r)

\* The file, the compilation, a link, an export or the ABI version is wrong.
Unloadable(r) ==
  /\ op[r] = "load" /\ queue[r] # {} /\ call[r] = "none"
  /\ stage[Current(r)] = "loading"
  /\ Rejected(r)
  /\ UNCHANGED <<op, call, loaded, requested, owner, nextOwner, spent, made>>
-----------------------------------------------------------------------------
(* Ticks and the end.                                                      *)

\* The guests in mods.
Kept == {g \in Guests : stage[g] # "rejected"}

\* Runtime::tick.
Tick(r) ==
  /\ op[r] = "idle"
  /\ op' = [op EXCEPT ![r] = "tick"]
  /\ queue' = [queue EXCEPT ![r] = Places(r, Kept)]
  /\ UNCHANGED <<call, loaded, requested, stage, owner, nextOwner, uses, spent, services, made>>

\* Runtime::shutdown.  The worker calls it when no guest is active any more.
Shutdown(r) ==
  /\ op[r] = "idle"
  /\ r \in Workers => Active(r) = {}
  /\ op' = [op EXCEPT ![r] = "shutdown"]
  /\ queue' = [queue EXCEPT ![r] = Places(r, Kept)]
  /\ UNCHANGED <<call, loaded, requested, stage, owner, nextOwner, uses, spent, services, made>>

Exports(r) == IF op[r] = "tick" THEN HasTick ELSE HasStop

\* The next guest of the pass is called.
Run(r) ==
  /\ op[r] \in {"tick", "shutdown"} /\ queue[r] # {} /\ call[r] = "none"
  /\ stage[Current(r)] = "active" /\ Current(r) \in Exports(r)
  /\ Enter(r, op[r])
  /\ UNCHANGED <<op, queue, loaded, requested, stage, owner, nextOwner, uses, services>>

\* Or passed over; at shutdown one that is active is released all the same.
PassOver(r) ==
  /\ op[r] \in {"tick", "shutdown"} /\ queue[r] # {} /\ call[r] = "none"
  /\ LET g == Current(r) IN
     /\ ~(stage[g] = "active" /\ g \in Exports(r))
     /\ IF op[r] = "shutdown" /\ stage[g] = "active"
        THEN /\ stage' = [stage EXCEPT ![g] = "stopped"]
             /\ LetGo(g)
             /\ uses' = [uses EXCEPT ![g] = {}]
        ELSE UNCHANGED <<stage, uses, services>>
  /\ Continue(r)
  /\ UNCHANGED <<op, call, loaded, requested, owner, nextOwner, spent, made>>

Finish(r) ==
  /\ op[r] \in {"load", "tick", "shutdown"} /\ queue[r] = {}
  /\ op' = [op EXCEPT ![r] = IF op[r] = "shutdown" THEN "over" ELSE "idle"]
  /\ UNCHANGED <<queue, call, loaded, requested, stage, owner, nextOwner, uses, spent, services, made>>

\* ~Runtime: whatever became of the guests of mods, each ~Mod releases it again.
Destroy(r) ==
  /\ op[r] \in {"idle", "over"}
  /\ LET kept == {g \in PackagesOf(r) : stage[g] \in {"active", "faulted", "stopped"}}
         gone == {<<s, owner[g]>> : s \in Game, g \in kept}
           \union UNION {uses[g] \X {owner[g]} : g \in kept} IN
     /\ attached' = attached \ gone
     /\ held' = held \ gone
     /\ stage' = [g \in Guests |-> IF g \in kept THEN "destroyed" ELSE stage[g]]
     /\ uses' = [g \in Guests |-> IF g \in kept THEN {} ELSE uses[g]]
  /\ op' = [op EXCEPT ![r] = "gone"]
  /\ UNCHANGED <<queue, call, loaded, requested, owner, nextOwner, spent, made>>
-----------------------------------------------------------------------------
(* A guest function runs.                                                  *)

Charge(r, budget) ==
  /\ spent' = [spent EXCEPT ![Current(r)][budget] = @ + 1]
  /\ made' = [made EXCEPT ![r][budget] = @ + 1]

\* A registry the guest could not attach to answers -1.
Reaches(g, service) == service \in Game \union uses[g]

HostCall(r, i) ==
  /\ call[r] # "none" /\ i \in Linked(Current(r))
  /\ spent[Current(r)][Imports[i].budget] < Limit[Imports[i].budget]
  /\ Charge(r, Imports[i].budget)
  /\ LET g == Current(r)
         entry == <<Imports[i].service, owner[g]>> IN
     held' = IF ~Reaches(g, Imports[i].service) THEN held
             ELSE CASE Imports[i].does = "take" -> held \union {entry}
                    [] Imports[i].does = "drop" -> held \ {entry}
                    [] OTHER -> held
  /\ UNCHANGED <<host, stage, owner, nextOwner, uses, attached>>

\* crml_release, which every guest may call.
ReleaseCall(r) ==
  /\ call[r] # "none"
  /\ "command" \in Budgets /\ spent[Current(r)]["command"] < Limit["command"]
  /\ Charge(r, "command")
  /\ held' = held \ ((Game \union (uses[Current(r)] \intersect Cancelling)) \X {owner[Current(r)]})
  /\ UNCHANGED <<host, stage, owner, nextOwner, uses, attached>>

\* The function returns.
Return(r) ==
  /\ call[r] # "none"
  /\ call' = [call EXCEPT ![r] = "none"]
  /\ LET g == Current(r) IN
     CASE call[r] \in {"start", "abi"} ->
            /\ loaded' = [loaded EXCEPT ![r] = call[r]]
            /\ UNCHANGED <<queue, stage, uses, services>>
       [] call[r] = "init" ->
            /\ stage' = [stage EXCEPT ![g] = "active"]
            /\ Continue(r)
            /\ UNCHANGED <<loaded, uses, services>>
       [] call[r] = "tick" ->
            /\ Continue(r)
            /\ UNCHANGED <<loaded, stage, uses, services>>
       [] OTHER ->
            /\ stage' = [stage EXCEPT ![g] = "stopped"]
            /\ LetGo(g)
            /\ uses' = [uses EXCEPT ![g] = {}]
            /\ Continue(r)
            /\ UNCHANGED loaded
  /\ made' = [made EXCEPT ![r] = Unspent]
  /\ UNCHANGED <<op, requested, owner, nextOwner, spent>>

\* fault: the guest is disabled, and the pass goes on.  Slip: its loop is inside the try block.
SlipEndsPass(r) ==
  /\ stage' = [stage EXCEPT ![Current(r)] = "faulted"]
  /\ LetGo(Current(r))
  /\ uses' = [uses EXCEPT ![Current(r)] = {}]
  /\ queue' = [queue EXCEPT ![r] = {}]
Disabled(r) ==
  /\ stage' = [stage EXCEPT ![Current(r)] = "faulted"]
  /\ LetGo(Current(r))
  /\ uses' = [uses EXCEPT ![Current(r)] = {}]
  /\ Continue(r)

\* It traps: out of fuel, an argument or range that is wrong, a service that threw.
Fails(r) ==
  /\ call' = [call EXCEPT ![r] = "none"]
  /\ IF op[r] = "load" THEN Rejected(r) ELSE Disabled(r)
  /\ made' = [made EXCEPT ![r] = Unspent]
  /\ UNCHANGED <<op, loaded, requested, owner, nextOwner>>

Trap(r) == call[r] # "none" /\ Fails(r) /\ UNCHANGED spent

\* A call beyond its budget is charged, does nothing and traps.
OverBudget(r, i) ==
  /\ call[r] # "none" /\ i \in Linked(Current(r))
  /\ spent[Current(r)][Imports[i].budget] >= Limit[Imports[i].budget]
  /\ spent' = [spent EXCEPT ![Current(r)][Imports[i].budget] = @ + 1]
  /\ Fails(r)

Next == \E r \in Runtimes :
  \/ Scan(r) \/ Attach(r) \/ LoadCall(r) \/ Unloadable(r)
  \/ Tick(r) \/ Shutdown(r) \/ Run(r) \/ PassOver(r) \/ Finish(r) \/ Destroy(r)
  \/ ReleaseCall(r) \/ Return(r) \/ Trap(r)
  \/ \E i \in Used : HostCall(r, i) \/ OverBudget(r, i)

Spec == Init /\ [][Next]_vars

\* Fuel ends every function; the worker goes round its loop while a guest is active.
Fairness ==
  /\ \A r \in Runtimes :
       /\ WF_vars(Return(r) \/ Trap(r))
       /\ WF_vars(Attach(r) \/ LoadCall(r) \/ Run(r) \/ PassOver(r) \/ Finish(r))
  /\ \A r \in Workers : WF_vars(Active(r) # {} /\ Tick(r))
-----------------------------------------------------------------------------
Stages == {"unseen", "listed", "rejected", "loading", "active", "faulted", "stopped", "destroyed"}
Services == Game \union UNION {RegistriesOf(g) : g \in Guests}
Charges == [Budgets -> Nat]

TypeOK ==
  /\ op \in [Runtimes -> {"new", "load", "idle", "tick", "shutdown", "over", "gone"}]
  /\ queue \in [Runtimes -> SUBSET Nat] /\ \A r \in Runtimes : queue[r] \subseteq DOMAIN Order[r]
  /\ call \in [Runtimes -> {"none", "start", "abi", "init", "tick", "shutdown"}]
  /\ loaded \in [Runtimes -> {"none", "start", "abi"}]
  /\ requested \in [Runtimes -> SUBSET UNION {Caps[g] : g \in Guests}]
  /\ stage \in [Guests -> Stages]
  /\ owner \in [Guests -> Nat] /\ nextOwner \in 1 .. MaxOwner
  /\ uses \in [Guests -> SUBSET Services] /\ \A g \in Guests : uses[g] \subseteq RegistriesOf(g)
  /\ spent \in [Guests -> Charges] /\ made \in [Runtimes -> Charges]
  /\ attached \subseteq Services \X Nat /\ held \subseteq Services \X Nat

\* A guest whose load failed, that faulted or was stopped is known to no service
\* any more, and one that is running holds nothing its manifest did not ask for;
\* no guest runs before prepare was told of all it may use.
GivenBack ==
  /\ \A g \in Guests : stage[g] \in {"rejected", "faulted", "stopped", "destroyed"} =>
       \A entry \in attached \union held : entry[2] # owner[g]
  /\ \A g \in Guests, entry \in held : entry[2] = owner[g] =>
       \E i \in Used : Imports[i].service = entry[1] /\ Imports[i].cap \in Caps[g]
  /\ \A r \in Runtimes : call[r] # "none" => Caps[Current(r)] \subseteq requested[r]

\* The end of a guest, in whatever Runtime and however late, takes nothing from
\* another: services shared by two Runtimes tell their guests apart.
TakesOnlyItsOwn == [][
  \A g \in Guests : stage[g] \in {"loading", "active"} /\ stage'[g] = stage[g] =>
    \A s \in uses[g] : <<s, owner[g]>> \in attached' ]_vars

\* Whatever ends a guest, every service forgets it, and nothing of another one.
GuestsOwnWhatIsTheirs == TakesOnlyItsOwn /\ [][GivenBack']_vars

\* The budget is one of the function that runs: none is charged for an earlier one,
\* so a guest that stays within it in every call is never disabled for it.
ChargedForThisCall ==
  \A r \in Runtimes : call[r] # "none" => spent[Current(r)] = made[r]

\* An active guest with a tick leaves a pass only by having been called in it,
\* whichever guests before it trapped or have no tick (runtime.cpp:1335).
NobodyIsPassed == [][
  \A r \in Runtimes : \A i \in queue[r] \ queue'[r] :
    op[r] = "tick" /\ stage[Order[r][i]] = "active" /\ Order[r][i] \in HasTick =>
      call[r] = "tick" /\ i = Place(r) ]_vars

\* The fault of one guest does not keep another from its tick: not in the pass it
\* happens in, and the worker goes on with passes while any guest is active.
EveryGuestTicks ==
  /\ NobodyIsPassed
  /\ \A r \in Workers : \A g \in PackagesOf(r) \intersect HasTick :
       stage[g] = "active" ~> stage[g] # "active" \/ (call[r] = "tick" /\ Current(r) = g)
=============================================================================
