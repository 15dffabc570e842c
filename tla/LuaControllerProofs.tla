------------------------- MODULE LuaControllerProofs -------------------------
(***************************************************************************)
(* Proofs about LuaController, for any packages, VMs, worlds and script    *)
(* owners, and however many references a registry has.                     *)
(*                                                                         *)
(* What makes the host safe is that a tick trusts nothing across a call    *)
(* into Lua: each teardown moves the dispatcher's revision on, so a        *)
(* context that is still of this revision names a VM, a world and an owner *)
(* that are there (ContextsOK); and each notification that reaches a slot  *)
(* reaches the operation that runs on it too, so that what the operation   *)
(* returns is filed under what is left (OperationOK).  From these follow   *)
(* where each closure is (ClosuresOK), which controllers may still be told *)
(* to shut down (EndingsOK) and who may still hold something (HoldersOK).  *)
(***************************************************************************)
EXTENDS LuaController, TLAPS

\* A slot that has left its VM has nothing there, and one that has something there
\* gives it up once its owner is gone.
SlotOK(s) ==
  /\ s.vm = None => s.world = None /\ s.owner = None /\ s.reference = 0
  /\ s.vm # None => s.world # None /\ s.owner # None
  /\ s.reference # 0 /\ s.engineRetired => s.retired
  /\ s.reference # 0 => s.active # 0
SlotsOK == \A i \in Slots : SlotOK(slots[i])

\* A context of this revision is current.
Current(ctx) ==
  /\ ctx.revision <= revision
  /\ ctx.revision = revision =>
       /\ world[ctx.vm] = ctx.world /\ home[ctx.owner] = ctx.vm
       /\ closes[ctx.vm] = ctx.closes
ContextsOK ==
  /\ update # None => Current(update)
  /\ turn # None => Current(turn.ctx)
  /\ turn # None /\ op = None => turn.ctx.revision = revision /\ ~halted /\ tearing = {}

\* Script owners live in VMs that are open.
HomesOK == \A o \in Owners : home[o] \in Vms => world[home[o]] # None

\* The running operation and the slot it works on.
Running(s, ctx, holders) ==
  /\ op.interruption \in {"none", "owner"} => s.vm = ctx.vm
  /\ op.interruption = "closed" => s.vm = None
  /\ op.interruption = "owner" /\ s.owner = ctx.owner => s.engineRetired
  /\ op.interruption = "unknown" => halted
  /\ op.phase = "running" => ~op.attempted /\ op.reference = 0
  /\ op.phase = "releasing" => /\ op.action \in {"unload", "release"} /\ ~op.attempted
                               /\ op.interruption = "none" /\ ~halted
  /\ op.released => op.attempted
  /\ op.attempted => op.action \in {"unload", "release"}
  /\ op.action = "initialize" =>
       /\ s.reference = 0 /\ ~s.blocked /\ s.active # 0 /\ holders = {}
       /\ op.interruption \in {"none", "owner"} => s.owner = ctx.owner
       /\ op.interruption = "none" => ~s.engineRetired
  /\ op.action # "initialize" /\ op.interruption \in {"none", "owner"} => s.reference # 0
  /\ op.action = "unload" =>
       /\ op.interruption \in {"none", "owner"} => s.owner = ctx.owner
       /\ op.shutdown => ctx.owner \notin holders
  /\ op.action = "release" => s.engineRetired
OperationOK == op # None => Running(slots[turn.at], turn.ctx, acquired[turn.at])

\* The reference under which the slot's closure is in the registry.
Reference(i) ==
  IF op = None \/ turn.at # i THEN slots[i].reference
  ELSE IF op.action = "initialize" THEN IF op.interruption = "closed" THEN 0 ELSE op.reference
  ELSE IF op.attempted THEN 0 ELSE slots[i].reference
ClosuresOK ==
  ~halted => \A i \in Slots, g \in Vms, r \in References :
               registry[g][r] = i <=> slots[i].vm = g /\ Reference(i) = r

\* A controller that has been told to shut down is not told again.
EndingsOK ==
  \A i \in Slots :
    /\ shutdowns[i] <= 1
    /\ ~halted /\ shutdowns[i] = 1 /\ Reference(i) # 0 =>
         \/ slots[i].engineRetired
         \/ op # None /\ turn.at = i /\ op.action = "unload" /\ op.interruption = "none"

\* Revisions of code belong to one slot, and only the newest of a slot is wanted.
RevisionsOK ==
  /\ broken \subseteq 0..serial
  /\ \A i \in Slots :
       /\ slots[i].desired <= serial /\ slots[i].active <= serial
       /\ slots[i].desired \in broken \ {0} =>
            slots[i].desired = slots[i].failed /\ slots[i].active \in {slots[i].desired, 0}
       /\ \A j \in Slots \ {i} : slots[i].desired # 0 =>
            slots[i].desired # slots[j].desired /\ slots[i].desired # slots[j].active
  /\ op # None /\ op.action = "initialize" => slots[turn.at].active \notin broken

\* Who holds something for a slot is there, and is its owner, which has yet to shut
\* down or to be cleaned up; or it is being cleaned up.
Holds(s, o) ==
  /\ s.owner = o /\ s.vm = home[o] /\ s.world = world[s.vm]
  /\ ~s.engineRetired /\ (s.reference # 0 \/ s.blocked)
HoldersOK ==
  \A i \in Slots : \A o \in acquired[i] :
    \/ home[o] \in Vms /\ Holds(slots[i], o)
    \/ home[o] = Cleaned /\ \E t \in tearing : t.kind = "close" \/ t.owner = o

LuaIInv ==
  /\ TypeOK /\ SlotsOK /\ ContextsOK /\ HomesOK /\ OperationOK
  /\ ClosuresOK /\ EndingsOK /\ RevisionsOK /\ HoldersOK

-----------------------------------------------------------------------------
(* What the helpers do to a slot.                                           *)

LEMMA ReferenceTypes ==
  ASSUME NEW r \in References \union {0}
  PROVE  r \in Nat /\ (r # 0 <=> r > 0) /\ (r # 0 => r \in References)
BY LuaAssumption

LEMMA ContextTypes ==
  ASSUME TypeOK
  PROVE  /\ turn # None => turn.ctx \in Contexts /\ turn.at \in Slots /\ slots[turn.at] \in Slot
                           /\ turn.ctx.vm \in Vms /\ turn.ctx.world \in Worlds
                           /\ turn.ctx.owner \in Owners /\ turn.ctx.revision \in Nat
                           /\ turn = [ctx |-> turn.ctx, at |-> turn.at]
         /\ update # None => update \in Contexts
         /\ op # None => op \in Operations /\ turn # None
  BY DEF TypeOK, Contexts

LEMMA SeenFields ==
  ASSUME NEW s \in Slot, NEW ctx \in Contexts, NEW v, v = Seen(s, ctx)
  PROVE  /\ v \in Slot
         /\ v.id = s.id /\ v.desired = s.desired /\ v.active = s.active /\ v.failed = s.failed
         /\ v.vm = s.vm /\ v.world = s.world /\ v.owner = s.owner /\ v.reference = s.reference
         /\ IF s.world # None /\ s.world # ctx.world
            THEN v.engineRetired /\ ~v.blocked /\ (s.reference # 0 => v.retired)
            ELSE /\ v.engineRetired = s.engineRetired /\ v.blocked = s.blocked
                 /\ s.retired => v.retired
<1> DEFINE moved == s.world # None /\ s.world # ctx.world
           here  == IF moved
                    THEN [s EXCEPT !.engineRetired = TRUE, !.retired = s.reference > 0,
                                   !.blocked = FALSE]
                    ELSE s
<1>1. v = IF here.reference > 0 /\ here.desired # here.active
          THEN [here EXCEPT !.retired = TRUE] ELSE here
  BY DEF Seen
<1>2. s.reference # 0 <=> s.reference > 0
  BY ReferenceTypes DEF Slot
<1>3. /\ here \in Slot
      /\ here.id = s.id /\ here.desired = s.desired /\ here.active = s.active
      /\ here.failed = s.failed /\ here.vm = s.vm /\ here.world = s.world
      /\ here.owner = s.owner /\ here.reference = s.reference
      /\ IF moved THEN here.engineRetired /\ ~here.blocked /\ (s.reference # 0 => here.retired)
         ELSE here = s
  <2>1. CASE moved
    <3> DEFINE held == s.reference > 0
    <3>1. here = [s EXCEPT !.engineRetired = TRUE, !.retired = held, !.blocked = FALSE]
      BY <2>1
    <3>2. held \in BOOLEAN /\ (s.reference # 0 => held)
      BY <1>2, ReferenceTypes DEF Slot
    <3> HIDE DEF held, here
    <3> QED
      BY <2>1, <3>1, <3>2 DEF Slot
  <2>2. CASE ~moved
    BY <2>2
  <2> QED
    BY <2>1, <2>2
<1> HIDE DEF here
<1>4. CASE here.reference > 0 /\ here.desired # here.active
  <2>1. v = [here EXCEPT !.retired = TRUE]
    BY <1>1, <1>4
  <2>2. here \in Slot
    BY <1>3
  <2>3. /\ v \in Slot /\ v.retired
        /\ v.id = here.id /\ v.desired = here.desired /\ v.active = here.active
        /\ v.failed = here.failed /\ v.vm = here.vm /\ v.world = here.world
        /\ v.owner = here.owner /\ v.reference = here.reference
        /\ v.engineRetired = here.engineRetired /\ v.blocked = here.blocked
    BY <2>1, <2>2 DEF Slot
  <2> QED
    BY <1>3, <2>3
<1>5. CASE ~(here.reference > 0 /\ here.desired # here.active)
  BY <1>1, <1>3, <1>5
<1> QED
  BY <1>4, <1>5

LEMMA PreparedFields ==
  ASSUME NEW s \in Slot, NEW ctx \in Contexts, NEW v, v = Prepared(s, ctx)
  PROVE  /\ v \in Slot
         /\ v.id = s.id /\ v.desired = s.desired /\ v.failed = s.failed
         /\ v.reference = s.reference /\ v.blocked = s.blocked
         /\ IF Initializes(s, ctx)
            THEN /\ v.active = s.desired /\ v.vm = ctx.vm /\ v.world = ctx.world
                 /\ v.owner = ctx.owner /\ ~v.retired /\ ~v.engineRetired
            ELSE v = s
<1>1. CASE Initializes(s, ctx)
  <2>1. v = [s EXCEPT !.active = s.desired, !.vm = ctx.vm, !.world = ctx.world,
                      !.owner = ctx.owner, !.retired = FALSE, !.engineRetired = FALSE]
    BY <1>1 DEF Prepared
  <2> QED
    BY <1>1, <2>1 DEF Slot, Contexts
<1>2. CASE ~Initializes(s, ctx)
  BY <1>2 DEF Prepared
<1> QED
  BY <1>1, <1>2

\* What a teardown makes of a slot.
LEMMA NotifiedFields ==
  ASSUME TypeOK, NEW t \in Teardowns, NEW i \in Slots, NEW v, v = Notified(t)[i]
  PROVE  /\ v \in Slot
         /\ v.id = slots[i].id /\ v.desired = slots[i].desired /\ v.active = slots[i].active
         /\ v.failed = slots[i].failed
         /\ IF slots[i].vm # t.vm \/ (t.kind = "cleanup" /\ slots[i].owner # t.owner)
            THEN v = slots[i]
            ELSE /\ v.engineRetired /\ ~v.blocked
                 /\ IF t.kind = "close"
                    THEN v.vm = None /\ v.world = None /\ v.owner = None /\ v.reference = 0
                    ELSE /\ v.vm = slots[i].vm /\ v.world = slots[i].world
                         /\ v.owner = slots[i].owner /\ v.reference = slots[i].reference
                         /\ v.reference # 0 => v.retired
<1> DEFINE s == slots[i]
<1>1. s \in Slot
  BY DEF TypeOK
<1>2. v = IF s.vm # t.vm \/ (t.kind = "cleanup" /\ s.owner # t.owner) THEN s
          ELSE IF t.kind = "close"
          THEN [s EXCEPT !.engineRetired = TRUE, !.blocked = FALSE, !.reference = 0,
                         !.vm = None, !.world = None, !.owner = None, !.retired = FALSE]
          ELSE [s EXCEPT !.engineRetired = TRUE, !.blocked = FALSE,
                         !.retired = s.retired \/ s.reference > 0]
  BY <1>1 DEF Notified, Slot
<1> HIDE DEF s
<1>3. CASE s.vm # t.vm \/ (t.kind = "cleanup" /\ s.owner # t.owner)
  BY <1>1, <1>2, <1>3 DEF s
<1>4. CASE ~(s.vm # t.vm \/ (t.kind = "cleanup" /\ s.owner # t.owner)) /\ t.kind = "close"
  <2>1. v = [s EXCEPT !.engineRetired = TRUE, !.blocked = FALSE, !.reference = 0,
                      !.vm = None, !.world = None, !.owner = None, !.retired = FALSE]
    BY <1>2, <1>4
  <2>2. /\ v \in Slot
        /\ v.id = s.id /\ v.desired = s.desired /\ v.active = s.active /\ v.failed = s.failed
        /\ v.engineRetired /\ ~v.blocked
        /\ v.vm = None /\ v.world = None /\ v.owner = None /\ v.reference = 0
    BY <1>1, <2>1 DEF Slot
  <2> QED
    BY <1>4, <2>2 DEF s
<1>5. CASE ~(s.vm # t.vm \/ (t.kind = "cleanup" /\ s.owner # t.owner)) /\ t.kind # "close"
  <2> DEFINE retired == s.retired \/ s.reference > 0
  <2>1. v = [s EXCEPT !.engineRetired = TRUE, !.blocked = FALSE, !.retired = retired]
    BY <1>2, <1>5
  <2>2. s.retired \in BOOLEAN /\ (s.reference # 0 => s.reference > 0)
    BY <1>1, ReferenceTypes DEF Slot
  <2>3. retired \in BOOLEAN /\ (s.reference # 0 => retired)
    BY <2>2
  <2> HIDE DEF retired
  <2>4. /\ v \in Slot
        /\ v.id = s.id /\ v.desired = s.desired /\ v.active = s.active /\ v.failed = s.failed
        /\ v.engineRetired /\ ~v.blocked /\ v.retired = retired
        /\ v.vm = s.vm /\ v.world = s.world /\ v.owner = s.owner /\ v.reference = s.reference
    BY <1>1, <2>1, <2>3 DEF Slot
  <2> QED
    BY <1>5, <2>3, <2>4 DEF s
<1> QED
  BY <1>3, <1>4, <1>5

\* What a finished operation makes of its slot.
LEMMA PublishedFields ==
  ASSUME NEW s \in Slot, op \in Operations, NEW restored \in BOOLEAN, NEW v,
         v = Published(s, restored)
  PROVE  /\ v \in Slot
         /\ v.id = s.id /\ v.desired = s.desired /\ v.vm = s.vm /\ v.world = s.world
         /\ v.owner = s.owner /\ v.engineRetired = s.engineRetired /\ v.active = s.active
         /\ v.failed \in {s.failed, s.active}
         /\ v.reference = op.reference /\ v.blocked = s.blocked
         /\ op.interruption = "owner" /\ v.reference # 0 => v.retired
<1> DEFINE kept == op.reference > 0
<1>1. op.reference \in References \union {0}
  BY DEF Operations
<1>2. kept \in BOOLEAN /\ (op.reference # 0 => kept)
  BY <1>1, ReferenceTypes
<1>3. v = IF op.interruption = "owner"
          THEN [s EXCEPT !.reference = op.reference, !.retired = kept]
          ELSE IF Failed(restored)
          THEN [s EXCEPT !.reference = op.reference, !.retired = kept, !.failed = s.active]
          ELSE [s EXCEPT !.reference = op.reference]
  BY DEF Published
<1> HIDE DEF kept
<1>4. CASE v = [s EXCEPT !.reference = op.reference, !.retired = kept]
  BY <1>1, <1>2, <1>4 DEF Slot
<1>5. CASE /\ v = [s EXCEPT !.reference = op.reference, !.retired = kept, !.failed = s.active]
           /\ op.interruption # "owner"
  BY <1>1, <1>2, <1>5 DEF Slot
<1>6. CASE v = [s EXCEPT !.reference = op.reference] /\ op.interruption # "owner"
  BY <1>1, <1>6 DEF Slot
<1> QED
  BY <1>3, <1>4, <1>5, <1>6

LEMMA UpdatedFields ==
  ASSUME NEW s \in Slot, NEW restored \in BOOLEAN, NEW v,
         v = Updated(s, restored) \/ v = [s EXCEPT !.retired = TRUE] \/ v = s
  PROVE  /\ v \in Slot
         /\ v.id = s.id /\ v.desired = s.desired /\ v.vm = s.vm /\ v.world = s.world
         /\ v.owner = s.owner /\ v.engineRetired = s.engineRetired /\ v.active = s.active
         /\ v.failed \in {s.failed, s.active}
         /\ v.reference = s.reference /\ v.blocked = s.blocked
         /\ s.retired => v.retired
<1>1. CASE v = [s EXCEPT !.failed = s.active, !.retired = TRUE]
  BY <1>1 DEF Slot
<1>2. CASE v = [s EXCEPT !.retired = TRUE]
  BY <1>2 DEF Slot
<1>3. CASE v = s
  BY <1>3
<1> QED
  BY <1>1, <1>2, <1>3 DEF Updated

LEMMA RelinquishedFields ==
  ASSUME NEW s \in Slot, NEW restored \in BOOLEAN, NEW v,
         v = Relinquished(s, restored)
  PROVE  /\ v \in Slot
         /\ v.id = s.id /\ v.desired = s.desired /\ v.vm = s.vm /\ v.world = s.world
         /\ v.owner = s.owner /\ v.engineRetired = s.engineRetired /\ v.active = 0
         /\ v.failed \in {s.failed, s.active} /\ v.reference = 0
         /\ IF Failed(restored) THEN v.blocked = ~s.engineRetired ELSE v.blocked = s.blocked
<1> DEFINE gone    == [s EXCEPT !.reference = 0, !.retired = FALSE, !.active = 0]
           blocked == ~s.engineRetired
<1>1. /\ gone \in Slot
      /\ gone.id = s.id /\ gone.desired = s.desired /\ gone.vm = s.vm /\ gone.world = s.world
      /\ gone.owner = s.owner /\ gone.engineRetired = s.engineRetired /\ gone.active = 0
      /\ gone.failed = s.failed /\ gone.reference = 0 /\ gone.blocked = s.blocked
  <2>1. 0 \in 0..MaxSerial /\ 0 \in References \union {0}
    BY LuaBounds
  <2> QED
    BY <2>1 DEF Slot
<1>2. v = IF Failed(restored) THEN [gone EXCEPT !.failed = s.active, !.blocked = blocked] ELSE gone
  BY DEF Relinquished
<1>3. blocked \in BOOLEAN /\ s.active \in 0..MaxSerial
  BY DEF Slot
<1> DEFINE b == blocked
<1>4. v = IF Failed(restored) THEN [gone EXCEPT !.failed = s.active, !.blocked = b] ELSE gone
  BY <1>2
<1>5. b \in BOOLEAN /\ b = ~s.engineRetired
  BY <1>3
<1> HIDE DEF gone, b
<1>6. CASE Failed(restored)
  <2>1. v = [gone EXCEPT !.failed = s.active, !.blocked = b]
    BY <1>4, <1>6
  <2>2. /\ v \in Slot
        /\ v.id = gone.id /\ v.desired = gone.desired /\ v.vm = gone.vm /\ v.world = gone.world
        /\ v.owner = gone.owner /\ v.engineRetired = gone.engineRetired /\ v.active = gone.active
        /\ v.failed = s.active /\ v.reference = gone.reference /\ v.blocked = b
    BY <1>1, <1>3, <1>5, <2>1 DEF Slot
  <2> QED
    BY <1>1, <1>5, <1>6, <2>2
<1>7. CASE ~Failed(restored)
  BY <1>1, <1>4, <1>7
<1> QED
  BY <1>6, <1>7

LEMMA ResultFields ==
  ASSUME NEW s \in Slot, op \in Operations, NEW restored \in BOOLEAN, NEW v,
         v = Result(s, restored)
  PROVE  /\ v \in Slot
         /\ v.id = s.id /\ v.desired = s.desired /\ v.vm = s.vm /\ v.world = s.world
         /\ v.owner = s.owner /\ v.engineRetired = s.engineRetired
         /\ v.active \in {s.active, 0} /\ v.failed \in {s.failed, s.active}
         /\ op.interruption \in {"closed", "unknown"} => v = s
         /\ op.interruption \in {"none", "owner"} /\ op.action = "initialize" =>
              /\ v.reference = op.reference /\ v.blocked = s.blocked
              /\ op.interruption = "owner" /\ v.reference # 0 => v.retired
              /\ v.active = s.active
         /\ op.interruption \in {"none", "owner"}
              /\ (op.action = "invoke" \/ (op.action # "initialize" /\ Unreleased)) =>
              /\ v.reference = s.reference /\ v.blocked = s.blocked
              /\ s.retired => v.retired
              /\ v.active = s.active
         /\ op.interruption \in {"none", "owner"}
              /\ op.action \in {"unload", "release"} /\ ~Unreleased =>
              /\ v.reference = 0
              /\ IF Failed(restored) THEN v.blocked = ~s.engineRetired ELSE v.blocked = s.blocked
<1>1. CASE op.interruption \in {"closed", "unknown"}
  <2>1. v = s
    BY <1>1 DEF Result
  <2> QED
    BY <1>1, <2>1
<1>2. CASE op.interruption \notin {"closed", "unknown"} /\ op.action = "initialize"
  <2>1. v = Published(s, restored)
    BY <1>2 DEF Result
  <2> QED
    BY <1>2, <2>1, PublishedFields
<1>3. CASE op.interruption \notin {"closed", "unknown"} /\ op.action # "initialize"
           /\ (op.action = "invoke" \/ Unreleased)
  <2>1. v = Updated(s, restored) \/ v = [s EXCEPT !.retired = TRUE] \/ v = s
    BY <1>3 DEF Result
  <2>2. op.action = "invoke" => ~Unreleased
    BY DEF Unreleased
  <2> HIDE DEF Unreleased
  <2> QED
    BY <1>3, <2>1, <2>2, UpdatedFields
<1>4. CASE op.interruption \notin {"closed", "unknown"} /\ op.action \notin {"initialize", "invoke"}
           /\ ~Unreleased
  <2>1. v = Relinquished(s, restored)
    BY <1>4 DEF Result
  <2> QED
    BY <1>4, <2>1, RelinquishedFields
<1> QED
  BY <1>1, <1>2, <1>3, <1>4

-----------------------------------------------------------------------------
(* The steps of the worker: only what is wanted changes.                    *)

LEMMA WantedStep ==
  ASSUME LuaIInv, slots' \in [Slots -> Slot], serial' \in 0..MaxSerial, RevisionsOK',
         \A i \in Slots :
           /\ slots'[i].active = slots[i].active /\ slots'[i].failed = slots[i].failed
           /\ slots'[i].vm = slots[i].vm /\ slots'[i].world = slots[i].world
           /\ slots'[i].owner = slots[i].owner /\ slots'[i].reference = slots[i].reference
           /\ slots'[i].retired = slots[i].retired /\ slots'[i].blocked = slots[i].blocked
           /\ slots'[i].engineRetired = slots[i].engineRetired,
         UNCHANGED <<gateVars, update, turn, op, engineVars, history>>
  PROVE  LuaIInv'
<1> USE DEF gateVars, engineVars, history
<1>1. TypeOK'
  BY DEF LuaIInv, TypeOK
<1>2. SlotsOK'
  BY DEF LuaIInv, SlotsOK, SlotOK
<1>3. ContextsOK' /\ HomesOK'
  BY DEF LuaIInv, ContextsOK, HomesOK, Current
<1>4. OperationOK'
  <2>1. TypeOK
    BY DEF LuaIInv
  <2> QED
    BY <2>1, ContextTypes DEF LuaIInv, OperationOK, Running
<1>5. \A i \in Slots : Reference(i)' = Reference(i)
  BY DEF Reference
<1>6. ClosuresOK'
  BY <1>5 DEF LuaIInv, ClosuresOK
<1>7. EndingsOK'
  BY <1>5 DEF LuaIInv, EndingsOK
<1>8. HoldersOK'
  BY DEF LuaIInv, HoldersOK, Holds
<1> QED
  BY <1>1, <1>2, <1>3, <1>4, <1>6, <1>7, <1>8 DEF LuaIInv

LEMMA SubmitStep ==
  ASSUME LuaIInv, NEW id \in Ids, Submit(id)
  PROVE  LuaIInv'
<1>1. TypeOK /\ RevisionsOK
  BY DEF LuaIInv
<1>2. serial \in Nat /\ serial' = serial + 1 /\ serial' \in 0..MaxSerial /\ serial < serial'
  BY <1>1, LuaBounds DEF Submit, TypeOK
<1>3. PICK i \in Slots : slots' = [slots EXCEPT ![i].id = id, ![i].desired = serial + 1]
  BY DEF Submit, Mine, FirstUnused, Unused
<1>4. slots'[i] = [slots[i] EXCEPT !.id = id, !.desired = serial + 1]
  BY <1>1, <1>3 DEF TypeOK, Slot
<1>5. /\ slots'[i] \in Slot /\ slots'[i].desired = serial'
      /\ slots'[i].active = slots[i].active /\ slots'[i].failed = slots[i].failed
      /\ slots'[i].vm = slots[i].vm /\ slots'[i].world = slots[i].world
      /\ slots'[i].owner = slots[i].owner /\ slots'[i].reference = slots[i].reference
      /\ slots'[i].retired = slots[i].retired /\ slots'[i].blocked = slots[i].blocked
      /\ slots'[i].engineRetired = slots[i].engineRetired
  <2>1. slots[i] \in Slot /\ serial + 1 \in 0..MaxSerial
    BY <1>1, <1>2 DEF TypeOK
  <2> QED
    BY <1>2, <1>4, <2>1 DEF Slot
<1>6. \A j \in Slots \ {i} : slots'[j] = slots[j]
  BY <1>1, <1>3 DEF TypeOK
<1>7. slots' \in [Slots -> Slot]
  BY <1>1, <1>3, <1>5, <1>6 DEF TypeOK
<1>8. UNCHANGED <<gateVars, update, turn, op, engineVars, history>>
  BY DEF Submit
<1>9. \A j \in Slots : slots[j].desired \in Nat /\ slots[j].active \in Nat
  BY <1>1, LuaBounds DEF TypeOK, Slot
<1>10. RevisionsOK'
  <2>1. broken' \subseteq 0..serial' /\ serial' \notin broken
    BY <1>1, <1>2, <1>8 DEF RevisionsOK, history
  <2>2. \A j \in Slots : /\ slots[j].desired <= serial /\ slots[j].active <= serial
                         /\ slots[j].desired < serial' /\ slots[j].active < serial'
                         /\ serial' # slots[j].desired /\ serial' # slots[j].active
    BY <1>1, <1>2, <1>9 DEF RevisionsOK
  <2>3. \A j \in Slots : slots'[j].desired <= serial' /\ slots'[j].active <= serial'
    BY <1>2, <1>5, <1>6, <1>9, <2>2
  <2>4. \A j \in Slots : slots'[j].desired \in broken' \ {0} =>
          slots'[j].desired = slots'[j].failed /\ slots'[j].active \in {slots'[j].desired, 0}
    BY <1>1, <1>5, <1>6, <1>8, <2>1 DEF RevisionsOK, history
  <2>5. \A j \in Slots : \A k \in Slots \ {j} : slots'[j].desired # 0 =>
          slots'[j].desired # slots'[k].desired /\ slots'[j].desired # slots'[k].active
    BY <1>1, <1>5, <1>6, <2>2 DEF RevisionsOK
  <2>6. op' # None /\ op'.action = "initialize" => slots'[turn'.at].active \notin broken'
    BY <1>1, <1>5, <1>6, <1>8, ContextTypes DEF RevisionsOK, history, TypeOK
  <2> QED
    BY <2>1, <2>3, <2>4, <2>5, <2>6 DEF RevisionsOK
<1> QED
  BY <1>2, <1>5, <1>6, <1>7, <1>8, <1>10, WantedStep

\* What is not wanted any more is not a revision.
LEMMA UnwantedStep ==
  ASSUME LuaIInv, NEW D,
         slots' = [i \in Slots |-> IF i \in D THEN [slots[i] EXCEPT !.desired = 0] ELSE slots[i]],
         UNCHANGED <<serial, gateVars, update, turn, op, engineVars, history>>
  PROVE  LuaIInv'
<1>1. TypeOK /\ RevisionsOK
  BY DEF LuaIInv
<1>2. ASSUME NEW i \in Slots
      PROVE  /\ slots'[i] \in Slot /\ slots'[i].desired \in {slots[i].desired, 0}
             /\ slots'[i].active = slots[i].active /\ slots'[i].failed = slots[i].failed
             /\ slots'[i].vm = slots[i].vm /\ slots'[i].world = slots[i].world
             /\ slots'[i].owner = slots[i].owner /\ slots'[i].reference = slots[i].reference
             /\ slots'[i].retired = slots[i].retired /\ slots'[i].blocked = slots[i].blocked
             /\ slots'[i].engineRetired = slots[i].engineRetired
  <2>1. slots[i] \in Slot /\ 0 \in 0..MaxSerial
    BY <1>1, LuaBounds DEF TypeOK
  <2>2. CASE slots'[i] = [slots[i] EXCEPT !.desired = 0]
    BY <2>1, <2>2 DEF Slot
  <2>3. CASE slots'[i] = slots[i]
    BY <2>1, <2>3
  <2> QED
    BY <2>2, <2>3
<1>3. slots' \in [Slots -> Slot]
  <2>1. DOMAIN slots' = Slots /\ slots' = [i \in Slots |-> slots'[i]]
    OBVIOUS
  <2> QED
    BY <1>2, <2>1
<1>4. RevisionsOK'
  <2>1. \A i \in Slots : slots'[i].desired <= serial' /\ slots'[i].active <= serial'
    <3>1. serial \in Nat
      BY <1>1, LuaBounds DEF TypeOK
    <3> QED
      BY <1>1, <1>2, <3>1 DEF RevisionsOK
  <2>2. \A i \in Slots : slots'[i].desired \in broken' \ {0} =>
          slots'[i].desired = slots'[i].failed /\ slots'[i].active \in {slots'[i].desired, 0}
    BY <1>1, <1>2 DEF RevisionsOK, history
  <2>3. \A j \in Slots : \A k \in Slots \ {j} : slots'[j].desired # 0 =>
          slots'[j].desired # slots'[k].desired /\ slots'[j].desired # slots'[k].active
    BY <1>1, <1>2 DEF RevisionsOK
  <2>4. op' # None /\ op'.action = "initialize" => slots'[turn'.at].active \notin broken'
    BY <1>1, <1>2, ContextTypes DEF RevisionsOK, history
  <2> QED
    BY <1>1, <2>1, <2>2, <2>3, <2>4 DEF RevisionsOK, history
<1>5. serial' \in 0..MaxSerial
  BY <1>1 DEF TypeOK
<1> QED
  BY <1>2, <1>3, <1>4, <1>5, WantedStep

LEMMA HostStep ==
  ASSUME LuaIInv, Host
  PROVE  LuaIInv'
<1>1. ASSUME NEW id \in Ids, Submit(id)
      PROVE  LuaIInv'
  BY <1>1, SubmitStep
<1>2. ASSUME NEW id \in Ids, Unload(id)
      PROVE  LuaIInv'
  <2> DEFINE D == {i \in Slots : slots[i].id = id}
  <2>1. slots' = [i \in Slots |-> IF i \in D THEN [slots[i] EXCEPT !.desired = 0] ELSE slots[i]]
    BY <1>2 DEF Unload
  <2>2. UNCHANGED <<serial, gateVars, update, turn, op, engineVars, history>>
    BY <1>2 DEF Unload
  <2> HIDE DEF D
  <2> QED
    BY <2>1, <2>2, UnwantedStep
<1>3. ASSUME Stop
      PROVE  LuaIInv'
  <2> DEFINE D == Slots
  <2>1. slots' = [i \in Slots |-> IF i \in D THEN [slots[i] EXCEPT !.desired = 0] ELSE slots[i]]
    BY <1>3 DEF Stop
  <2>2. UNCHANGED <<serial, gateVars, update, turn, op, engineVars, history>>
    BY <1>3 DEF Stop
  <2> HIDE DEF D
  <2> QED
    BY <2>1, <2>2, UnwantedStep
<1> QED
  BY <1>1, <1>2, <1>3 DEF Host

-----------------------------------------------------------------------------
(* The steps of the engine that concern no slot.                            *)

LEMMA Registers ==
  ASSUME NEW g \in Vms
  PROVE  g # None /\ g # Cleaned /\ g # Lost
BY LuaAssumption

\* What the operation, the slots and their revisions say is of the host alone.
LEMMA HostUnchanged ==
  ASSUME LuaIInv, UNCHANGED <<hostVars, halted, op, turn, shutdowns, broken>>,
         acquired' \in [Slots -> SUBSET Owners],
         \A i \in Slots : acquired'[i] \subseteq acquired[i]
  PROVE  /\ SlotsOK' /\ OperationOK' /\ EndingsOK' /\ RevisionsOK'
         /\ \A i \in Slots : Reference(i)' = Reference(i)
<1> USE DEF hostVars
<1>1. SlotsOK'
  BY DEF LuaIInv, SlotsOK
<1>2. \A i \in Slots : Reference(i)' = Reference(i)
  BY DEF Reference
<1>3. EndingsOK'
  BY <1>2 DEF LuaIInv, EndingsOK
<1>4. RevisionsOK'
  BY DEF LuaIInv, RevisionsOK
<1>5. OperationOK'
  <2>1. TypeOK
    BY DEF LuaIInv
  <2>2. op # None => turn.at \in Slots
    BY <2>1, ContextTypes
  <2> QED
    BY <2>2 DEF LuaIInv, OperationOK, Running
<1> QED
  BY <1>1, <1>2, <1>3, <1>4, <1>5

LEMMA OpenVmStep ==
  ASSUME LuaIInv, NEW g \in Vms, NEW w \in Worlds, OpenVm(g, w)
  PROVE  LuaIInv'
<1> USE DEF hostVars, gateVars, history
<1>1. TypeOK
  BY DEF LuaIInv
<1>2. /\ world[g] = None /\ w # None /\ world' = [world EXCEPT ![g] = w]
      /\ UNCHANGED <<hostVars, gateVars, update, turn, op, home, registry, closes, history>>
  BY LuaAssumption DEF OpenVm
<1>3. SlotsOK' /\ OperationOK' /\ EndingsOK' /\ RevisionsOK'
      /\ \A i \in Slots : Reference(i)' = Reference(i)
  BY <1>1, <1>2, HostUnchanged DEF TypeOK
<1>4. TypeOK'
  BY <1>1, <1>2 DEF TypeOK
<1>5. \A h \in Vms : world[h] # None => world'[h] = world[h]
  BY <1>1, <1>2 DEF TypeOK
<1>6. ContextsOK'
  <2>1. ASSUME NEW ctx \in Contexts, Current(ctx) PROVE Current(ctx)'
    BY <1>2, <1>5, <2>1, LuaAssumption DEF Current, Contexts
  <2> QED
    BY <1>1, <1>2, <2>1, ContextTypes DEF LuaIInv, ContextsOK
<1>7. HomesOK'
  BY <1>1, <1>2, <1>5 DEF LuaIInv, HomesOK
<1>8. ClosuresOK'
  BY <1>2, <1>3 DEF LuaIInv, ClosuresOK
<1>9. HoldersOK'
  <2>1. \A o \in Owners : home[o] \in Vms => world'[home[o]] = world[home[o]]
    BY <1>5 DEF LuaIInv, HomesOK
  <2>2. \A i \in Slots : acquired[i] \subseteq Owners
    BY <1>1 DEF TypeOK
  <2> QED
    BY <1>2, <2>1, <2>2 DEF LuaIInv, HoldersOK, Holds
<1> QED
  BY <1>3, <1>4, <1>6, <1>7, <1>8, <1>9 DEF LuaIInv

LEMMA SpawnStep ==
  ASSUME LuaIInv, NEW o \in Owners, NEW g \in Vms, Spawn(o, g)
  PROVE  LuaIInv'
<1> USE DEF hostVars, gateVars, history
<1>1. TypeOK
  BY DEF LuaIInv
<1>2. /\ home[o] = None /\ world[g] # None /\ home' = [home EXCEPT ![o] = g]
      /\ UNCHANGED <<hostVars, gateVars, update, turn, op, world, registry, closes, history>>
  BY DEF Spawn
<1>3. SlotsOK' /\ OperationOK' /\ EndingsOK' /\ RevisionsOK'
      /\ \A i \in Slots : Reference(i)' = Reference(i)
  BY <1>1, <1>2, HostUnchanged DEF TypeOK
<1>4. TypeOK'
  BY <1>1, <1>2 DEF TypeOK
<1>5. \A p \in Owners : home[p] # None => home'[p] = home[p]
  BY <1>1, <1>2 DEF TypeOK
<1>6. ContextsOK'
  <2>1. ASSUME NEW ctx \in Contexts, Current(ctx) PROVE Current(ctx)'
    BY <1>2, <1>5, <2>1, Registers DEF Current, Contexts
  <2> QED
    BY <1>1, <1>2, <2>1, ContextTypes DEF LuaIInv, ContextsOK
<1>7. HomesOK'
  BY <1>1, <1>2 DEF LuaIInv, HomesOK, TypeOK
<1>8. ClosuresOK'
  BY <1>2, <1>3 DEF LuaIInv, ClosuresOK
<1>9. HoldersOK'
  <2>1. \A i \in Slots : \A p \in acquired[i] : home'[p] = home[p]
    BY <1>1, <1>5, Registers, LuaAssumption DEF LuaIInv, HoldersOK, TypeOK
  <2> QED
    BY <1>2, <2>1 DEF LuaIInv, HoldersOK, Holds
<1> QED
  BY <1>3, <1>4, <1>6, <1>7, <1>8, <1>9 DEF LuaIInv

LEMMA ChangeWorldStep ==
  ASSUME LuaIInv, NEW g \in Vms, NEW w \in Worlds, ChangeWorld(g, w)
  PROVE  LuaIInv'
<1> USE DEF hostVars, gateVars
<1>1. TypeOK
  BY DEF LuaIInv
<1>2. /\ update = None /\ turn = None /\ op = None /\ world' = [world EXCEPT ![g] = w]
      /\ home' = [o \in Owners |-> IF home[o] = g THEN Lost ELSE home[o]]
      /\ acquired' = [i \in Slots |-> {o \in acquired[i] : home[o] # g}]
      /\ UNCHANGED <<hostVars, gateVars, update, turn, op, registry, closes, shutdowns, broken>>
  BY <1>1 DEF ChangeWorld, GateFree, TypeOK
<1>3. acquired' \in [Slots -> SUBSET Owners] /\ \A i \in Slots : acquired'[i] \subseteq acquired[i]
  BY <1>1, <1>2 DEF TypeOK
<1>4. SlotsOK' /\ OperationOK' /\ EndingsOK' /\ RevisionsOK'
      /\ \A i \in Slots : Reference(i)' = Reference(i)
  BY <1>2, <1>3, HostUnchanged
<1>5. TypeOK'
  <2>1. world' \in [Vms -> Worlds \union {None}]
    BY <1>1, <1>2 DEF TypeOK
  <2>2. home' \in [Owners -> Vms \union {None, Cleaned, Lost}]
    BY <1>1, <1>2 DEF TypeOK
  <2> QED
    BY <1>1, <1>2, <1>3, <2>1, <2>2 DEF TypeOK
<1>6. ContextsOK'
  BY <1>2 DEF ContextsOK
<1>7. HomesOK'
  BY <1>1, <1>2, Registers DEF LuaIInv, HomesOK, TypeOK
<1>8. ClosuresOK'
  BY <1>2, <1>4 DEF LuaIInv, ClosuresOK
<1>9. HoldersOK'
  <2>1. \A i \in Slots : \A o \in acquired'[i] :
          o \in acquired[i] /\ o \in Owners /\ home[o] # g /\ home'[o] = home[o]
    BY <1>1, <1>2 DEF TypeOK
  <2>2. \A h \in Vms : h # g => world'[h] = world[h]
    BY <1>1, <1>2 DEF TypeOK
  <2> QED
    BY <1>2, <2>1, <2>2 DEF LuaIInv, HoldersOK, Holds
<1> QED
  BY <1>4, <1>5, <1>6, <1>7, <1>8, <1>9 DEF LuaIInv

LEMMA GameRetainsStep ==
  ASSUME LuaIInv, NEW g \in Vms, NEW r \in References, GameRetains(g, r)
  PROVE  LuaIInv'
<1> USE DEF hostVars, gateVars, history
<1>1. TypeOK
  BY DEF LuaIInv
<1>2. /\ registry[g][r] = Free /\ registry' = [registry EXCEPT ![g][r] = Game]
      /\ UNCHANGED <<hostVars, gateVars, update, turn, op, world, home, closes, history>>
  BY DEF GameRetains
<1>3. SlotsOK' /\ OperationOK' /\ EndingsOK' /\ RevisionsOK'
      /\ \A i \in Slots : Reference(i)' = Reference(i)
  BY <1>1, <1>2, HostUnchanged DEF TypeOK
<1>4. TypeOK'
  BY <1>1, <1>2 DEF TypeOK
<1>5. ContextsOK' /\ HomesOK' /\ HoldersOK'
  BY <1>2 DEF LuaIInv, ContextsOK, Current, HomesOK, HoldersOK, Holds
<1>6. \A i \in Slots : Free # i /\ Game # i
  BY LuaAssumption, LuaBounds DEF Slots
<1>7. \A h \in Vms, s \in References :
        registry'[h][s] = IF h = g /\ s = r THEN Game ELSE registry[h][s]
  BY <1>1, <1>2 DEF TypeOK
<1>8. ClosuresOK'
  BY <1>2, <1>3, <1>6, <1>7 DEF LuaIInv, ClosuresOK
<1> QED
  BY <1>3, <1>4, <1>5, <1>8 DEF LuaIInv

LEMMA CaptureStep ==
  ASSUME LuaIInv, \/ \E o \in Owners : Capture(o)
                  \/ Drop
  PROVE  LuaIInv'
<1> USE DEF hostVars, gateVars, history, engineVars
<1>1. TypeOK
  BY DEF LuaIInv
<1>2. UNCHANGED <<hostVars, gateVars, turn, op, engineVars, history>>
  BY DEF Capture, Drop
<1>3. SlotsOK' /\ OperationOK' /\ EndingsOK' /\ RevisionsOK'
      /\ \A i \in Slots : Reference(i)' = Reference(i)
  BY <1>1, <1>2, HostUnchanged DEF TypeOK
<1>4. HomesOK' /\ HoldersOK' /\ ClosuresOK'
  BY <1>2, <1>3 DEF LuaIInv, HomesOK, HoldersOK, Holds, ClosuresOK
<1>5. update' \in Contexts \union {None} /\ (update' # None => Current(update'))
  <2>1. ASSUME NEW o \in Owners, Capture(o)
        PROVE  update' \in Contexts /\ Current(update')
    <3>1. home[o] \in Vms /\ world[home[o]] \in Worlds
      BY <1>1, <2>1 DEF Capture, LuaIInv, HomesOK, TypeOK
    <3>2. update' = [vm |-> home[o], world |-> world[home[o]], owner |-> o,
                     revision |-> revision, closes |-> closes[home[o]]]
      BY <2>1 DEF Capture
    <3>3. revision \in Nat /\ closes[home[o]] \in Nat
      BY <1>1, <3>1 DEF TypeOK
    <3>4. update' \in Contexts
      BY <3>1, <3>2, <3>3 DEF Contexts
    <3>5. /\ update'.vm = home[o] /\ update'.world = world[home[o]] /\ update'.owner = o
          /\ update'.revision = revision /\ update'.closes = closes[home[o]]
      BY <3>2
    <3>6. Current(update')
      BY <3>3, <3>5 DEF Current
    <3> QED
      BY <3>4, <3>6
  <2>2. Drop => update' = None
    BY DEF Drop
  <2> QED
    BY <2>1, <2>2
<1>6. TypeOK'
  BY <1>1, <1>2, <1>5 DEF TypeOK
<1>7. ContextsOK'
  <2>1. turn # None => Current(turn.ctx)
    BY DEF LuaIInv, ContextsOK
  <2> QED
    BY <1>2, <1>5, <2>1 DEF LuaIInv, ContextsOK, Current
<1> QED
  BY <1>3, <1>4, <1>6, <1>7 DEF LuaIInv

-----------------------------------------------------------------------------
(* Teardowns.                                                               *)

LEMMA EndStep ==
  ASSUME LuaIInv, NEW t \in Teardowns, End(t)
  PROVE  LuaIInv'
<1> USE DEF hostVars, engineVars
<1>1. TypeOK
  BY DEF LuaIInv
<1>2. /\ t \in tearing /\ (turn = None \/ op # None) /\ tearing' = tearing \ {t}
      /\ acquired' = [i \in Slots |-> {o \in acquired[i] : home[o] # Cleaned \/
                                        (t.kind = "cleanup" /\ o # t.owner)}]
      /\ UNCHANGED <<hostVars, halted, revision, update, turn, op, engineVars, shutdowns, broken>>
  BY DEF End, GateFree
<1>3. acquired' \in [Slots -> SUBSET Owners] /\ \A i \in Slots : acquired'[i] \subseteq acquired[i]
  BY <1>1, <1>2 DEF TypeOK
<1>4. SlotsOK' /\ OperationOK' /\ EndingsOK' /\ RevisionsOK'
      /\ \A i \in Slots : Reference(i)' = Reference(i)
  BY <1>2, <1>3, HostUnchanged
<1>5. TypeOK'
  BY <1>1, <1>2, <1>3 DEF TypeOK
<1>6. ContextsOK' /\ HomesOK' /\ ClosuresOK'
  BY <1>2, <1>4 DEF LuaIInv, ContextsOK, Current, HomesOK, ClosuresOK
<1>7. HoldersOK'
  <2>1. ASSUME NEW i \in Slots, NEW o \in acquired'[i]
        PROVE  \/ home[o] \in Vms /\ Holds(slots[i], o)
               \/ home[o] = Cleaned /\ \E u \in tearing' : u.kind = "close" \/ u.owner = o
    <3>1. o \in acquired[i] /\ (home[o] # Cleaned \/ (t.kind = "cleanup" /\ o # t.owner))
      BY <1>2
    <3>2. \/ home[o] \in Vms /\ Holds(slots[i], o)
          \/ home[o] = Cleaned /\ \E u \in tearing : u.kind = "close" \/ u.owner = o
      BY <3>1 DEF LuaIInv, HoldersOK
    <3>3. ASSUME home[o] = Cleaned, NEW u \in tearing, u.kind = "close" \/ u.owner = o
          PROVE  u \in tearing'
      BY <1>2, <3>1, <3>3
    <3> QED
      BY <3>2, <3>3
  <2> QED
    BY <1>2, <2>1 DEF HoldersOK, Holds
<1> QED
  BY <1>4, <1>5, <1>6, <1>7 DEF LuaIInv

LEMMA InterruptedFields ==
  ASSUME op \in Operations, NEW k \in {"none", "owner", "closed", "unknown"}, NEW v,
         v = [op EXCEPT !.interruption = k]
  PROVE  /\ v \in Operations /\ v # None /\ v.interruption = k
         /\ v.action = op.action /\ v.phase = op.phase /\ v.failed = op.failed
         /\ v.shutdown = op.shutdown /\ v.attempted = op.attempted
         /\ v.released = op.released /\ v.reference = op.reference
<1>1. v \in Operations
  BY DEF Operations
<1>2. v # None
  BY <1>1, NoOperation
<1> QED
  BY <1>1, <1>2 DEF Operations

\* What a teardown does to the running operation.
LEMMA TornOperation ==
  ASSUME LuaIInv, NEW t \in Teardowns, Begin(t), op # None
  PROVE  /\ op' # None /\ op' \in Operations
         /\ op'.action = op.action /\ op'.phase = op.phase /\ op'.failed = op.failed
         /\ op'.shutdown = op.shutdown /\ op'.attempted = op.attempted
         /\ op'.released = op.released /\ op'.reference = op.reference
         /\ slots' # Notified(t) \/ op' # Interrupted(t) \/ halted' # halted =>
              op'.interruption = "unknown" /\ halted'
         /\ op' = Interrupted(t) =>
              op'.interruption = IF op.interruption = "unknown" \/ turn.ctx.vm # t.vm
                                 THEN op.interruption
                                 ELSE IF t.kind = "close" THEN "closed"
                                 ELSE IF turn.ctx.owner = t.owner /\ op.interruption = "none"
                                 THEN "owner" ELSE op.interruption
<1>1. op \in Operations /\ op.interruption \in {"none", "owner", "closed", "unknown"}
  BY ContextTypes DEF LuaIInv, Operations
<1>2. \E k \in {"none", "owner", "closed", "unknown"} : op' = [op EXCEPT !.interruption = k]
  <2>1. CASE op' = op
    <3>1. op = [op EXCEPT !.interruption = op.interruption]
      BY <1>1 DEF Operations
    <3> QED
      BY <1>1, <2>1, <3>1
  <2>2. CASE op' # op
    BY <2>2 DEF Begin, Interrupted
  <2> QED
    BY <2>1, <2>2
<1>3. PICK k \in {"none", "owner", "closed", "unknown"} : op' = [op EXCEPT !.interruption = k]
  BY <1>2
<1>4. /\ op' \in Operations /\ op' # None /\ op'.interruption = k
      /\ op'.action = op.action /\ op'.phase = op.phase /\ op'.failed = op.failed
      /\ op'.shutdown = op.shutdown /\ op'.attempted = op.attempted
      /\ op'.released = op.released /\ op'.reference = op.reference
  BY <1>1, <1>3, InterruptedFields
<1>5. op' = Interrupted(t) =>
        op'.interruption = IF op.interruption = "unknown" \/ turn.ctx.vm # t.vm
                           THEN op.interruption
                           ELSE IF t.kind = "close" THEN "closed"
                           ELSE IF turn.ctx.owner = t.owner /\ op.interruption = "none"
                           THEN "owner" ELSE op.interruption
  <2>1. \A j \in {"none", "owner", "closed", "unknown"} :
          [op EXCEPT !.interruption = j].interruption = j
    BY <1>1 DEF Operations
  <2> QED
    BY <2>1 DEF Interrupted
<1>6. slots' # Notified(t) \/ op' # Interrupted(t) \/ halted' # halted =>
        op'.interruption = "unknown" /\ halted'
  <2>1. [op EXCEPT !.interruption = "unknown"].interruption = "unknown"
    BY <1>1 DEF Operations
  <2> QED
    BY <2>1 DEF Begin
<1> QED
  BY <1>4, <1>5, <1>6

LEMMA BeginStep ==
  ASSUME LuaIInv, NEW t \in Teardowns, Begin(t)
  PROVE  LuaIInv'
<1> DEFINE struck(i) == ~(slots[i].vm # t.vm \/ (t.kind = "cleanup" /\ slots[i].owner # t.owner))
           told      == slots' = Notified(t) /\ op' = Interrupted(t) /\ halted' = halted
<1>1. TypeOK /\ SlotsOK /\ HomesOK /\ OperationOK /\ HoldersOK
  BY DEF LuaIInv
<1>2. /\ turn = None \/ (op # None /\ op.phase # "releasing")
      /\ tearing' = tearing \union {t} /\ revision' = revision + 1
      /\ UNCHANGED <<serial, update, turn, history>>
      /\ home' = [o \in Owners |-> IF o = t.owner \/ (t.kind = "close" /\ home[o] = t.vm)
                                   THEN Cleaned ELSE home[o]]
      /\ IF t.kind = "close"
         THEN /\ world' = [world EXCEPT ![t.vm] = None]
              /\ registry' = [registry EXCEPT ![t.vm] = [r \in References |-> Free]]
              /\ closes' = [closes EXCEPT ![t.vm] = @ + 1]
         ELSE UNCHANGED <<world, registry, closes>>
  BY DEF Begin, GateFree, InLua, Gone
<1>3. told \/ (halted' /\ slots' = slots /\ (op # None => op'.interruption = "unknown"))
  <2>1. op # None /\ ~told => op'.interruption = "unknown"
    BY TornOperation
  <2> QED
    BY <2>1 DEF Begin
<1>4. /\ t.vm \in Vms /\ t.kind \in {"close", "cleanup"} /\ t.vm # None
      /\ t.kind = "close" => t.owner = None
      /\ t.kind = "cleanup" => t.owner \in Owners
  BY Registers DEF Teardowns
<1>5. ASSUME NEW i \in Slots
      PROVE  /\ slots'[i] \in Slot
             /\ slots'[i].id = slots[i].id /\ slots'[i].desired = slots[i].desired
             /\ slots'[i].active = slots[i].active /\ slots'[i].failed = slots[i].failed
             /\ ~told \/ ~struck(i) => slots'[i] = slots[i]
             /\ told /\ struck(i) =>
                  /\ slots'[i].engineRetired /\ ~slots'[i].blocked
                  /\ t.kind = "close" =>
                       /\ slots'[i].vm = None /\ slots'[i].world = None
                       /\ slots'[i].owner = None /\ slots'[i].reference = 0
                  /\ t.kind = "cleanup" =>
                       /\ slots'[i].vm = slots[i].vm /\ slots'[i].world = slots[i].world
                       /\ slots'[i].owner = slots[i].owner
                       /\ slots'[i].reference = slots[i].reference
                       /\ slots'[i].reference # 0 => slots'[i].retired
  <2>1. CASE told
    <3>1. slots'[i] = Notified(t)[i]
      BY <2>1
    <3> QED
      BY <1>1, <1>4, <2>1, <3>1, NotifiedFields
  <2>2. CASE ~told
    BY <1>1, <1>3, <2>2 DEF TypeOK
  <2> QED
    BY <2>1, <2>2
<1>6. slots' \in [Slots -> Slot]
  <2>1. slots' = Notified(t) \/ slots' = slots
    BY <1>3
  <2>2. slots' = [i \in Slots |-> slots'[i]]
    BY <1>1, <2>1 DEF Notified, TypeOK
  <2> QED
    BY <1>5, <2>2
<1>7. op # None => op' # None /\ op' \in Operations
  BY TornOperation
<1>8. op = None => op' = None /\ turn = None
  BY <1>2 DEF Begin, Interrupted
<1>9. op # None =>
        /\ op'.action = op.action /\ op'.phase = op.phase /\ op'.failed = op.failed
        /\ op'.shutdown = op.shutdown /\ op'.attempted = op.attempted
        /\ op'.released = op.released /\ op'.reference = op.reference
        /\ told => op'.interruption = IF op.interruption = "unknown" \/ turn.ctx.vm # t.vm
                                      THEN op.interruption
                                      ELSE IF t.kind = "close" THEN "closed"
                                      ELSE IF turn.ctx.owner = t.owner /\ op.interruption = "none"
                                      THEN "owner" ELSE op.interruption
        /\ ~told => op'.interruption = "unknown" /\ halted'
  BY TornOperation
<1>10. TypeOK'
  <2>1. home' \in [Owners -> Vms \union {None, Cleaned, Lost}]
    BY <1>1, <1>2 DEF TypeOK
  <2>2. world' \in [Vms -> Worlds \union {None}]
    BY <1>1, <1>2, <1>4 DEF TypeOK
  <2>3. registry' \in [Vms -> [References -> Slots \union {Free, Game, Lost}]]
    BY <1>1, <1>2, <1>4 DEF TypeOK
  <2>4. closes' \in [Vms -> Nat]
    BY <1>1, <1>2, <1>4 DEF TypeOK
  <2>5. halted' \in BOOLEAN /\ revision' \in Nat /\ tearing' \subseteq Teardowns
    <3>1. halted' = halted \/ halted' = TRUE
      BY DEF Begin
    <3>2. halted \in BOOLEAN /\ revision \in Nat /\ tearing \subseteq Teardowns
      BY <1>1 DEF TypeOK
    <3>3. halted' \in BOOLEAN
      BY <3>1, <3>2
    <3>4. revision' \in Nat /\ tearing' \subseteq Teardowns
      BY <1>2, <3>2
    <3> QED
      BY <3>3, <3>4
  <2>6. op' \in Operations \union {None} /\ (op' # None => turn' # None)
    BY <1>1, <1>2, <1>7, <1>8 DEF TypeOK
  <2> QED
    BY <1>1, <1>2, <1>6, <2>1, <2>2, <2>3, <2>4, <2>5, <2>6 DEF TypeOK, history
<1> HIDE DEF told, struck
<1>11. SlotsOK'
  <2>1. ASSUME NEW i \in Slots
        PROVE  SlotOK(slots'[i])
    <3>1. SlotOK(slots[i])
      BY <1>1 DEF SlotsOK
    <3>2. CASE told /\ struck(i) /\ t.kind = "close"
      BY <1>5, <3>2 DEF SlotOK
    <3>3. CASE told /\ struck(i) /\ t.kind = "cleanup"
      BY <1>4, <1>5, <3>1, <3>3 DEF SlotOK, struck
    <3>4. CASE ~told \/ ~struck(i)
      BY <1>5, <3>1, <3>4
    <3> QED
      BY <1>4, <3>2, <3>3, <3>4
  <2> QED
    BY <2>1 DEF SlotsOK
<1>12. ContextsOK'
  <2>1. revision \in Nat /\ revision' # revision /\ revision < revision'
    BY <1>1, <1>2 DEF TypeOK
  <2>2. ASSUME NEW ctx, ctx.revision \in Nat, Current(ctx)
        PROVE  Current(ctx)'
    BY <1>2, <2>1, <2>2 DEF Current
  <2>3. (update # None => Current(update)) /\ (turn # None => Current(turn.ctx))
    BY DEF LuaIInv, ContextsOK
  <2>4. (update # None => update.revision \in Nat) /\ (turn # None => turn.ctx.revision \in Nat)
    BY <1>1, ContextTypes DEF Contexts
  <2> QED
    BY <1>2, <1>7, <1>8, <2>2, <2>3, <2>4 DEF ContextsOK
<1>13. HomesOK'
  BY <1>1, <1>2, <1>4, Registers DEF HomesOK, TypeOK
<1>14. OperationOK'
  <2> SUFFICES ASSUME op' # None
               PROVE  OperationOK'
    BY DEF OperationOK
  <2> DEFINE s == slots[turn.at]
             z == slots'[turn.at]
             ctx == turn.ctx
             h == acquired[turn.at]
  <2>1. op # None /\ turn # None /\ turn.at \in Slots /\ op.phase # "releasing"
    BY <1>1, <1>2, <1>8, ContextTypes
  <2>2. Running(s, ctx, h)
    BY <1>1, <2>1 DEF OperationOK
  <2>3. op.interruption \in {"none", "owner", "closed", "unknown"}
        /\ op.phase \in {"running", "releasing", "returned"}
    BY <1>1, <2>1, ContextTypes DEF Operations
  <2>4. turn' = turn /\ acquired' = acquired /\ z.active = s.active
    BY <1>2, <1>5, <2>1 DEF history
  <2>5. CASE ~told
    <3>1. z = s
      BY <1>5, <2>1, <2>5
    <3> QED
      BY <1>9, <2>1, <2>2, <2>4, <2>5, <3>1 DEF OperationOK, Running
  <2>6. CASE told /\ (op.interruption = "unknown" \/ ctx.vm # t.vm)
    <3>1. op'.interruption = op.interruption /\ halted' = halted
      BY <1>9, <2>1, <2>6 DEF told
    <3>2. z = s \/ (op.interruption = "unknown" /\ struck(turn.at))
      BY <1>4, <1>5, <2>1, <2>2, <2>3, <2>6 DEF struck, Running
    <3>3. CASE z = s
      BY <1>9, <2>1, <2>2, <2>4, <3>1, <3>3 DEF OperationOK, Running
    <3>4. CASE op.interruption = "unknown" /\ struck(turn.at)
      <4>1. z.engineRetired /\ ~z.blocked /\ (s.reference = 0 => z.reference = 0)
        BY <1>4, <1>5, <2>1, <2>6, <3>4
      <4> QED
        BY <1>9, <2>1, <2>2, <2>4, <3>1, <3>4, <4>1 DEF OperationOK, Running
    <3> QED
      BY <3>2, <3>3, <3>4
  <2>7. CASE told /\ op.interruption # "unknown" /\ ctx.vm = t.vm /\ t.kind = "close"
    <3>1. op'.interruption = "closed" /\ halted' = halted
      BY <1>9, <2>1, <2>7 DEF told
    <3>2. \/ z = s /\ s.vm = None
          \/ z.vm = None /\ z.engineRetired /\ ~z.blocked /\ z.reference = 0
      BY <1>4, <1>5, <2>1, <2>2, <2>3, <2>7 DEF struck, Running
    <3> QED
      BY <1>9, <2>1, <2>2, <2>4, <3>1, <3>2 DEF OperationOK, Running
  <2>8. CASE told /\ op.interruption # "unknown" /\ ctx.vm = t.vm /\ t.kind = "cleanup"
    <3>1. /\ z.vm = s.vm /\ z.owner = s.owner /\ z.reference = s.reference
          /\ s.engineRetired => z.engineRetired
          /\ ~s.blocked => ~z.blocked
          /\ s.vm = t.vm /\ s.owner = t.owner => z.engineRetired
          /\ s.owner # t.owner => z = s
      BY <1>5, <2>1, <2>8 DEF struck
    <3>2. CASE ctx.owner = t.owner /\ op.interruption = "none"
      <4>1. op'.interruption = "owner" /\ halted' = halted
        BY <1>9, <2>1, <2>8, <3>2 DEF told
      <4> QED
        BY <1>9, <2>1, <2>2, <2>4, <2>8, <3>1, <3>2, <4>1 DEF OperationOK, Running
    <3>3. CASE ~(ctx.owner = t.owner /\ op.interruption = "none")
      <4>1. op'.interruption = op.interruption /\ halted' = halted
        BY <1>4, <1>9, <2>1, <2>8, <3>3 DEF told
      <4> QED
        BY <1>9, <2>1, <2>2, <2>4, <2>8, <3>1, <3>3, <4>1 DEF OperationOK, Running
    <3> QED
      BY <3>2, <3>3
  <2> QED
    BY <1>4, <2>5, <2>6, <2>7, <2>8
\* Where a teardown does not free the slot's reference, it leaves it.
<1>15. ASSUME NEW i \in Slots, told, t.kind = "cleanup" \/ (slots[i].vm # t.vm /\ slots[i].vm # None)
       PROVE  Reference(i)' = Reference(i)
  <2>1. slots'[i].reference = slots[i].reference
    BY <1>4, <1>5, <1>15 DEF struck
  <2>2. CASE op = None \/ turn.at # i
    BY <1>2, <1>7, <1>8, <2>1, <2>2 DEF Reference
  <2>3. CASE op # None /\ turn.at = i
    <3>1. Running(slots[i], turn.ctx, acquired[i])
      BY <1>1, <2>3 DEF OperationOK
    <3>2. op.interruption \in {"none", "owner", "closed", "unknown"}
      BY <1>1, <2>3, ContextTypes DEF Operations
    <3>3. op'.interruption = "closed" <=> op.interruption = "closed"
      BY <1>4, <1>9, <1>15, <2>3, <3>1, <3>2 DEF Running
    <3> QED
      BY <1>2, <1>7, <1>9, <2>1, <2>3, <3>3 DEF Reference
  <2> QED
    BY <2>2, <2>3
<1>16. ClosuresOK'
  <2>1. SUFFICES ASSUME ~halted', NEW i \in Slots, NEW g \in Vms, NEW r \in References
                 PROVE  registry'[g][r] = i <=> slots'[i].vm = g /\ Reference(i)' = r
    BY DEF ClosuresOK
  <2>2. told /\ ~halted
    BY <1>3, <2>1 DEF told
  <2>3. registry[g][r] = i <=> slots[i].vm = g /\ Reference(i) = r
    BY <2>2 DEF LuaIInv, ClosuresOK
  <2>4. g # None /\ Free # i
    BY Registers, LuaAssumption, LuaBounds DEF Slots
  <2>5. CASE t.kind = "cleanup"
    <3>1. slots'[i].vm = slots[i].vm
      BY <1>5, <2>2, <2>5
    <3> QED
      BY <1>2, <1>15, <2>2, <2>3, <2>5, <3>1
  <2>6. CASE t.kind = "close" /\ g = t.vm
    <3>1. slots'[i].vm # t.vm
      BY <1>4, <1>5, <2>2, <2>6 DEF struck
    <3>2. registry'[g][r] = Free
      BY <1>1, <1>2, <2>6 DEF TypeOK
    <3> QED
      BY <2>4, <2>6, <3>1, <3>2
  <2>7. CASE t.kind = "close" /\ g # t.vm
    <3>1. registry'[g][r] = registry[g][r]
      BY <1>1, <1>2, <2>7 DEF TypeOK
    <3>2. slots'[i].vm = g <=> slots[i].vm = g
      BY <1>5, <2>2, <2>4, <2>7 DEF struck
    <3>3. slots[i].vm = g => Reference(i)' = Reference(i)
      BY <1>15, <2>2, <2>4, <2>7
    <3> QED
      BY <2>3, <3>1, <3>2, <3>3
  <2> QED
    BY <1>4, <2>5, <2>6, <2>7
<1>17. EndingsOK'
  <2>0. \A i \in Slots : shutdowns'[i] <= 1
    BY <1>2 DEF LuaIInv, EndingsOK, history
  <2>1. SUFFICES ASSUME ~halted', NEW i \in Slots
                 PROVE  shutdowns'[i] = 1 /\ Reference(i)' # 0 =>
                          \/ slots'[i].engineRetired
                          \/ op' # None /\ turn'.at = i /\ op'.action = "unload"
                             /\ op'.interruption = "none"
    BY <2>0 DEF EndingsOK
  <2>2. told /\ ~halted
    BY <1>3, <2>1 DEF told
  <2>3. /\ shutdowns[i] <= 1
        /\ shutdowns[i] = 1 /\ Reference(i) # 0 =>
             \/ slots[i].engineRetired
             \/ op # None /\ turn.at = i /\ op.action = "unload" /\ op.interruption = "none"
    BY <2>2 DEF LuaIInv, EndingsOK
  <2>4. shutdowns' = shutdowns /\ turn' = turn
    BY <1>2 DEF history
  <2>5. CASE struck(i)
    BY <1>5, <2>2, <2>3, <2>4, <2>5
  <2>6. CASE ~struck(i)
    <3>1. slots'[i] = slots[i]
      BY <1>5, <2>6
    <3>2. Reference(i)' # 0 => Reference(i) # 0
      <4>1. CASE op = None \/ turn.at # i
        BY <1>7, <1>8, <2>4, <3>1, <4>1 DEF Reference
      <4>2. CASE op # None /\ turn.at = i
        <5>1. op.interruption = "closed" => op'.interruption = "closed"
          BY <1>4, <1>9, <2>2, <4>2
        <5> QED
          BY <1>7, <1>9, <2>4, <3>1, <4>2, <5>1 DEF Reference
      <4> QED
        BY <4>1, <4>2
    <3>3. ASSUME op # None, turn.at = i, op.action = "unload", op.interruption = "none"
          PROVE  op'.interruption = "none"
      <4>1. slots[i].vm = turn.ctx.vm /\ slots[i].owner = turn.ctx.owner
        BY <1>1, <3>3 DEF OperationOK, Running
      <4> QED
        BY <1>4, <1>9, <2>2, <2>6, <3>3, <4>1 DEF struck
    <3> QED
      BY <1>7, <1>9, <2>3, <2>4, <3>1, <3>2, <3>3
  <2> QED
    BY <2>5, <2>6
<1>18. RevisionsOK'
  <2>1. op' # None => op # None /\ turn.at \in Slots /\ op'.action = op.action
    BY <1>1, <1>8, <1>9, ContextTypes
  <2> QED
    BY <1>2, <1>5, <2>1 DEF LuaIInv, RevisionsOK, history
<1>19. HoldersOK'
  <2>1. SUFFICES ASSUME NEW i \in Slots, NEW o \in acquired[i]
                 PROVE  (\/ home[o] \in Vms /\ Holds(slots[i], o)
                         \/ home[o] = Cleaned /\ \E u \in tearing : u.kind = "close" \/ u.owner = o)'
    BY <1>2 DEF HoldersOK, history
  <2>2. o \in Owners
    BY <1>1 DEF TypeOK
  <2>3. home'[o] = IF o = t.owner \/ (t.kind = "close" /\ home[o] = t.vm) THEN Cleaned ELSE home[o]
    BY <1>2, <2>2
  <2>4. CASE o = t.owner \/ (t.kind = "close" /\ home[o] = t.vm)
    <3>1. t.kind = "close" \/ t.owner = o
      BY <2>4
    <3> QED
      BY <1>2, <2>3, <2>4, <3>1
  <2>5. CASE ~(o = t.owner \/ (t.kind = "close" /\ home[o] = t.vm)) /\ home[o] = Cleaned
    <3>1. PICK u \in tearing : u.kind = "close" \/ u.owner = o
      BY <1>1, <2>5, Registers DEF HoldersOK
    <3> QED
      BY <1>2, <2>3, <2>5, <3>1
  <2>6. CASE ~(o = t.owner \/ (t.kind = "close" /\ home[o] = t.vm)) /\ home[o] # Cleaned
    <3>1. home[o] \in Vms /\ Holds(slots[i], o)
      BY <1>1, <2>6 DEF HoldersOK
    <3>2. ~struck(i)
      BY <1>4, <2>6, <3>1 DEF struck, Holds
    <3>3. slots'[i] = slots[i] /\ home'[o] = home[o]
      BY <1>5, <2>3, <2>6, <3>2
    <3>4. world'[home[o]] = world[home[o]]
      BY <1>1, <1>2, <1>4, <2>6, <3>1 DEF TypeOK
    <3> QED
      BY <3>1, <3>3, <3>4 DEF Holds
  <2> QED
    BY <2>4, <2>5, <2>6
<1> QED
  BY <1>10, <1>11, <1>12, <1>13, <1>14, <1>16, <1>17, <1>18, <1>19 DEF LuaIInv

LEMMA EngineStep ==
  ASSUME LuaIInv, Engine
  PROVE  LuaIInv'
BY BeginStep, EndStep, OpenVmStep, SpawnStep, ChangeWorldStep, GameRetainsStep, CaptureStep DEF Engine

-----------------------------------------------------------------------------
(* The tick: rounds over the slots.                                         *)

LEMMA StartTickStep ==
  ASSUME LuaIInv, StartTick
  PROVE  LuaIInv'
<1> USE DEF hostVars, gateVars, engineVars, history
<1>1. TypeOK
  BY DEF LuaIInv
<1>2. /\ update # None /\ turn = None /\ op = None
      /\ ~halted /\ tearing = {} /\ update.revision = revision
      /\ turn' = [ctx |-> update, at |-> 1] /\ update' = None
      /\ UNCHANGED <<hostVars, gateVars, op, engineVars, history>>
  BY <1>1 DEF StartTick, GateFree, Eligible, TypeOK
<1>3. update \in Contexts /\ 1 \in Slots /\ Current(update)
  BY <1>1, <1>2, ContextTypes, LuaBounds DEF LuaIInv, ContextsOK, Slots
<1>4. turn' \in [ctx : Contexts, at : Slots] /\ turn'.ctx = update
  BY <1>2, <1>3
<1>5. TypeOK'
  BY <1>1, <1>2, <1>4 DEF TypeOK
<1>6. \A i \in Slots : Reference(i)' = Reference(i)
  BY <1>2 DEF Reference
<1>7. ContextsOK'
  BY <1>2, <1>3, <1>4 DEF ContextsOK, Current
<1>8. SlotsOK' /\ HomesOK' /\ OperationOK' /\ RevisionsOK' /\ HoldersOK'
  BY <1>2 DEF LuaIInv, SlotsOK, HomesOK, OperationOK, RevisionsOK, HoldersOK, Holds
<1>9. ClosuresOK' /\ EndingsOK'
  BY <1>2, <1>6 DEF LuaIInv, ClosuresOK, EndingsOK
<1> QED
  BY <1>5, <1>7, <1>8, <1>9 DEF LuaIInv

LEMMA OnwardFields ==
  ASSUME LuaIInv, turn # None, turn' = Onward, turn' # None
  PROVE  /\ turn' \in [ctx : Contexts, at : Slots] /\ turn'.ctx = turn.ctx
         /\ ~halted' /\ revision' = turn.ctx.revision
<1>1. TypeOK
  BY DEF LuaIInv
<1>2. /\ turn.at # Capacity /\ ~halted' /\ revision' = turn.ctx.revision
      /\ turn' = [turn EXCEPT !.at = turn.at + 1]
  BY DEF Onward
<1>3. turn \in [ctx : Contexts, at : Slots] /\ turn.at \in Slots
  BY <1>1, ContextTypes DEF TypeOK
<1>4. turn.at + 1 \in Slots
  BY <1>2, <1>3, LuaBounds DEF Slots
<1> QED
  BY <1>2, <1>3, <1>4

\* The visited slot after a round that has found nothing torn down.
LEMMA VisitedSlot ==
  ASSUME LuaIInv, turn # None, op = None, NEW z,
         ~Elsewhere(slots[turn.at], turn.ctx),
         \/ z = Prepared(Visited, turn.ctx)
         \/ Forgets(Visited) /\ z = EmptySlot
  PROVE  LET s == slots[turn.at]
         IN  /\ z \in Slot /\ SlotOK(z) /\ z.reference = s.reference
             /\ z.reference # 0 =>
                  /\ z.vm = s.vm /\ z.vm = turn.ctx.vm /\ z.owner = s.owner /\ z.active = s.active
                  /\ s.engineRetired => z.engineRetired
             /\ \/ z.desired = s.desired /\ z.failed = s.failed /\ z.active = s.active
                \/ z.desired = 0 /\ z.active = 0
                \/ /\ z.desired = s.desired /\ z.failed = s.failed /\ z.active = s.desired
                   /\ s.desired # 0 /\ s.desired # s.failed
             /\ \A o \in acquired[turn.at] :
                  /\ home[o] \in Vms /\ Holds(s, o) /\ Holds(z, o)
                  /\ ~Initializes(Visited, turn.ctx)
             /\ ~Initializes(Visited, turn.ctx) /\ ~Forgets(Visited) => z = Visited
<1> DEFINE s == slots[turn.at]
           ctx == turn.ctx
<1>1. TypeOK /\ s \in Slot /\ ctx \in Contexts /\ turn.at \in Slots /\ ctx.vm \in Vms
      /\ ctx.world \in Worlds /\ ctx.owner \in Owners
  BY ContextTypes DEF LuaIInv
<1>2. /\ tearing = {} /\ ~halted /\ world[ctx.vm] = ctx.world /\ home[ctx.owner] = ctx.vm
  BY DEF LuaIInv, ContextsOK, Current
<1>3. SlotOK(s)
  BY <1>1 DEF LuaIInv, SlotsOK
<1>4. PICK v : v = Visited
  OBVIOUS
<1>5. /\ v \in Slot
      /\ v.id = s.id /\ v.desired = s.desired /\ v.active = s.active /\ v.failed = s.failed
      /\ v.vm = s.vm /\ v.world = s.world /\ v.owner = s.owner /\ v.reference = s.reference
      /\ IF s.world # None /\ s.world # ctx.world
         THEN v.engineRetired /\ ~v.blocked /\ (s.reference # 0 => v.retired)
         ELSE /\ v.engineRetired = s.engineRetired /\ v.blocked = s.blocked
              /\ s.retired => v.retired
  BY <1>1, <1>4, SeenFields DEF Visited
<1>6. v.vm = None \/ v.vm = ctx.vm
  BY <1>1, <1>5 DEF Elsewhere
<1>7. SlotOK(v) /\ (s.engineRetired => v.engineRetired)
  BY <1>3, <1>5 DEF SlotOK
<1>8. \A o \in acquired[turn.at] : home[o] \in Vms /\ Holds(s, o) /\ Holds(v, o)
  <2>1. ASSUME NEW o \in acquired[turn.at]
        PROVE  home[o] \in Vms /\ Holds(s, o)
    BY <1>1, <1>2 DEF LuaIInv, HoldersOK
  <2>2. ASSUME NEW o \in acquired[turn.at]
        PROVE  Holds(v, o)
    BY <1>2, <1>5, <1>6, <2>1, Registers DEF Holds
  <2> QED
    BY <2>1, <2>2
<1>9. Initializes(v, ctx) \/ Forgets(v) => acquired[turn.at] = {} /\ v.reference = 0
  BY <1>8 DEF Initializes, Forgets, Holds
<1>10. CASE Forgets(v) /\ z = EmptySlot
  <2>1. /\ z \in Slot /\ z.desired = 0 /\ z.active = 0 /\ z.reference = 0 /\ SlotOK(z)
    BY <1>10, LuaBounds DEF EmptySlot, Slot, SlotOK
  <2> QED
    BY <1>4, <1>5, <1>9, <1>10, <2>1
<1>11. CASE z = Prepared(v, ctx) /\ ~Initializes(v, ctx)
  <2>1. z = v
    BY <1>11 DEF Prepared
  <2>2. z.reference # 0 => z.vm = ctx.vm
    BY <1>6, <1>7, <2>1 DEF SlotOK
  <2> QED
    BY <1>4, <1>5, <1>7, <1>8, <1>11, <2>1, <2>2
<1>12. CASE z = Prepared(v, ctx) /\ Initializes(v, ctx)
  <2>1. /\ z \in Slot /\ z.desired = v.desired /\ z.failed = v.failed
        /\ z.reference = v.reference /\ z.active = v.desired
        /\ z.vm = ctx.vm /\ z.world = ctx.world /\ z.owner = ctx.owner
    BY <1>1, <1>5, <1>12, PreparedFields
  <2>2. v.desired # 0 /\ v.desired # v.failed /\ v.reference = 0
    BY <1>12 DEF Initializes
  <2>3. SlotOK(z)
    BY <1>1, <2>1, <2>2, LuaAssumption DEF SlotOK
  <2> QED
    BY <1>4, <1>5, <1>9, <1>12, <2>1, <2>2, <2>3
<1> QED
  BY <1>4, <1>10, <1>11, <1>12

\* A slot that a round has left with what it had in the registry.
Revised(s, z) ==
  /\ SlotOK(z) /\ z.reference = s.reference
  /\ z.reference # 0 => z.vm = s.vm /\ (s.engineRetired => z.engineRetired)
  /\ \/ z.desired = s.desired /\ z.failed = s.failed /\ z.active = s.active
     \/ z.desired = 0 /\ z.active = 0
     \/ /\ z.desired = s.desired /\ z.failed = s.failed /\ z.active = s.desired
        /\ s.desired # 0 /\ s.desired # s.failed

LEMMA VisitStep ==
  ASSUME LuaIInv, turn # None, op = None, NEW z \in Slot, Revised(slots[turn.at], z),
         slots' = [slots EXCEPT ![turn.at] = z],
         UNCHANGED <<serial, gateVars, update, engineVars, broken>>,
         op' # None => /\ op' \in Operations /\ turn' = turn
                       /\ op'.interruption = "none" /\ op'.reference = 0 /\ ~op'.attempted
                       /\ op'.action = "initialize" => z.reference = 0 /\ z.active \notin broken
  PROVE  /\ slots' \in [Slots -> Slot] /\ slots'[turn.at] = z
         /\ \A i \in Slots \ {turn.at} : slots'[i] = slots[i]
         /\ \A i \in Slots : Reference(i) = slots[i].reference
                             /\ Reference(i)' = slots'[i].reference
         /\ SlotsOK' /\ HomesOK' /\ ClosuresOK' /\ RevisionsOK'
<1> USE DEF gateVars, engineVars
<1> DEFINE s == slots[turn.at]
<1>1. TypeOK /\ turn.at \in Slots /\ s \in Slot
  BY ContextTypes DEF LuaIInv
<1>2. /\ slots' \in [Slots -> Slot] /\ slots'[turn.at] = z
      /\ \A i \in Slots \ {turn.at} : slots'[i] = slots[i]
  BY <1>1 DEF TypeOK
<1>3. \A i \in Slots : Reference(i) = slots[i].reference /\ Reference(i)' = slots'[i].reference
  BY <1>2 DEF Reference
<1>4. SlotsOK'
  BY <1>2 DEF LuaIInv, SlotsOK, Revised
<1>5. HomesOK'
  BY DEF LuaIInv, HomesOK
<1>6. ClosuresOK'
  <2>1. SUFFICES ASSUME ~halted, NEW i \in Slots, NEW g \in Vms, NEW r \in References
                 PROVE  registry[g][r] = i <=> slots'[i].vm = g /\ slots'[i].reference = r
    BY <1>3 DEF ClosuresOK
  <2>2. registry[g][r] = i <=> slots[i].vm = g /\ slots[i].reference = r
    BY <1>3, <2>1 DEF LuaIInv, ClosuresOK
  <2>3. r # 0
    BY ReferenceTypes, LuaAssumption
  <2>4. slots'[i].reference = slots[i].reference /\ (slots[i].reference = r => slots'[i].vm = slots[i].vm)
    BY <1>2, <2>3 DEF Revised
  <2> QED
    BY <2>2, <2>4
<1>7. RevisionsOK'
  <2>1. serial \in Nat /\ \A i \in Slots : slots[i].desired \in Nat /\ slots[i].active \in Nat
    BY <1>1, LuaBounds DEF TypeOK, Slot
  <2>2. RevisionsOK
    BY DEF LuaIInv
  <2>3. slots'[turn.at].desired \in {s.desired, 0} /\ slots'[turn.at].active \in {s.active, s.desired, 0}
    BY <1>2 DEF Revised
  <2>4. \A i \in Slots : slots'[i].desired <= serial' /\ slots'[i].active <= serial'
    BY <1>1, <1>2, <2>1, <2>2, <2>3 DEF RevisionsOK
  <2>5. \A i \in Slots : slots'[i].desired \in broken' \ {0} =>
          slots'[i].desired = slots'[i].failed /\ slots'[i].active \in {slots'[i].desired, 0}
    BY <1>1, <1>2, <2>2 DEF RevisionsOK, Revised
  <2>6. ASSUME NEW j \in Slots, NEW k \in Slots \ {j}, slots'[j].desired # 0
        PROVE  slots'[j].desired # slots'[k].desired /\ slots'[j].desired # slots'[k].active
    <3>1. slots'[j].desired = slots[j].desired
      BY <1>2, <2>3, <2>6
    <3>2. /\ slots'[k].desired \in {slots[k].desired, 0}
          /\ slots'[k].active \in {slots[k].active, slots[k].desired, 0}
      BY <1>2, <2>3
    <3> QED
      BY <2>2, <2>6, <3>1, <3>2 DEF RevisionsOK
  <2>7. op' # None /\ op'.action = "initialize" => slots'[turn'.at].active \notin broken'
    BY <1>2
  <2> QED
    BY <2>2, <2>4, <2>5, <2>6, <2>7 DEF RevisionsOK
<1> QED
  BY <1>2, <1>3, <1>4, <1>5, <1>6, <1>7

LEMMA PassStep ==
  ASSUME LuaIInv, Pass
  PROVE  LuaIInv'
<1> USE DEF gateVars, engineVars, history
<1> DEFINE s == slots[turn.at]
           ctx == turn.ctx
           z == IF Elsewhere(s, ctx) THEN s
                ELSE IF Forgets(Visited) THEN EmptySlot ELSE Prepared(Visited, ctx)
<1>1. TypeOK /\ turn # None /\ op = None /\ turn.at \in Slots /\ s \in Slot /\ SlotOK(s)
  BY ContextTypes DEF LuaIInv, Pass, SlotsOK
<1>2. slots' = [slots EXCEPT ![turn.at] = z] /\ turn' = Onward
      /\ UNCHANGED <<serial, gateVars, update, op, engineVars, history>>
  BY DEF Pass, Visited
<1>3. /\ z \in Slot /\ Revised(s, z)
      /\ \A o \in acquired[turn.at] : home[o] \in Vms /\ Holds(s, o) => Holds(z, o)
  <2>1. CASE Elsewhere(s, ctx)
    <3>1. z = s
      BY <2>1
    <3> HIDE DEF z
    <3> QED
      BY <1>1, <3>1 DEF Revised
  <2>2. CASE ~Elsewhere(s, ctx)
    <3>1. z = Prepared(Visited, ctx) \/ (Forgets(Visited) /\ z = EmptySlot)
      BY <2>2
    <3> HIDE DEF z
    <3> QED
      BY <1>1, <2>2, <3>1, VisitedSlot DEF Revised
  <2> QED
    BY <2>1, <2>2
<1> HIDE DEF z
<1>4. /\ slots' \in [Slots -> Slot] /\ slots'[turn.at] = z
      /\ \A i \in Slots \ {turn.at} : slots'[i] = slots[i]
      /\ \A i \in Slots : Reference(i) = slots[i].reference /\ Reference(i)' = slots'[i].reference
      /\ SlotsOK' /\ HomesOK' /\ ClosuresOK' /\ RevisionsOK'
  BY <1>1, <1>2, <1>3, VisitStep
<1>5. /\ ~halted /\ tearing = {} /\ Current(ctx) /\ ctx.revision = revision
  BY <1>1 DEF LuaIInv, ContextsOK
<1>6. turn' # None => turn' \in [ctx : Contexts, at : Slots] /\ turn'.ctx = ctx
  BY <1>1, <1>2, OnwardFields
<1>7. TypeOK'
  BY <1>1, <1>2, <1>4, <1>6 DEF TypeOK
<1>8. ContextsOK'
  BY <1>2, <1>5, <1>6 DEF LuaIInv, ContextsOK, Current
<1>9. OperationOK'
  BY <1>1, <1>2 DEF OperationOK
<1>10. EndingsOK'
  <2>1. ASSUME NEW i \in Slots, shutdowns[i] = 1, slots'[i].reference # 0
        PROVE  slots'[i].engineRetired
    <3>1. slots'[i].reference = slots[i].reference /\ (slots[i].engineRetired => slots'[i].engineRetired)
      BY <1>3, <1>4, <2>1 DEF Revised
    <3> QED
      BY <1>1, <1>4, <1>5, <2>1, <3>1 DEF LuaIInv, EndingsOK
  <2> QED
    BY <1>2, <1>4, <1>5, <2>1 DEF LuaIInv, EndingsOK
<1>11. HoldersOK'
  <2>1. \A i \in Slots : \A o \in acquired[i] : home[o] \in Vms /\ Holds(slots[i], o)
    BY <1>5 DEF LuaIInv, HoldersOK
  <2>2. \A i \in Slots : \A o \in acquired[i] : home[o] \in Vms /\ Holds(slots'[i], o)
    BY <1>3, <1>4, <2>1
  <2> QED
    BY <1>2, <2>2 DEF HoldersOK, Holds
<1> QED
  BY <1>4, <1>7, <1>8, <1>9, <1>10, <1>11 DEF LuaIInv

LEMMA OperationFields ==
  ASSUME NEW action \in {"initialize", "invoke", "unload", "release"},
         NEW phase \in {"running", "releasing", "returned"},
         NEW v, v = Operation(action, phase)
  PROVE  /\ v \in Operations /\ v # None /\ v.action = action /\ v.phase = phase
         /\ v.interruption = "none" /\ ~v.failed /\ ~v.shutdown /\ ~v.attempted /\ ~v.released
         /\ v.reference = 0
<1>1. v \in Operations
  BY DEF Operation, Operations
<1> QED
  BY <1>1, NoOperation DEF Operation

\* A round that executes: all but what is said of the operation and its owner.
LEMMA StartFields ==
  ASSUME LuaIInv, NEW action \in {"initialize", "invoke", "unload", "release"},
         NEW phase \in {"running", "releasing"}, Start(action, phase),
         IF action = "initialize" THEN Initializes(Visited, turn.ctx)
         ELSE Visited.reference # 0,
         acquired' \in [Slots -> SUBSET Owners], shutdowns' \in [Slots -> Nat]
  PROVE  /\ turn # None /\ op = None /\ turn' = turn /\ turn.at \in Slots /\ ~halted /\ ~halted'
         /\ world' = world /\ home' = home /\ tearing = {} /\ tearing' = {}
         /\ world[turn.ctx.vm] = turn.ctx.world /\ home[turn.ctx.owner] = turn.ctx.vm
         /\ turn.ctx.vm \in Vms /\ turn.ctx.owner \in Owners
         /\ op' \in Operations /\ op' # None /\ op'.action = action /\ op'.phase = phase
         /\ op'.interruption = "none" /\ ~op'.failed /\ ~op'.shutdown /\ ~op'.attempted
         /\ ~op'.released /\ op'.reference = 0
         /\ SlotOK(slots[turn.at]) /\ SlotOK(slots'[turn.at])
         /\ \A i \in Slots \ {turn.at} : slots'[i] = slots[i]
         /\ \A i \in Slots : Reference(i) = slots[i].reference
                             /\ Reference(i)' = slots'[i].reference
         /\ IF action = "initialize"
            THEN /\ acquired[turn.at] = {} /\ slots'[turn.at].reference = 0
                 /\ slots'[turn.at].vm = turn.ctx.vm /\ slots'[turn.at].owner = turn.ctx.owner
                 /\ ~slots'[turn.at].blocked /\ ~slots'[turn.at].engineRetired
                 /\ slots'[turn.at].active # 0
            ELSE /\ slots'[turn.at] = Visited /\ slots'[turn.at].vm = turn.ctx.vm
                 /\ slots'[turn.at].reference = slots[turn.at].reference
                 /\ slots[turn.at].engineRetired => slots'[turn.at].engineRetired
         /\ \A o \in acquired[turn.at] : home[o] \in Vms /\ Holds(slots'[turn.at], o)
         /\ \A i \in Slots : \A o \in acquired[i] : home[o] \in Vms /\ Holds(slots'[i], o)
         /\ TypeOK' /\ SlotsOK' /\ ContextsOK' /\ HomesOK' /\ ClosuresOK' /\ RevisionsOK'
<1> USE DEF gateVars, engineVars
<1> DEFINE s == slots[turn.at]
           ctx == turn.ctx
           z == Prepared(Visited, ctx)
<1>1. TypeOK /\ turn # None /\ op = None /\ turn.at \in Slots /\ s \in Slot /\ SlotOK(s)
      /\ ctx.vm \in Vms /\ ctx.owner \in Owners /\ ctx \in Contexts
  BY ContextTypes DEF LuaIInv, Start, SlotsOK
<1>2. /\ slots' = [slots EXCEPT ![turn.at] = z] /\ op' = Operation(action, phase)
      /\ ~Elsewhere(s, ctx)
      /\ UNCHANGED <<serial, gateVars, update, turn, engineVars, broken>>
  BY <1>1 DEF Start, Visited, TypeOK
<1>3. /\ op' \in Operations /\ op' # None /\ op'.action = action /\ op'.phase = phase
      /\ op'.interruption = "none" /\ ~op'.failed /\ ~op'.shutdown /\ ~op'.attempted
      /\ ~op'.released /\ op'.reference = 0
  BY <1>2, OperationFields
<1>4. /\ ~halted /\ tearing = {} /\ Current(ctx) /\ ctx.revision = revision
  BY <1>1 DEF LuaIInv, ContextsOK
<1>5. z = Prepared(Visited, ctx) \/ (Forgets(Visited) /\ z = EmptySlot)
  OBVIOUS
<1>6. Visited \in Slot /\ Visited.desired = s.desired /\ Visited.failed = s.failed
  BY <1>1, SeenFields DEF Visited
<1>7. action = "initialize" =>
        /\ z.vm = ctx.vm /\ z.owner = ctx.owner /\ ~z.blocked /\ ~z.engineRetired
        /\ z.active = s.desired /\ s.desired # 0 /\ s.desired # s.failed /\ z.reference = 0
  BY <1>1, <1>6, PreparedFields DEF Initializes
<1>8. action # "initialize" => ~Initializes(Visited, ctx) /\ ~Forgets(Visited)
  BY DEF Initializes, Forgets
<1> HIDE DEF z
<1>9. /\ z \in Slot /\ Revised(s, z)
      /\ z.reference # 0 => z.vm = ctx.vm
      /\ \A o \in acquired[turn.at] : home[o] \in Vms /\ Holds(z, o) /\ ~Initializes(Visited, ctx)
      /\ ~Initializes(Visited, ctx) /\ ~Forgets(Visited) => z = Visited
  BY <1>1, <1>2, <1>5, VisitedSlot DEF Revised
<1>10. action = "initialize" => z.active \notin broken
  <2>1. RevisionsOK
    BY DEF LuaIInv
  <2> QED
    BY <1>1, <1>7, <2>1 DEF RevisionsOK
<1>11. /\ slots' \in [Slots -> Slot] /\ slots'[turn.at] = z
       /\ \A i \in Slots \ {turn.at} : slots'[i] = slots[i]
       /\ \A i \in Slots : Reference(i) = slots[i].reference /\ Reference(i)' = slots'[i].reference
       /\ SlotsOK' /\ HomesOK' /\ ClosuresOK' /\ RevisionsOK'
  BY <1>1, <1>2, <1>3, <1>7, <1>9, <1>10, VisitStep
<1>12. TypeOK'
  BY <1>1, <1>2, <1>3, <1>11 DEF TypeOK
<1>13. ContextsOK'
  BY <1>2, <1>3 DEF LuaIInv, ContextsOK, Current
<1>14. \A i \in Slots : \A o \in acquired[i] : home[o] \in Vms /\ Holds(slots'[i], o)
  <2>1. \A i \in Slots : \A o \in acquired[i] : home[o] \in Vms /\ Holds(slots[i], o)
    BY <1>4 DEF LuaIInv, HoldersOK
  <2> QED
    BY <1>9, <1>11, <2>1
<1>15. world[ctx.vm] = ctx.world /\ home[ctx.owner] = ctx.vm
  BY <1>4 DEF Current
<1>16. SlotOK(z)
  BY <1>9 DEF Revised
<1>17. IF action = "initialize"
       THEN acquired[turn.at] = {} /\ z.active # 0
       ELSE /\ z = Visited /\ z.vm = ctx.vm /\ z.reference = s.reference
            /\ s.engineRetired => z.engineRetired
  BY <1>7, <1>8, <1>9 DEF Revised
<1> QED
  BY <1>1, <1>2, <1>3, <1>4, <1>7, <1>11, <1>12, <1>13, <1>14, <1>15, <1>16, <1>17

LEMMA StartInitializeStep ==
  ASSUME LuaIInv, StartInitialize
  PROVE  LuaIInv'
<1>1. TypeOK /\ shutdowns' = shutdowns /\ acquired' = acquired
  BY DEF LuaIInv, StartInitialize
<1>2. /\ turn' = turn /\ turn.at \in Slots /\ ~halted /\ ~halted' /\ op = None
      /\ world' = world /\ home' = home
      /\ op' # None /\ op'.action = "initialize" /\ op'.phase = "running"
      /\ op'.interruption = "none" /\ ~op'.attempted /\ ~op'.released /\ op'.reference = 0
      /\ \A i \in Slots \ {turn.at} : slots'[i] = slots[i]
      /\ \A i \in Slots : Reference(i) = slots[i].reference /\ Reference(i)' = slots'[i].reference
      /\ acquired[turn.at] = {} /\ slots'[turn.at].reference = 0
      /\ slots'[turn.at].vm = turn.ctx.vm /\ slots'[turn.at].owner = turn.ctx.owner
      /\ ~slots'[turn.at].blocked /\ ~slots'[turn.at].engineRetired /\ slots'[turn.at].active # 0
      /\ \A i \in Slots : \A o \in acquired[i] : home[o] \in Vms /\ Holds(slots'[i], o)
      /\ TypeOK' /\ SlotsOK' /\ ContextsOK' /\ HomesOK' /\ ClosuresOK' /\ RevisionsOK'
  BY <1>1, StartFields DEF StartInitialize, TypeOK
<1>3. OperationOK'
  BY <1>1, <1>2 DEF OperationOK, Running
<1>4. EndingsOK'
  BY <1>1, <1>2 DEF LuaIInv, EndingsOK
<1>5. HoldersOK'
  BY <1>1, <1>2 DEF HoldersOK, Holds
<1> QED
  BY <1>2, <1>3, <1>4, <1>5 DEF LuaIInv

LEMMA StartInvokeStep ==
  ASSUME LuaIInv, StartInvoke
  PROVE  LuaIInv'
<1>1. /\ TypeOK /\ shutdowns' = shutdowns /\ Start("invoke", "running")
      /\ acquired' = [acquired EXCEPT ![turn.at] = @ \union {turn.ctx.owner}]
      /\ Invokes(Visited, turn.ctx)
  BY DEF LuaIInv, StartInvoke
<1>2. turn # None /\ turn.at \in Slots /\ turn.ctx.owner \in Owners /\ slots[turn.at] \in Slot
      /\ turn.ctx \in Contexts
  BY <1>1, ContextTypes DEF Start
<1>3. /\ acquired' \in [Slots -> SUBSET Owners]
      /\ acquired'[turn.at] = acquired[turn.at] \union {turn.ctx.owner}
      /\ \A i \in Slots \ {turn.at} : acquired'[i] = acquired[i]
  BY <1>1, <1>2 DEF TypeOK
<1>4. /\ Visited.reference # 0 /\ ~Visited.retired /\ turn.ctx.owner = Visited.owner
  <2>1. Visited \in Slot
    BY <1>2, SeenFields DEF Visited
  <2> QED
    BY <1>1, <2>1, ReferenceTypes DEF Invokes, Slot
<1>5. /\ turn' = turn /\ ~halted /\ ~halted' /\ op = None
      /\ world' = world /\ home' = home
      /\ op' # None /\ op'.action = "invoke" /\ op'.phase = "running"
      /\ op'.interruption = "none" /\ ~op'.attempted /\ ~op'.released /\ op'.reference = 0
      /\ \A i \in Slots \ {turn.at} : slots'[i] = slots[i]
      /\ \A i \in Slots : Reference(i) = slots[i].reference /\ Reference(i)' = slots'[i].reference
      /\ slots'[turn.at] = Visited /\ slots'[turn.at].vm = turn.ctx.vm
      /\ slots'[turn.at].reference = slots[turn.at].reference
      /\ slots[turn.at].engineRetired => slots'[turn.at].engineRetired
      /\ \A i \in Slots : \A o \in acquired[i] : home[o] \in Vms /\ Holds(slots'[i], o)
      /\ SlotOK(slots'[turn.at]) /\ turn.ctx.vm \in Vms
      /\ world[turn.ctx.vm] = turn.ctx.world /\ home[turn.ctx.owner] = turn.ctx.vm
      /\ TypeOK' /\ SlotsOK' /\ ContextsOK' /\ HomesOK' /\ ClosuresOK' /\ RevisionsOK'
  BY <1>1, <1>3, <1>4, StartFields DEF TypeOK
<1>6. OperationOK'
  BY <1>4, <1>5 DEF OperationOK, Running
<1>7. EndingsOK'
  BY <1>1, <1>5 DEF LuaIInv, EndingsOK
<1>8. Holds(slots'[turn.at], turn.ctx.owner)
  <2>1. IF slots[turn.at].world # None /\ slots[turn.at].world # turn.ctx.world
        THEN slots[turn.at].reference # 0 => Visited.retired
        ELSE TRUE
    BY <1>2, SeenFields DEF Visited
  <2>2. Visited.world = slots[turn.at].world /\ Visited.reference = slots[turn.at].reference
    BY <1>2, SeenFields DEF Visited
  <2>3. Visited.world = turn.ctx.world
    BY <1>4, <1>5, <2>1, <2>2, Registers DEF SlotOK
  <2> QED
    BY <1>4, <1>5, <2>3 DEF Holds, SlotOK
<1>9. HoldersOK'
  <2>1. \A i \in Slots : \A o \in acquired'[i] : home[o] \in Vms /\ Holds(slots'[i], o)
    BY <1>2, <1>3, <1>5, <1>8
  <2> QED
    BY <1>5, <2>1 DEF HoldersOK, Holds
<1> QED
  BY <1>5, <1>6, <1>7, <1>9 DEF LuaIInv

LEMMA StartEndStep ==
  ASSUME LuaIInv, StartUnload \/ StartRelease
  PROVE  LuaIInv'
<1> DEFINE action == IF StartUnload THEN "unload" ELSE "release"
           phase  == IF StartUnload THEN "running" ELSE "releasing"
<1>1. /\ TypeOK /\ acquired' = acquired /\ Start(action, phase) /\ Retires(Visited, turn.ctx)
      /\ action = "unload" => ~Visited.engineRetired /\ phase = "running"
                              /\ shutdowns' = [shutdowns EXCEPT ![turn.at] = @ + 1]
      /\ action = "release" => Visited.engineRetired /\ phase = "releasing" /\ shutdowns' = shutdowns
  BY DEF LuaIInv, StartUnload, StartRelease, MayShutDown
<1>2. action \in {"unload", "release"} /\ phase \in {"running", "releasing"}
  OBVIOUS
<1> HIDE DEF action, phase
<1>3. turn # None /\ turn.at \in Slots /\ slots[turn.at] \in Slot /\ turn.ctx \in Contexts
  BY <1>1, ContextTypes DEF Start
<1>4. Visited.reference # 0 /\ (Visited.engineRetired \/ turn.ctx.owner = Visited.owner)
  <2>1. Visited \in Slot
    BY <1>3, SeenFields DEF Visited
  <2> QED
    BY <1>1, <2>1, ReferenceTypes DEF Retires, Slot
<1>5. shutdowns' \in [Slots -> Nat]
  BY <1>1, <1>2, <1>3 DEF TypeOK
<1>6. acquired' \in [Slots -> SUBSET Owners]
  BY <1>1 DEF TypeOK
<1>7. /\ turn' = turn /\ ~halted /\ ~halted' /\ op = None
      /\ world' = world /\ home' = home
      /\ op' # None /\ op'.action = action /\ op'.phase = phase
      /\ op'.interruption = "none" /\ ~op'.shutdown /\ ~op'.attempted /\ ~op'.released
      /\ op'.reference = 0
      /\ \A i \in Slots \ {turn.at} : slots'[i] = slots[i]
      /\ \A i \in Slots : Reference(i) = slots[i].reference /\ Reference(i)' = slots'[i].reference
      /\ slots'[turn.at] = Visited /\ slots'[turn.at].vm = turn.ctx.vm
      /\ slots'[turn.at].reference = slots[turn.at].reference
      /\ slots[turn.at].engineRetired => slots'[turn.at].engineRetired
      /\ \A i \in Slots : \A o \in acquired[i] : home[o] \in Vms /\ Holds(slots'[i], o)
      /\ TypeOK' /\ SlotsOK' /\ ContextsOK' /\ HomesOK' /\ ClosuresOK' /\ RevisionsOK'
  BY <1>1, <1>2, <1>4, <1>5, <1>6, StartFields
<1>8. OperationOK'
  BY <1>1, <1>2, <1>4, <1>7 DEF OperationOK, Running
<1>9. EndingsOK'
  <2>1. \A i \in Slots : shutdowns[i] <= 1 /\
          (shutdowns[i] = 1 /\ slots[i].reference # 0 => slots[i].engineRetired)
    BY <1>7 DEF LuaIInv, EndingsOK
  <2>2. CASE action = "release"
    BY <1>1, <1>7, <2>1, <2>2 DEF EndingsOK
  <2>3. CASE action = "unload"
    <3>1. shutdowns[turn.at] = 0
      <4>1. shutdowns[turn.at] # 1
        BY <1>1, <1>3, <1>4, <1>7, <2>1, <2>3
      <4>2. shutdowns[turn.at] \in Nat /\ shutdowns[turn.at] <= 1
        BY <1>1, <1>3, <2>1 DEF TypeOK
      <4> QED
        BY <4>1, <4>2
    <3>2. \A i \in Slots : shutdowns'[i] = IF i = turn.at THEN 1 ELSE shutdowns[i]
      BY <1>1, <1>3, <2>3, <3>1 DEF TypeOK
    <3> QED
      BY <1>7, <2>1, <2>3, <3>2 DEF EndingsOK
  <2> QED
    BY <1>2, <2>2, <2>3
<1>10. HoldersOK'
  BY <1>1, <1>7 DEF HoldersOK, Holds
<1> QED
  BY <1>7, <1>8, <1>9, <1>10 DEF LuaIInv

-----------------------------------------------------------------------------
(* The tick: the executor.                                                  *)

\* The operation goes on to another phase, the closure and the slot staying as they
\* are.
LEMMA PhaseStep ==
  ASSUME LuaIInv, op # None, op' \in Operations, op' # None,
         op'.phase \in {"releasing", "returned"},
         op'.phase = "releasing" => op'.action = "unload" /\ op.phase = "running"
                                    /\ op.interruption = "none" /\ ~halted,
         op'.action = op.action /\ op'.interruption = op.interruption,
         op'.reference = op.reference /\ op'.attempted = op.attempted /\ op'.released = op.released,
         op'.shutdown => op.shutdown \/ turn.ctx.owner \notin acquired'[turn.at],
         acquired' \in [Slots -> SUBSET Owners], \A i \in Slots : acquired'[i] \subseteq acquired[i],
         UNCHANGED <<hostVars, gateVars, update, turn, engineVars, shutdowns, broken>>
  PROVE  LuaIInv'
<1> USE DEF hostVars, gateVars, engineVars
<1>1. TypeOK /\ turn # None /\ turn.at \in Slots
  BY ContextTypes DEF LuaIInv
<1>2. TypeOK'
  BY <1>1 DEF TypeOK
<1>3. \A i \in Slots : Reference(i)' = Reference(i)
  BY DEF Reference
<1>4. SlotsOK' /\ HomesOK' /\ RevisionsOK'
  BY DEF LuaIInv, SlotsOK, HomesOK, RevisionsOK
<1>5. ContextsOK'
  BY DEF LuaIInv, ContextsOK, Current
<1>6. ClosuresOK' /\ EndingsOK'
  BY <1>3 DEF LuaIInv, ClosuresOK, EndingsOK
<1>7. HoldersOK'
  BY DEF LuaIInv, HoldersOK, Holds
<1>8. OperationOK'
  <2>1. Running(slots[turn.at], turn.ctx, acquired[turn.at])
    BY DEF LuaIInv, OperationOK
  <2>2. acquired'[turn.at] \subseteq acquired[turn.at]
    BY <1>1
  <2> QED
    BY <2>1, <2>2 DEF OperationOK, Running
<1> QED
  BY <1>2, <1>4, <1>5, <1>6, <1>7, <1>8 DEF LuaIInv

LEMMA ReturnStep ==
  ASSUME LuaIInv, Leave \/ Fails \/ Invoked \/ Aborts
  PROVE  LuaIInv'
<1>1. /\ op # None /\ op \in Operations /\ acquired' = acquired /\ TypeOK
      /\ UNCHANGED <<hostVars, gateVars, update, turn, engineVars, shutdowns, broken>>
  BY ContextTypes DEF LuaIInv, Leave, Fails, Invoked, Aborts, InPhase, history
<1>2. /\ op' \in Operations /\ op'.phase = "returned" /\ op'.action = op.action
      /\ op'.interruption = op.interruption /\ op'.reference = op.reference
      /\ op'.attempted = op.attempted /\ op'.released = op.released /\ op'.shutdown = op.shutdown
  <2> DEFINE o == [op EXCEPT !.failed = TRUE]
  <2>1. /\ o \in Operations /\ o.action = op.action
        /\ o.interruption = op.interruption /\ o.reference = op.reference
        /\ o.attempted = op.attempted /\ o.released = op.released /\ o.shutdown = op.shutdown
    BY <1>1 DEF Operations
  <2>2. op' = [op EXCEPT !.phase = "returned"] \/ op' = [o EXCEPT !.phase = "returned"]
    BY DEF Leave, Fails, Invoked, Aborts, Ending
  <2> HIDE DEF o
  <2>3. CASE op' = [op EXCEPT !.phase = "returned"]
    BY <1>1, <2>3 DEF Operations
  <2>4. CASE op' = [o EXCEPT !.phase = "returned"]
    <3>1. /\ op' \in Operations /\ op'.phase = "returned" /\ op'.action = o.action
          /\ op'.interruption = o.interruption /\ op'.reference = o.reference
          /\ op'.attempted = o.attempted /\ op'.released = o.released /\ op'.shutdown = o.shutdown
      BY <2>1, <2>4 DEF Operations
    <3> QED
      BY <2>1, <3>1
  <2> QED
    BY <2>2, <2>3, <2>4
<1>3. op' # None
  BY <1>2, NoOperation
<1> QED
  BY <1>1, <1>2, <1>3, PhaseStep DEF TypeOK

LEMMA ShutDownStep ==
  ASSUME LuaIInv, ShutDown
  PROVE  LuaIInv'
<1>1. /\ op # None /\ op \in Operations /\ TypeOK /\ op.phase = "running" /\ op.action = "unload"
      /\ op.interruption = "none" /\ ~halted /\ turn.at \in Slots
      /\ UNCHANGED <<hostVars, gateVars, update, turn, engineVars, shutdowns, broken>>
  BY ContextTypes DEF LuaIInv, ShutDown, InPhase, Live
<1>2. PICK ok \in BOOLEAN :
        /\ op' = [op EXCEPT !.phase = "releasing", !.shutdown = ok, !.failed = ~ok]
        /\ acquired' = IF ok THEN [acquired EXCEPT ![turn.at] = @ \ {turn.ctx.owner}] ELSE acquired
  BY DEF ShutDown
<1> DEFINE failed == ~ok
<1>3. failed \in BOOLEAN /\ op' = [op EXCEPT !.phase = "releasing", !.shutdown = ok, !.failed = failed]
  BY <1>2
<1> HIDE DEF failed
<1>4. /\ op' \in Operations /\ op'.phase = "releasing" /\ op'.action = op.action
      /\ op'.interruption = op.interruption /\ op'.reference = op.reference
      /\ op'.attempted = op.attempted /\ op'.released = op.released /\ op'.shutdown = ok
  BY <1>1, <1>3 DEF Operations
<1>5. op' # None
  BY <1>4, NoOperation
<1>6. /\ acquired' \in [Slots -> SUBSET Owners]
      /\ \A i \in Slots : acquired'[i] \subseteq acquired[i]
      /\ ok => turn.ctx.owner \notin acquired'[turn.at]
  BY <1>1, <1>2 DEF TypeOK
<1> QED
  BY <1>1, <1>4, <1>5, <1>6, PhaseStep

LEMMA ConstructedStep ==
  ASSUME LuaIInv, Constructed
  PROVE  LuaIInv'
<1> USE DEF hostVars, gateVars
<1> DEFINE c == turn.ctx.vm
<1>1. /\ op # None /\ op \in Operations /\ TypeOK /\ op.phase = "running"
      /\ op.action = "initialize" /\ op.interruption = "none" /\ ~halted /\ tearing = {}
      /\ turn # None /\ turn.at \in Slots /\ c \in Vms
      /\ shutdowns' = [shutdowns EXCEPT ![turn.at] = 0]
      /\ UNCHANGED <<hostVars, gateVars, update, turn, world, home, closes, acquired, broken>>
  BY ContextTypes DEF LuaIInv, Constructed, InPhase, Live
<1>2. PICK r \in References :
        /\ registry[c][r] = Free
        /\ registry' = [registry EXCEPT ![c][r] = turn.at]
        /\ op' = [[op EXCEPT !.reference = r] EXCEPT !.phase = "returned"]
  BY DEF Constructed, Ending
<1>3. Running(slots[turn.at], turn.ctx, acquired[turn.at])
  BY <1>1 DEF LuaIInv, OperationOK
<1>4. /\ op' \in Operations /\ op'.phase = "returned" /\ op'.action = "initialize"
      /\ op'.interruption = "none" /\ op'.reference = r
      /\ op'.attempted = op.attempted /\ op'.released = op.released
  <2> DEFINE o == [op EXCEPT !.reference = r]
  <2>1. /\ o \in Operations /\ o.action = op.action /\ o.interruption = op.interruption
        /\ o.reference = r /\ o.attempted = op.attempted /\ o.released = op.released
    BY <1>1 DEF Operations
  <2>2. op' = [o EXCEPT !.phase = "returned"]
    BY <1>2
  <2> HIDE DEF o
  <2>3. /\ op' \in Operations /\ op'.phase = "returned" /\ op'.action = o.action
        /\ op'.interruption = o.interruption /\ op'.reference = o.reference
        /\ op'.attempted = o.attempted /\ op'.released = o.released
    BY <2>1, <2>2 DEF Operations
  <2> QED
    BY <1>1, <2>1, <2>3
<1>5. op' # None
  BY <1>4, NoOperation
<1>6. TypeOK'
  <2>1. registry' \in [Vms -> [References -> Slots \union {Free, Game, Lost}]]
    BY <1>1, <1>2 DEF TypeOK
  <2>2. shutdowns' \in [Slots -> Nat]
    BY <1>1 DEF TypeOK
  <2> QED
    BY <1>1, <1>4, <2>1, <2>2 DEF TypeOK
<1>7. SlotsOK' /\ ContextsOK' /\ HomesOK' /\ HoldersOK'
  BY <1>1, <1>5 DEF LuaIInv, SlotsOK, ContextsOK, Current, HomesOK, HoldersOK, Holds
<1>8. OperationOK'
  BY <1>1, <1>3, <1>4 DEF OperationOK, Running
<1>9. \A i \in Slots \ {turn.at} : Reference(i)' = Reference(i)
  BY <1>1 DEF Reference
<1>10. \A i \in Slots : i = turn.at => Reference(i)' = r /\ Reference(i) = 0
  BY <1>1, <1>3, <1>4, <1>5 DEF Reference, Running
<1>11. EndingsOK'
  <2>1. \A i \in Slots : shutdowns'[i] = IF i = turn.at THEN 0 ELSE shutdowns[i]
    BY <1>1 DEF TypeOK
  <2> QED
    BY <1>1, <1>9, <2>1 DEF LuaIInv, EndingsOK
<1>12. RevisionsOK'
  BY <1>1, <1>4 DEF LuaIInv, RevisionsOK
<1>13. ClosuresOK'
  <2>1. SUFFICES ASSUME NEW i \in Slots, NEW g \in Vms, NEW q \in References
                 PROVE  registry'[g][q] = i <=> slots[i].vm = g /\ Reference(i)' = q
    BY <1>1 DEF ClosuresOK
  <2>2. registry[g][q] = i <=> slots[i].vm = g /\ Reference(i) = q
    BY <1>1 DEF LuaIInv, ClosuresOK
  <2>3. registry[c][r] # i /\ q # 0
    BY <1>2, ReferenceTypes, LuaAssumption, LuaBounds DEF Slots
  <2>4. registry[c][r] = i <=> slots[i].vm = c /\ Reference(i) = r
    BY <1>1 DEF LuaIInv, ClosuresOK
  <2>5. registry'[g][q] = IF g = c /\ q = r THEN turn.at ELSE registry[g][q]
    BY <1>1, <1>2 DEF TypeOK
  <2>6. CASE i = turn.at
    <3>1. slots[i].vm = c
      BY <1>1, <1>3, <2>6 DEF Running
    <3> QED
      BY <1>10, <2>2, <2>3, <2>5, <2>6, <3>1
  <2>7. CASE i # turn.at
    BY <1>9, <2>2, <2>3, <2>4, <2>5, <2>7
  <2> QED
    BY <2>6, <2>7
<1> QED
  BY <1>6, <1>7, <1>8, <1>11, <1>12, <1>13 DEF LuaIInv

LEMMA ReleaseRefStep ==
  ASSUME LuaIInv, ReleaseRef
  PROVE  LuaIInv'
<1> USE DEF hostVars, gateVars, history
<1> DEFINE c == turn.ctx.vm
           r == slots[turn.at].reference
<1>1. /\ op # None /\ op \in Operations /\ TypeOK /\ op.phase = "releasing"
      /\ op.action \in {"unload", "release"} /\ tearing = {}
      /\ turn # None /\ turn.at \in Slots /\ c \in Vms /\ slots[turn.at] \in Slot
      /\ UNCHANGED <<hostVars, gateVars, update, turn, world, home, closes, history>>
  BY ContextTypes DEF LuaIInv, ReleaseRef, InPhase
<1>2. PICK ok \in BOOLEAN, effect \in BOOLEAN :
        /\ op' = [[op EXCEPT !.attempted = TRUE, !.released = ok, !.failed = @ \/ ~ok]
                    EXCEPT !.phase = "returned"]
        /\ registry' = [registry EXCEPT ![c][r] = IF effect THEN Free ELSE Lost]
  BY DEF ReleaseRef, Ending
<1>3. Running(slots[turn.at], turn.ctx, acquired[turn.at])
  BY <1>1 DEF LuaIInv, OperationOK
<1>4. /\ op' \in Operations /\ op'.phase = "returned" /\ op'.action = op.action
      /\ op'.interruption = op.interruption /\ op'.reference = op.reference
      /\ op'.attempted /\ op'.shutdown = op.shutdown
  <2> DEFINE failed == op.failed \/ ~ok
             o == [op EXCEPT !.attempted = TRUE, !.released = ok, !.failed = failed]
  <2>1. failed \in BOOLEAN /\ op' = [o EXCEPT !.phase = "returned"]
    BY <1>1, <1>2 DEF Operations
  <2> HIDE DEF failed
  <2>2. /\ o \in Operations /\ o.action = op.action /\ o.interruption = op.interruption
        /\ o.reference = op.reference /\ o.attempted /\ o.shutdown = op.shutdown
    BY <1>1, <2>1 DEF Operations
  <2> HIDE DEF o
  <2>3. /\ op' \in Operations /\ op'.phase = "returned" /\ op'.action = o.action
        /\ op'.interruption = o.interruption /\ op'.reference = o.reference
        /\ op'.attempted = o.attempted /\ op'.shutdown = o.shutdown
    BY <2>1, <2>2 DEF Operations
  <2> QED
    BY <2>2, <2>3
<1>5. op' # None
  BY <1>4, NoOperation
<1>6. ~halted /\ op.interruption = "none" /\ ~op.attempted /\ slots[turn.at].vm = c
      /\ r \in References
  <2>1. r # 0
    BY <1>1, <1>3 DEF Running
  <2>2. r \in References \union {0}
    BY <1>1 DEF Slot
  <2> QED
    BY <1>1, <1>3, <2>1, <2>2 DEF Running
<1>7. TypeOK'
  <2>1. registry' \in [Vms -> [References -> Slots \union {Free, Game, Lost}]]
    BY <1>1, <1>2 DEF TypeOK
  <2> QED
    BY <1>1, <1>4, <2>1 DEF TypeOK
<1>8. SlotsOK' /\ ContextsOK' /\ HomesOK' /\ HoldersOK'
  BY <1>1, <1>5 DEF LuaIInv, SlotsOK, ContextsOK, Current, HomesOK, HoldersOK, Holds
<1>9. OperationOK'
  BY <1>1, <1>3, <1>4 DEF OperationOK, Running
<1>10. /\ \A i \in Slots \ {turn.at} : Reference(i)' = Reference(i)
       /\ \A i \in Slots : i = turn.at => Reference(i)' = 0 /\ Reference(i) = r
  <2>1. \A i \in Slots \ {turn.at} : Reference(i)' = Reference(i)
    BY <1>1 DEF Reference
  <2>2. \A i \in Slots : i = turn.at => Reference(i)' = 0 /\ Reference(i) = r
    BY <1>1, <1>4, <1>5, <1>6 DEF Reference
  <2> QED
    BY <2>1, <2>2
<1>11. EndingsOK'
  BY <1>1, <1>10 DEF LuaIInv, EndingsOK
<1>12. RevisionsOK'
  BY <1>1, <1>4 DEF LuaIInv, RevisionsOK
<1>13. ClosuresOK'
  <2>1. SUFFICES ASSUME NEW i \in Slots, NEW g \in Vms, NEW q \in References
                 PROVE  registry'[g][q] = i <=> slots[i].vm = g /\ Reference(i)' = q
    BY <1>1 DEF ClosuresOK
  <2>2. registry[g][q] = i <=> slots[i].vm = g /\ Reference(i) = q
    BY <1>1, <1>6 DEF LuaIInv, ClosuresOK
  <2>3. q # 0 /\ Free # i /\ Lost # i
    BY ReferenceTypes, LuaAssumption, LuaBounds DEF Slots
  <2>4. registry[c][r] = i <=> slots[i].vm = c /\ Reference(i) = r
    BY <1>1, <1>6 DEF LuaIInv, ClosuresOK
  <2>5. registry[c][r] = turn.at
    BY <1>1, <1>6, <1>10 DEF LuaIInv, ClosuresOK
  <2>6. IF g = c /\ q = r THEN registry'[g][q] \in {Free, Lost}
        ELSE registry'[g][q] = registry[g][q]
    BY <1>1, <1>2, <1>6 DEF TypeOK
  <2>7. CASE i = turn.at
    BY <1>6, <1>10, <2>2, <2>3, <2>6, <2>7
  <2>8. CASE i # turn.at
    <3>1. Reference(i)' = Reference(i)
      BY <1>10, <2>8
    <3> QED
      BY <2>2, <2>3, <2>4, <2>5, <2>6, <2>8, <3>1
  <2> QED
    BY <2>7, <2>8
<1> QED
  BY <1>7, <1>8, <1>9, <1>11, <1>12, <1>13 DEF LuaIInv

LEMMA ThrowStep ==
  ASSUME LuaIInv, Throw
  PROVE  LuaIInv'
<1> USE DEF hostVars, engineVars, history
<1>1. /\ TypeOK /\ tearing = {} /\ halted' = TRUE /\ revision' \in {revision, revision + 1}
      /\ op' = None /\ turn' = None
      /\ UNCHANGED <<hostVars, tearing, update, engineVars, history>>
  BY DEF LuaIInv, Throw
<1>2. revision \in Nat /\ revision' \in Nat /\ revision <= revision'
      /\ (revision' # revision => revision < revision')
  BY <1>1 DEF TypeOK
<1>3. TypeOK'
  BY <1>1, <1>2 DEF TypeOK
<1>4. ContextsOK'
  <2>1. update # None => Current(update) /\ update.revision \in Nat
    BY <1>1, ContextTypes DEF LuaIInv, ContextsOK, Contexts
  <2> QED
    BY <1>1, <1>2, <2>1 DEF ContextsOK, Current
<1>5. SlotsOK' /\ HomesOK' /\ HoldersOK' /\ RevisionsOK'
  BY <1>1 DEF LuaIInv, SlotsOK, HomesOK, HoldersOK, Holds, RevisionsOK
<1>6. OperationOK' /\ ClosuresOK' /\ EndingsOK'
  BY <1>1 DEF OperationOK, ClosuresOK, LuaIInv, EndingsOK
<1> QED
  BY <1>3, <1>4, <1>5, <1>6 DEF LuaIInv

\* The slot of a finished operation, unless native state is in doubt.
LEMMA FinishedSlot ==
  ASSUME LuaIInv, op # None, tearing = {}, op.phase = "returned",
         NEW restored \in BOOLEAN, NEW z, z = Result(slots[turn.at], restored)
  PROVE  LET s == slots[turn.at]
         IN  /\ z \in Slot /\ SlotOK(z) /\ z.desired = s.desired /\ z.vm = s.vm
             /\ z.active \in {s.active, 0} /\ z.failed \in {s.failed, s.active}
             /\ z.failed # s.failed => s.active # 0
             /\ z.engineRetired = s.engineRetired
             /\ ~halted => z.reference = Reference(turn.at)
             /\ op.action = "unload" /\ op.interruption = "none" /\ ~Unsafe(restored) =>
                  z.reference = 0
             /\ \A o \in acquired[turn.at] : home[o] \in Vms /\ Holds(s, o) /\ Holds(z, o)
<1> DEFINE s == slots[turn.at]
           ctx == turn.ctx
<1>1. TypeOK /\ op \in Operations /\ turn.at \in Slots /\ s \in Slot /\ SlotOK(s) /\ ctx.vm \in Vms
  BY ContextTypes DEF LuaIInv, SlotsOK
<1>2. Running(s, ctx, acquired[turn.at])
  BY DEF LuaIInv, OperationOK
<1>3. /\ op.interruption \in {"none", "owner", "closed", "unknown"}
      /\ op.action \in {"initialize", "invoke", "unload", "release"}
      /\ op.attempted \in BOOLEAN /\ op.released \in BOOLEAN /\ op.shutdown \in BOOLEAN
  BY <1>1 DEF Operations
<1>4. /\ z \in Slot
      /\ z.id = s.id /\ z.desired = s.desired /\ z.vm = s.vm /\ z.world = s.world
      /\ z.owner = s.owner /\ z.engineRetired = s.engineRetired
      /\ z.active \in {s.active, 0} /\ z.failed \in {s.failed, s.active}
      /\ op.interruption \in {"closed", "unknown"} => z = s
      /\ op.interruption \in {"none", "owner"} /\ op.action = "initialize" =>
           /\ z.reference = op.reference /\ z.blocked = s.blocked
           /\ op.interruption = "owner" /\ z.reference # 0 => z.retired
           /\ z.active = s.active
      /\ op.interruption \in {"none", "owner"}
           /\ (op.action = "invoke" \/ (op.action # "initialize" /\ Unreleased)) =>
           /\ z.reference = s.reference /\ z.blocked = s.blocked
           /\ s.retired => z.retired
           /\ z.active = s.active
      /\ op.interruption \in {"none", "owner"}
           /\ op.action \in {"unload", "release"} /\ ~Unreleased =>
           /\ z.reference = 0
           /\ IF Failed(restored) THEN z.blocked = ~s.engineRetired ELSE z.blocked = s.blocked
  BY <1>1, ResultFields
<1>5. Unreleased <=> op.action \in {"unload", "release"} /\ ~op.attempted
  BY <1>2, <1>3 DEF Unreleased, Running
<1>6. SlotOK(z)
  <2>1. CASE op.interruption \in {"closed", "unknown"}
    BY <1>1, <1>4, <2>1
  <2>2. CASE op.interruption \in {"none", "owner"} /\ op.action = "initialize"
    BY <1>1, <1>2, <1>4, <2>2, Registers DEF SlotOK, Running
  <2>3. CASE op.interruption \in {"none", "owner"}
             /\ (op.action = "invoke" \/ (op.action # "initialize" /\ Unreleased))
    BY <1>1, <1>4, <2>3 DEF SlotOK
  <2>4. CASE op.interruption \in {"none", "owner"} /\ op.action \in {"unload", "release"} /\ ~Unreleased
    BY <1>1, <1>4, <2>4 DEF SlotOK
  <2> QED
    BY <1>3, <2>1, <2>2, <2>3, <2>4
<1>7. z.failed # s.failed => s.active # 0
  BY <1>1, <1>2, <1>3, <1>4 DEF SlotOK, Running
<1>8. ~halted => z.reference = Reference(turn.at)
  <2>1. CASE op.interruption \in {"closed", "unknown"}
    BY <1>1, <1>2, <1>4, <2>1 DEF Reference, SlotOK, Running
  <2>2. CASE op.interruption \in {"none", "owner"} /\ op.action = "initialize"
    BY <1>4, <2>2 DEF Reference
  <2>3. CASE op.interruption \in {"none", "owner"}
             /\ (op.action = "invoke" \/ (op.action # "initialize" /\ Unreleased))
    BY <1>2, <1>4, <1>5, <2>3 DEF Reference, Running
  <2>4. CASE op.interruption \in {"none", "owner"} /\ op.action \in {"unload", "release"} /\ ~Unreleased
    BY <1>4, <1>5, <2>4 DEF Reference
  <2> QED
    BY <1>3, <2>1, <2>2, <2>3, <2>4
<1>9. op.action = "unload" /\ op.interruption = "none" /\ ~Unsafe(restored) => z.reference = 0
  BY <1>4 DEF Unsafe
<1>10. ASSUME NEW o \in acquired[turn.at]
       PROVE  home[o] \in Vms /\ Holds(s, o) /\ Holds(z, o)
  <2>1. home[o] \in Vms /\ Holds(s, o)
    BY <1>1 DEF LuaIInv, HoldersOK
  <2>2. z.reference # 0 \/ z.blocked
    <3>1. CASE op.interruption \in {"closed", "unknown"}
      BY <1>4, <2>1, <3>1 DEF Holds
    <3>2. CASE op.interruption \in {"none", "owner"} /\ op.action = "initialize"
      BY <1>2, <3>2 DEF Running
    <3>3. CASE op.interruption \in {"none", "owner"}
               /\ (op.action = "invoke" \/ (op.action # "initialize" /\ Unreleased))
      BY <1>4, <2>1, <3>3 DEF Holds
    <3>4. CASE op.interruption \in {"none", "owner"} /\ op.action \in {"unload", "release"}
               /\ ~Unreleased
      <4>1. Failed(restored)
        BY <1>2, <1>3, <2>1, <3>4 DEF Failed, Running, Holds
      <4> QED
        BY <1>4, <2>1, <3>4, <4>1 DEF Holds
    <3> QED
      BY <1>3, <3>1, <3>2, <3>3, <3>4
  <2> QED
    BY <1>4, <2>1, <2>2 DEF Holds
<1> QED
  BY <1>4, <1>6, <1>7, <1>8, <1>9, <1>10

LEMMA FinishStep ==
  ASSUME LuaIInv, NEW restored \in BOOLEAN, Finish(restored)
  PROVE  LuaIInv'
<1> USE DEF engineVars
<1> DEFINE s == slots[turn.at]
           z == Result(s, restored)
<1>1. /\ TypeOK /\ op # None /\ op.phase = "returned" /\ tearing = {}
      /\ turn # None /\ turn.at \in Slots /\ s \in Slot
  BY ContextTypes DEF LuaIInv, Finish
<1>2. /\ slots' = [slots EXCEPT ![turn.at] = z]
      /\ broken' = IF slots'[turn.at].failed # s.failed THEN broken \union {s.active} ELSE broken
      /\ halted' = (halted \/ Unsafe(restored))
      /\ revision' = IF halted' /\ ~halted THEN revision + 1 ELSE revision
      /\ op' = None /\ turn' = Onward
      /\ UNCHANGED <<serial, tearing, update, engineVars, shutdowns, acquired>>
  BY DEF Finish
<1>3. /\ z \in Slot /\ SlotOK(z) /\ z.desired = s.desired /\ z.vm = s.vm
      /\ z.active \in {s.active, 0} /\ z.failed \in {s.failed, s.active}
      /\ z.failed # s.failed => s.active # 0
      /\ z.engineRetired = s.engineRetired
      /\ ~halted => z.reference = Reference(turn.at)
      /\ op.action = "unload" /\ op.interruption = "none" /\ ~Unsafe(restored) => z.reference = 0
      /\ \A o \in acquired[turn.at] : home[o] \in Vms /\ Holds(s, o) /\ Holds(z, o)
  BY <1>1, FinishedSlot
<1> HIDE DEF z
<1>4. /\ slots' \in [Slots -> Slot] /\ slots'[turn.at] = z
      /\ \A i \in Slots \ {turn.at} : slots'[i] = slots[i]
  BY <1>1, <1>2, <1>3 DEF TypeOK
<1>5. turn' # None => /\ turn' \in [ctx : Contexts, at : Slots] /\ turn'.ctx = turn.ctx
                      /\ ~halted' /\ revision' = turn.ctx.revision
  BY <1>1, <1>2, OnwardFields
<1>6. /\ revision \in Nat /\ revision' \in Nat /\ revision <= revision'
      /\ revision' # revision => revision < revision' /\ halted'
  BY <1>1, <1>2 DEF TypeOK
<1>7. TypeOK'
  <2>1. halted' \in BOOLEAN
    BY <1>2
  <2> QED
    BY <1>1, <1>2, <1>4, <1>5, <1>6, <2>1 DEF TypeOK
<1>8. SlotsOK'
  BY <1>3, <1>4 DEF LuaIInv, SlotsOK
<1>9. ContextsOK'
  <2>1. /\ update # None => Current(update) /\ update.revision \in Nat
        /\ Current(turn.ctx) /\ turn.ctx.revision \in Nat
    BY <1>1, ContextTypes DEF LuaIInv, ContextsOK, Contexts
  <2>2. ASSUME NEW ctx, Current(ctx), ctx.revision \in Nat
        PROVE  Current(ctx)'
    BY <1>2, <1>6, <2>2 DEF Current
  <2> QED
    BY <1>1, <1>2, <1>5, <2>1, <2>2 DEF ContextsOK
<1>10. HomesOK' /\ OperationOK'
  BY <1>2 DEF LuaIInv, HomesOK, OperationOK
<1>11. /\ \A i \in Slots : Reference(i)' = slots'[i].reference
       /\ \A i \in Slots \ {turn.at} : Reference(i) = slots[i].reference
  BY <1>2 DEF Reference
<1>12. ASSUME ~halted'
       PROVE  /\ ~halted /\ ~Unsafe(restored)
              /\ \A i \in Slots : slots'[i].vm = slots[i].vm /\ slots'[i].reference = Reference(i)
                                  /\ slots'[i].engineRetired = slots[i].engineRetired
  <2>1. ~halted /\ ~Unsafe(restored)
    BY <1>2, <1>12
  <2> QED
    BY <1>3, <1>4, <1>11, <2>1
<1>13. ClosuresOK'
  BY <1>2, <1>11, <1>12 DEF LuaIInv, ClosuresOK
<1>14. EndingsOK'
  <2>1. SUFFICES ASSUME ~halted', NEW i \in Slots
                 PROVE  shutdowns[i] = 1 /\ slots'[i].reference # 0 => slots'[i].engineRetired
    BY <1>2, <1>11 DEF LuaIInv, EndingsOK
  <2>2. shutdowns[i] = 1 /\ Reference(i) # 0 =>
          \/ slots[i].engineRetired
          \/ op # None /\ turn.at = i /\ op.action = "unload" /\ op.interruption = "none"
    BY <1>12, <2>1 DEF LuaIInv, EndingsOK
  <2>3. ASSUME turn.at = i, op.action = "unload", op.interruption = "none"
        PROVE  slots'[i].reference = 0
    BY <1>3, <1>4, <1>12, <2>1, <2>3
  <2> QED
    BY <1>12, <2>1, <2>2, <2>3
<1>15. RevisionsOK'
  <2>1. RevisionsOK /\ serial \in Nat
    BY <1>1, LuaBounds DEF LuaIInv, TypeOK
  <2>2. \A i \in Slots : slots[i].desired \in Nat /\ slots[i].active \in Nat
    BY <1>1, LuaBounds DEF TypeOK, Slot
  <2>3. broken' \subseteq 0..serial'
    <3>1. s.active \in 0..serial /\ broken \subseteq 0..serial
      BY <1>1, <2>1, <2>2 DEF RevisionsOK
    <3> QED
      BY <1>2, <3>1
  <2>4. \A i \in Slots : slots'[i].desired <= serial' /\ slots'[i].active <= serial'
    BY <1>2, <1>3, <1>4, <2>1, <2>2 DEF RevisionsOK
  <2>5. ASSUME NEW i \in Slots, slots'[i].desired \in broken' \ {0}
        PROVE  slots'[i].desired = slots'[i].failed /\ slots'[i].active \in {slots'[i].desired, 0}
    <3>1. slots'[i].desired = slots[i].desired
      BY <1>3, <1>4
    <3>2. CASE i # turn.at
      BY <1>1, <1>2, <1>4, <2>1, <2>5, <3>1, <3>2 DEF RevisionsOK
    <3>3. CASE i = turn.at
      BY <1>1, <1>2, <1>3, <1>4, <2>1, <2>5, <3>1, <3>3 DEF RevisionsOK
    <3> QED
      BY <3>2, <3>3
  <2>6. ASSUME NEW j \in Slots, NEW k \in Slots \ {j}, slots'[j].desired # 0
        PROVE  slots'[j].desired # slots'[k].desired /\ slots'[j].desired # slots'[k].active
    <3>1. /\ slots'[j].desired = slots[j].desired /\ slots'[k].desired = slots[k].desired
          /\ slots'[k].active \in {slots[k].active, 0}
      BY <1>3, <1>4
    <3> QED
      BY <2>1, <2>6, <3>1 DEF RevisionsOK
  <2> QED
    BY <1>2, <2>3, <2>4, <2>5, <2>6 DEF RevisionsOK
<1>16. HoldersOK'
  <2>1. \A i \in Slots : \A o \in acquired[i] : home[o] \in Vms /\ Holds(slots[i], o)
    BY <1>1 DEF LuaIInv, HoldersOK
  <2>2. \A i \in Slots : \A o \in acquired[i] : home[o] \in Vms /\ Holds(slots'[i], o)
    BY <1>3, <1>4, <2>1
  <2> QED
    BY <1>2, <2>2 DEF HoldersOK, Holds
<1> QED
  BY <1>7, <1>8, <1>9, <1>10, <1>13, <1>14, <1>15, <1>16 DEF LuaIInv

LEMMA TickStep ==
  ASSUME LuaIInv, Tick
  PROVE  LuaIInv'
BY StartTickStep, PassStep, StartInitializeStep, StartInvokeStep, StartEndStep, ReturnStep,
   ConstructedStep, ShutDownStep, ReleaseRefStep, ThrowStep, FinishStep DEF Tick

-----------------------------------------------------------------------------
(* The results.                                                             *)

LEMMA InvariantInitially ==
  ASSUME Init
  PROVE  LuaIInv
<1> USE DEF Init
<1>1. EmptySlot \in Slot
  BY LuaBounds DEF EmptySlot, Slot
<1>2. SlotOK(EmptySlot)
  BY DEF EmptySlot, SlotOK
<1>3. TypeOK
  <2>1. slots \in [Slots -> Slot] /\ serial \in 0..MaxSerial
    BY <1>1, LuaBounds
  <2>2. registry \in [Vms -> [References -> Slots \union {Free, Game, Lost}]]
    OBVIOUS
  <2>3. home \in [Owners -> Vms \union {None, Cleaned, Lost}] /\ world \in [Vms -> Worlds \union {None}]
    OBVIOUS
  <2>4. closes \in [Vms -> Nat] /\ shutdowns \in [Slots -> Nat] /\ acquired \in [Slots -> SUBSET Owners]
    OBVIOUS
  <2>5. halted \in BOOLEAN /\ revision \in Nat /\ tearing \subseteq Teardowns
    OBVIOUS
  <2> QED
    BY <2>1, <2>2, <2>3, <2>4, <2>5 DEF TypeOK
<1>4. SlotsOK
  BY <1>2 DEF SlotsOK
<1>5. ContextsOK /\ OperationOK
  BY DEF ContextsOK, OperationOK
<1>6. HomesOK
  BY Registers DEF HomesOK
<1>7. \A i \in Slots : slots[i].vm = None /\ slots[i].desired = 0 /\ slots[i].active = 0
  BY DEF EmptySlot
<1>8. ClosuresOK
  <2>1. Free \notin Slots
    <3>1. Slots \subseteq Nat
      BY LuaBounds DEF Slots
    <3> QED
      BY <3>1, LuaAssumption
  <2> QED
    BY <1>7, <2>1, Registers DEF ClosuresOK
<1>9. EndingsOK
  BY DEF EndingsOK
<1>10. RevisionsOK
  BY <1>7 DEF RevisionsOK
<1>11. HoldersOK
  BY DEF HoldersOK
<1> QED
  BY <1>3, <1>4, <1>5, <1>6, <1>8, <1>9, <1>10, <1>11 DEF LuaIInv

LEMMA InvariantKept ==
  ASSUME LuaIInv, [Next]_vars
  PROVE  LuaIInv'
<1>1. CASE UNCHANGED vars
  <2> USE <1>1 DEF vars, hostVars, gateVars, engineVars, history
  <2>1. \A i \in Slots : Reference(i)' = Reference(i)
    BY DEF Reference
  <2>2. TypeOK' /\ SlotsOK' /\ ContextsOK' /\ HomesOK'
    BY DEF LuaIInv, TypeOK, SlotsOK, ContextsOK, Current, HomesOK
  <2>3. OperationOK' /\ RevisionsOK' /\ HoldersOK'
    BY DEF LuaIInv, OperationOK, Running, RevisionsOK, HoldersOK, Holds
  <2>4. ClosuresOK' /\ EndingsOK'
    BY <2>1 DEF LuaIInv, ClosuresOK, EndingsOK
  <2> QED
    BY <2>2, <2>3, <2>4 DEF LuaIInv
<1>2. CASE Next
  BY <1>2, HostStep, TickStep, EngineStep DEF Next
<1> QED
  BY <1>1, <1>2

LEMMA Invariant == Spec => []LuaIInv
<1>1. Init => LuaIInv
  BY InvariantInitially
<1>2. LuaIInv /\ [Next]_vars => LuaIInv'
  BY InvariantKept
<1> QED
  BY <1>1, <1>2, PTL DEF Spec

\* The host, the operation it runs and what it knows of the engine keep their types.
THEOREM TypeCorrect == Spec => []TypeOK
<1>1. LuaIInv => TypeOK
  BY DEF LuaIInv
<1> QED
  BY <1>1, Invariant, PTL

\* The slots and the registries keep agreeing about every closure, whatever is torn
\* down while one is made, called or released (lua_controller.cpp:79-113).
THEOREM RegistryMatches == Spec => []RegistryMatchesSlots
<1>1. LuaIInv => RegistryMatchesSlots
  <2>1. ASSUME LuaIInv, ~halted, NEW i \in Slots, op # None => turn.at # i,
               NEW g \in Vms, NEW r \in References
        PROVE  registry[g][r] = i <=> slots[i].vm = g /\ slots[i].reference = r
    <3>1. Reference(i) = slots[i].reference
      BY <2>1 DEF Reference
    <3> QED
      BY <2>1, <3>1 DEF LuaIInv, ClosuresOK
  <2> QED
    BY <2>1 DEF RegistryMatchesSlots
<1> QED
  BY <1>1, Invariant, PTL

\* No controller is told to shut down twice, no failed code is constructed again, and
\* none is constructed in what an earlier one may still hold (lua_controller.cpp:86-110).
THEOREM LivesFollow == Spec => []LivesInTurn
<1>1. LuaIInv => FailedNotRetried
  BY DEF LuaIInv, RevisionsOK, FailedNotRetried
<1>2. LuaIInv => NoOverlap
  BY DEF LuaIInv, OperationOK, Running, NoOverlap
<1>3. LuaIInv => ShutdownAtMostOnce
  BY DEF LuaIInv, EndingsOK, ShutdownAtMostOnce
<1> QED
  BY <1>1, <1>2, <1>3, Invariant, PTL DEF LivesInTurn, EachEndOnce

\* Neither an operation nor the pass over the packages leaves the VM that it began in
\* (lua_controller.cpp:138, lua_executor.cpp's call_owner_live).
THEOREM VmKept == Spec => []StaysInItsVm
<1>1. LuaIInv => ContextIsCurrent
  BY DEF LuaIInv, ContextsOK, Current, ContextIsCurrent
<1>2. LuaIInv => UsesItsOwnReference
  <2>1. ASSUME LuaIInv, op # None, op.phase # "returned", op.action # "initialize",
               op.interruption = "none", ~halted
        PROVE  registry[turn.ctx.vm][slots[turn.at].reference] = turn.at
    <3>1. TypeOK /\ op \in Operations /\ turn.at \in Slots /\ slots[turn.at] \in Slot
          /\ turn.ctx.vm \in Vms
      BY <2>1, ContextTypes DEF LuaIInv
    <3>2. Running(slots[turn.at], turn.ctx, acquired[turn.at])
      BY <2>1 DEF LuaIInv, OperationOK
    <3>3. op.phase \in {"running", "releasing"} /\ op.attempted \in BOOLEAN
      BY <2>1, <3>1 DEF Operations
    <3>4. /\ ~op.attempted /\ slots[turn.at].vm = turn.ctx.vm
          /\ slots[turn.at].reference \in References
      BY <2>1, <3>1, <3>2, <3>3 DEF Running, Slot
    <3>5. Reference(turn.at) = slots[turn.at].reference
      BY <2>1, <3>4 DEF Reference
    <3> QED
      BY <2>1, <3>1, <3>4, <3>5 DEF LuaIInv, ClosuresOK
  <2> QED
    BY <2>1 DEF UsesItsOwnReference
<1> QED
  BY <1>1, <1>2, Invariant, PTL DEF StaysInItsVm
=====
