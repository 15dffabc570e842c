--------------------------- MODULE VisibilityLease ---------------------------
(***************************************************************************)
(* runtime/visibility.{h,cpp}: a guest keeps the player's mesh hidden by   *)
(* renewing a lease, and reads back what the render hook has done for it.  *)
(*                                                                         *)
(* No lock is shared.  The runtime worker owns owner and the deadline and  *)
(* announces each new lease by the next epoch; callbacks of the render     *)
(* hook, which may overlap, take the epoch as a token, hide the mesh, and  *)
(* publish the token in one compare-and-swap per counter.  So every access *)
(* to an atomic is a step of its own.                                      *)
(*                                                                         *)
(* Looking up the player and its mesh, and the renderer command, come to   *)
(* one of "failed", "seen" (the game hides it already) and "submitted".    *)
(* A request refused because another guest holds a live lease changes      *)
(* nothing and is not a step.                                              *)
(*                                                                         *)
(* An operator named Slip... is a plausible mistake in the definition that *)
(* follows it and is used nowhere; it shows that a property can fail.      *)
(***************************************************************************)
EXTENDS Naturals

CONSTANTS
  Owners,     \* guests
  NoOwner,    \* owner 0
  Renderers,  \* threads that may be inside the render hook
  Lifetime,   \* 500 ms
  MaxTime,    \* UINT64_MAX of the clock
  MaxEpoch    \* UINT64_MAX of the epoch

ASSUME VisibilityAssumption ==
  /\ NoOwner \notin Owners
  /\ Lifetime \in Nat \ {0} /\ MaxTime \in Nat \ {0} /\ MaxEpoch \in Nat

VARIABLES
  owner, deadline, epoch, hiddenEpoch, submittedEpoch,  \* Lease
  announcing,  \* renew has stored the deadline of a new lease, not yet its epoch
  ready,       \* the hook is in use
  callback,    \* what each render callback has read, and where it is
  now,         \* GetTickCount64
  shown,       \* history: the mesh was seen or made hidden since the last new lease
  submitted,   \* history: and a command was submitted
  live         \* history: a lease was live at some time since the callback began

lease == <<owner, deadline, epoch, hiddenEpoch, submittedEpoch>>
vars  == <<lease, announcing, ready, callback, now, shown, submitted, live>>

Idle == [at |-> "idle", clock |-> 0, token |-> 0, submits |-> FALSE, old |-> 0]

\* Lease::active, on a clock that was read before.
Active(clock) == deadline # 0 /\ clock < deadline

Init ==
  /\ owner = NoOwner /\ deadline = 0 /\ epoch = 0
  /\ hiddenEpoch = 0 /\ submittedEpoch = 0
  /\ announcing = FALSE /\ ready = TRUE
  /\ callback = [r \in Renderers |-> Idle]
  /\ now = 1
  /\ shown = FALSE /\ submitted = FALSE
  /\ live = [r \in Renderers |-> FALSE]
-----------------------------------------------------------------------------
\* The worker.  Slip: an expired lease renewed by its owner is the same lease.
SlipSameOwnerSameLease(o, held) == held /\ owner # o
NewLease(o, held) == held /\ (owner # o \/ ~Active(now))

\* Neither the clock nor the epoch may wrap.
WithinBounds(o, held) ==
  /\ held => now + Lifetime <= MaxTime
  /\ NewLease(o, held) => epoch < MaxEpoch

\* Lease::renew, up to the deadline.
Renew(o, held) ==
  /\ ready /\ ~announcing
  /\ owner \in {NoOwner, o} \/ deadline <= now
  /\ WithinBounds(o, held)
  /\ owner' = o
  /\ deadline' = IF held THEN now + Lifetime ELSE 0
  /\ announcing' = NewLease(o, held)
  /\ LET continues == owner = o /\ now < deadline IN   \* history: the lease goes on
     /\ shown' = (shown /\ continues)
     /\ submitted' = (submitted /\ continues)
  /\ live' = [r \in Renderers |-> live[r] \/ held]
  /\ UNCHANGED <<epoch, hiddenEpoch, submittedEpoch, ready, callback, now>>

\* Lease::renew, the new epoch.
Announce ==
  /\ announcing
  /\ epoch' = epoch + 1
  /\ announcing' = FALSE
  /\ UNCHANGED <<owner, deadline, hiddenEpoch, submittedEpoch, ready, callback, now, shown, submitted, live>>

Release(o) ==
  /\ ~announcing /\ owner = o
  /\ deadline' = 0 /\ owner' = NoOwner
  /\ UNCHANGED <<epoch, hiddenEpoch, submittedEpoch, announcing, ready, callback, now, shown, submitted, live>>

Stop ==
  /\ ready /\ ~announcing
  /\ deadline' = 0 /\ ready' = FALSE
  /\ UNCHANGED <<owner, epoch, hiddenEpoch, submittedEpoch, announcing, callback, now, shown, submitted, live>>

\* Lease::read_state.
ReadState(o) ==
  LET mine == owner = o /\ deadline # 0 IN
  [state    |-> IF ~mine THEN "idle" ELSE IF now < deadline THEN "active" ELSE "expired",
   observed |-> mine /\ epoch # 0 /\ epoch \in {hiddenEpoch, submittedEpoch},
   sent     |-> mine /\ epoch # 0 /\ epoch = submittedEpoch]
-----------------------------------------------------------------------------
\* The render hook, after the original has run.
Goes(r, where) == callback' = [callback EXCEPT ![r].at = where]
Returns(r)     == callback' = [callback EXCEPT ![r] = Idle]
HookOnly       == UNCHANGED <<owner, deadline, epoch, announcing, ready, now>>
NoEvidence     == UNCHANGED <<hiddenEpoch, submittedEpoch, shown, submitted, live>>

\* apply: the clock; then observation_token: the epoch,
TakeToken(r) ==
  /\ ready /\ callback[r] = Idle /\ epoch # 0
  /\ callback' = [callback EXCEPT ![r] =
       [at |-> "deadline", clock |-> now, token |-> epoch, submits |-> FALSE, old |-> 0]]
  /\ live' = [live EXCEPT ![r] = Active(now)]
  /\ HookOnly
  /\ UNCHANGED <<hiddenEpoch, submittedEpoch, shown, submitted>>

\* the deadline (Slip: not looked at),
SlipDeadlineUnchecked(r) ==
  /\ callback[r].at = "deadline"
  /\ Goes(r, "epoch")
  /\ HookOnly /\ NoEvidence
CheckDeadline(r) ==
  /\ callback[r].at = "deadline"
  /\ IF Active(callback[r].clock) THEN Goes(r, "epoch") ELSE Returns(r)
  /\ HookOnly /\ NoEvidence

\* and the epoch again.
CheckEpoch(r) ==
  /\ callback[r].at = "epoch"
  /\ IF epoch = callback[r].token THEN Goes(r, "mesh") ELSE Returns(r)
  /\ HookOnly /\ NoEvidence

\* The mesh.
Hide(r, result) ==
  /\ callback[r].at = "mesh"
  /\ IF result = "failed" THEN Returns(r)
     ELSE callback' = [callback EXCEPT ![r].at = "hidden", ![r].submits = result = "submitted"]
  /\ shown' = (shown \/ result # "failed")
  /\ submitted' = (submitted \/ result = "submitted")
  /\ HookOnly
  /\ UNCHANGED <<hiddenEpoch, submittedEpoch, live>>

\* Lease::observe: each counter is read, and then swapped if it has not moved.
\* Slip: it is stored.
LoadHidden(r) ==
  /\ callback[r].at = "hidden"
  /\ callback' = [callback EXCEPT ![r].at = "swapHidden", ![r].old = hiddenEpoch]
  /\ HookOnly /\ NoEvidence

After(r) == IF callback[r].submits THEN Goes(r, "submitted") ELSE Returns(r)

SlipStoreHidden(r) ==
  /\ callback[r].at = "swapHidden"
  /\ hiddenEpoch' = IF callback[r].token > callback[r].old THEN callback[r].token ELSE hiddenEpoch
  /\ After(r)
  /\ HookOnly /\ UNCHANGED <<submittedEpoch, shown, submitted, live>>
SwapHidden(r) ==
  /\ callback[r].at = "swapHidden"
  /\ hiddenEpoch' = IF callback[r].token > callback[r].old /\ hiddenEpoch = callback[r].old
                    THEN callback[r].token ELSE hiddenEpoch
  /\ After(r)
  /\ HookOnly /\ UNCHANGED <<submittedEpoch, shown, submitted, live>>

LoadSubmitted(r) ==
  /\ callback[r].at = "submitted"
  /\ callback' = [callback EXCEPT ![r].at = "swapSubmitted", ![r].old = submittedEpoch]
  /\ HookOnly /\ NoEvidence

SwapSubmitted(r) ==
  /\ callback[r].at = "swapSubmitted"
  /\ submittedEpoch' = IF callback[r].token > callback[r].old /\ submittedEpoch = callback[r].old
                       THEN callback[r].token ELSE submittedEpoch
  /\ Returns(r)
  /\ HookOnly /\ UNCHANGED <<hiddenEpoch, shown, submitted, live>>

Tick ==
  /\ now < MaxTime
  /\ now' = now + 1
  /\ UNCHANGED <<lease, announcing, ready, callback, shown, submitted, live>>

Next ==
  \/ \E o \in Owners : Release(o) \/ \E held \in BOOLEAN : Renew(o, held)
  \/ Announce \/ Stop \/ Tick
  \/ \E r \in Renderers :
       \/ TakeToken(r) \/ CheckDeadline(r) \/ CheckEpoch(r)
       \/ \E result \in {"failed", "seen", "submitted"} : Hide(r, result)
       \/ LoadHidden(r) \/ SwapHidden(r) \/ LoadSubmitted(r) \/ SwapSubmitted(r)

Spec == Init /\ [][Next]_vars
-----------------------------------------------------------------------------
\* Properties.

Calls ==
  [at : {"idle", "deadline", "epoch", "mesh", "hidden", "swapHidden", "submitted", "swapSubmitted"},
   clock : 0..MaxTime, token : 0..MaxEpoch, submits : BOOLEAN, old : 0..MaxEpoch]

TypeOK ==
  /\ owner \in Owners \union {NoOwner}
  /\ deadline \in 0..MaxTime /\ now \in 1..MaxTime
  /\ epoch \in 0..MaxEpoch /\ hiddenEpoch \in 0..MaxEpoch /\ submittedEpoch \in 0..MaxEpoch
  /\ announcing \in BOOLEAN /\ ready \in BOOLEAN
  /\ shown \in BOOLEAN /\ submitted \in BOOLEAN
  /\ callback \in [Renderers -> Calls]
  /\ live \in [Renderers -> BOOLEAN]
  /\ announcing => epoch < MaxEpoch
  /\ hiddenEpoch <= epoch /\ submittedEpoch <= epoch

\* A guest that reads that its mesh was hidden, or that a command was submitted,
\* reads what happened since its own lease began, not what a late callback did
\* for a lease before it (visibility.h:21).
EvidenceIsCurrent ==
  ~announcing =>
    \A o \in Owners :
      (ReadState(o).observed => shown) /\ (ReadState(o).sent => submitted)

\* A callback that loses a race never takes evidence back (visibility.h:35).
EvidenceGrows ==
  [][hiddenEpoch' >= hiddenEpoch /\ submittedEpoch' >= submittedEpoch]_vars

\* A callback hides the mesh only if some lease was live while it ran: a mesh is
\* hidden at most one callback past the end of the lease (visibility.cpp:48).
HidesUnderLease ==
  \A r \in Renderers :
    callback[r].at \in {"mesh", "hidden", "swapHidden", "submitted", "swapSubmitted"} => live[r]

\* What a guest reads of its mesh happened under its own lease, a callback that
\* loses a race never takes it back, and the mesh is hidden at most one callback
\* past a lease (visibility.h:21-38, visibility.cpp:48).
EvidenceIsTrue ==
  /\ [][EvidenceIsCurrent' /\ HidesUnderLease']_vars
  /\ EvidenceGrows
=============================================================================
