----------------------------- MODULE LeaseProofs -----------------------------
(*************************************************************************)
(* Proofs about what guests hold under leases: the visibility of the     *)
(* player, for any guests, any number of overlapping render callbacks    *)
(* and any lease length (VisibilityLease), and the surfaces, annotations *)
(* and claims of the drawing board, for any guests, offers, limits and   *)
(* projections (Drawing).                                                *)
(*                                                                       *)
(* The worker and the callbacks of the visibility lease share no lock,   *)
(* so what a callback has read may be out of date at each of its later   *)
(* steps.  Their invariant, IInv, says what a token is still good for: a *)
(* token older than the epoch can no longer become evidence of the       *)
(* present lease, and one equal to it was taken under that lease, whose  *)
(* history then knows what the callback did.  An owner without a         *)
(* deadline reads nothing, and gets the next deadline only with a new    *)
(* epoch; so nothing need be known of a lease that has ended.            *)
(*                                                                       *)
(* The board is under a mutex, but each of its steps begins with expire, *)
(* which hides sets, moves claims and drops the selection.  Its          *)
(* invariant, BoardIInv, says what the board keeps between the steps: of *)
(* any of those in the line for a claim, one came first; who is shown    *)
(* and wants a claim is in its line; the selection is of a set that is   *)
(* shown and, if it was reported under the revision in force, of the     *)
(* holder; and every deletion that was asked for is remembered under its *)
(* revision.                                                             *)
(*************************************************************************)
EXTENDS VisibilityLease, Drawing, FiniteSetTheorems, TLAPS

USE VisibilityAssumption

Acting  == {"hidden", "swapHidden", "submitted", "swapSubmitted"}
Submits == {"submitted", "swapSubmitted"}

\* A deadline is set and its epoch announced: what is published can be read.
Open(dl, announces) == dl # 0 /\ ~announces

\* A callback, and whether a lease was live since it began: its token is not
\* from the future; if the token is current, what the callback did is in the
\* history; past the check of the deadline it began under, or met, some lease.
CallOK(c, lv, ep, dl, announces, sh, sub) ==
  /\ c \in Calls /\ lv \in BOOLEAN
  /\ c.token <= ep
  /\ c.at \in Submits => c.submits
  /\ Open(dl, announces) /\ c.at \in Acting /\ c.token = ep => sh /\ (c.submits => sub)
  /\ c.at = "deadline" /\ dl # 0 /\ c.clock < dl => lv
  /\ c.at \notin {"idle", "deadline"} => lv

\* What was published for the current epoch is in the history of its lease.
PublishedOK(hidden, sent, ep, dl, announces, sh, sub) ==
  Open(dl, announces) /\ ep # 0 =>
    /\ hidden = ep => sh
    /\ sent = ep => sh /\ sub

IInv ==
  /\ TypeOK
  /\ PublishedOK(hiddenEpoch, submittedEpoch, epoch, deadline, announcing, shown, submitted)
  /\ \A r \in Renderers :
       CallOK(callback[r], live[r], epoch, deadline, announcing, shown, submitted)
-----------------------------------------------------------------------------
\* The initial states satisfy the invariant.
LEMMA InitIInv == Init => IInv
<1> SUFFICES ASSUME Init PROVE IInv
  OBVIOUS
<1>1. /\ owner = NoOwner /\ deadline = 0 /\ epoch = 0 /\ hiddenEpoch = 0 /\ submittedEpoch = 0
      /\ announcing = FALSE /\ ready = TRUE /\ now = 1 /\ shown = FALSE /\ submitted = FALSE
      /\ callback = [r \in Renderers |-> Idle] /\ live = [r \in Renderers |-> FALSE]
  BY DEF Init
<1>2. Idle \in Calls /\ Idle.at = "idle" /\ Idle.token = 0
  BY DEF Idle, Calls
<1>3. TypeOK
  <2>1. /\ announcing \in BOOLEAN /\ ready \in BOOLEAN /\ shown \in BOOLEAN /\ submitted \in BOOLEAN
        /\ ~announcing
    BY <1>1
  <2> QED
    BY <1>1, <1>2, <2>1 DEF TypeOK
<1> QED
  BY <1>1, <1>2, <1>3 DEF IInv, CallOK, PublishedOK, Open, Acting, Submits

\* A step of one callback keeps it if what it publishes and what it is about to
\* do agree with the history, which only grows.
LEMMA HookKeeps ==
  ASSUME IInv, HookOnly, NEW r \in Renderers, NEW c, NEW lv,
         callback' = [callback EXCEPT ![r] = c], live' = [live EXCEPT ![r] = lv],
         shown' \in BOOLEAN, shown => shown',
         submitted' \in BOOLEAN, submitted => submitted',
         CallOK(c, lv, epoch, deadline, announcing, shown', submitted'),
         hiddenEpoch' \in 0..MaxEpoch, hiddenEpoch' <= epoch,
         submittedEpoch' \in 0..MaxEpoch, submittedEpoch' <= epoch,
         PublishedOK(hiddenEpoch', submittedEpoch', epoch, deadline, announcing, shown', submitted')
  PROVE  IInv'
<1>1. TypeOK'
  BY DEF IInv, TypeOK, CallOK, HookOnly
<1>2. ASSUME NEW q \in Renderers
      PROVE  CallOK(callback'[q], live'[q], epoch, deadline, announcing, shown', submitted')
  <2>1. CASE q = r
    BY <2>1 DEF IInv, TypeOK
  <2>2. CASE q # r
    <3>1. callback'[q] = callback[q] /\ live'[q] = live[q]
      BY <2>2 DEF IInv, TypeOK
    <3>2. CallOK(callback[q], live[q], epoch, deadline, announcing, shown, submitted)
      BY DEF IInv
    <3> QED
      BY <3>1, <3>2 DEF CallOK
  <2> QED
    BY <2>1, <2>2
<1> QED
  BY <1>1, <1>2 DEF IInv, HookOnly

\* Every step of a callback keeps it.
LEMMA CallbackStep ==
  ASSUME IInv, NEW r \in Renderers,
         \/ TakeToken(r) \/ CheckDeadline(r) \/ CheckEpoch(r)
         \/ \E result \in {"failed", "seen", "submitted"} : Hide(r, result)
         \/ LoadHidden(r) \/ SwapHidden(r) \/ LoadSubmitted(r) \/ SwapSubmitted(r)
  PROVE  IInv'
<1> DEFINE now_OK(c, lv) == CallOK(c, lv, epoch, deadline, announcing, shown, submitted)
           c0 == callback[r]
<1>1. /\ callback \in [Renderers -> Calls] /\ live \in [Renderers -> BOOLEAN]
      /\ c0 \in Calls /\ live[r] \in BOOLEAN
      /\ CallOK(c0, live[r], epoch, deadline, announcing, shown, submitted)
      /\ PublishedOK(hiddenEpoch, submittedEpoch, epoch, deadline, announcing, shown, submitted)
      /\ shown \in BOOLEAN /\ submitted \in BOOLEAN
      /\ epoch \in 0..MaxEpoch /\ deadline \in 0..MaxTime /\ now \in 1..MaxTime
      /\ hiddenEpoch \in 0..MaxEpoch /\ hiddenEpoch <= epoch
      /\ submittedEpoch \in 0..MaxEpoch /\ submittedEpoch <= epoch
  BY DEF IInv, TypeOK
<1>2. [live EXCEPT ![r] = live[r]] = live
  BY <1>1
<1>3. CallOK(Idle, live[r], epoch, deadline, announcing, shown', submitted')
  BY <1>1 DEF CallOK, Calls, Idle, Acting, Submits
\* A step that publishes nothing.
<1>4. ASSUME NEW c, HookOnly, NoEvidence, callback' = [callback EXCEPT ![r] = c],
             CallOK(c, live[r], epoch, deadline, announcing, shown, submitted)
      PROVE  IInv'
  <2>1. /\ hiddenEpoch' = hiddenEpoch /\ submittedEpoch' = submittedEpoch
        /\ shown' = shown /\ submitted' = submitted /\ live' = live
    BY <1>4 DEF NoEvidence
  <2> QED
    BY <1>1, <1>2, <1>4, <2>1, HookKeeps
<1>5. CASE TakeToken(r)
  <2> DEFINE c == [at |-> "deadline", clock |-> now, token |-> epoch, submits |-> FALSE, old |-> 0]
  <2>1. /\ callback' = [callback EXCEPT ![r] = c] /\ live' = [live EXCEPT ![r] = Active(now)]
        /\ HookOnly /\ UNCHANGED <<hiddenEpoch, submittedEpoch, shown, submitted>>
    BY <1>5 DEF TakeToken
  <2>2. c \in Calls /\ c.at = "deadline" /\ c.clock = now /\ c.token = epoch
    BY <1>1 DEF Calls
  <2> HIDE DEF c
  <2>3. CallOK(c, Active(now), epoch, deadline, announcing, shown', submitted')
    BY <1>1, <2>2 DEF CallOK, Acting, Submits, Active
  <2> QED
    BY <1>1, <2>1, <2>3, HookKeeps
<1>6. CASE CheckDeadline(r)
  <2> DEFINE c == [c0 EXCEPT !.at = "epoch"]
  <2>1. CASE Active(c0.clock)
    <3>1. callback' = [callback EXCEPT ![r] = c] /\ HookOnly /\ NoEvidence
      BY <1>1, <1>6, <2>1 DEF CheckDeadline, Goes
    <3>2. c \in Calls /\ c.at = "epoch" /\ c.token = c0.token
      BY <1>1 DEF Calls
    <3> HIDE DEF c
    <3>3. CallOK(c, live[r], epoch, deadline, announcing, shown, submitted)
      BY <1>1, <1>6, <2>1, <3>2 DEF CallOK, Acting, Submits, Active, CheckDeadline
    <3> QED
      BY <1>4, <3>1, <3>3
  <2>2. CASE ~Active(c0.clock)
    BY <1>3, <1>4, <1>6, <2>2 DEF CheckDeadline, Returns, NoEvidence
  <2> QED
    BY <2>1, <2>2
<1>7. CASE CheckEpoch(r)
  <2> DEFINE c == [c0 EXCEPT !.at = "mesh"]
  <2>1. CASE epoch = c0.token
    <3>1. callback' = [callback EXCEPT ![r] = c] /\ HookOnly /\ NoEvidence
      BY <1>1, <1>7, <2>1 DEF CheckEpoch, Goes
    <3>2. c \in Calls /\ c.at = "mesh" /\ c.token = c0.token
      BY <1>1 DEF Calls
    <3> HIDE DEF c
    <3>3. CallOK(c, live[r], epoch, deadline, announcing, shown, submitted)
      BY <1>1, <1>7, <3>2 DEF CallOK, Acting, Submits, CheckEpoch
    <3> QED
      BY <1>4, <3>1, <3>3
  <2>2. CASE epoch # c0.token
    BY <1>3, <1>4, <1>7, <2>2 DEF CheckEpoch, Returns, NoEvidence
  <2> QED
    BY <2>1, <2>2
<1>8. ASSUME NEW result \in {"failed", "seen", "submitted"}, Hide(r, result) PROVE IInv'
  <2> DEFINE c == [c0 EXCEPT !.at = "hidden", !.submits = (result = "submitted")]
  <2>1. /\ shown' = (shown \/ result # "failed") /\ submitted' = (submitted \/ result = "submitted")
        /\ HookOnly /\ UNCHANGED <<hiddenEpoch, submittedEpoch, live>> /\ c0.at = "mesh"
    BY <1>8 DEF Hide
  <2>2. PublishedOK(hiddenEpoch', submittedEpoch', epoch, deadline, announcing, shown', submitted')
    BY <1>1, <2>1 DEF PublishedOK
  <2>3. CASE result = "failed"
    BY <1>1, <1>2, <1>3, <1>8, <2>1, <2>2, <2>3, HookKeeps DEF Hide, Returns
  <2>4. CASE result # "failed"
    <3>1. callback' = [callback EXCEPT ![r] = c]
      BY <1>1, <1>8, <2>4 DEF Hide, Calls
    <3>2. c \in Calls /\ c.at = "hidden" /\ c.token = c0.token /\ c.submits = (result = "submitted")
      BY <1>1 DEF Calls
    <3> HIDE DEF c
    <3>3. CallOK(c, live[r], epoch, deadline, announcing, shown', submitted')
      BY <1>1, <2>1, <2>4, <3>2 DEF CallOK, Acting, Submits
    <3> QED
      BY <1>1, <1>2, <2>1, <2>2, <3>1, <3>3, HookKeeps
  <2> QED
    BY <2>3, <2>4
<1>9. CASE LoadHidden(r)
  <2> DEFINE c == [c0 EXCEPT !.at = "swapHidden", !.old = hiddenEpoch]
  <2>1. callback' = [callback EXCEPT ![r] = c] /\ HookOnly /\ NoEvidence
    BY <1>1, <1>9 DEF LoadHidden, Calls
  <2>2. c \in Calls /\ c.at = "swapHidden" /\ c.token = c0.token /\ c.submits = c0.submits
    BY <1>1 DEF Calls
  <2> HIDE DEF c
  <2>3. CallOK(c, live[r], epoch, deadline, announcing, shown, submitted)
    BY <1>1, <1>9, <2>2 DEF CallOK, Acting, Submits, LoadHidden
  <2> QED
    BY <1>4, <2>1, <2>3
<1>10. CASE LoadSubmitted(r)
  <2> DEFINE c == [c0 EXCEPT !.at = "swapSubmitted", !.old = submittedEpoch]
  <2>1. callback' = [callback EXCEPT ![r] = c] /\ HookOnly /\ NoEvidence
    BY <1>1, <1>10 DEF LoadSubmitted, Calls
  <2>2. c \in Calls /\ c.at = "swapSubmitted" /\ c.token = c0.token /\ c.submits = c0.submits
    BY <1>1 DEF Calls
  <2> HIDE DEF c
  <2>3. CallOK(c, live[r], epoch, deadline, announcing, shown, submitted)
    BY <1>1, <1>10, <2>2 DEF CallOK, Acting, Submits, LoadSubmitted
  <2> QED
    BY <1>4, <2>1, <2>3
<1>11. CASE SwapHidden(r)
  <2> DEFINE c == IF c0.submits THEN [c0 EXCEPT !.at = "submitted"] ELSE Idle
  <2>1. /\ callback' = [callback EXCEPT ![r] = c] /\ HookOnly
        /\ UNCHANGED <<submittedEpoch, shown, submitted, live>>
        /\ hiddenEpoch' \in {hiddenEpoch, c0.token} /\ c0.at = "swapHidden"
    BY <1>1, <1>11 DEF SwapHidden, After, Goes, Returns
  <2>2. ASSUME c0.submits
        PROVE  CallOK([c0 EXCEPT !.at = "submitted"], live[r], epoch, deadline, announcing,
                      shown', submitted')
    <3> DEFINE d == [c0 EXCEPT !.at = "submitted"]
    <3>1. d \in Calls /\ d.at = "submitted" /\ d.token = c0.token /\ d.submits
      BY <1>1, <2>2 DEF Calls
    <3> HIDE DEF d
    <3>2. CallOK(d, live[r], epoch, deadline, announcing, shown', submitted')
      BY <1>1, <2>1, <2>2, <3>1 DEF CallOK, Acting, Submits
    <3> QED
      BY <3>2 DEF d
  <2>3. CallOK(c, live[r], epoch, deadline, announcing, shown', submitted')
    BY <1>3, <2>1, <2>2
  <2> HIDE DEF c
  <2>4. c0.token \in 0..MaxEpoch
    BY <1>1 DEF Calls
  <2>5. PublishedOK(hiddenEpoch', submittedEpoch', epoch, deadline, announcing, shown', submitted')
    BY <1>1, <2>1, <2>4 DEF PublishedOK, CallOK, Acting
  <2>6. hiddenEpoch' \in 0..MaxEpoch /\ hiddenEpoch' <= epoch
    BY <1>1, <2>1, <2>4 DEF CallOK
  <2> QED
    BY <1>1, <1>2, <2>1, <2>3, <2>5, <2>6, HookKeeps
<1>12. CASE SwapSubmitted(r)
  <2>1. /\ callback' = [callback EXCEPT ![r] = Idle] /\ HookOnly
        /\ UNCHANGED <<hiddenEpoch, shown, submitted, live>>
        /\ submittedEpoch' \in {submittedEpoch, c0.token} /\ c0.at = "swapSubmitted"
    BY <1>1, <1>12 DEF SwapSubmitted, Returns
  <2>2. c0.token \in 0..MaxEpoch
    BY <1>1 DEF Calls
  <2>3. PublishedOK(hiddenEpoch', submittedEpoch', epoch, deadline, announcing, shown', submitted')
    BY <1>1, <2>1, <2>2 DEF PublishedOK, CallOK, Acting, Submits
  <2>4. submittedEpoch' \in 0..MaxEpoch /\ submittedEpoch' <= epoch
    BY <1>1, <2>1, <2>2 DEF CallOK
  <2> QED
    BY <1>1, <1>2, <1>3, <2>1, <2>3, <2>4, HookKeeps
<1> QED
  BY <1>5, <1>6, <1>7, <1>8, <1>9, <1>10, <1>11, <1>12

\* A renewal keeps it: a new lease has no history until its epoch is announced,
\* and a lease that goes on keeps its own.
LEMMA RenewStep ==
  ASSUME IInv, NEW o \in Owners, NEW held \in BOOLEAN, Renew(o, held)
  PROVE  IInv'
<1>1. /\ deadline \in 0..MaxTime /\ now \in 1..MaxTime /\ ~announcing
      /\ shown \in BOOLEAN /\ submitted \in BOOLEAN /\ live \in [Renderers -> BOOLEAN]
      /\ epoch \in 0..MaxEpoch
  BY DEF IInv, TypeOK, Renew
<1>2. /\ deadline' = IF held THEN now + Lifetime ELSE 0
      /\ announcing' = NewLease(o, held) /\ announcing' \in BOOLEAN
      /\ shown' = (shown /\ owner = o /\ now < deadline)
      /\ submitted' = (submitted /\ owner = o /\ now < deadline)
      /\ live' = [r \in Renderers |-> live[r] \/ held]
      /\ UNCHANGED <<epoch, hiddenEpoch, submittedEpoch, ready, callback, now>>
      /\ owner' = o
  BY DEF Renew, NewLease
<1>3. Open(deadline', announcing') => Open(deadline, announcing) /\ shown' = shown /\ submitted' = submitted
  BY <1>1, <1>2 DEF Open, NewLease, Active
<1>4. TypeOK'
  BY <1>1, <1>2 DEF IInv, TypeOK, Renew, WithinBounds
<1>5. PublishedOK(hiddenEpoch', submittedEpoch', epoch', deadline', announcing', shown', submitted')
  BY <1>2, <1>3 DEF IInv, PublishedOK
<1>6. ASSUME NEW r \in Renderers
      PROVE  CallOK(callback'[r], live'[r], epoch', deadline', announcing', shown', submitted')
  <2>1. CallOK(callback[r], live[r], epoch, deadline, announcing, shown, submitted)
    BY DEF IInv
  <2>2. live'[r] = (live[r] \/ held) /\ callback'[r] = callback[r] /\ epoch' = epoch
    BY <1>2
  <2>3. deadline' # 0 => held
    BY <1>2
  <2> QED
    BY <1>1, <1>3, <2>1, <2>2, <2>3 DEF CallOK
<1> QED
  BY <1>4, <1>5, <1>6 DEF IInv

\* Every step keeps it.
LEMMA NextIInv == IInv /\ [Next]_vars => IInv'
<1> SUFFICES ASSUME IInv, [Next]_vars PROVE IInv'
  OBVIOUS
\* The deadline is gone: nothing can be read.
<1>1. ASSUME TypeOK', deadline' = 0,
             UNCHANGED <<epoch, hiddenEpoch, submittedEpoch, announcing, callback, shown, submitted, live>>
      PROVE  IInv'
  <2>1. PublishedOK(hiddenEpoch', submittedEpoch', epoch', deadline', announcing', shown', submitted')
    BY <1>1 DEF PublishedOK, Open
  <2>2. ASSUME NEW r \in Renderers
        PROVE  CallOK(callback'[r], live'[r], epoch', deadline', announcing', shown', submitted')
    <3>1. CallOK(callback[r], live[r], epoch, deadline, announcing, shown, submitted)
      BY DEF IInv
    <3> QED
      BY <1>1, <3>1 DEF CallOK, Open
  <2> QED
    BY <1>1, <2>1, <2>2 DEF IInv
<1>2. ASSUME NEW o \in Owners, Release(o) PROVE IInv'
  <2>1. TypeOK'
    BY <1>2 DEF IInv, TypeOK, Release
  <2> QED
    BY <1>1, <1>2, <2>1 DEF Release
<1>3. ASSUME NEW o \in Owners, NEW held \in BOOLEAN, Renew(o, held) PROVE IInv'
  BY <1>3, RenewStep
<1>4. CASE Announce
  <2>1. /\ epoch' = epoch + 1 /\ announcing' = FALSE
        /\ UNCHANGED <<owner, deadline, hiddenEpoch, submittedEpoch, ready, callback, now, shown,
                       submitted, live>>
    BY <1>4 DEF Announce
  <2>2. TypeOK'
    <3>1. announcing' \in BOOLEAN /\ ~announcing' /\ announcing
      BY <1>4, <2>1 DEF Announce
    <3> QED
      BY <2>1, <3>1 DEF IInv, TypeOK
  <2>3. PublishedOK(hiddenEpoch', submittedEpoch', epoch', deadline', announcing', shown', submitted')
    BY <2>1 DEF IInv, TypeOK, PublishedOK
  <2>4. ASSUME NEW r \in Renderers
        PROVE  CallOK(callback'[r], live'[r], epoch', deadline', announcing', shown', submitted')
    <3>1. CallOK(callback[r], live[r], epoch, deadline, announcing, shown, submitted)
      BY DEF IInv
    <3>2. callback[r].token \in Nat /\ epoch \in Nat
      BY <3>1 DEF IInv, TypeOK, CallOK, Calls
    <3>3. callback[r].token <= epoch'  /\ callback[r].token # epoch'
      BY <2>1, <3>1, <3>2 DEF CallOK
    <3> QED
      BY <2>1, <3>1, <3>3 DEF CallOK
  <2> QED
    BY <2>2, <2>3, <2>4 DEF IInv
<1>5. CASE Stop
  <2>1. TypeOK'
    <3>1. ready' \in BOOLEAN
      BY <1>5 DEF Stop
    <3> QED
      BY <1>5, <3>1 DEF IInv, TypeOK, Stop
  <2> QED
    BY <1>1, <1>5, <2>1 DEF Stop
<1>6. CASE Tick
  BY <1>6 DEF IInv, TypeOK, Tick, lease
<1>7. ASSUME NEW r \in Renderers,
             \/ TakeToken(r) \/ CheckDeadline(r) \/ CheckEpoch(r)
             \/ \E result \in {"failed", "seen", "submitted"} : Hide(r, result)
             \/ LoadHidden(r) \/ SwapHidden(r) \/ LoadSubmitted(r) \/ SwapSubmitted(r)
      PROVE  IInv'
  BY <1>7, CallbackStep
<1>8. CASE UNCHANGED vars
  BY <1>8 DEF IInv, TypeOK, vars, lease
<1> QED
  BY <1>2, <1>3, <1>4, <1>5, <1>6, <1>7, <1>8 DEF Next

LEMMA AlwaysIInv == Spec => []IInv
  BY InitIInv, NextIInv, PTL DEF Spec
-----------------------------------------------------------------------------
\* The variables keep their types: no counter passes its width.
THEOREM TypeCorrect == Spec => []TypeOK
<1>1. IInv => TypeOK
  BY DEF IInv
<1> QED
  BY <1>1, AlwaysIInv, PTL

\* A guest reads as evidence only what happened under its own lease.
LEMMA EvidenceCurrent == IInv => EvidenceIsCurrent
  BY DEF IInv, PublishedOK, Open, EvidenceIsCurrent, ReadState

\* A callback that hides the mesh began under a lease, or met one.
LEMMA HiddenUnderLease == IInv => HidesUnderLease
  BY DEF IInv, CallOK, HidesUnderLease

\* No counter is taken back, by whichever callback comes last.
LEMMA CountersGrow ==
  IInv /\ [Next]_vars => hiddenEpoch' >= hiddenEpoch /\ submittedEpoch' >= submittedEpoch
<1> SUFFICES ASSUME IInv, [Next]_vars
             PROVE  hiddenEpoch' >= hiddenEpoch /\ submittedEpoch' >= submittedEpoch
  OBVIOUS
<1>1. hiddenEpoch \in Nat /\ submittedEpoch \in Nat
  BY DEF IInv, TypeOK
<1>2. ASSUME NEW r \in Renderers, SwapHidden(r)
      PROVE  hiddenEpoch' >= hiddenEpoch /\ submittedEpoch' = submittedEpoch
  <2>1. callback[r].token \in Nat
    BY DEF IInv, TypeOK, Calls
  <2> QED
    BY <1>1, <1>2, <2>1 DEF SwapHidden
<1>3. ASSUME NEW r \in Renderers, SwapSubmitted(r)
      PROVE  submittedEpoch' >= submittedEpoch /\ hiddenEpoch' = hiddenEpoch
  <2>1. callback[r].token \in Nat
    BY DEF IInv, TypeOK, Calls
  <2> QED
    BY <1>1, <1>3, <2>1 DEF SwapSubmitted
<1>4. \/ UNCHANGED <<hiddenEpoch, submittedEpoch>>
      \/ \E r \in Renderers : SwapHidden(r) \/ SwapSubmitted(r)
  BY DEF Next, Release, Renew, Announce, Stop, Tick, TakeToken, CheckDeadline, CheckEpoch, Hide,
         LoadHidden, LoadSubmitted, NoEvidence, vars, lease
<1> QED
  BY <1>1, <1>2, <1>3, <1>4

\* What a guest reads of its mesh is true of its own lease and is never taken
\* back, and the mesh is hidden at most one callback past a lease.
THEOREM EvidenceTrue == Spec => EvidenceIsTrue
<1>1. Spec => [](EvidenceIsCurrent /\ HidesUnderLease)
  BY AlwaysIInv, EvidenceCurrent, HiddenUnderLease, PTL
<1>2. Spec => [][hiddenEpoch' >= hiddenEpoch /\ submittedEpoch' >= submittedEpoch]_vars
  BY AlwaysIInv, CountersGrow, PTL DEF Spec
<1> QED
  BY <1>1, <1>2, PTL DEF EvidenceIsTrue, EvidenceGrows

-----------------------------------------------------------------------------
(* The drawing board.                                                      *)

HIDE VisibilityAssumption
USE DrawingAssumed DEF DrawingAssumption

NoOffer == [version |-> 0, flags |-> {}, items |-> {}]
Items == UNION {offer.items : offer \in Offers}
Versions == {offer.version : offer \in Offers \union {NoOffer}}
Queued == [action : {"attach", "create", "update", "delete"}, item : Items \union {0},
           revision : Nat, context : Nat, version : Versions]
Sets == [shown : BOOLEAN, late : BOOLEAN, offer : Offers \union {NoOffer}, revision : Nat, context : Nat,
         events : Seq(Queued), hovered : SUBSET Items, deletions : Seq(Nat \X Items)]
Hovers == [owner : Guests, revision : Nat, context : Nat, item : Items, fresh : BOOLEAN, page : Nat]
Editors == [owner : Guests, revision : Nat, context : Nat, page : Nat]
Placed == [owner : Guests, layer : Layers, context : Nat, late : BOOLEAN]
Boards == [surfaces : SUBSET Placed, notes : [Guests -> Sets], hover : Hovers \union {NoHover},
           arrivals : [Claims -> SUBSET (Guests \X Guests)], holder : [Claims -> Guests \union {Nobody}]]

\* The events of a set are about it, and each of its deletions is of an item that a
\* press of the key has asked for under that revision.
EventsOK(n) ==
  /\ Len(n.events) <= MaxQueue
  /\ \A k \in 1..Len(n.events) :
       /\ n.events[k].context = n.context /\ n.events[k].version = n.offer.version
       /\ n.events[k].revision <= n.revision
DeletionsOK(n) ==
  /\ \A k \in 1..Len(n.deletions) :
       /\ n.deletions[k][1] <= n.revision
       /\ n.deletions[k][1] = n.revision => n.deletions[k][2] \in n.hovered
  /\ \A j, k \in 1..Len(n.deletions) : n.deletions[j] = n.deletions[k] => j = k

NotesOK(n, o, att, ctx) ==
  /\ n \in Sets
  /\ ~n.shown => n = NoNotes
  /\ n.shown => o \in att /\ n.context = ctx /\ n.offer \in Offers
  /\ EventsOK(n)
  /\ DeletionsOK(n)

\* Of any of those in a line, one came before the others.
Ordered(line) ==
  /\ line \subseteq InLine(line) \X InLine(line)
  /\ \A some \in SUBSET InLine(line) :
       some # {} => \E o \in some : \A w \in some : <<o, w>> \in line

\* Who waits for a claim is who wants it; the holder leaves the line when its set goes.
LineOK(line, holder, notes, c) ==
  /\ Ordered(line)
  /\ \A o \in Guests : notes[o].shown => (o \in InLine(line) <=> c \in notes[o].offer.flags)
  /\ holder # Nobody /\ notes[holder].shown => holder \in InLine(line)

HoverOK(hover, notes, holder, pg) ==
  hover # NoHover =>
    /\ hover.page = pg
    /\ notes[hover.owner].shown
    /\ hover.revision <= notes[hover.owner].revision
    /\ hover.revision = notes[hover.owner].revision => holder = hover.owner

SurfacesOK(surfaces, att, ctx, str) ==
  /\ IsFiniteSet(surfaces) /\ Cardinality(surfaces) <= MaxSurfaces
  /\ \A s \in surfaces :
       s.owner \in att /\ s.context = (CASE s.layer = "frame" -> 0 [] s.layer = "map" -> ctx [] OTHER -> str)

\* What expire starts from, and what it leaves: somebody holds every claim that is wanted.
BoardOK(b, att, ctx, str, pg) ==
  /\ b \in Boards
  /\ \A o \in Guests : NotesOK(b.notes[o], o, att, ctx)
  /\ \A c \in Claims : LineOK(b.arrivals[c], b.holder[c], b.notes, c)
  /\ HoverOK(b.hover, b.notes, b.holder["place"], pg)
  /\ SurfacesOK(b.surfaces, att, ctx, str)

\* After expire, who waits is shown.  A new projection hides all, and the lines stay.
Settled(b) == \A c \in Claims : \A o \in InLine(b.arrivals[c]) : b.notes[o].shown

HoldersOK(b) ==
  /\ \A c \in Claims :
       IF InLine(b.arrivals[c]) = {} THEN b.holder[c] = Nobody ELSE b.holder[c] \in InLine(b.arrivals[c])
  /\ Settled(b) \/ \A o \in Guests : ~b.notes[o].shown

BoardIInv ==
  /\ attached \in SUBSET Guests /\ enabled \in BOOLEAN
  /\ page \in Nat /\ context \in Nat /\ stream \in Nat
  /\ map \in BOOLEAN /\ projected \in BOOLEAN /\ sonar \in BOOLEAN
  /\ editor \in Editors \union {NoEditor}
  /\ enabled /\ editor # NoEditor => editor.page = page
  /\ BoardOK(board, attached, context, stream, page)
  /\ HoldersOK(board)
-----------------------------------------------------------------------------
\* The line of some of those who wait.
LEMMA KeptLine ==
  ASSUME NEW line, Ordered(line), NEW some
  PROVE  /\ InLine(Kept(line, some)) = InLine(line) \intersect some
         /\ Ordered(Kept(line, some))
         /\ Kept(line, some) \subseteq line
<1> DEFINE kept == Kept(line, some)
<1>1. \A o, w : <<o, w>> \in kept <=> <<o, w>> \in line /\ o \in some /\ w \in some
  BY DEF Kept
<1>2. kept \subseteq line
  BY DEF Kept
<1>3. InLine(kept) = InLine(line) \intersect some
  BY <1>1 DEF InLine
<1>4. kept \subseteq InLine(kept) \X InLine(kept)
  <2> SUFFICES ASSUME NEW pair \in kept PROVE pair \in InLine(kept) \X InLine(kept)
    OBVIOUS
  <2>1. pair \in InLine(line) \X InLine(line) /\ pair \in some \X some
    BY DEF Kept, Ordered
  <2> QED BY <2>1, <1>3
<1>5. ASSUME NEW few \in SUBSET InLine(kept), few # {}
      PROVE  \E o \in few : \A w \in few : <<o, w>> \in kept
  <2>1. few \in SUBSET InLine(line) /\ few \subseteq some
    BY <1>3
  <2>2. PICK o \in few : \A w \in few : <<o, w>> \in line
    BY <2>1, <1>5 DEF Ordered
  <2> QED BY <1>1, <2>1, <2>2
<1> QED BY <1>2, <1>3, <1>4, <1>5 DEF Ordered

\* A newcomer is last in line.
LEMMA JoinedLine ==
  ASSUME NEW line, Ordered(line), NEW o \in Guests, o \notin InLine(line)
  PROVE  LET longer == line \union {<<w, o>> : w \in InLine(line) \union {o}} IN
         InLine(longer) = InLine(line) \union {o} /\ Ordered(longer)
<1> DEFINE longer == line \union {<<w, o>> : w \in InLine(line) \union {o}}
<1>1. \A v, w : <<v, w>> \in longer <=> <<v, w>> \in line \/ (w = o /\ v \in InLine(line) \union {o})
  OBVIOUS
<1>2. InLine(longer) = InLine(line) \union {o}
  BY <1>1 DEF InLine
<1>3. longer \subseteq InLine(longer) \X InLine(longer)
  <2>1. line \subseteq InLine(line) \X InLine(line)
    BY DEF Ordered
  <2> QED BY <2>1, <1>2
<1>4. ASSUME NEW few \in SUBSET InLine(longer), few # {}
      PROVE  \E v \in few : \A w \in few : <<v, w>> \in longer
  <2>1. CASE few \ {o} = {}
    <3>1. few = {o}
      BY <2>1, <1>4
    <3> QED BY <3>1, <1>1
  <2>2. CASE few \ {o} # {}
    <3>1. few \ {o} \in SUBSET InLine(line)
      BY <1>2
    <3>2. PICK v \in few \ {o} : \A w \in few \ {o} : <<v, w>> \in line
      BY <3>1, <2>2 DEF Ordered
    <3>3. v \in InLine(line)
      BY <3>1
    <3>4. \A w \in few : <<v, w>> \in longer
      BY <3>2, <3>3, <1>1
    <3> QED BY <3>4
  <2> QED BY <2>1, <2>2
<1>5. Ordered(longer)
  BY <1>3, <1>4 DEF Ordered
<1> QED BY <1>2, <1>5

\* Somebody in a line has waited longest.
LEMMA ForemostIsFirst ==
  ASSUME NEW line, Ordered(line), InLine(line) # {}
  PROVE  Foremost(line) \in InLine(line) /\ \A w \in InLine(line) : <<Foremost(line), w>> \in line
<1>1. \E o \in InLine(line) : \A w \in InLine(line) : <<o, w>> \in line
  BY DEF Ordered
<1> QED BY <1>1 DEF Foremost

\* Arbitration.
Successor(holder, line) ==
  IF holder \in InLine(line) THEN holder ELSE IF InLine(line) = {} THEN Nobody ELSE Foremost(line)

LEMMA SuccessorWaits ==
  ASSUME NEW line, Ordered(line), NEW holder
  PROVE  /\ InLine(line) = {} => Successor(holder, line) = Nobody
         /\ InLine(line) # {} => Successor(holder, line) \in InLine(line)
<1>1. InLine(line) # {} => Foremost(line) \in InLine(line)
  BY ForemostIsFirst
<1> QED BY <1>1 DEF Successor

-----------------------------------------------------------------------------
\* What expire makes of a board, field by field.
Remaining(b) == [o \in Guests |-> IF Over(b.notes[o]) THEN NoNotes ELSE b.notes[o]]
Waiting(b) == [c \in Claims |-> Kept(b.arrivals[c], {o \in Guests : Remaining(b)[o].shown})]

LEMMA ExpireShape ==
  ASSUME NEW b \in Boards, NEW e, e = Expire(b)
  PROVE  /\ e = [surfaces |-> {s \in b.surfaces : ~s.late /\ Fresh(s.layer)}, notes |-> Remaining(b),
                 hover |-> IF Stands(b.hover, Remaining(b)) THEN b.hover ELSE NoHover,
                 arrivals |-> Waiting(b),
                 holder |-> [c \in Claims |-> Successor(b.holder[c], Waiting(b)[c])]]
<1> DEFINE notes == [o \in Guests |-> IF Over(b.notes[o]) THEN Hidden(b.notes[o]) ELSE b.notes[o]]
           few == {s \in b.surfaces : ~s.late /\ Fresh(s.layer)}
           line == [c \in Claims |-> Kept(b.arrivals[c], {o \in Guests : notes[o].shown})]
           hover == IF Stands(b.hover, notes) THEN b.hover ELSE NoHover
           d == [b EXCEPT !.notes = notes, !.surfaces = few, !.arrivals = line, !.hover = hover]
<1>1. notes = Remaining(b)
  BY DEF Remaining, Hidden
<1>2. line = Waiting(b)
  BY <1>1 DEF Waiting
<1>3. e = Arbitrate(d)
  BY DEF Expire
<1> HIDE DEF notes, few, line, hover
<1>4. /\ d.surfaces = few /\ d.notes = notes /\ d.hover = hover /\ d.arrivals = line /\ d.holder = b.holder
      /\ d \in [surfaces : {few}, notes : {notes}, hover : {hover}, arrivals : {line}, holder : {b.holder}]
  BY DEF Boards
<1> DEFINE heir == [c \in Claims |-> Successor(b.holder[c], line[c])]
<1>5. e = [d EXCEPT !.holder = heir]
  BY <1>3, <1>4 DEF Arbitrate, Successor
<1> HIDE DEF d, heir
<1>6. /\ e.surfaces = few /\ e.notes = notes /\ e.hover = hover /\ e.arrivals = line /\ e.holder = heir
      /\ e \in [surfaces : {few}, notes : {notes}, hover : {hover}, arrivals : {line}, holder : {heir}]
  BY <1>4, <1>5
<1>7. e = [surfaces |-> e.surfaces, notes |-> e.notes, hover |-> e.hover, arrivals |-> e.arrivals,
           holder |-> e.holder]
  BY <1>6
<1>8. e = [surfaces |-> few, notes |-> notes, hover |-> hover, arrivals |-> line, holder |-> heir]
  BY <1>6, <1>7
<1> QED BY <1>1, <1>2, <1>8 DEF few, hover, heir

\* The empty set of annotations is fit for anyone.
LEMMA NoNotesOK ==
  /\ NoNotes \in Sets /\ ~NoNotes.shown
  /\ \A o, att, ctx : NotesOK(NoNotes, o, att, ctx)
<1>1. /\ NoNotes.shown = FALSE /\ NoNotes.events = <<>> /\ NoNotes.deletions = <<>>
      /\ NoNotes.late = FALSE /\ NoNotes.offer = NoOffer /\ NoNotes.revision = 0 /\ NoNotes.context = 0
      /\ NoNotes.hovered = {}
  BY DEF NoNotes, NoOffer
<1>2. NoNotes \in Sets
  BY DEF NoNotes, Sets, NoOffer
<1>3. EventsOK(NoNotes)
  BY <1>1 DEF EventsOK
<1>4. DeletionsOK(NoNotes)
  BY <1>1 DEF DeletionsOK
<1> QED BY <1>1, <1>2, <1>3, <1>4 DEF NotesOK

\* A subset of what is drawn fits as well.
LEMMA FewerSurfaces ==
  ASSUME NEW surfaces, NEW few \in SUBSET surfaces, NEW att, NEW ctx, NEW str, SurfacesOK(surfaces, att, ctx, str)
  PROVE  SurfacesOK(few, att, ctx, str)
<1>1. IsFiniteSet(few) /\ Cardinality(few) <= Cardinality(surfaces)
  BY FS_Subset DEF SurfacesOK
<1>2. Cardinality(few) \in Nat /\ Cardinality(surfaces) \in Nat
  BY <1>1, FS_CardinalityType DEF SurfacesOK
<1>3. Cardinality(few) <= MaxSurfaces
  BY <1>1, <1>2 DEF SurfacesOK
<1> QED BY <1>1, <1>3 DEF SurfacesOK

\* expire keeps a board sound and gives the claims away.
LEMMA ExpireSound ==
  ASSUME NEW b, NEW att, NEW ctx, NEW str, NEW pg, BoardOK(b, att, ctx, str, pg), NEW e, e = Expire(b)
  PROVE  BoardOK(e, att, ctx, str, pg) /\ HoldersOK(e) /\ Settled(e)
<1>b. b \in Boards
  BY DEF BoardOK
<1>0. /\ e = [surfaces |-> {s \in b.surfaces : ~s.late /\ Fresh(s.layer)}, notes |-> Remaining(b),
              hover |-> IF Stands(b.hover, Remaining(b)) THEN b.hover ELSE NoHover,
              arrivals |-> Waiting(b),
              holder |-> [c \in Claims |-> Successor(b.holder[c], Waiting(b)[c])]]
  BY <1>b, ExpireShape
<1>1. /\ e.surfaces = {s \in b.surfaces : ~s.late /\ Fresh(s.layer)}
      /\ e.notes = Remaining(b)
      /\ e.hover = IF Stands(b.hover, Remaining(b)) THEN b.hover ELSE NoHover
      /\ e.arrivals = Waiting(b)
      /\ e.holder = [c \in Claims |-> Successor(b.holder[c], Waiting(b)[c])]
  BY <1>0
<1> DEFINE still == {o \in Guests : Remaining(b)[o].shown}
<1>2. \A o \in Guests : /\ Remaining(b)[o] = NoNotes \/ Remaining(b)[o] = b.notes[o]
                        /\ e.notes[o] = Remaining(b)[o]
                        /\ NotesOK(e.notes[o], o, att, ctx)
                        /\ e.notes[o] \in Sets
  <2>1. \A o \in Guests : NotesOK(NoNotes, o, att, ctx) /\ NoNotes \in Sets
    BY NoNotesOK
  <2>2. \A o \in Guests : Remaining(b)[o] = IF Over(b.notes[o]) THEN NoNotes ELSE b.notes[o]
    BY DEF Remaining
  <2>3. \A o \in Guests : NotesOK(b.notes[o], o, att, ctx) /\ b.notes[o] \in Sets
    BY <1>b DEF BoardOK, Boards
  <2> QED BY <1>1, <2>1, <2>2, <2>3
<1>3. ASSUME NEW c \in Claims
      PROVE  LET line == b.arrivals[c] IN
             /\ Ordered(line) /\ line \in SUBSET (Guests \X Guests)
             /\ e.arrivals[c] = Kept(line, still)
             /\ InLine(e.arrivals[c]) = InLine(line) \intersect still
             /\ Ordered(e.arrivals[c])
             /\ e.arrivals[c] \in SUBSET (Guests \X Guests)
             /\ e.holder[c] = Successor(b.holder[c], e.arrivals[c])
             /\ InLine(e.arrivals[c]) \subseteq Guests
  <2> DEFINE line == b.arrivals[c]
  <2>1. Ordered(line) /\ line \in SUBSET (Guests \X Guests)
    BY <1>b DEF BoardOK, LineOK, Boards
  <2>2. e.arrivals[c] = Kept(line, still) /\ e.holder[c] = Successor(b.holder[c], e.arrivals[c])
    BY <1>1 DEF Waiting
  <2>3. /\ InLine(Kept(line, still)) = InLine(line) \intersect still
        /\ Ordered(Kept(line, still)) /\ Kept(line, still) \subseteq line
    <3> HIDE DEF line, still
    <3> QED BY <2>1, KeptLine
  <2> QED BY <2>1, <2>2, <2>3
<1>4. \A c \in Claims : IF InLine(e.arrivals[c]) = {} THEN e.holder[c] = Nobody
                        ELSE e.holder[c] \in InLine(e.arrivals[c])
  <2> TAKE c \in Claims
  <2> DEFINE line == e.arrivals[c]
             held == b.holder[c]
  <2>1. Ordered(line) /\ e.holder[c] = Successor(held, line)
    BY <1>3
  <2> HIDE DEF line, held
  <2>2. IF InLine(line) = {} THEN e.holder[c] = Nobody ELSE e.holder[c] \in InLine(line)
    BY <2>1, SuccessorWaits
  <2> QED BY <2>2 DEF line
<1>6. Settled(e)
  BY <1>2, <1>3 DEF Settled
<1>5. HoldersOK(e)
  BY <1>4, <1>6 DEF HoldersOK
<1>7. \A c \in Claims : LineOK(e.arrivals[c], e.holder[c], e.notes, c)
  <2> TAKE c \in Claims
  <2>1. \A o \in Guests : e.notes[o].shown => (o \in InLine(e.arrivals[c]) <=> c \in e.notes[o].offer.flags)
    <3> TAKE o \in Guests
    <3>1. LineOK(b.arrivals[c], b.holder[c], b.notes, c)
      BY DEF BoardOK
    <3>2. SUFFICES ASSUME e.notes[o].shown PROVE o \in InLine(e.arrivals[c]) <=> c \in e.notes[o].offer.flags
      OBVIOUS
    <3>3. e.notes[o] = b.notes[o] /\ Remaining(b)[o].shown
      BY <3>2, <1>2, NoNotesOK
    <3>4. o \in still
      BY <3>3
    <3>5. o \in InLine(b.arrivals[c]) <=> c \in b.notes[o].offer.flags
      BY <3>1, <3>2, <3>3 DEF LineOK
    <3>6. InLine(e.arrivals[c]) = InLine(b.arrivals[c]) \intersect still
      BY <1>3
    <3> HIDE DEF still
    <3> QED BY <3>3, <3>4, <3>5, <3>6
  <2> QED BY <2>1, <1>3, <1>4 DEF LineOK
<1>8. HoverOK(e.hover, e.notes, e.holder["place"], pg)
  <2> SUFFICES ASSUME e.hover # NoHover
               PROVE  /\ e.hover.page = pg
                      /\ e.notes[e.hover.owner].shown
                      /\ e.hover.revision <= e.notes[e.hover.owner].revision
                      /\ e.hover.revision = e.notes[e.hover.owner].revision => e.holder["place"] = e.hover.owner
    BY DEF HoverOK
  <2>1. e.hover = b.hover /\ Stands(b.hover, Remaining(b))
    BY <1>1
  <2> DEFINE o == b.hover.owner
  <2>2. o \in Guests /\ Remaining(b)[o].shown /\ o \in still
    BY <2>1, <1>b DEF Boards, Hovers, Stands
  <2>3. e.notes[o] = b.notes[o]
    BY <2>2, <1>2, NoNotesOK
  <2>4. HoverOK(b.hover, b.notes, b.holder["place"], pg)
    BY DEF BoardOK
  <2>5. ASSUME b.hover.revision = b.notes[o].revision PROVE e.holder["place"] = o
    <3>1. b.holder["place"] = o /\ b.notes[o].shown
      BY <2>4, <2>5, <2>1 DEF HoverOK
    <3>2. "place" \in Claims
      BY DEF Claims
    <3>3. o \in InLine(b.arrivals["place"])
      BY <3>1, <3>2, <2>2 DEF BoardOK, LineOK
    <3>4. o \in InLine(e.arrivals["place"])
      BY <3>2, <3>3, <2>2, <1>3
    <3> QED BY <3>1, <3>2, <3>4, <1>3 DEF Successor
  <2> QED BY <2>1, <2>2, <2>3, <2>4, <2>5 DEF HoverOK
<1>9. SurfacesOK(e.surfaces, att, ctx, str)
  <2>1. e.surfaces \in SUBSET b.surfaces /\ SurfacesOK(b.surfaces, att, ctx, str)
    BY <1>1 DEF BoardOK
  <2> QED BY <2>1, FewerSurfaces
<1>10. e \in Boards
  <2>1. e.surfaces \in SUBSET Placed
    BY <1>1, <1>b DEF Boards
  <2>2. e.notes \in [Guests -> Sets]
    BY <1>1, <1>2 DEF Remaining
  <2>3. e.hover \in Hovers \union {NoHover}
    BY <1>1, <1>b DEF Boards
  <2>4. e.arrivals \in [Claims -> SUBSET (Guests \X Guests)]
    BY <1>1, <1>3 DEF Waiting
  <2>5. e.holder \in [Claims -> Guests \union {Nobody}]
    BY <1>1, <1>3, <1>4
  <2> QED BY <1>0, <2>1, <2>2, <2>3, <2>4, <2>5 DEF Boards
<1> QED BY <1>2, <1>5, <1>6, <1>7, <1>8, <1>9, <1>10 DEF BoardOK

-----------------------------------------------------------------------------
\* A board that differs in what is queued, timed or drawn, or shows fewer sets.
LEMMA LikeSound ==
  ASSUME NEW b, NEW att, NEW ctx, NEW str, NEW pg, BoardOK(b, att, ctx, str, pg), HoldersOK(b),
         NEW d \in Boards, NEW att2, NEW ctx2, NEW str2,
         d.arrivals = b.arrivals, d.holder = b.holder,
         d.hover # NoHover =>
           /\ b.hover # NoHover /\ d.hover.owner = b.hover.owner /\ d.hover.revision = b.hover.revision
           /\ d.hover.page = b.hover.page /\ d.notes[d.hover.owner].shown,
         \A o \in Guests : NotesOK(d.notes[o], o, att2, ctx2),
         \A o \in Guests : d.notes[o].shown =>
           b.notes[o].shown /\ d.notes[o].offer = b.notes[o].offer /\ d.notes[o].revision = b.notes[o].revision,
         \/ \A o \in Guests : b.notes[o].shown => d.notes[o].shown
         \/ \A o \in Guests : ~d.notes[o].shown,
         SurfacesOK(d.surfaces, att2, ctx2, str2)
  PROVE  BoardOK(d, att2, ctx2, str2, pg) /\ HoldersOK(d)
<1>1. HoldersOK(d)
  <2>1. \A c \in Claims : InLine(d.arrivals[c]) \subseteq Guests
    BY DEF InLine
  <2> QED BY <2>1 DEF HoldersOK, Settled
<1>2. \A c \in Claims : LineOK(d.arrivals[c], d.holder[c], d.notes, c)
  <2> TAKE c \in Claims
  <2>1. LineOK(b.arrivals[c], b.holder[c], b.notes, c)
    BY DEF BoardOK
  <2>2. \A o \in Guests : d.notes[o].shown => (o \in InLine(d.arrivals[c]) <=> c \in d.notes[o].offer.flags)
    BY <2>1 DEF LineOK
  <2>3. d.holder[c] # Nobody => d.holder[c] \in InLine(d.arrivals[c])
    BY DEF HoldersOK
  <2> QED BY <2>1, <2>2, <2>3 DEF LineOK
<1>3. HoverOK(d.hover, d.notes, d.holder["place"], pg)
  <2> SUFFICES ASSUME d.hover # NoHover
               PROVE  /\ d.hover.page = pg
                      /\ d.notes[d.hover.owner].shown
                      /\ d.hover.revision <= d.notes[d.hover.owner].revision
                      /\ d.hover.revision = d.notes[d.hover.owner].revision => d.holder["place"] = d.hover.owner
    BY DEF HoverOK
  <2>1. d.hover.owner \in Guests
    <3>1. d.hover \in Hovers
      BY DEF Boards
    <3> QED BY <3>1 DEF Hovers
  <2>2. HoverOK(b.hover, b.notes, b.holder["place"], pg)
    BY DEF BoardOK
  <2> QED BY <2>1, <2>2 DEF HoverOK
<1> QED BY <1>1, <1>2, <1>3 DEF BoardOK

\* A set whose events or deletions change as they may.
LEMMA QueuedSound ==
  ASSUME NEW b, NEW att, NEW ctx, NEW str, NEW pg, BoardOK(b, att, ctx, str, pg), HoldersOK(b),
         NEW p \in Guests, NEW n, NotesOK(n, p, att, ctx),
         n.shown, b.notes[p].shown, n.offer = b.notes[p].offer, n.revision = b.notes[p].revision,
         NEW d, d = [b EXCEPT !.notes = [@ EXCEPT ![p] = n]]
  PROVE  /\ BoardOK(d, att, ctx, str, pg) /\ HoldersOK(d)
         /\ d.arrivals = b.arrivals /\ d.holder = b.holder
<1>1. b \in Boards /\ n \in Sets /\ b.notes \in [Guests -> Sets]
  BY DEF BoardOK, Boards, NotesOK
<1> DEFINE changed == [b.notes EXCEPT ![p] = n]
<1>2. changed \in [Guests -> Sets] /\ \A o \in Guests : changed[o] = IF o = p THEN n ELSE b.notes[o]
  BY <1>1
<1> HIDE DEF changed
<1>3. d = [b EXCEPT !.notes = changed]
  BY DEF changed
<1>4. /\ d.surfaces = b.surfaces /\ d.arrivals = b.arrivals /\ d.holder = b.holder /\ d.hover = b.hover
      /\ d.notes = changed /\ d \in Boards
  BY <1>1, <1>2, <1>3 DEF Boards
<1>5. SurfacesOK(d.surfaces, att, ctx, str)
  BY <1>4 DEF BoardOK
<1>6. \A o \in Guests : NotesOK(d.notes[o], o, att, ctx)
  BY <1>2, <1>4 DEF BoardOK
<1>7. \A o \in Guests : /\ (d.notes[o].shown <=> b.notes[o].shown) /\ d.notes[o].offer = b.notes[o].offer
                        /\ d.notes[o].revision = b.notes[o].revision
  BY <1>2, <1>4
<1>8. d.hover # NoHover => d.notes[d.hover.owner].shown
  <2>1. d.hover # NoHover => d.hover.owner \in Guests
    BY <1>1, <1>4 DEF Boards, Hovers
  <2>2. HoverOK(b.hover, b.notes, b.holder["place"], pg)
    BY DEF BoardOK
  <2> QED BY <2>1, <2>2, <1>4, <1>7 DEF HoverOK
<1>9. d.hover # NoHover =>
        /\ b.hover # NoHover /\ d.hover.owner = b.hover.owner /\ d.hover.revision = b.hover.revision
        /\ d.hover.page = b.hover.page /\ d.notes[d.hover.owner].shown
  BY <1>4, <1>8
<1>10. \A o \in Guests : d.notes[o].shown =>
         b.notes[o].shown /\ d.notes[o].offer = b.notes[o].offer /\ d.notes[o].revision = b.notes[o].revision
  BY <1>7
<1>11. \A o \in Guests : b.notes[o].shown => d.notes[o].shown
  BY <1>7
<1>12. d \in Boards /\ d.arrivals = b.arrivals /\ d.holder = b.holder
  BY <1>4
<1>13. BoardOK(d, att, ctx, str, pg) /\ HoldersOK(d)
  BY ONLY BoardOK(b, att, ctx, str, pg), HoldersOK(b), <1>5, <1>6, <1>9, <1>10, <1>11, <1>12, LikeSound
<1> QED BY <1>4, <1>13

\* What is drawn changes as it may.
LEMMA DrawnSound ==
  ASSUME NEW b, NEW att, NEW ctx, NEW str, NEW pg, BoardOK(b, att, ctx, str, pg), HoldersOK(b),
         NEW surfaces \in SUBSET Placed, NEW str2, SurfacesOK(surfaces, att, ctx, str2),
         NEW d, d = [b EXCEPT !.surfaces = surfaces]
  PROVE  /\ BoardOK(d, att, ctx, str2, pg) /\ HoldersOK(d)
         /\ d.arrivals = b.arrivals /\ d.holder = b.holder
<1>1. /\ d.surfaces = surfaces /\ d.arrivals = b.arrivals /\ d.holder = b.holder /\ d.hover = b.hover
      /\ d.notes = b.notes /\ d \in Boards
  BY DEF Boards, BoardOK
<1>2. \A o \in Guests : NotesOK(d.notes[o], o, att, ctx)
  BY <1>1 DEF BoardOK
<1>3. d.hover # NoHover => d.notes[d.hover.owner].shown
  BY <1>1 DEF BoardOK, HoverOK
<1>4. SurfacesOK(d.surfaces, att, ctx, str2)
  BY <1>1
<1>5. d.hover # NoHover =>
        /\ b.hover # NoHover /\ d.hover.owner = b.hover.owner /\ d.hover.revision = b.hover.revision
        /\ d.hover.page = b.hover.page /\ d.notes[d.hover.owner].shown
  BY <1>1, <1>3
<1>6. \A o \in Guests : d.notes[o].shown =>
        b.notes[o].shown /\ d.notes[o].offer = b.notes[o].offer /\ d.notes[o].revision = b.notes[o].revision
  BY <1>1
<1>7. /\ d \in Boards /\ d.arrivals = b.arrivals /\ d.holder = b.holder
      /\ \A o \in Guests : b.notes[o].shown => d.notes[o].shown
  BY <1>1
<1>8. BoardOK(d, att, ctx, str2, pg) /\ HoldersOK(d)
  BY <1>2, <1>4, <1>5, <1>6, <1>7, LikeSound
<1> QED BY <1>1, <1>8

\* Nothing is shown.
LEMMA EmptySound ==
  ASSUME NEW att, NEW ctx, NEW str, NEW pg
  PROVE  BoardOK(EmptyBoard, att, ctx, str, pg) /\ HoldersOK(EmptyBoard)
<1>1. /\ EmptyBoard.surfaces = {} /\ EmptyBoard.notes = [o \in Guests |-> NoNotes] /\ EmptyBoard.hover = NoHover
      /\ EmptyBoard.arrivals = [c \in Claims |-> {}] /\ EmptyBoard.holder = [c \in Claims |-> Nobody]
  BY DEF EmptyBoard
<1>2. \A o \in Guests : EmptyBoard.notes[o] = NoNotes
  BY <1>1
<1>3. EmptyBoard \in Boards
  <2>1. [o \in Guests |-> NoNotes] \in [Guests -> Sets]
    BY NoNotesOK
  <2> QED BY <2>1 DEF Boards, EmptyBoard
<1>4. InLine({}) = {} /\ Ordered({})
  BY DEF InLine, Ordered
<1>5. \A c \in Claims : LineOK(EmptyBoard.arrivals[c], EmptyBoard.holder[c], EmptyBoard.notes, c)
  BY <1>1, <1>2, <1>4, NoNotesOK DEF LineOK
<1>6. HoldersOK(EmptyBoard)
  BY <1>1, <1>2, <1>4, NoNotesOK DEF HoldersOK
<1>7. SurfacesOK(EmptyBoard.surfaces, att, ctx, str)
  BY <1>1, FS_EmptySet DEF SurfacesOK
<1>8. HoverOK(EmptyBoard.hover, EmptyBoard.notes, EmptyBoard.holder["place"], pg)
  BY <1>1 DEF HoverOK
<1> QED BY <1>2, <1>3, <1>5, <1>6, <1>7, <1>8, NoNotesOK DEF BoardOK

\* One guest takes its set away, and leaves every line.
LEMMA WithoutSound ==
  ASSUME NEW b, NEW att, NEW ctx, NEW str, NEW pg, BoardOK(b, att, ctx, str, pg), NEW p \in Guests,
         NEW d, d = Without(b, p)
  PROVE  /\ BoardOK(d, att, ctx, str, pg)
         /\ d.holder = b.holder /\ d.notes[p] = NoNotes /\ d.surfaces = b.surfaces
         /\ \A c \in Claims : d.arrivals[c] \subseteq b.arrivals[c]
         /\ \A o \in Guests : d.notes[o] = NoNotes \/ d.notes[o] = b.notes[o]
<1>1. b \in Boards /\ b.notes \in [Guests -> Sets] /\ b.arrivals \in [Claims -> SUBSET (Guests \X Guests)]
  BY DEF BoardOK, Boards
<1> DEFINE notes == [b.notes EXCEPT ![p] = NoNotes]
           hover == IF b.hover.owner = p THEN NoHover ELSE b.hover
           line == [c \in Claims |-> Kept(b.arrivals[c], Guests \ {p})]
<1>2. d = [b EXCEPT !.notes = notes, !.hover = hover, !.arrivals = line]
  BY DEF Without, Hidden
<1>3. notes \in [Guests -> Sets] /\ \A o \in Guests : notes[o] = IF o = p THEN NoNotes ELSE b.notes[o]
  BY <1>1, NoNotesOK
<1>4. hover \in Hovers \union {NoHover}
  BY <1>1 DEF Boards
<1>5. ASSUME NEW c \in Claims
      PROVE  /\ InLine(line[c]) = InLine(b.arrivals[c]) \ {p}
             /\ Ordered(line[c]) /\ line[c] \subseteq b.arrivals[c]
             /\ line[c] \in SUBSET (Guests \X Guests)
  <2> DEFINE old == b.arrivals[c]
             rest == Guests \ {p}
  <2>1. Ordered(old) /\ old \in SUBSET (Guests \X Guests)
    BY <1>1 DEF BoardOK, LineOK
  <2>2. line[c] = Kept(old, rest) /\ InLine(old) \subseteq Guests
    BY DEF InLine
  <2> HIDE DEF old, rest, line
  <2>3. /\ InLine(line[c]) = InLine(old) \intersect rest
        /\ Ordered(line[c]) /\ line[c] \subseteq old
    BY <2>1, <2>2, KeptLine
  <2> QED BY <2>1, <2>2, <2>3 DEF old, rest
<1>6. line \in [Claims -> SUBSET (Guests \X Guests)]
  BY <1>5
<1> HIDE DEF notes, hover, line
<1>7. /\ d.surfaces = b.surfaces /\ d.holder = b.holder /\ d.arrivals = line /\ d.notes = notes
      /\ d.hover = hover /\ d \in Boards
  BY <1>1, <1>2, <1>3, <1>4, <1>6 DEF Boards
<1>8. \A o \in Guests : NotesOK(d.notes[o], o, att, ctx)
  BY <1>3, <1>7, NoNotesOK DEF BoardOK
<1>9. \A c \in Claims : LineOK(d.arrivals[c], d.holder[c], d.notes, c)
  <2> TAKE c \in Claims
  <2>1. LineOK(b.arrivals[c], b.holder[c], b.notes, c) /\ b.holder[c] \in Guests \union {Nobody}
    BY <1>1 DEF BoardOK, Boards
  <2> QED BY <2>1, <1>3, <1>5, <1>7, NoNotesOK DEF LineOK
<1>10. HoverOK(d.hover, d.notes, d.holder["place"], pg)
  <2> SUFFICES ASSUME d.hover # NoHover
               PROVE  /\ d.hover.page = pg
                      /\ d.notes[d.hover.owner].shown
                      /\ d.hover.revision <= d.notes[d.hover.owner].revision
                      /\ d.hover.revision = d.notes[d.hover.owner].revision => d.holder["place"] = d.hover.owner
    BY DEF HoverOK
  <2>1. d.hover = b.hover /\ b.hover.owner # p
    BY <1>7 DEF hover
  <2>2. b.hover.owner \in Guests
    BY <1>1, <2>1 DEF Boards, Hovers
  <2>3. HoverOK(b.hover, b.notes, b.holder["place"], pg)
    BY DEF BoardOK
  <2> QED BY <2>1, <2>2, <2>3, <1>3, <1>7 DEF HoverOK
<1>11. SurfacesOK(d.surfaces, att, ctx, str)
  BY <1>7 DEF BoardOK
<1>12. BoardOK(d, att, ctx, str, pg)
  BY <1>7, <1>8, <1>9, <1>10, <1>11 DEF BoardOK
<1> QED BY <1>3, <1>5, <1>7, <1>12

-----------------------------------------------------------------------------
\* Who wants a claim waits for it.
LEMMA WantingWaits ==
  ASSUME NEW b, NEW att, NEW ctx, NEW str, NEW pg, BoardOK(b, att, ctx, str, pg),
         NEW o \in Guests, NEW c \in Claims, b.notes[o].shown
  PROVE  o \in InLine(b.arrivals[c]) <=> c \in b.notes[o].offer.flags
BY DEF BoardOK, LineOK

\* The claims stay where they are, or go to who is first of those that wait: of two of
\* whom the later was waiting already, both were.
Passes(c) ==
  \/ board'.holder[c] = board.holder[c]
  \/ /\ board'.holder[c] = Successor(board.holder[c], board'.arrivals[c])
     /\ \A o, w \in Guests : <<o, w>> \in board'.arrivals[c] /\ Wants(w, c) /\ ~Over(board.notes[w]) =>
          Wants(o, c) /\ <<o, w>> \in board.arrivals[c]

LEMMA PassesOrderly ==
  ASSUME BoardIInv', \A c \in Claims : Passes(c)
  PROVE  Orderly
<1>0. BoardOK(board', attached', context', stream', page') /\ HoldersOK(board')
  BY DEF BoardIInv
<1> SUFFICES ASSUME NEW c \in Claims
             PROVE  /\ \A o \in Guests : board.holder[c] = o /\ board'.holder[c] # o =>
                         Over(board.notes[o]) \/ ~Wants(o, c)'
                    /\ board'.holder[c] = Nobody => \A o \in Guests : ~Wants(o, c)'
                    /\ \A o, w \in Guests :
                         board'.holder[c] = o /\ board.holder[c] # o /\ w # o /\ Wants(w, c)' /\ Wants(w, c)
                           /\ ~Over(board.notes[w])
                         => Wants(o, c) /\ <<o, w>> \in board.arrivals[c]
  BY DEF Orderly
<1> DEFINE line == board'.arrivals[c]
<1>1. \A o \in Guests : Wants(o, c)' => o \in InLine(line)
  <2> SUFFICES ASSUME NEW o \in Guests, Wants(o, c)' PROVE o \in InLine(line)
    OBVIOUS
  <2>1. board'.notes[o].shown /\ c \in board'.notes[o].offer.flags
    BY DEF Wants
  <2> QED BY <1>0, <2>1, WantingWaits
<1>2. Ordered(line)
  BY <1>0 DEF BoardOK, LineOK
<1>3. IF InLine(line) = {} THEN board'.holder[c] = Nobody ELSE board'.holder[c] \in InLine(line)
  BY <1>0 DEF HoldersOK
<1>4. ASSUME NEW o \in Guests, board.holder[c] = o, board'.holder[c] # o, Wants(o, c)'
      PROVE  FALSE
  <2>1. board'.holder[c] = Successor(board.holder[c], line)
    BY <1>4 DEF Passes
  <2> QED BY <1>1, <1>4, <2>1 DEF Successor
<1>5. ASSUME board'.holder[c] = Nobody, NEW o \in Guests, Wants(o, c)'
      PROVE  FALSE
  <2>1. o \in InLine(line)
    BY <1>1, <1>5
  <2>2. Nobody \in InLine(line)
    BY <1>3, <1>5, <2>1
  <2>3. InLine(line) \subseteq Guests
    BY DEF InLine
  <2> QED BY <2>2, <2>3
<1>6. ASSUME NEW o \in Guests, NEW w \in Guests, board'.holder[c] = o, board.holder[c] # o, Wants(w, c)',
             Wants(w, c), ~Over(board.notes[w])
      PROVE  Wants(o, c) /\ <<o, w>> \in board.arrivals[c]
  <2>1. /\ board'.holder[c] = Successor(board.holder[c], line)
        /\ \A u, v \in Guests : <<u, v>> \in line /\ Wants(v, c) /\ ~Over(board.notes[v]) =>
             Wants(u, c) /\ <<u, v>> \in board.arrivals[c]
    BY <1>6 DEF Passes
  <2>2. w \in InLine(line)
    BY <1>1, <1>6
  <2>3. o = Foremost(line)
    BY <2>1, <2>2, <1>6 DEF Successor
  <2>4. <<Foremost(line), w>> \in line
    <3> HIDE DEF line
    <3> QED BY <1>2, <2>2, ForemostIsFirst
  <2>5. <<o, w>> \in line
    BY <2>3, <2>4
  <2> QED BY <2>1, <2>5, <1>6
<1> QED BY <1>4, <1>5, <1>6

\* Nothing is left to claim.
LEMMA EmptyOrderly ==
  ASSUME board' = EmptyBoard
  PROVE  Orderly
<1>1. \A o \in Guests : ~board'.notes[o].shown
  BY NoNotesOK DEF EmptyBoard
<1>2. \A c \in Claims : board'.holder[c] = Nobody
  BY DEF EmptyBoard
<1>3. \A o \in Guests, c \in Claims : ~Wants(o, c)'
  BY <1>1 DEF Wants
<1> QED BY <1>2, <1>3 DEF Orderly

\* expire, of what is there or of less, passes the claims on.
LEMMA ExpirePasses ==
  ASSUME NEW b, NEW att, NEW ctx, NEW str, NEW pg, BoardOK(b, att, ctx, str, pg),
         b.holder = board.holder,
         \A c \in Claims : b.arrivals[c] \subseteq board.arrivals[c],
         \A o \in Guests : b.notes[o] = NoNotes \/ b.notes[o] = board.notes[o],
         NEW e, e = Expire(b), board'.holder = e.holder, board'.arrivals = e.arrivals
  PROVE  \A c \in Claims : Passes(c)
<1> TAKE c \in Claims
<1>1. b \in Boards
  BY DEF BoardOK
<1>2. e.notes = Remaining(b) /\ e.holder[c] = Successor(b.holder[c], e.arrivals[c]) /\ e.arrivals = Waiting(b)
  BY <1>1, ExpireShape
<1>3. BoardOK(e, att, ctx, str, pg) /\ Settled(e)
  BY ExpireSound
<1>4. e.arrivals[c] \subseteq b.arrivals[c]
  <2>1. e.arrivals[c] = Kept(b.arrivals[c], {o \in Guests : Remaining(b)[o].shown})
    BY <1>2 DEF Waiting
  <2> QED BY <2>1 DEF Kept
<1>5. ASSUME NEW o \in Guests, NEW w \in Guests, <<o, w>> \in e.arrivals[c]
      PROVE  Wants(o, c) /\ <<o, w>> \in board.arrivals[c]
  <2>1. o \in InLine(e.arrivals[c])
    <3>1. Ordered(e.arrivals[c])
      BY <1>3 DEF BoardOK, LineOK
    <3> QED BY <3>1, <1>5 DEF Ordered
  <2>2. e.notes[o].shown
    BY <2>1, <1>3 DEF Settled
  <2>3. e.notes[o] = board.notes[o]
    <3>1. e.notes[o] = IF Over(b.notes[o]) THEN NoNotes ELSE b.notes[o]
      BY <1>2 DEF Remaining
    <3> QED BY <3>1, <2>2, NoNotesOK
  <2>4. c \in e.notes[o].offer.flags
    BY <2>1, <2>2, <1>3, WantingWaits
  <2> QED BY <2>2, <2>3, <2>4, <1>4, <1>5 DEF Wants
<1> QED BY <1>2, <1>5 DEF Passes

-----------------------------------------------------------------------------
(* Every step keeps the board sound and the claims orderly.                *)

StepOK == BoardIInv' /\ Orderly

\* A step that leaves what is around the board, and brings a sound one.
LEMMA AroundSame ==
  ASSUME BoardIInv, UNCHANGED <<attached, enabled, page, views, editor>>,
         BoardOK(board', attached, context, stream, page), HoldersOK(board')
  PROVE  BoardIInv'
<1>1. /\ attached' = attached /\ enabled' = enabled /\ page' = page /\ editor' = editor
      /\ context' = context /\ map' = map /\ projected' = projected /\ stream' = stream /\ sonar' = sonar
  BY DEF views
<1> QED BY <1>1 DEF BoardIInv

\* The same, when the claims pass.
LEMMA BoardStep ==
  ASSUME BoardIInv, UNCHANGED <<attached, enabled, page, views, editor>>,
         BoardOK(board', attached, context, stream, page), HoldersOK(board'),
         \A c \in Claims : Passes(c)
  PROVE  StepOK
BY AroundSame, PassesOrderly DEF StepOK

\* What expire makes of the board, with the selection or without.
LEMMA Expired ==
  ASSUME BoardIInv, NEW b, b = board \/ b = [board EXCEPT !.hover = NoHover], NEW e, e = Expire(b)
  PROVE  /\ BoardOK(e, attached, context, stream, page) /\ HoldersOK(e) /\ Settled(e)
         /\ board'.holder = e.holder /\ board'.arrivals = e.arrivals => \A c \in Claims : Passes(c)
<1>1. BoardOK(board, attached, context, stream, page) /\ HoldersOK(board) /\ board \in Boards
  BY DEF BoardIInv, BoardOK
<1>2. /\ BoardOK(b, attached, context, stream, page)
      /\ b.holder = board.holder /\ b.arrivals = board.arrivals /\ b.notes = board.notes
  <2>1. CASE b = board
    BY <2>1, <1>1
  <2>2. CASE b = [board EXCEPT !.hover = NoHover]
    <3>1. /\ b \in Boards /\ b.holder = board.holder /\ b.arrivals = board.arrivals /\ b.notes = board.notes
          /\ b.surfaces = board.surfaces /\ b.hover = NoHover
      BY <2>2, <1>1 DEF Boards
    <3>2. HoverOK(b.hover, b.notes, b.holder["place"], page)
      BY <3>1 DEF HoverOK
    <3>3. BoardOK(b, attached, context, stream, page)
      BY <3>1, <3>2, <1>1 DEF BoardOK
    <3> QED BY <3>1, <3>3
  <2> QED BY <2>1, <2>2
<1>3. BoardOK(e, attached, context, stream, page) /\ HoldersOK(e) /\ Settled(e)
  BY <1>2, ExpireSound
<1>4. ASSUME board'.holder = e.holder, board'.arrivals = e.arrivals
      PROVE  \A c \in Claims : Passes(c)
  BY <1>2, <1>4, ExpirePasses
<1> QED BY <1>3, <1>4

\* A step that does only that.
LEMMA ExpireStep ==
  ASSUME BoardIInv, UNCHANGED <<attached, enabled, page, views, editor>>,
         NEW b, b = board \/ b = [board EXCEPT !.hover = NoHover], board' = Expire(b)
  PROVE  StepOK
<1>1. PICK e : e = Expire(b)
  OBVIOUS
<1>2. BoardOK(e, attached, context, stream, page) /\ HoldersOK(e)
  BY <1>1, Expired
<1>3. board' = e
  BY <1>1
<1>4. \A c \in Claims : Passes(c)
  BY <1>1, <1>3, Expired
<1> QED BY <1>2, <1>3, <1>4, BoardStep

LEMMA ObserveStep == ASSUME BoardIInv, Observe PROVE StepOK
<1>1. board' = Expire(board) /\ UNCHANGED <<attached, enabled, page, views, editor>>
  BY DEF Observe
<1> QED BY <1>1, ExpireStep

LEMMA RefusedStep == ASSUME BoardIInv, Refused PROVE StepOK
<1>1. board' = Expire([board EXCEPT !.hover = NoHover]) /\ UNCHANGED <<attached, enabled, page, views, editor>>
  BY DEF Refused, Page
<1>2. PICK b : b = [board EXCEPT !.hover = NoHover]
  OBVIOUS
<1> QED BY <1>1, <1>2, ExpireStep

\* The queue without its first event.
LEMMA ShorterQueue ==
  ASSUME NEW n \in Sets, n.shown, EventsOK(n), n.events # <<>>, NEW m, m = [n EXCEPT !.events = Tail(@)]
  PROVE  /\ m \in Sets /\ EventsOK(m)
         /\ m.shown /\ m.offer = n.offer /\ m.revision = n.revision /\ m.context = n.context
         /\ m.hovered = n.hovered /\ m.deletions = n.deletions
<1> DEFINE tail == Tail(n.events)
<1>1. n.events \in Seq(Queued)
  BY DEF Sets
<1>2. /\ tail \in Seq(Queued) /\ Len(tail) = Len(n.events) - 1
      /\ \A k \in 1..Len(tail) : tail[k] = n.events[k + 1] /\ k + 1 \in 1..Len(n.events)
  BY <1>1
<1> HIDE DEF tail
<1>3. m = [n EXCEPT !.events = tail]
  BY DEF tail
<1>4. /\ m \in Sets /\ m.events = tail
      /\ m.shown /\ m.offer = n.offer /\ m.revision = n.revision /\ m.context = n.context
      /\ m.hovered = n.hovered /\ m.deletions = n.deletions
  BY <1>2, <1>3 DEF Sets
<1>5. Len(n.events) \in Nat
  BY <1>1
<1>6. EventsOK(m)
  BY <1>2, <1>4, <1>5 DEF EventsOK
<1> QED BY <1>4, <1>6

\* The queue with one more event.
LEMMA LongerEvents ==
  ASSUME NEW n \in Sets, EventsOK(n), NEW ev \in Queued, Len(n.events) < MaxQueue,
         ev.context = n.context, ev.version = n.offer.version, ev.revision = n.revision,
         NEW longer, longer = Append(n.events, ev)
  PROVE  /\ longer \in Seq(Queued) /\ Len(longer) <= MaxQueue
         /\ \A k \in 1..Len(longer) :
              /\ longer[k].context = n.context /\ longer[k].version = n.offer.version
              /\ longer[k].revision <= n.revision
<1>1. n.events \in Seq(Queued) /\ n.revision \in Nat
  BY DEF Sets
<1>2. /\ longer \in Seq(Queued) /\ Len(longer) = Len(n.events) + 1 /\ Len(n.events) \in Nat
      /\ \A k \in 1..Len(longer) :
           (k \in 1..Len(n.events) /\ longer[k] = n.events[k]) \/ longer[k] = ev
  BY <1>1
<1>3. ASSUME NEW k \in 1..Len(longer)
      PROVE  /\ longer[k].context = n.context /\ longer[k].version = n.offer.version
             /\ longer[k].revision <= n.revision
  <2>1. CASE k \in 1..Len(n.events) /\ longer[k] = n.events[k]
    BY <2>1 DEF EventsOK
  <2>2. CASE longer[k] = ev
    BY <2>2, <1>1
  <2> QED BY <2>1, <2>2, <1>2
<1> QED BY <1>2, <1>3

LEMMA LongerQueue ==
  ASSUME NEW n \in Sets, n.shown, EventsOK(n), NEW ev \in Queued, Len(n.events) < MaxQueue,
         ev.context = n.context, ev.version = n.offer.version, ev.revision = n.revision,
         NEW longer, longer = Append(n.events, ev), NEW m, m = [n EXCEPT !.events = longer]
  PROVE  /\ m \in Sets /\ EventsOK(m)
         /\ m.shown /\ m.offer = n.offer /\ m.revision = n.revision /\ m.context = n.context
         /\ m.hovered = n.hovered /\ m.deletions = n.deletions
<1>1. /\ longer \in Seq(Queued) /\ Len(longer) <= MaxQueue
      /\ \A k \in 1..Len(longer) :
           /\ longer[k].context = n.context /\ longer[k].version = n.offer.version
           /\ longer[k].revision <= n.revision
  BY LongerEvents
<1>2. /\ m \in Sets /\ m.events = longer
      /\ m.shown /\ m.offer = n.offer /\ m.revision = n.revision /\ m.context = n.context
      /\ m.hovered = n.hovered /\ m.deletions = n.deletions
  BY <1>1 DEF Sets
<1> QED BY <1>1, <1>2 DEF EventsOK

\* Both keep the deletions.
LEMMA QueueNotesOK ==
  ASSUME NEW n, NEW o, NEW att, NEW ctx, NotesOK(n, o, att, ctx), n.shown,
         NEW m \in Sets, EventsOK(m),
         m.shown, m.offer = n.offer, m.revision = n.revision, m.context = n.context,
         m.hovered = n.hovered, m.deletions = n.deletions
  PROVE  NotesOK(m, o, att, ctx)
<1>1. DeletionsOK(m)
  BY DEF DeletionsOK, NotesOK
<1> QED BY <1>1 DEF NotesOK

\* A guest's set is changed in place, after expire: the selection may have gone before.
LEMMA QueueStep ==
  ASSUME BoardIInv, UNCHANGED <<attached, enabled, page, views, editor>>,
         NEW b, b = board \/ b = [board EXCEPT !.hover = NoHover], NEW e, e = Expire(b),
         NEW o \in Guests, NEW m, NotesOK(m, o, attached, context),
         m.shown, e.notes[o].shown, m.offer = e.notes[o].offer, m.revision = e.notes[o].revision,
         board' = [e EXCEPT !.notes = [@ EXCEPT ![o] = m]]
  PROVE  StepOK
<1>1. BoardOK(e, attached, context, stream, page) /\ HoldersOK(e)
  BY Expired
<1> DEFINE d == board'
<1>2. d = [e EXCEPT !.notes = [@ EXCEPT ![o] = m]]
  OBVIOUS
<1> HIDE DEF d
<1>3. /\ BoardOK(d, attached, context, stream, page) /\ HoldersOK(d)
      /\ d.arrivals = e.arrivals /\ d.holder = e.holder
  BY <1>1, <1>2, QueuedSound
<1>4. \A c \in Claims : Passes(c)
  BY <1>3, Expired DEF d
<1> QED BY <1>3, <1>4, BoardStep DEF d

\* What a guest shows after expire.
LEMMA ShownNotes ==
  ASSUME BoardIInv, NEW b, b = board \/ b = [board EXCEPT !.hover = NoHover], NEW e, e = Expire(b),
         NEW o \in Guests
  PROVE  /\ NotesOK(e.notes[o], o, attached, context) /\ e.notes[o] \in Sets /\ EventsOK(e.notes[o])
         /\ e.notes[o].events # <<>> => e.notes[o].shown
         /\ e \in Boards
<1>1. BoardOK(e, attached, context, stream, page)
  BY Expired
<1>2. NotesOK(e.notes[o], o, attached, context)
  BY <1>1 DEF BoardOK
<1>3. ~e.notes[o].shown => e.notes[o].events = <<>>
  BY <1>2 DEF NotesOK, NoNotes
<1> QED BY <1>1, <1>2, <1>3 DEF BoardOK, NotesOK

\* An event about what is shown.
LEMMA EventFits ==
  ASSUME NEW n \in Sets, n.offer \in Offers, NEW a \in {"attach", "create", "update", "delete"},
         NEW i \in Items \union {0}
  PROVE  LET ev == Event(n, a, i) IN
         /\ ev \in Queued
         /\ ev.context = n.context /\ ev.version = n.offer.version /\ ev.revision = n.revision
<1>1. n.revision \in Nat /\ n.context \in Nat
  BY DEF Sets
<1>3. n.offer.version \in Versions
  BY DEF Versions
<1> QED BY <1>1, <1>3 DEF Event, Queued

LEMMA ReadEventStep ==
  ASSUME BoardIInv, NEW o \in Guests, NEW version, ReadEvent(o, version) PROVE StepOK
<1> DEFINE e == Expire(board)
           n == e.notes[o]
           m == [n EXCEPT !.events = Tail(@)]
<1>1. UNCHANGED <<attached, enabled, page, views, editor>>
  BY DEF ReadEvent, Guest
<1>2. n.events # <<>> /\ board' = [e EXCEPT !.notes = [@ EXCEPT ![o] = m]]
  BY DEF ReadEvent
<1>3. /\ NotesOK(n, o, attached, context) /\ n \in Sets /\ EventsOK(n) /\ n.shown
  BY <1>2, ShownNotes
<1> HIDE DEF n, e
<1>4. NotesOK(m, o, attached, context) /\ m.shown /\ m.offer = n.offer /\ m.revision = n.revision
  <2> HIDE DEF m
  <2>1. m = [n EXCEPT !.events = Tail(@)]
    BY DEF m
  <2>2. /\ m \in Sets /\ EventsOK(m)
        /\ m.shown /\ m.offer = n.offer /\ m.revision = n.revision /\ m.context = n.context
        /\ m.hovered = n.hovered /\ m.deletions = n.deletions
    BY <2>1, <1>2, <1>3, ShorterQueue
  <2> QED BY <2>2, <1>3, QueueNotesOK
<1> HIDE DEF m
<1> QED BY <1>1, <1>2, <1>3, <1>4, QueueStep DEF n, e

\* One more event for a set that is shown.
Lengthened(n, ev) == [n EXCEPT !.events = Append(n.events, ev)]

\* An event about what the set shows.
AboutShown(n, ev) ==
  /\ ev \in Queued
  /\ ev.context = n.context /\ ev.version = n.offer.version /\ ev.revision = n.revision

LEMMA OneMoreEvent ==
  ASSUME NEW n, NEW o, NEW att, NEW ctx, NotesOK(n, o, att, ctx), n.shown, Len(n.events) < MaxQueue,
         NEW ev, AboutShown(n, ev)
  PROVE  LET m == Lengthened(n, ev) IN
         NotesOK(m, o, att, ctx) /\ m.shown /\ m.offer = n.offer /\ m.revision = n.revision
<1>1. n \in Sets /\ EventsOK(n)
  BY DEF NotesOK
<1>2. ev \in Queued /\ ev.context = n.context /\ ev.version = n.offer.version /\ ev.revision = n.revision
  BY DEF AboutShown
<1>3. PICK longer : longer = Append(n.events, ev)
  OBVIOUS
<1>4. PICK m : m = [n EXCEPT !.events = longer]
  OBVIOUS
<1>5. n.shown /\ Len(n.events) < MaxQueue
  OBVIOUS
<1>6. /\ m \in Sets /\ EventsOK(m)
      /\ m.shown /\ m.offer = n.offer /\ m.revision = n.revision /\ m.context = n.context
      /\ m.hovered = n.hovered /\ m.deletions = n.deletions
  BY ONLY <1>1, <1>2, <1>3, <1>4, <1>5, LongerQueue, SMTT(40)
<1>7. m = Lengthened(n, ev)
  BY <1>3, <1>4 DEF Lengthened
<1> QED BY <1>6, <1>7, QueueNotesOK

\* What a script or the player may ask for fits what the set shows.
LEMMA AskedFits ==
  ASSUME NEW n, NEW o, NEW att, NEW ctx, NotesOK(n, o, att, ctx), n.shown,
         NEW a \in {"attach", "create", "update", "delete"}, NEW i, i = 0 \/ i \in n.offer.items
  PROVE  AboutShown(n, Event(n, a, i))
<1>1. n \in Sets /\ n.offer \in Offers
  BY DEF NotesOK
<1>2. i \in Items \union {0}
  BY <1>1 DEF Items
<1> QED BY <1>1, <1>2, EventFits DEF AboutShown

LEMMA EditStep ==
  ASSUME BoardIInv, NEW o \in Guests, Edit(o) PROVE StepOK
<1>1. UNCHANGED <<attached, enabled, page, views, editor>>
  BY DEF Edit, Page
<1>2. PICK b : b = [board EXCEPT !.hover = NoHover]
  OBVIOUS
<1>3. PICK e : e = Expire(b)
  OBVIOUS
<1>4. /\ e.notes[o].shown /\ Len(e.notes[o].events) < MaxQueue
      /\ \E ev \in Asked(e, o) : board' = [e EXCEPT !.notes[o].events = Append(@, ev)]
  BY <1>2, <1>3 DEF Edit
<1>5. PICK ev \in Asked(e, o) : board' = [e EXCEPT !.notes[o].events = Append(@, ev)]
  BY <1>4
<1>6. \E a \in {"attach", "create", "update", "delete"} : \E i :
        (i = 0 \/ i \in e.notes[o].offer.items) /\ ev = Event(e.notes[o], a, i)
  BY DEF Asked
<1>7. PICK a \in {"attach", "create", "update", "delete"} :
        \E i : (i = 0 \/ i \in e.notes[o].offer.items) /\ ev = Event(e.notes[o], a, i)
  BY <1>6
<1>8. PICK i : (i = 0 \/ i \in e.notes[o].offer.items) /\ ev = Event(e.notes[o], a, i)
  BY <1>7
<1>9. e.notes[o].shown /\ Len(e.notes[o].events) < MaxQueue
  BY <1>4
<1>10. PICK n : n = e.notes[o]
  OBVIOUS
<1>11. NotesOK(n, o, attached, context) /\ n.shown /\ Len(n.events) < MaxQueue
  BY <1>2, <1>3, <1>9, <1>10, ShownNotes
<1>12. AboutShown(n, ev)
  BY <1>8, <1>10, <1>11, AskedFits
<1>13. PICK m : m = Lengthened(n, ev)
  OBVIOUS
<1>14. board' = [e EXCEPT !.notes = [@ EXCEPT ![o] = m]]
  BY <1>5, <1>10, <1>13 DEF Lengthened
<1>15. NotesOK(m, o, attached, context) /\ m.shown /\ m.offer = n.offer /\ m.revision = n.revision
  BY ONLY <1>11, <1>12, <1>13, OneMoreEvent
<1> QED BY <1>1, <1>2, <1>3, <1>9, <1>10, <1>14, <1>15, QueueStep

LEMMA PlaceStep ==
  ASSUME BoardIInv, Place PROVE StepOK
<1>1. UNCHANGED <<attached, enabled, page, views, editor>>
  BY DEF Place, Player
<1> DEFINE e == Expire(board)
           o == e.holder["place"]
           n == e.notes[o]
<1>2. e = Expire(board)
  OBVIOUS
<1>3. o = e.holder["place"]
  OBVIOUS
<1>4. n = e.notes[o]
  OBVIOUS
<1>5. /\ o # Nobody /\ n.shown /\ n.events = <<>>
      /\ \E ev \in {Event(n, "delete", i) : i \in Editable(n)} \union
                   (IF "create" \in n.offer.flags THEN {Event(n, "create", 0)} ELSE {}) :
           board' = [e EXCEPT !.notes[o].events = <<ev>>]
  BY DEF Place
<1> HIDE DEF e, o, n
<1>6. e \in Boards /\ o \in Guests
  <2>1. e \in Boards /\ "place" \in Claims
    BY <1>2, Expired DEF BoardOK, Claims
  <2> QED BY <2>1, <1>3, <1>5 DEF Boards
<1>7. PICK ev : /\ \E a \in {"attach", "create", "update", "delete"} : \E i :
                     (i = 0 \/ i \in n.offer.items) /\ ev = Event(n, a, i)
                /\ board' = [e EXCEPT !.notes[o].events = <<ev>>]
  BY <1>5 DEF Editable
<1>8. PICK a \in {"attach", "create", "update", "delete"} :
         \E i : (i = 0 \/ i \in n.offer.items) /\ ev = Event(n, a, i)
  BY <1>7
<1>9. PICK i : (i = 0 \/ i \in n.offer.items) /\ ev = Event(n, a, i)
  BY <1>8
<1>10. NotesOK(n, o, attached, context) /\ n.shown /\ Len(n.events) < MaxQueue
  BY <1>2, <1>4, <1>5, <1>6, ShownNotes
<1>11. AboutShown(n, ev)
  BY <1>9, <1>10, AskedFits
<1>12. PICK m : m = Lengthened(n, ev)
  OBVIOUS
<1>13. board' = [e EXCEPT !.notes = [@ EXCEPT ![o] = m]]
  BY <1>4, <1>5, <1>7, <1>12 DEF Lengthened
<1>14. NotesOK(m, o, attached, context) /\ m.shown /\ m.offer = n.offer /\ m.revision = n.revision
  BY ONLY <1>10, <1>11, <1>12, OneMoreEvent
<1>15. e.notes[o].shown /\ m.offer = e.notes[o].offer /\ m.revision = e.notes[o].revision /\ m.shown
  BY <1>4, <1>10, <1>14
<1> QED BY <1>1, <1>2, <1>6, <1>13, <1>14, <1>15, QueueStep

\* A press of the key is remembered; the event it asks for may be there already.
LEMMA RememberedPress ==
  ASSUME NEW n, NEW o, NEW att, NEW ctx, NotesOK(n, o, att, ctx), n.shown, NEW item \in Items,
         NEW m, m = [n EXCEPT !.hovered = @ \union {item}]
  PROVE  NotesOK(m, o, att, ctx) /\ m.offer = n.offer /\ m.revision = n.revision /\ m.shown
<1>1. n \in Sets
  BY DEF NotesOK
<1>2. /\ m \in Sets /\ m.hovered = n.hovered \union {item}
      /\ m.shown /\ m.offer = n.offer /\ m.revision = n.revision /\ m.context = n.context
      /\ m.events = n.events /\ m.deletions = n.deletions
  BY <1>1 DEF Sets
<1>3. EventsOK(m) /\ DeletionsOK(m)
  BY <1>2 DEF NotesOK, EventsOK, DeletionsOK
<1> QED BY <1>1, <1>2, <1>3 DEF NotesOK

\* The first press on an item asks for its deletion.
LEMMA AskedDeletion ==
  ASSUME NEW n, NEW o, NEW att, NEW ctx, NotesOK(n, o, att, ctx), n.shown, NEW item \in Items,
         item \notin n.hovered, Len(n.events) < MaxQueue,
         NEW ev, ev = Event(n, "delete", item),
         NEW longer, longer = Append(n.events, ev),
         NEW asked, asked = Append(n.deletions, <<n.revision, item>>),
         NEW m \in Sets, m.events = longer, m.hovered = n.hovered \union {item}, m.deletions = asked,
         m.shown, m.offer = n.offer, m.revision = n.revision, m.context = n.context
  PROVE  NotesOK(m, o, att, ctx)
<1>1. n \in Sets /\ n.offer \in Offers /\ EventsOK(n) /\ DeletionsOK(n)
  BY DEF NotesOK
<1>2. /\ n.events \in Seq(Queued) /\ n.revision \in Nat /\ n.deletions \in Seq(Nat \X Items)
      /\ n.hovered \subseteq Items
  BY <1>1 DEF Sets
<1>3. ev \in Queued /\ ev.context = n.context /\ ev.version = n.offer.version /\ ev.revision = n.revision
  BY <1>1, EventFits
<1>4. EventsOK(m)
  <2>1. /\ longer \in Seq(Queued) /\ Len(longer) = Len(n.events) + 1 /\ Len(n.events) \in Nat
        /\ \A k \in 1..Len(longer) :
             (k \in 1..Len(n.events) /\ longer[k] = n.events[k]) \/ longer[k] = ev
    BY <1>2, <1>3
  <2>2. /\ Len(longer) <= MaxQueue
        /\ \A k \in 1..Len(longer) :
             /\ longer[k].context = n.context /\ longer[k].version = n.offer.version
             /\ longer[k].revision <= n.revision
    <3>1. Len(longer) <= MaxQueue
      BY <2>1
    <3>2. ASSUME NEW k \in 1..Len(longer)
          PROVE  /\ longer[k].context = n.context /\ longer[k].version = n.offer.version
                 /\ longer[k].revision <= n.revision
      <4>1. CASE k \in 1..Len(n.events) /\ longer[k] = n.events[k]
        BY <4>1, <1>1 DEF EventsOK
      <4>2. CASE longer[k] = ev
        BY <4>2, <1>2, <1>3
      <4> QED BY <4>1, <4>2, <2>1
    <3> QED BY <3>1, <3>2
  <2>3. m.events = longer /\ m.offer = n.offer /\ m.revision = n.revision /\ m.context = n.context
    OBVIOUS
  <2> QED BY ONLY <2>2, <2>3 DEF EventsOK
<1>5. DeletionsOK(m)
  <2> DEFINE del == n.deletions
             pair == <<n.revision, item>>
  <2>1. /\ asked \in Seq(Nat \X Items) /\ Len(asked) = Len(del) + 1 /\ Len(del) \in Nat
        /\ \A k \in 1..Len(del) : asked[k] = del[k]
        /\ asked[Len(del) + 1] = pair
    BY <1>2
  <2>2. \A k \in 1..Len(del) : del[k] # pair
    <3> SUFFICES ASSUME NEW k \in 1..Len(del), del[k] = pair PROVE FALSE
      OBVIOUS
    <3>1. del[k][1] = n.revision /\ del[k][2] = item
      OBVIOUS
    <3> QED BY <3>1, <1>1 DEF DeletionsOK
  <2>3. pair[1] = n.revision /\ pair[2] = item
    OBVIOUS
  <2>4. \A k \in 1..Len(asked) : k \in 1..Len(del) \/ k = Len(del) + 1
    BY <2>1
  <2> HIDE DEF pair
  <2>5. \A k \in 1..Len(asked) : /\ asked[k][1] <= n.revision
                                 /\ asked[k][1] = n.revision => asked[k][2] \in n.hovered \union {item}
    <3> TAKE k \in 1..Len(asked)
    <3>1. CASE k \in 1..Len(del)
      BY <3>1, <2>1, <1>1 DEF DeletionsOK
    <3>2. CASE k = Len(del) + 1
      BY <3>2, <2>1, <2>3, <1>2
    <3> QED BY <3>1, <3>2, <2>4
  <2>6. \A j, k \in 1..Len(asked) : asked[j] = asked[k] => j = k
    <3> SUFFICES ASSUME NEW j \in 1..Len(asked), NEW k \in 1..Len(asked), asked[j] = asked[k] PROVE j = k
      OBVIOUS
    <3>1. CASE j \in 1..Len(del) /\ k \in 1..Len(del)
      BY <3>1, <2>1, <1>1 DEF DeletionsOK
    <3>2. CASE j \in 1..Len(del) /\ k = Len(del) + 1
      BY <3>2, <2>1, <2>2
    <3>3. CASE j = Len(del) + 1 /\ k \in 1..Len(del)
      BY <3>3, <2>1, <2>2
    <3> QED BY <3>1, <3>2, <3>3, <2>4
  <2>7. m.deletions = asked /\ m.hovered = n.hovered \union {item} /\ m.revision = n.revision
    OBVIOUS
  <2> QED BY ONLY <2>5, <2>6, <2>7 DEF DeletionsOK
<1> QED BY <1>1, <1>4, <1>5 DEF NotesOK

LEMMA MarkerKeyStep ==
  ASSUME BoardIInv, MarkerKey PROVE StepOK
<1> DEFINE e == Expire(board)
           o == e.hover.owner
           n == e.notes[o]
           item == e.hover.item
           waits == \E ev \in ToSet(n.events) :
                      ev.action = "delete" /\ ev.revision = n.revision /\ ev.item = item
           pressed == [e EXCEPT !.notes[o].hovered = @ \union {item}]
           asked == [e EXCEPT !.notes[o] = [n EXCEPT
                       !.events = Append(@, Event(n, "delete", item)), !.hovered = @ \union {item},
                       !.deletions = Append(@, <<n.revision, item>>)]]
<1>1. e = Expire(board) /\ o = e.hover.owner /\ n = e.notes[o] /\ item = e.hover.item
  OBVIOUS
<1>2. UNCHANGED <<attached, enabled, page, views, editor>>
  BY DEF MarkerKey, Player
<1>3. e.hover # NoHover
  BY DEF MarkerKey
<1>4. board' = IF item \in n.hovered \/ Cardinality(n.hovered) >= MaxQueue THEN e
               ELSE IF waits THEN pressed
               ELSE IF Len(n.events) >= MaxQueue THEN e ELSE asked
  BY DEF MarkerKey
<1> HIDE DEF waits, pressed, asked
<1> HIDE DEF e, o, n, item
<1>5. \/ board' = e
      \/ board' = pressed
      \/ item \notin n.hovered /\ ~(Len(n.events) >= MaxQueue) /\ board' = asked
  BY <1>4
<1>6. BoardOK(e, attached, context, stream, page) /\ HoldersOK(e) /\ e \in Boards
  BY <1>1, Expired DEF BoardOK
<1>7. o \in Guests /\ item \in Items
  BY <1>1, <1>3, <1>6 DEF Boards, Hovers
<1>8. NotesOK(n, o, attached, context) /\ n \in Sets
  BY <1>1, <1>6, <1>7 DEF BoardOK, NotesOK
<1>9. n.shown
  BY <1>1, <1>3, <1>6 DEF BoardOK, HoverOK
<1>10. CASE board' = e
  BY <1>1, <1>2, <1>10, ExpireStep
<1>11. CASE board' = pressed
  <2>1. PICK m : m = [n EXCEPT !.hovered = @ \union {item}]
    OBVIOUS
  <2>2. NotesOK(m, o, attached, context) /\ m.offer = n.offer /\ m.revision = n.revision /\ m.shown
    BY ONLY <2>1, <1>7, <1>8, <1>9, RememberedPress
  <2>3. board' = [e EXCEPT !.notes = [@ EXCEPT ![o] = m]]
    BY <1>1, <1>11, <2>1 DEF pressed
  <2>4. e.notes[o].shown /\ m.offer = e.notes[o].offer /\ m.revision = e.notes[o].revision /\ m.shown
    BY <1>1, <1>9, <2>2
  <2> QED BY <1>1, <1>2, <1>7, <2>2, <2>3, <2>4, QueueStep
<1>12. CASE item \notin n.hovered /\ ~(Len(n.events) >= MaxQueue) /\ board' = asked
  <2> DEFINE longer == Append(n.events, Event(n, "delete", item))
             deletions == Append(n.deletions, <<n.revision, item>>)
             m == [n EXCEPT !.events = longer, !.hovered = @ \union {item}, !.deletions = deletions]
  <2>1. longer = Append(n.events, Event(n, "delete", item)) /\ deletions = Append(n.deletions, <<n.revision, item>>)
    OBVIOUS
  <2>3. board' = [e EXCEPT !.notes = [@ EXCEPT ![o] = m]]
    <3>1. board' = [e EXCEPT !.notes[o] = m]
      BY <1>12 DEF asked
    <3> HIDE DEF m
    <3> QED BY <3>1
  <2> HIDE DEF longer, deletions
  <2>2. m = [n EXCEPT !.events = longer, !.hovered = @ \union {item}, !.deletions = deletions]
    OBVIOUS
  <2> HIDE DEF m
  <2>4. Len(n.events) < MaxQueue /\ item \notin n.hovered
    <3>1. Len(n.events) \in Nat
      BY <1>8 DEF Sets
    <3> QED BY <3>1, <1>12
  <2>5. PICK ev : ev = Event(n, "delete", item)
    OBVIOUS
  <2>6. ev \in Queued /\ longer = Append(n.events, ev)
    <3>1. n.offer \in Offers
      BY <1>8, <1>9 DEF NotesOK
    <3>2. ev \in Queued
      BY ONLY <3>1, <1>7, <1>8, <2>5, EventFits
    <3> QED BY <3>2, <2>1, <2>5
  <2>7. /\ m \in Sets /\ m.events = longer /\ m.hovered = n.hovered \union {item} /\ m.deletions = deletions
        /\ m.shown /\ m.offer = n.offer /\ m.revision = n.revision /\ m.context = n.context
    <3>1. longer \in Seq(Queued) /\ deletions \in Seq(Nat \X Items)
      BY <1>7, <1>8, <2>1, <2>6 DEF Sets
    <3>2. n.hovered \union {item} \in SUBSET Items
      BY <1>7, <1>8 DEF Sets
    <3> QED BY <2>2, <1>8, <1>9, <3>1, <3>2 DEF Sets
  <2>8. NotesOK(m, o, attached, context)
    <3>1. deletions = Append(n.deletions, <<n.revision, item>>)
      BY <2>1
    <3> QED BY ONLY <1>7, <1>8, <1>9, <2>4, <2>5, <2>6, <2>7, <3>1, AskedDeletion
  <2>9. e.notes[o].shown /\ m.offer = e.notes[o].offer /\ m.revision = e.notes[o].revision /\ m.shown
    BY <1>1, <1>9, <2>7
  <2> QED BY <1>1, <1>2, <1>7, <2>3, <2>8, <2>9, QueueStep
<1> QED BY <1>5, <1>10, <1>11, <1>12

\* What is drawn changes, after expire.
LEMMA DrawnStep ==
  ASSUME BoardIInv, UNCHANGED <<attached, enabled, page, views, editor>>,
         NEW b, b = board \/ b = [board EXCEPT !.hover = NoHover], NEW e, e = Expire(b),
         NEW surfaces \in SUBSET Placed, SurfacesOK(surfaces, attached, context, stream),
         board' = [e EXCEPT !.surfaces = surfaces]
  PROVE  StepOK
<1>1. BoardOK(e, attached, context, stream, page) /\ HoldersOK(e)
  BY Expired
<1>2. PICK d : d = board'
  OBVIOUS
<1>3. /\ BoardOK(d, attached, context, stream, page) /\ HoldersOK(d)
      /\ d.arrivals = e.arrivals /\ d.holder = e.holder
  <2>1. d = [e EXCEPT !.surfaces = surfaces]
    BY <1>2
  <2> QED BY <1>1, <2>1, DrawnSound
<1>4. \A c \in Claims : Passes(c)
  BY <1>2, <1>3, Expired
<1> QED BY <1>2, <1>3, <1>4, BoardStep

LEMMA HideSurfaceStep ==
  ASSUME BoardIInv, NEW o \in Guests, NEW layer, HideSurface(o, layer) PROVE StepOK
<1> DEFINE e == Expire(board)
           few == {s \in e.surfaces : ~(s.owner = o /\ s.layer = layer)}
<1>1. UNCHANGED <<attached, enabled, page, views, editor>> /\ board' = [e EXCEPT !.surfaces = few]
  BY DEF HideSurface
<1>2. e = Expire(board) /\ few \in SUBSET e.surfaces
  OBVIOUS
<1> HIDE DEF e, few
<1>3. e \in Boards /\ SurfacesOK(e.surfaces, attached, context, stream)
  BY <1>2, Expired DEF BoardOK
<1>4. few \in SUBSET Placed /\ SurfacesOK(few, attached, context, stream)
  BY <1>2, <1>3, FewerSurfaces DEF Boards
<1> QED BY <1>1, <1>2, <1>4, DrawnStep

LEMMA PollStep ==
  ASSUME BoardIInv, Poll PROVE StepOK
<1> DEFINE b == [board EXCEPT !.hover = NoHover]
           e == Expire(b)
<1>0. PICK unseen \in SUBSET {s \in e.surfaces : s.layer = "sonar"} :
        board' = [e EXCEPT !.surfaces = {s \in @ \ unseen : s.layer = "sonar" => s.context = stream}]
  BY DEF Poll
<1> DEFINE few == {s \in e.surfaces \ unseen : s.layer = "sonar" => s.context = stream}
<1>1. UNCHANGED <<attached, enabled, page, views, editor>> /\ board' = [e EXCEPT !.surfaces = few]
  BY <1>0 DEF Poll, Page
<1>2. e = Expire(b) /\ b = [board EXCEPT !.hover = NoHover] /\ few \in SUBSET e.surfaces
  OBVIOUS
<1> HIDE DEF e, few, b
<1>3. e \in Boards /\ SurfacesOK(e.surfaces, attached, context, stream)
  BY <1>2, Expired DEF BoardOK
<1>4. few \in SUBSET Placed /\ SurfacesOK(few, attached, context, stream)
  BY <1>2, <1>3, FewerSurfaces DEF Boards
<1> QED BY <1>1, <1>2, <1>4, DrawnStep

\* One surface more than some of those that are drawn, if there is room.
LEMMA OneMore ==
  ASSUME NEW surfaces, NEW few \in SUBSET surfaces, NEW att, NEW ctx, NEW str, SurfacesOK(surfaces, att, ctx, str),
         NEW one, few # surfaces \/ Cardinality(surfaces) < MaxSurfaces,
         one.owner \in att, one.context = (CASE one.layer = "frame" -> 0 [] one.layer = "map" -> ctx [] OTHER -> str)
  PROVE  SurfacesOK(few \union {one}, att, ctx, str)
<1>1. /\ IsFiniteSet(surfaces) /\ Cardinality(surfaces) \in Nat /\ Cardinality(surfaces) <= MaxSurfaces
      /\ IsFiniteSet(few) /\ Cardinality(few) \in Nat /\ Cardinality(few) <= Cardinality(surfaces)
      /\ Cardinality(few) = Cardinality(surfaces) => few = surfaces
  BY FS_Subset, FS_CardinalityType DEF SurfacesOK
<1>2. /\ IsFiniteSet(few \union {one})
      /\ Cardinality(few \union {one}) = Cardinality(few) \/ Cardinality(few \union {one}) = Cardinality(few) + 1
  BY <1>1, FS_AddElement
<1>3. Cardinality(few) < MaxSurfaces
  BY <1>1
<1>4. Cardinality(few \union {one}) <= MaxSurfaces
  BY <1>1, <1>2, <1>3
<1>5. \A s \in few \union {one} :
        s.owner \in att /\ s.context = (CASE s.layer = "frame" -> 0 [] s.layer = "map" -> ctx [] OTHER -> str)
  BY DEF SurfacesOK
<1> QED BY <1>2, <1>4, <1>5 DEF SurfacesOK

LEMMA PublishStep ==
  ASSUME BoardIInv, NEW o \in Guests, NEW layer \in Layers, NEW for \in 0..MaxContext, Publish(o, layer, for)
  PROVE  StepOK
<1> DEFINE e == Expire(board)
           others == {s \in e.surfaces : ~(s.owner = o /\ s.layer = layer)}
           one == [owner |-> o, layer |-> layer, context |-> for, late |-> FALSE]
<1>1. /\ UNCHANGED <<attached, enabled, page, views, editor>> /\ o \in attached
      /\ for = ContextOf(layer)
      /\ e.surfaces # others \/ Cardinality(e.surfaces) < MaxSurfaces
      /\ \E seen \in BOOLEAN : board' = [e EXCEPT !.surfaces = others \union (IF seen THEN {one} ELSE {})]
  <2>1. o \in attached /\ UNCHANGED <<attached, enabled, page, views, editor>>
    BY DEF Publish, Guest
  <2>2. /\ for = ContextOf(layer)
        /\ e.surfaces # others \/ Cardinality(e.surfaces) < MaxSurfaces
        /\ \E seen \in (IF layer = "map" THEN BOOLEAN ELSE {TRUE}) :
             board' = [e EXCEPT !.surfaces = others \union (IF seen THEN {one} ELSE {})]
    BY DEF Publish
  <2>3. (IF layer = "map" THEN BOOLEAN ELSE {TRUE}) \subseteq BOOLEAN
    OBVIOUS
  <2> HIDE DEF e, others, one
  <2> QED BY <2>1, <2>2, <2>3
<1>2. e = Expire(board) /\ others \in SUBSET e.surfaces
  OBVIOUS
<1>3. /\ one.owner = o /\ one.layer = layer /\ one.context = for
      /\ for \in Nat => one \in Placed
  BY DEF Placed
<1> HIDE DEF e, others, one
<1>4. e \in Boards /\ SurfacesOK(e.surfaces, attached, context, stream)
  BY <1>2, Expired DEF BoardOK
<1>5. for = (CASE layer = "frame" -> 0 [] layer = "map" -> context [] OTHER -> stream) /\ for \in Nat
  BY <1>1 DEF ContextOf, BoardIInv
<1>6. SurfacesOK(others, attached, context, stream) /\ others \in SUBSET Placed
  BY <1>2, <1>4, FewerSurfaces DEF Boards
<1>7. SurfacesOK(others \union {one}, attached, context, stream)
  BY <1>1, <1>2, <1>3, <1>4, <1>5, OneMore
<1>8. PICK surfaces \in SUBSET Placed :
        SurfacesOK(surfaces, attached, context, stream) /\ board' = [e EXCEPT !.surfaces = surfaces]
  <2>1. \/ board' = [e EXCEPT !.surfaces = others \union {one}]
        \/ board' = [e EXCEPT !.surfaces = others \union {}]
    BY <1>1
  <2>2. others \union {} = others
    OBVIOUS
  <2>3. others \union {one} \in SUBSET Placed
    BY <1>3, <1>5, <1>6
  <2> QED BY <2>1, <2>2, <2>3, <1>6, <1>7
<1> QED BY <1>1, <1>2, <1>8, DrawnStep

LEMMA HideNotesStep ==
  ASSUME BoardIInv, NEW o \in Guests, HideNotes(o) PROVE StepOK
<1> DEFINE b == Without(board, o)
           e == Expire(b)
<1>1. board' = e /\ UNCHANGED <<attached, enabled, page, views, editor>>
  BY DEF HideNotes
<1>2. e = Expire(b) /\ b = Without(board, o)
  OBVIOUS
<1> HIDE DEF e, b
<1>3. BoardOK(board, attached, context, stream, page)
  BY DEF BoardIInv
<1>4. /\ BoardOK(b, attached, context, stream, page)
      /\ b.holder = board.holder
      /\ \A c \in Claims : b.arrivals[c] \subseteq board.arrivals[c]
      /\ \A q \in Guests : b.notes[q] = NoNotes \/ b.notes[q] = board.notes[q]
  BY <1>2, <1>3, WithoutSound
<1>5. BoardOK(e, attached, context, stream, page) /\ HoldersOK(e)
  BY <1>2, <1>4, ExpireSound
<1>6. \A c \in Claims : Passes(c)
  <2>1. board'.holder = e.holder /\ board'.arrivals = e.arrivals
    BY <1>1
  <2> QED BY <1>2, <1>4, <2>1, ExpirePasses
<1> QED BY <1>1, <1>5, <1>6, BoardStep

\* A guest that shows nothing leaves, or may have left.
LEMMA LeftSound ==
  ASSUME NEW w, NEW att, NEW ctx, NEW str, NEW pg, BoardOK(w, att, ctx, str, pg),
         NEW p \in Guests, w.notes[p] = NoNotes,
         NEW few \in SUBSET w.surfaces, \A s \in few : s.owner # p,
         NEW att2, att \ {p} \subseteq att2,
         NEW d, d = [w EXCEPT !.surfaces = few]
  PROVE  /\ BoardOK(d, att2, ctx, str, pg)
         /\ d.holder = w.holder /\ d.arrivals = w.arrivals /\ d.notes = w.notes
<1>4. SurfacesOK(few, att2, ctx, str)
  <2>1. SurfacesOK(few, att, ctx, str)
    <3>1. SurfacesOK(w.surfaces, att, ctx, str)
      BY DEF BoardOK
    <3> QED BY <3>1, FewerSurfaces
  <2> QED BY <2>1 DEF SurfacesOK
<1>5. /\ d.surfaces = few /\ d.notes = w.notes /\ d.hover = w.hover /\ d.arrivals = w.arrivals
      /\ d.holder = w.holder /\ d \in Boards
  BY DEF BoardOK, Boards
<1>6. \A o \in Guests : NotesOK(d.notes[o], o, att2, ctx)
  <2> TAKE o \in Guests
  <2>1. CASE o = p
    BY <2>1, <1>5, NoNotesOK
  <2>2. CASE o # p
    <3>1. NotesOK(w.notes[o], o, att, ctx)
      BY DEF BoardOK
    <3> QED BY <2>2, <3>1, <1>5 DEF NotesOK
  <2> QED BY <2>1, <2>2
<1>7. BoardOK(d, att2, ctx, str, pg)
  BY <1>4, <1>5, <1>6 DEF BoardOK
<1> QED BY <1>5, <1>7

LEMMA LeaveStep ==
  ASSUME BoardIInv, NEW o \in Guests, Detach(o) \/ Cancel(o) PROVE StepOK
<1> DEFINE w == Without(board, o)
           few == {s \in w.surfaces : s.owner # o}
           b == [w EXCEPT !.surfaces = few]
           e == Expire(b)
<1>1. /\ board' = e /\ UNCHANGED <<enabled, page, views, editor>>
      /\ attached' = attached \/ attached' = attached \ {o}
  BY DEF Detach, Cancel
<1>2. /\ e = Expire(b) /\ w = Without(board, o) /\ b = [w EXCEPT !.surfaces = few]
      /\ few \in SUBSET w.surfaces /\ \A s \in few : s.owner # o
  OBVIOUS
<1> HIDE DEF e, b, w, few
<1>3. BoardOK(board, attached, context, stream, page)
  BY DEF BoardIInv
<1>4. /\ BoardOK(b, attached', context, stream, page)
      /\ b.holder = board.holder
      /\ \A c \in Claims : b.arrivals[c] \subseteq board.arrivals[c]
      /\ \A q \in Guests : b.notes[q] = NoNotes \/ b.notes[q] = board.notes[q]
  <2>1. attached \ {o} \subseteq attached'
    BY <1>1
  <2>2. PICK att : att = attached'
    OBVIOUS
  <2>3. attached \ {o} \subseteq att
    BY <2>1, <2>2
  <2>4. /\ BoardOK(b, att, context, stream, page)
        /\ b.holder = board.holder
        /\ \A c \in Claims : b.arrivals[c] \subseteq board.arrivals[c]
        /\ \A q \in Guests : b.notes[q] = NoNotes \/ b.notes[q] = board.notes[q]
    <3>1. /\ BoardOK(w, attached, context, stream, page)
          /\ w.holder = board.holder /\ w.notes[o] = NoNotes
          /\ \A c \in Claims : w.arrivals[c] \subseteq board.arrivals[c]
          /\ \A q \in Guests : w.notes[q] = NoNotes \/ w.notes[q] = board.notes[q]
      BY <1>2, <1>3, WithoutSound
    <3>2. /\ BoardOK(b, att, context, stream, page)
          /\ b.holder = w.holder /\ b.arrivals = w.arrivals /\ b.notes = w.notes
      <4>1. BoardOK(w, attached, context, stream, page) /\ w.notes[o] = NoNotes
        BY <3>1
      <4>2. few \in SUBSET w.surfaces /\ (\A s \in few : s.owner # o) /\ b = [w EXCEPT !.surfaces = few]
        BY <1>2
      <4> QED BY ONLY o \in Guests, <2>3, <4>1, <4>2, LeftSound
    <3> QED BY <3>1, <3>2
  <2> QED BY <2>2, <2>4
<1>5. BoardOK(e, attached', context, stream, page) /\ HoldersOK(e)
  BY <1>2, <1>4, ExpireSound
<1>6. \A c \in Claims : Passes(c)
  <2>1. board'.holder = e.holder /\ board'.arrivals = e.arrivals
    BY <1>1
  <2> QED BY <1>2, <1>4, <2>1, ExpirePasses
<1>7. BoardIInv'
  <2>1. /\ enabled' = enabled /\ page' = page /\ editor' = editor
        /\ context' = context /\ map' = map /\ projected' = projected /\ stream' = stream /\ sonar' = sonar
    BY <1>1 DEF views
  <2> QED BY <1>1, <1>5, <2>1 DEF BoardIInv
<1> QED BY <1>6, <1>7, PassesOrderly DEF StepOK

LEMMA AttachStep ==
  ASSUME BoardIInv, NEW o \in Guests, Attach(o) PROVE StepOK
<1>1. /\ board' = board /\ enabled' = enabled /\ page' = page /\ editor' = editor
      /\ context' = context /\ map' = map /\ projected' = projected /\ stream' = stream /\ sonar' = sonar
      /\ attached' = attached \union {o}
  BY DEF Attach, views
<1>2. BoardOK(board, attached, context, stream, page)
  BY DEF BoardIInv
<1>3. BoardOK(board, attached \union {o}, context, stream, page)
  BY <1>2 DEF BoardOK, NotesOK, SurfacesOK
<1>4. BoardIInv'
  BY <1>1, <1>3 DEF BoardIInv, HoldersOK
<1>5. \A c \in Claims : Passes(c)
  BY <1>1 DEF Passes
<1> QED BY <1>4, <1>5, PassesOrderly DEF StepOK

LEMMA PageStep ==
  ASSUME BoardIInv, Enable \/ Disable \/ OpenPage PROVE StepOK
<1>1. CASE Enable
  <2>1. /\ board' = board /\ attached' = attached /\ page' = page /\ editor' = NoEditor /\ enabled' = TRUE
        /\ context' = context /\ map' = map /\ projected' = projected /\ stream' = stream /\ sonar' = sonar
    BY <1>1 DEF Enable, views
  <2>2. BoardIInv'
    BY <2>1 DEF BoardIInv, HoldersOK
  <2>3. \A c \in Claims : Passes(c)
    BY <2>1 DEF Passes
  <2> QED BY <2>2, <2>3, PassesOrderly DEF StepOK
<1>2. CASE Disable
  <2>1. /\ board' = EmptyBoard /\ attached' = attached /\ page' = page + 1 /\ editor' = editor /\ enabled' = FALSE
        /\ context' = context /\ map' = FALSE /\ projected' = FALSE /\ stream' = stream /\ sonar' = FALSE
    BY <1>2 DEF Disable
  <2>3. /\ ~enabled' /\ enabled' \in BOOLEAN /\ map' \in BOOLEAN /\ projected' \in BOOLEAN /\ sonar' \in BOOLEAN
    BY <2>1, Zenon
  <2>4. /\ attached' \in SUBSET Guests /\ page' \in Nat /\ context' \in Nat /\ stream' \in Nat
        /\ editor' \in Editors \union {NoEditor}
    BY <2>1 DEF BoardIInv
  <2>5. BoardOK(board', attached', context', stream', page') /\ HoldersOK(board')
    <3>1. BoardOK(EmptyBoard, attached', context', stream', page') /\ HoldersOK(EmptyBoard)
      BY EmptySound
    <3> QED BY <2>1, <3>1
  <2>2. BoardIInv'
    BY <2>3, <2>4, <2>5 DEF BoardIInv
  <2> QED BY <2>1, <2>2, EmptyOrderly DEF StepOK
<1>3. CASE OpenPage
  <2>1. /\ board' = EmptyBoard /\ attached' = attached /\ page' = page + 1 /\ editor' = NoEditor /\ enabled' = enabled
        /\ context' = context /\ map' = map /\ projected' = projected /\ stream' = stream /\ sonar' = sonar
    BY <1>3 DEF OpenPage, views
  <2>2. BoardIInv'
    BY <2>1, EmptySound DEF BoardIInv
  <2> QED BY <2>1, <2>2, EmptyOrderly DEF StepOK
<1> QED BY <1>1, <1>2, <1>3

LEMMA UpdateSonarStep ==
  ASSUME BoardIInv, UpdateSonar PROVE StepOK
<1>0. BoardOK(board, attached, context, stream, page) /\ HoldersOK(board) /\ board \in Boards
  BY DEF BoardIInv, BoardOK
<1>1. /\ attached' = attached /\ page' = page /\ editor' = editor /\ enabled' = enabled
      /\ context' = context /\ map' = map /\ projected' = projected /\ sonar' = TRUE
      /\ stream' = IF sonar THEN stream ELSE stream + 1
      /\ board' = IF sonar THEN board ELSE [board EXCEPT !.surfaces = {s \in @ : s.layer # "sonar"}]
  BY DEF UpdateSonar
<1>2. /\ BoardOK(board', attached, context, stream', page) /\ HoldersOK(board')
      /\ board'.holder = board.holder
  <2>1. CASE sonar
    BY <2>1, <1>0, <1>1 DEF HoldersOK
  <2>2. CASE ~sonar
    <3> DEFINE few == {s \in board.surfaces : s.layer # "sonar"}
    <3>1. board' = [board EXCEPT !.surfaces = few] /\ stream' = stream + 1
      BY <2>2, <1>1
    <3>2. \A s \in few : s.layer \in {"frame", "map"}
      <4>1. \A s \in few : s.layer \in Layers
        BY <1>0 DEF Boards, Placed
      <4> QED BY <4>1
    <3>3. SurfacesOK(few, attached, context, stream)
      <4>1. few \in SUBSET board.surfaces /\ SurfacesOK(board.surfaces, attached, context, stream)
        BY <1>0 DEF BoardOK
      <4> HIDE DEF few
      <4> QED BY <4>1, FewerSurfaces
    <3>4. few \in SUBSET Placed
      BY <1>0 DEF Boards
    <3> HIDE DEF few
    <3>5. SurfacesOK(few, attached, context, stream')
      BY <3>2, <3>3 DEF SurfacesOK
    <3>6. PICK d : d = board'
      OBVIOUS
    <3>7. PICK str : str = stream'
      OBVIOUS
    <3>8. BoardOK(d, attached, context, str, page) /\ HoldersOK(d) /\ d.holder = board.holder
      <4>1. d = [board EXCEPT !.surfaces = few] /\ SurfacesOK(few, attached, context, str)
        BY <3>1, <3>5, <3>6, <3>7
      <4> QED BY <1>0, <3>4, <4>1, DrawnSound
    <3> QED BY <3>6, <3>7, <3>8
  <2> QED BY <2>1, <2>2
<1>3. stream' \in Nat
  BY <1>1 DEF BoardIInv
<1>4. BoardIInv'
  BY <1>1, <1>2, <1>3 DEF BoardIInv
<1>5. \A c \in Claims : Passes(c)
  BY <1>2 DEF Passes
<1> QED BY <1>4, <1>5, PassesOrderly DEF StepOK

LEMMA UpdateMapStep ==
  ASSUME BoardIInv, NEW changed \in BOOLEAN, UpdateMap(changed) PROVE StepOK
<1>0. BoardOK(board, attached, context, stream, page) /\ HoldersOK(board) /\ board \in Boards
  BY DEF BoardIInv, BoardOK
<1>1. /\ attached' = attached /\ page' = page /\ editor' = editor /\ enabled' = enabled
      /\ stream' = stream /\ sonar' = sonar
      /\ context' = IF changed THEN context + 1 ELSE context
      /\ board' = IF changed
                  THEN [board EXCEPT !.hover = NoHover, !.notes = [o \in Guests |-> Hidden(@[o])],
                                     !.surfaces = {s \in @ : s.layer # "map"}]
                  ELSE board
  BY DEF UpdateMap
<1>2. projected' \in BOOLEAN /\ map' \in BOOLEAN
  <2>1. projected' = TRUE /\ map' = TRUE
    BY DEF UpdateMap
  <2> QED BY <2>1, Zenon
<1>3. /\ BoardOK(board', attached, context', stream, page) /\ HoldersOK(board')
      /\ board'.holder = board.holder
  <2>1. CASE ~changed
    BY <2>1, <1>0, <1>1 DEF HoldersOK
  <2>2. CASE changed
    <3> DEFINE few == {s \in board.surfaces : s.layer # "map"}
               none == [o \in Guests |-> NoNotes]
    <3>1. board' = [board EXCEPT !.hover = NoHover, !.notes = none, !.surfaces = few] /\ context' = context + 1
      BY <2>2, <1>1 DEF Hidden
    <3>2. \A s \in few : s.layer \in {"frame", "sonar"}
      <4>1. \A s \in few : s.layer \in Layers
        BY <1>0 DEF Boards, Placed
      <4> QED BY <4>1
    <3>3. SurfacesOK(few, attached, context, stream)
      <4>1. few \in SUBSET board.surfaces /\ SurfacesOK(board.surfaces, attached, context, stream)
        BY <1>0 DEF BoardOK
      <4> HIDE DEF few
      <4> QED BY <4>1, FewerSurfaces
    <3>4. few \in SUBSET Placed
      BY <1>0 DEF Boards
    <3>5. none \in [Guests -> Sets] /\ \A o \in Guests : none[o] = NoNotes
      BY NoNotesOK
    <3> HIDE DEF few, none
    <3>6. PICK d : d = board'
      OBVIOUS
    <3>7. PICK ctx : ctx = context'
      OBVIOUS
    <3>8. SurfacesOK(few, attached, ctx, stream)
      BY <3>2, <3>3 DEF SurfacesOK
    <3>9. /\ d.surfaces = few /\ d.notes = none /\ d.hover = NoHover /\ d.arrivals = board.arrivals
          /\ d.holder = board.holder /\ d \in Boards
      BY <1>0, <3>1, <3>4, <3>5, <3>6 DEF Boards
    <3>10. \A o \in Guests : NotesOK(d.notes[o], o, attached, ctx) /\ ~d.notes[o].shown
      BY <3>5, <3>9, NoNotesOK
    <3>11. SurfacesOK(d.surfaces, attached, ctx, stream)
      BY <3>8, <3>9
    <3>12. BoardOK(d, attached, ctx, stream, page) /\ HoldersOK(d)
      BY <1>0, <3>9, <3>10, <3>11, LikeSound
    <3> QED BY <3>6, <3>7, <3>9, <3>12
  <2> QED BY <2>1, <2>2
<1>4. context' \in Nat
  BY <1>1 DEF BoardIInv
<1>5. BoardIInv'
  BY <1>1, <1>2, <1>3, <1>4 DEF BoardIInv
<1>6. \A c \in Claims : Passes(c)
  BY <1>3 DEF Passes
<1> QED BY <1>5, <1>6, PassesOrderly DEF StepOK

\* The same set, late.
LEMMA LateNotes ==
  ASSUME NEW n, NEW o, NEW att, NEW ctx, NotesOK(n, o, att, ctx), n.shown, NEW m, m = [n EXCEPT !.late = TRUE]
  PROVE  NotesOK(m, o, att, ctx) /\ m.shown /\ m.offer = n.offer /\ m.revision = n.revision
<1>1. n \in Sets /\ TRUE \in BOOLEAN
  BY DEF NotesOK
<1>2. PICK late \in BOOLEAN : m = [n EXCEPT !.late = late]
  BY <1>1
<1>3. /\ m \in Sets /\ m.hovered = n.hovered
      /\ m.shown /\ m.offer = n.offer /\ m.revision = n.revision /\ m.context = n.context
      /\ m.events = n.events /\ m.deletions = n.deletions
  BY <1>1, <1>2 DEF Sets
<1>4. EventsOK(m) /\ DeletionsOK(m)
  BY <1>3 DEF NotesOK, EventsOK, DeletionsOK
<1> QED BY <1>1, <1>3, <1>4 DEF NotesOK

LEMMA LapseStep ==
  ASSUME BoardIInv, Lapse PROVE StepOK
<1>0. BoardOK(board, attached, context, stream, page) /\ HoldersOK(board) /\ board \in Boards
  BY DEF BoardIInv, BoardOK
<1>1. /\ attached' = attached /\ enabled' = enabled /\ page' = page /\ context' = context
      /\ projected' = projected /\ stream' = stream
  BY DEF Lapse
<1>2. ASSUME map' \in BOOLEAN, sonar' \in BOOLEAN, editor' \in {editor, NoEditor},
             BoardOK(board', attached, context, stream, page), HoldersOK(board'), board'.holder = board.holder
      PROVE  StepOK
  <2>1. BoardIInv'
    BY <1>1, <1>2 DEF BoardIInv
  <2>2. \A c \in Claims : Passes(c)
    BY <1>2 DEF Passes
  <2> QED BY <2>1, <2>2, PassesOrderly DEF StepOK
<1>3. ASSUME NEW s \in board.surfaces, UNCHANGED <<map, sonar, editor>>,
             board' = [board EXCEPT !.surfaces = (@ \ {s}) \union {[s EXCEPT !.late = TRUE]}]
      PROVE  StepOK
  <2> DEFINE few == board.surfaces \ {s}
             one == [s EXCEPT !.late = TRUE]
             surfaces == few \union {one}
  <2>1. s \in Placed /\ SurfacesOK(board.surfaces, attached, context, stream)
    BY <1>0 DEF BoardOK, Boards
  <2>2. one \in Placed /\ one.owner = s.owner /\ one.layer = s.layer /\ one.context = s.context
    BY <2>1 DEF Placed
  <2>3. one.owner \in attached
        /\ one.context = (CASE one.layer = "frame" -> 0 [] one.layer = "map" -> context [] OTHER -> stream)
    BY <2>1, <2>2 DEF SurfacesOK
  <2>4. few \in SUBSET board.surfaces /\ few # board.surfaces
    OBVIOUS
  <2>5. surfaces \in SUBSET Placed
    BY <1>0, <2>2 DEF Boards
  <2>6. board' = [board EXCEPT !.surfaces = surfaces]
    BY <1>3
  <2>7. surfaces = few \union {one}
    OBVIOUS
  <2> HIDE DEF surfaces, few, one
  <2>8. SurfacesOK(surfaces, attached, context, stream)
    BY <2>1, <2>3, <2>4, <2>7, OneMore
  <2>9. PICK d : d = board'
    OBVIOUS
  <2>10. BoardOK(d, attached, context, stream, page) /\ HoldersOK(d) /\ d.holder = board.holder
    <3>1. d = [board EXCEPT !.surfaces = surfaces]
      BY <2>6, <2>9
    <3> QED BY <1>0, <2>5, <2>8, <3>1, DrawnSound
  <2>11. map' \in BOOLEAN /\ sonar' \in BOOLEAN /\ editor' \in {editor, NoEditor}
    BY <1>3 DEF BoardIInv
  <2> QED BY <1>2, <2>9, <2>10, <2>11
<1>4. ASSUME NEW o \in Guests, board.notes[o].shown, UNCHANGED <<map, sonar, editor>>,
             board' = [board EXCEPT !.notes[o].late = TRUE]
      PROVE  StepOK
  <2>1. PICK n : n = board.notes[o]
    OBVIOUS
  <2>2. PICK m : m = [n EXCEPT !.late = TRUE]
    OBVIOUS
  <2>3. NotesOK(n, o, attached, context) /\ n.shown
    BY <1>0, <1>4, <2>1 DEF BoardOK
  <2>4. NotesOK(m, o, attached, context) /\ m.shown /\ m.offer = n.offer /\ m.revision = n.revision
    BY ONLY <2>2, <2>3, LateNotes
  <2>5. board' = [board EXCEPT !.notes = [@ EXCEPT ![o] = m]]
    BY <1>4, <2>1, <2>2
  <2>6. PICK d : d = board'
    OBVIOUS
  <2>7. BoardOK(d, attached, context, stream, page) /\ HoldersOK(d) /\ d.holder = board.holder
    <3>1. d = [board EXCEPT !.notes = [@ EXCEPT ![o] = m]]
      BY <2>5, <2>6
    <3>2. m.shown /\ board.notes[o].shown /\ m.offer = board.notes[o].offer /\ m.revision = board.notes[o].revision
      BY <1>4, <2>1, <2>4
    <3> QED BY <1>0, <2>4, <3>1, <3>2, QueuedSound
  <2>8. map' \in BOOLEAN /\ sonar' \in BOOLEAN /\ editor' \in {editor, NoEditor}
    BY <1>4 DEF BoardIInv
  <2> QED BY <1>2, <2>6, <2>7, <2>8
<1>5. ASSUME board.hover # NoHover, UNCHANGED <<map, sonar, editor>>, board' = [board EXCEPT !.hover.fresh = FALSE]
      PROVE  StepOK
  <2>1. PICK hover : hover = [board.hover EXCEPT !.fresh = FALSE]
    OBVIOUS
  <2>2. board.hover \in Hovers
    BY <1>0, <1>5 DEF Boards
  <2>3. FALSE \in BOOLEAN
    OBVIOUS
  <2>4. PICK fresh \in BOOLEAN : hover = [board.hover EXCEPT !.fresh = fresh]
    BY <2>1, <2>3
  <2>5. /\ hover \in Hovers /\ hover.owner = board.hover.owner /\ hover.revision = board.hover.revision
        /\ hover.page = board.hover.page
    BY <2>2, <2>4 DEF Hovers
  <2>6. PICK d : d = board'
    OBVIOUS
  <2>7. d = [board EXCEPT !.hover = hover]
    BY <1>5, <2>1, <2>6
  <2>8. /\ d.surfaces = board.surfaces /\ d.notes = board.notes /\ d.hover = hover /\ d.arrivals = board.arrivals
        /\ d.holder = board.holder /\ d \in Boards
    BY <1>0, <2>5, <2>7 DEF Boards
  <2>9. board.notes[board.hover.owner].shown
    BY <1>0, <1>5 DEF BoardOK, HoverOK
  <2>10. \A o \in Guests : NotesOK(d.notes[o], o, attached, context)
    BY <1>0, <2>8 DEF BoardOK
  <2>11. SurfacesOK(d.surfaces, attached, context, stream)
    BY <1>0, <2>8 DEF BoardOK
  <2>12. HoverOK(d.hover, d.notes, d.holder["place"], page)
    BY <1>0, <1>5, <2>5, <2>8, <2>9 DEF BoardOK, HoverOK
  <2>13. BoardOK(d, attached, context, stream, page) /\ HoldersOK(d)
    BY <1>0, <2>8, <2>12 DEF BoardOK, HoldersOK, Settled
  <2>14. map' \in BOOLEAN /\ sonar' \in BOOLEAN /\ editor' \in {editor, NoEditor}
    BY <1>5 DEF BoardIInv
  <2> QED BY <1>2, <2>6, <2>8, <2>13, <2>14
<1>6. ASSUME board' = board, editor' \in {editor, NoEditor}, map' \in BOOLEAN, sonar' \in BOOLEAN
      PROVE  StepOK
  BY <1>0, <1>2, <1>6
<1>7. \/ \E s \in board.surfaces :
           /\ board' = [board EXCEPT !.surfaces = (@ \ {s}) \union {[s EXCEPT !.late = TRUE]}]
           /\ UNCHANGED <<map, sonar, editor>>
      \/ \E o \in Guests : /\ board.notes[o].shown /\ board' = [board EXCEPT !.notes[o].late = TRUE]
                           /\ UNCHANGED <<map, sonar, editor>>
      \/ /\ board.hover # NoHover /\ board' = [board EXCEPT !.hover.fresh = FALSE]
         /\ UNCHANGED <<map, sonar, editor>>
      \/ map' = FALSE /\ UNCHANGED <<board, sonar, editor>>
      \/ sonar' = FALSE /\ UNCHANGED <<board, map, editor>>
      \/ editor' = NoEditor /\ UNCHANGED <<board, map, sonar>>
  BY DEF Lapse
<1>8. map \in BOOLEAN /\ sonar \in BOOLEAN
  BY DEF BoardIInv
<1>9. CASE map' = FALSE /\ UNCHANGED <<board, sonar, editor>>
  <2>1. map' \in BOOLEAN
    BY <1>9, Zenon
  <2> QED BY <1>6, <1>8, <1>9, <2>1
<1>10. CASE sonar' = FALSE /\ UNCHANGED <<board, map, editor>>
  <2>1. sonar' \in BOOLEAN
    BY <1>10, Zenon
  <2> QED BY <1>6, <1>8, <1>10, <2>1
<1>11. CASE editor' = NoEditor /\ UNCHANGED <<board, map, sonar>>
  BY <1>6, <1>8, <1>11
<1> QED BY <1>3, <1>4, <1>5, <1>7, <1>9, <1>10, <1>11

\* The pointer is over an item of the guest that holds the claim.
LEMMA HoverSound ==
  ASSUME NEW b, NEW att, NEW ctx, NEW str, NEW pg, BoardOK(b, att, ctx, str, pg), HoldersOK(b), Settled(b),
         NEW h \in Hovers, h.owner = b.holder["place"], h.revision = b.notes[h.owner].revision, h.page = pg,
         NEW d, d = [b EXCEPT !.hover = h]
  PROVE  /\ BoardOK(d, att, ctx, str, pg) /\ HoldersOK(d)
         /\ d.arrivals = b.arrivals /\ d.holder = b.holder
<1>1. b \in Boards
  BY DEF BoardOK
<1>2. /\ d.surfaces = b.surfaces /\ d.arrivals = b.arrivals /\ d.holder = b.holder /\ d.hover = h
      /\ d.notes = b.notes /\ d \in Boards
  BY <1>1 DEF Boards
<1>3. h.owner \in Guests /\ h.revision \in Nat /\ "place" \in Claims
  BY DEF Hovers, Claims
<1>4. h.owner \in InLine(b.arrivals["place"])
  BY <1>3 DEF HoldersOK
<1>5. b.notes[h.owner].shown
  BY <1>3, <1>4 DEF Settled
<1>6. HoverOK(d.hover, d.notes, d.holder["place"], pg)
  BY <1>2, <1>3, <1>5 DEF HoverOK
<1>7. /\ \A o \in Guests : NotesOK(d.notes[o], o, att, ctx)
      /\ \A c \in Claims : LineOK(d.arrivals[c], d.holder[c], d.notes, c)
      /\ SurfacesOK(d.surfaces, att, ctx, str)
  BY <1>2 DEF BoardOK
<1> QED BY <1>2, <1>6, <1>7 DEF BoardOK, HoldersOK, Settled

LEMMA ReportStep ==
  ASSUME BoardIInv, NEW p, Report(p) PROVE StepOK
<1> DEFINE around == /\ attached' = attached /\ enabled' = enabled /\ page' = page /\ context' = context
                     /\ map' = map /\ projected' = projected /\ stream' = stream /\ sonar' = sonar
<1>1. around
  BY DEF Report, Page, views
<1>2. PICK e : e = Expire(board)
  OBVIOUS
<1>3. /\ BoardOK(e, attached, context, stream, page) /\ HoldersOK(e) /\ Settled(e)
      /\ board'.holder = e.holder /\ board'.arrivals = e.arrivals => \A c \in Claims : Passes(c)
  BY <1>2, Expired
<1>4. e \in Boards /\ page \in Nat /\ context \in Nat /\ attached \subseteq Guests
  BY <1>3 DEF BoardIInv, BoardOK
<1>5. ASSUME editor' \in Editors \union {NoEditor}, enabled /\ editor' # NoEditor => editor'.page = page,
             BoardOK(board', attached, context, stream, page), HoldersOK(board'),
             board'.holder = e.holder, board'.arrivals = e.arrivals
      PROVE  StepOK
  <2>1. BoardIInv'
    BY <1>1, <1>5 DEF BoardIInv
  <2> QED BY <2>1, <1>3, <1>5, PassesOrderly DEF StepOK
<1>6. CASE board' = e /\ editor' = editor
  <2>1. editor \in Editors \union {NoEditor} /\ (enabled /\ editor # NoEditor => editor.page = page)
    BY DEF BoardIInv
  <2> QED BY <2>1, <1>3, <1>5, <1>6
<1>7. CASE board' = e /\ p = page /\ editor' \in Focused(e, p) \union {NoEditor}
  <2>1. \A ed \in Focused(e, p) : ed \in Editors /\ ed.page = page
    <3>1. \A o \in Guests : e.notes[o].revision \in Nat /\ e.notes[o].context \in Nat
      BY <1>4 DEF Boards, Sets
    <3> QED BY <3>1, <1>4, <1>7 DEF Focused, Editors
  <2> QED BY <2>1, <1>3, <1>5, <1>7
<1>8. ASSUME p = page, editor' = NoEditor, NEW h \in Selected(e, p), board' = [e EXCEPT !.hover = h]
      PROVE  StepOK
  <2> DEFINE o == e.holder["place"]
  <2>1. o \in Guests
    <3>1. o \in Guests \union {Nobody}
      BY <1>4 DEF Boards, Claims
    <3>2. o # Nobody
      BY <1>8 DEF Selected
    <3> QED BY <3>1, <3>2
  <2>2. PICK i \in Editable(e.notes[o]) :
          h = [owner |-> o, revision |-> e.notes[o].revision, context |-> context, item |-> i,
               fresh |-> TRUE, page |-> p]
    BY <1>8 DEF Selected
  <2>3. "place" \in Claims
    BY DEF Claims
  <2>4. e.notes[o].shown /\ NotesOK(e.notes[o], o, attached, context)
    BY <1>3, <2>1, <2>3 DEF HoldersOK, Settled, BoardOK
  <2>5. i \in Items /\ e.notes[o].revision \in Nat
    BY <2>2, <2>4 DEF NotesOK, Editable, Items, Sets
  <2>6. TRUE \in BOOLEAN
    OBVIOUS
  <2>7. h \in Hovers /\ h.owner = o /\ h.revision = e.notes[o].revision /\ h.page = page
    BY <1>4, <1>8, <2>1, <2>2, <2>5, <2>6 DEF Hovers
  <2> HIDE DEF o
  <2>8. h.owner = e.holder["place"] /\ h.revision = e.notes[h.owner].revision
    BY <2>7 DEF o
  <2>9. PICK d : d = [e EXCEPT !.hover = h]
    OBVIOUS
  <2>10. BoardOK(d, attached, context, stream, page) /\ HoldersOK(d) /\ d.arrivals = e.arrivals /\ d.holder = e.holder
    BY ONLY <1>3, <2>7, <2>8, <2>9, HoverSound
  <2>11. board' = d
    BY <1>8, <2>9
  <2>12. editor' \in Editors \union {NoEditor} /\ ~(editor' # NoEditor)
    BY <1>8
  <2> QED BY <1>5, <2>10, <2>11, <2>12
<1>9. \/ board' = e /\ editor' = editor
      \/ board' = e /\ p = page /\ editor' \in Focused(e, p) \union {NoEditor}
      \/ p = page /\ editor' = NoEditor /\ \E h \in Selected(e, p) : board' = [e EXCEPT !.hover = h]
  BY <1>2 DEF Report
<1> QED BY <1>6, <1>7, <1>8, <1>9

-----------------------------------------------------------------------------
\* The set a guest publishes, in the place of the one it showed.
Republished(old, offer, revision, ctx) ==
  [shown |-> TRUE, late |-> FALSE, offer |-> offer, revision |-> revision, context |-> ctx,
   events |-> IF old.shown /\ old.offer.version = offer.version THEN old.events ELSE <<>>,
   hovered |-> IF old.shown /\ old.revision = revision THEN old.hovered ELSE {},
   deletions |-> IF old.shown THEN old.deletions ELSE <<>>]

LEMMA RepublishedOK ==
  ASSUME NEW o, NEW att, o \in att, NEW ctx \in Nat, NEW old, NotesOK(old, o, att, ctx),
         NEW offer \in Offers, NEW revision \in Nat,
         old.shown => revision > old.revision \/ (revision = old.revision /\ offer = old.offer),
         NEW m, m = Republished(old, offer, revision, ctx)
  PROVE  NotesOK(m, o, att, ctx) /\ m.shown /\ m.offer = offer /\ m.revision = revision
<1>1. /\ old \in Sets /\ EventsOK(old) /\ DeletionsOK(old)
      /\ old.shown => old.context = ctx /\ old.revision <= revision
      /\ old.revision \in Nat
  BY DEF NotesOK, Sets
<1> DEFINE events == IF old.shown /\ old.offer.version = offer.version THEN old.events ELSE <<>>
           hovered == IF old.shown /\ old.revision = revision THEN old.hovered ELSE {}
           deletions == IF old.shown THEN old.deletions ELSE <<>>
<1>2. events \in Seq(Queued) /\ hovered \in SUBSET Items /\ deletions \in Seq(Nat \X Items)
  BY <1>1 DEF Sets
<1>3. EventsOK(m)
  <2>1. CASE old.shown /\ old.offer.version = offer.version
    <3>1. m.events = old.events /\ m.context = old.context /\ m.offer.version = old.offer.version /\ m.revision = revision
      BY <2>1, <1>1 DEF Republished
    <3>2. \A k \in 1..Len(old.events) : old.events[k].revision \in Nat
      <4>1. old.events \in Seq(Queued)
        BY <1>1 DEF Sets
      <4>2. \A k \in 1..Len(old.events) : old.events[k] \in Queued
        BY <4>1
      <4> QED BY <4>2 DEF Queued
    <3>3. \A k \in 1..Len(old.events) : old.events[k].revision <= revision
      BY <2>1, <1>1, <3>2 DEF EventsOK
    <3> QED BY <3>1, <3>3, <1>1 DEF EventsOK
  <2>2. CASE ~(old.shown /\ old.offer.version = offer.version)
    <3>1. m.events = <<>>
      BY <2>2 DEF Republished
    <3> QED BY <3>1 DEF EventsOK
  <2> QED BY <2>1, <2>2
<1>4. DeletionsOK(m)
  <2>1. CASE old.shown
    <3>1. m.deletions = old.deletions /\ m.revision = revision /\ (old.revision = revision => m.hovered = old.hovered)
      BY <2>1 DEF Republished
    <3>2. \A k \in 1..Len(old.deletions) : old.deletions[k][1] \in Nat
      BY <1>1 DEF Sets
    <3>3. \A k \in 1..Len(old.deletions) :
            /\ old.deletions[k][1] <= revision
            /\ old.deletions[k][1] = revision => old.revision = revision
      BY <2>1, <1>1, <3>2 DEF DeletionsOK
    <3> QED BY <3>1, <3>3, <1>1 DEF DeletionsOK
  <2>2. CASE ~old.shown
    <3>1. m.deletions = <<>>
      BY <2>2 DEF Republished
    <3> QED BY <3>1 DEF DeletionsOK
  <2> QED BY <2>1, <2>2
<1>5. m = [shown |-> TRUE, late |-> FALSE, offer |-> offer, revision |-> revision, context |-> ctx,
           events |-> events, hovered |-> hovered, deletions |-> deletions]
  BY DEF Republished
<1> HIDE DEF events, hovered, deletions
<1>6. m \in Sets /\ m.shown /\ m.offer = offer /\ m.revision = revision /\ m.context = ctx
  BY <1>2, <1>5 DEF Sets
<1> QED BY <1>3, <1>4, <1>6 DEF NotesOK

\* The line that a guest joins, keeps its place in, or leaves.
Enqueued(line, o, c, flags) ==
  IF c \notin flags THEN Kept(line, Guests \ {o})
  ELSE IF o \in InLine(line) THEN line
  ELSE line \union {<<w, o>> : w \in InLine(line) \union {o}}

\* Only the guest itself comes or goes, and it comes last.
Continues(line, arrivals, o, flags) ==
  \A c \in Claims :
    /\ Ordered(line[c])
    /\ InLine(line[c]) = IF c \in flags THEN InLine(arrivals[c]) \union {o} ELSE InLine(arrivals[c]) \ {o}
    /\ \A u, w \in Guests : <<u, w>> \in line[c] /\ w \in InLine(arrivals[c]) => <<u, w>> \in arrivals[c]

LEMMA JoinedOnce ==
  ASSUME NEW line, Ordered(line), line \subseteq Guests \X Guests, NEW p \in Guests, NEW c, NEW flags,
         NEW longer, longer = Enqueued(line, p, c, flags)
  PROVE  /\ Ordered(longer) /\ longer \in SUBSET (Guests \X Guests)
         /\ InLine(longer) = IF c \in flags THEN InLine(line) \union {p} ELSE InLine(line) \ {p}
         /\ \A u, w \in Guests : <<u, w>> \in longer /\ w \in InLine(line) => <<u, w>> \in line
<1>1. InLine(line) \subseteq Guests
  BY DEF InLine
<1>2. CASE c \notin flags
  <2>1. PICK rest : rest = Guests \ {p}
    OBVIOUS
  <2>2. longer = Kept(line, rest)
    BY <1>2, <2>1 DEF Enqueued
  <2>3. InLine(longer) = InLine(line) \intersect rest /\ Ordered(longer) /\ longer \subseteq line
    BY ONLY Ordered(line), <2>2, KeptLine
  <2> QED BY <1>1, <1>2, <2>1, <2>3
<1>3. CASE c \in flags /\ p \in InLine(line)
  <2>1. longer = line
    BY <1>3 DEF Enqueued
  <2> QED BY <1>3, <2>1
<1>4. CASE c \in flags /\ p \notin InLine(line)
  <2>1. longer = line \union {<<w, p>> : w \in InLine(line) \union {p}}
    BY <1>4 DEF Enqueued
  <2>2. InLine(longer) = InLine(line) \union {p} /\ Ordered(longer)
    BY <1>4, <2>1, JoinedLine
  <2>3. \A u, w \in Guests : <<u, w>> \in longer /\ w \in InLine(line) => <<u, w>> \in line
    BY <1>4, <2>1
  <2> QED BY <1>1, <1>4, <2>1, <2>2, <2>3
<1> QED BY <1>2, <1>3, <1>4

\* What a publication makes of a settled board, field by field.
Published(e, p, m, line) ==
  [surfaces |-> e.surfaces, notes |-> [e.notes EXCEPT ![p] = m], hover |-> e.hover, arrivals |-> line,
   holder |-> [c \in Claims |-> Successor(e.holder[c], line[c])]]

LEMMA PublishedShape ==
  ASSUME NEW e \in Boards, NEW p \in Guests, NEW m, NEW line,
         NEW d, d = Arbitrate([e EXCEPT !.notes[p] = m, !.arrivals = line])
  PROVE  d = Published(e, p, m, line)
<1> DEFINE notes == [e.notes EXCEPT ![p] = m]
           c0 == [e EXCEPT !.notes[p] = m, !.arrivals = line]
           heir == [c \in Claims |-> Successor(e.holder[c], line[c])]
<1>1. c0 = [e EXCEPT !.notes = notes, !.arrivals = line]
  BY DEF Boards
<1>2. d = Arbitrate(c0)
  OBVIOUS
<1> HIDE DEF c0, notes
<1>3. /\ c0.surfaces = e.surfaces /\ c0.notes = notes /\ c0.hover = e.hover /\ c0.arrivals = line /\ c0.holder = e.holder
      /\ c0 \in [surfaces : {e.surfaces}, notes : {notes}, hover : {e.hover}, arrivals : {line}, holder : {e.holder}]
  BY <1>1 DEF Boards
<1>4. d = [c0 EXCEPT !.holder = heir]
  BY <1>2, <1>3 DEF Arbitrate, Successor
<1> HIDE DEF heir
<1>5. /\ d.surfaces = e.surfaces /\ d.notes = notes /\ d.hover = e.hover /\ d.arrivals = line /\ d.holder = heir
      /\ d \in [surfaces : {e.surfaces}, notes : {notes}, hover : {e.hover}, arrivals : {line}, holder : {heir}]
  BY <1>3, <1>4
<1>6. d = [surfaces |-> d.surfaces, notes |-> d.notes, hover |-> d.hover, arrivals |-> d.arrivals, holder |-> d.holder]
  BY <1>5
<1>7. d = [surfaces |-> e.surfaces, notes |-> notes, hover |-> e.hover, arrivals |-> line, holder |-> heir]
  BY <1>5, <1>6
<1> QED BY <1>7 DEF Published, notes, heir

\* A publication keeps a settled board sound: a selection that was reported under the
\* revision in force is of a set that keeps its claim.
LEMMA PublishedSound ==
  ASSUME NEW e, NEW att, NEW ctx, NEW str, NEW pg, BoardOK(e, att, ctx, str, pg), HoldersOK(e), Settled(e),
         NEW p \in Guests, NEW m, NotesOK(m, p, att, ctx), m.shown,
         e.notes[p].shown => m.revision > e.notes[p].revision
                             \/ (m.revision = e.notes[p].revision /\ m.offer = e.notes[p].offer),
         NEW line \in [Claims -> SUBSET (Guests \X Guests)], Continues(line, e.arrivals, p, m.offer.flags),
         NEW d, d = Published(e, p, m, line)
  PROVE  BoardOK(d, att, ctx, str, pg) /\ HoldersOK(d)
<1>1. e \in Boards /\ m \in Sets /\ e.notes \in [Guests -> Sets]
  BY DEF BoardOK, Boards, NotesOK
<1>0. \A c \in Claims :
        /\ Ordered(line[c])
        /\ InLine(line[c]) = IF c \in m.offer.flags THEN InLine(e.arrivals[c]) \union {p}
                             ELSE InLine(e.arrivals[c]) \ {p}
  BY DEF Continues
<1> DEFINE notes == [e.notes EXCEPT ![p] = m]
           heir == [c \in Claims |-> Successor(e.holder[c], line[c])]
<1>2. notes \in [Guests -> Sets] /\ \A o \in Guests : notes[o] = IF o = p THEN m ELSE e.notes[o]
  BY <1>1
<1>3. \A c \in Claims : heir[c] = Successor(e.holder[c], line[c])
  OBVIOUS
<1>4. /\ d.surfaces = e.surfaces /\ d.notes = notes /\ d.hover = e.hover /\ d.arrivals = line /\ d.holder = heir
      /\ d = [surfaces |-> e.surfaces, notes |-> notes, hover |-> e.hover, arrivals |-> line, holder |-> heir]
  BY DEF Published
<1> HIDE DEF notes
<1>5. \A c \in Claims : /\ InLine(line[c]) = {} => heir[c] = Nobody
                        /\ InLine(line[c]) # {} => heir[c] \in InLine(line[c])
                        /\ InLine(line[c]) \subseteq Guests
  <2> TAKE c \in Claims
  <2>1. PICK q : q = line[c]
    OBVIOUS
  <2>2. PICK h : h = e.holder[c]
    OBVIOUS
  <2>3. Ordered(q)
    BY <2>1, <1>0
  <2>4. (InLine(q) = {} => Successor(h, q) = Nobody) /\ (InLine(q) # {} => Successor(h, q) \in InLine(q))
    BY ONLY <2>3, SuccessorWaits
  <2> QED BY <1>3, <2>1, <2>2, <2>4 DEF InLine
<1>6. heir \in [Claims -> Guests \union {Nobody}]
  BY <1>5
<1> HIDE DEF heir
<1>7. d \in Boards
  BY <1>1, <1>2, <1>4, <1>6 DEF Boards
<1>8. \A o \in Guests : NotesOK(d.notes[o], o, att, ctx)
  BY <1>2, <1>4 DEF BoardOK
<1>9. SurfacesOK(d.surfaces, att, ctx, str)
  BY <1>4 DEF BoardOK
<1>10. ASSUME NEW c \in Claims
       PROVE  LineOK(d.arrivals[c], d.holder[c], d.notes, c)
  <2>1. LineOK(e.arrivals[c], e.holder[c], e.notes, c)
    BY DEF BoardOK
  <2>2. Ordered(d.arrivals[c])
    BY <1>0, <1>4
  <2>3. \A o \in Guests : d.notes[o].shown => (o \in InLine(d.arrivals[c]) <=> c \in d.notes[o].offer.flags)
    BY <2>1, <1>0, <1>2, <1>4 DEF LineOK
  <2>4. d.holder[c] # Nobody => d.holder[c] \in InLine(d.arrivals[c])
    BY <1>4, <1>5
  <2> QED BY <2>2, <2>3, <2>4 DEF LineOK
<1>11. HoldersOK(d)
  <2>1. \A c \in Claims : \A o \in InLine(line[c]) : o = p \/ o \in InLine(e.arrivals[c])
    BY <1>0
  <2>2. \A c \in Claims : \A o \in InLine(line[c]) : o \in Guests
    BY <1>5
  <2>3. Settled(d)
    BY <2>1, <2>2, <1>2, <1>4 DEF Settled
  <2> QED BY <1>4, <1>5, <2>3 DEF HoldersOK
<1>12. HoverOK(d.hover, d.notes, d.holder["place"], pg)
  <2> SUFFICES ASSUME e.hover # NoHover
               PROVE  /\ e.hover.page = pg
                      /\ notes[e.hover.owner].shown
                      /\ e.hover.revision <= notes[e.hover.owner].revision
                      /\ e.hover.revision = notes[e.hover.owner].revision => heir["place"] = e.hover.owner
    BY <1>4 DEF HoverOK
  <2>1. HoverOK(e.hover, e.notes, e.holder["place"], pg)
    BY DEF BoardOK
  <2>2. PICK q : q = e.hover.owner
    OBVIOUS
  <2>3. q \in Guests /\ e.hover.revision \in Nat
    BY <1>1, <2>2 DEF Boards, Hovers
  <2>4. /\ e.hover.page = pg /\ e.notes[q].shown /\ e.hover.revision <= e.notes[q].revision
        /\ e.hover.revision = e.notes[q].revision => e.holder["place"] = q
    BY <2>1, <2>2 DEF HoverOK
  <2>5. e.notes[q].revision \in Nat /\ m.revision \in Nat
    BY <1>1, <2>3 DEF Sets
  <2>6. ASSUME e.hover.revision = e.notes[q].revision, q = p => m.offer = e.notes[p].offer
        PROVE  heir["place"] = q
    <3>1. "place" \in Claims /\ e.holder["place"] = q /\ q # Nobody
      BY <2>3, <2>4, <2>6 DEF Claims
    <3>2. q \in InLine(e.arrivals["place"])
      BY <2>4, <3>1 DEF BoardOK, LineOK
    <3>3. q = p => "place" \in m.offer.flags
      BY <2>4, <2>6, <3>1, <3>2 DEF BoardOK, LineOK
    <3>4. q \in InLine(line["place"])
      BY <3>1, <3>2, <3>3, <1>0
    <3>5. heir["place"] = Successor(q, line["place"])
      BY <1>3, <3>1
    <3> QED BY <3>4, <3>5 DEF Successor
  <2>7. CASE q # p
    <3>1. notes[q] = e.notes[q]
      BY <1>2, <2>3, <2>7
    <3> QED BY <2>2, <2>4, <2>6, <2>7, <3>1
  <2>8. CASE q = p
    <3>1. notes[q] = m
      BY <1>2, <2>3, <2>8
    <3>2. e.hover.revision <= m.revision
      BY <2>3, <2>4, <2>5, <2>8
    <3>3. e.hover.revision = m.revision => e.hover.revision = e.notes[q].revision /\ m.offer = e.notes[p].offer
      BY <2>3, <2>4, <2>5, <2>8
    <3> QED BY <2>2, <2>4, <2>6, <2>8, <3>1, <3>2, <3>3
  <2> QED BY <2>7, <2>8
<1> QED BY <1>7, <1>8, <1>9, <1>10, <1>11, <1>12 DEF BoardOK

\* Who waits after expire waited before it, for a claim of the set it showed.
LEMMA ExpireKeeps ==
  ASSUME BoardIInv, NEW e, e = Expire(board), NEW c \in Claims
  PROVE  /\ \A o, w \in Guests : <<o, w>> \in e.arrivals[c] => Wants(o, c) /\ <<o, w>> \in board.arrivals[c]
         /\ \A w \in Guests : Wants(w, c) /\ ~Over(board.notes[w]) => w \in InLine(e.arrivals[c])
         /\ e.holder[c] = Successor(board.holder[c], e.arrivals[c])
<1>1. BoardOK(board, attached, context, stream, page) /\ board \in Boards
  BY DEF BoardIInv, BoardOK
<1>2. /\ e.notes = Remaining(board) /\ e.arrivals = Waiting(board)
      /\ e.holder[c] = Successor(board.holder[c], e.arrivals[c])
  BY <1>1, ExpireShape
<1>3. BoardOK(e, attached, context, stream, page) /\ Settled(e)
  BY Expired
<1>4. \A o \in Guests : e.notes[o] = IF Over(board.notes[o]) THEN NoNotes ELSE board.notes[o]
  BY <1>2 DEF Remaining
<1>5. ASSUME NEW o \in Guests, NEW w \in Guests, <<o, w>> \in e.arrivals[c]
      PROVE  Wants(o, c) /\ <<o, w>> \in board.arrivals[c]
  <2>1. <<o, w>> \in board.arrivals[c]
    BY <1>2, <1>5 DEF Waiting, Kept
  <2>2. o \in InLine(e.arrivals[c])
    <3>1. Ordered(e.arrivals[c])
      BY <1>3 DEF BoardOK, LineOK
    <3> QED BY <3>1, <1>5 DEF Ordered
  <2>3. e.notes[o].shown
    BY <2>2, <1>3 DEF Settled
  <2>4. e.notes[o] = board.notes[o]
    BY <2>3, <1>4, NoNotesOK
  <2>5. c \in e.notes[o].offer.flags
    BY <2>2, <2>3, <1>3, WantingWaits
  <2> QED BY <2>1, <2>3, <2>4, <2>5 DEF Wants
<1>6. ASSUME NEW w \in Guests, Wants(w, c), ~Over(board.notes[w])
      PROVE  w \in InLine(e.arrivals[c])
  <2>1. e.notes[w].shown /\ c \in e.notes[w].offer.flags
    BY <1>4, <1>6 DEF Wants
  <2> QED BY <2>1, <1>3, WantingWaits
<1> QED BY <1>2, <1>5, <1>6

\* A newcomer takes no claim from a holder that still wants it, nor from who waits longer.
LEMMA PublishedOrderly ==
  ASSUME BoardIInv, BoardIInv', NEW e, e = Expire(board), NEW p \in Guests, NEW m, NEW line,
         Continues(line, e.arrivals, p, m.offer.flags),
         board' = Published(e, p, m, line)
  PROVE  Orderly
<1>1. BoardOK(board', attached', context', stream', page') /\ HoldersOK(board')
  BY DEF BoardIInv
<1>2. BoardOK(board, attached, context, stream, page) /\ HoldersOK(board) /\ board \in Boards
  BY DEF BoardIInv, BoardOK
<1>3. BoardOK(e, attached, context, stream, page) /\ Settled(e) /\ HoldersOK(e) /\ e \in Boards
  BY Expired DEF BoardOK
<1> SUFFICES ASSUME NEW c \in Claims
             PROVE  /\ \A o \in Guests : board.holder[c] = o /\ board'.holder[c] # o =>
                         Over(board.notes[o]) \/ ~Wants(o, c)'
                    /\ board'.holder[c] = Nobody => \A o \in Guests : ~Wants(o, c)'
                    /\ \A o, w \in Guests :
                         board'.holder[c] = o /\ board.holder[c] # o /\ w # o /\ Wants(w, c)' /\ Wants(w, c)
                           /\ ~Over(board.notes[w])
                         => Wants(o, c) /\ <<o, w>> \in board.arrivals[c]
  BY DEF Orderly
<1>4. PICK queue : queue = line[c]
  OBVIOUS
<1>5. PICK waiting : waiting = e.arrivals[c]
  OBVIOUS
<1>6. /\ Ordered(queue) /\ Ordered(waiting) /\ InLine(waiting) \subseteq Guests
      /\ InLine(queue) \subseteq InLine(waiting) \union {p} /\ InLine(waiting) \ {p} \subseteq InLine(queue)
      /\ \A u, w \in Guests : <<u, w>> \in queue /\ w \in InLine(waiting) => <<u, w>> \in waiting
  <2>1. /\ Ordered(queue)
        /\ InLine(queue) = IF c \in m.offer.flags THEN InLine(waiting) \union {p} ELSE InLine(waiting) \ {p}
        /\ \A u, w \in Guests : <<u, w>> \in queue /\ w \in InLine(waiting) => <<u, w>> \in waiting
    BY <1>4, <1>5 DEF Continues
  <2>2. Ordered(waiting) /\ InLine(waiting) \subseteq Guests
    BY <1>3, <1>5 DEF InLine, BoardOK, LineOK
  <2> QED BY <2>1, <2>2
<1>7. board'.arrivals[c] = queue /\ board'.holder[c] = Successor(e.holder[c], queue)
  BY <1>4 DEF Published
<1>8. e.holder[c] = Successor(board.holder[c], waiting)
  BY <1>5, ExpireKeeps
<1>9. \A o, w \in Guests : <<o, w>> \in waiting => Wants(o, c) /\ <<o, w>> \in board.arrivals[c]
  BY <1>5, ExpireKeeps
<1>10. \A w \in Guests : Wants(w, c) /\ ~Over(board.notes[w]) => w \in InLine(waiting)
  BY <1>5, ExpireKeeps
<1>11. \A o \in Guests : Wants(o, c)' => o \in InLine(queue)
  <2> SUFFICES ASSUME NEW o \in Guests, Wants(o, c)' PROVE o \in InLine(queue)
    OBVIOUS
  <2>1. board'.notes[o].shown /\ c \in board'.notes[o].offer.flags
    BY DEF Wants
  <2> QED BY <1>1, <1>7, <2>1, WantingWaits
<1>12. ASSUME NEW o \in Guests, board.holder[c] = o, board'.holder[c] # o, Wants(o, c)', ~Over(board.notes[o])
       PROVE  FALSE
  <2>1. o \in InLine(queue)
    BY <1>11, <1>12
  <2>2. o \notin InLine(waiting)
    BY <2>1, <1>7, <1>8, <1>12 DEF Successor
  <2>3. o = p
    BY <2>1, <2>2, <1>6
  <2>4. o \in InLine(board.arrivals[c])
    <3>1. o # Nobody
      OBVIOUS
    <3> QED BY <3>1, <1>2, <1>12 DEF HoldersOK
  <2>5. ~board.notes[o].shown
    <3> SUFFICES ASSUME board.notes[o].shown PROVE FALSE
      OBVIOUS
    <3>1. c \in board.notes[o].offer.flags
      BY <1>2, <2>4, WantingWaits
    <3>2. Wants(o, c)
      BY <3>1 DEF Wants
    <3> QED BY <3>2, <1>10, <1>12, <2>2
  <2>6. \A w \in Guests : ~board.notes[w].shown
    <3>1. ~Settled(board)
      BY <2>4, <2>5 DEF Settled
    <3> QED BY <3>1, <1>2 DEF HoldersOK
  <2>7. InLine(waiting) = {}
    <3> SUFFICES ASSUME NEW w \in InLine(waiting) PROVE FALSE
      OBVIOUS
    <3>1. w \in Guests /\ <<w, w>> \in waiting
      BY DEF InLine
    <3>2. Wants(w, c)
      BY <3>1, <1>9
    <3> QED BY <3>1, <3>2, <2>6 DEF Wants
  <2>8. e.holder[c] = Nobody /\ InLine(queue) = {p}
    BY <2>1, <2>3, <2>7, <1>3, <1>5, <1>6 DEF HoldersOK
  <2>9. Successor(Nobody, queue) \in InLine(queue)
    BY ONLY <2>8, <1>6, SuccessorWaits
  <2> QED BY <2>3, <2>8, <2>9, <1>7, <1>12
<1>13. ASSUME board'.holder[c] = Nobody, NEW o \in Guests, Wants(o, c)'
       PROVE  FALSE
  <2>1. o \in InLine(queue)
    BY <1>11, <1>13
  <2>2. Nobody \in InLine(queue)
    BY <1>1, <1>7, <1>13, <2>1 DEF HoldersOK
  <2> QED BY <2>2 DEF InLine
<1>14. ASSUME NEW o \in Guests, NEW w \in Guests, board'.holder[c] = o, board.holder[c] # o, Wants(w, c)',
              Wants(w, c), ~Over(board.notes[w])
       PROVE  Wants(o, c) /\ <<o, w>> \in board.arrivals[c]
  <2>1. w \in InLine(queue) /\ w \in InLine(waiting)
    BY <1>10, <1>11, <1>14
  <2>2. CASE e.holder[c] \in InLine(queue)
    <3>1. o = Successor(board.holder[c], waiting)
      BY <2>2, <1>7, <1>8, <1>14 DEF Successor
    <3>2. o = Foremost(waiting)
      BY <3>1, <2>1, <1>14 DEF Successor
    <3>3. <<Foremost(waiting), w>> \in waiting
      BY ONLY <1>6, <2>1, ForemostIsFirst
    <3> QED BY <3>2, <3>3, <1>9
  <2>3. CASE e.holder[c] \notin InLine(queue)
    <3>1. o = Foremost(queue)
      BY <2>1, <2>3, <1>7, <1>14 DEF Successor
    <3>2. <<Foremost(queue), w>> \in queue
      BY ONLY <1>6, <2>1, ForemostIsFirst
    <3>3. <<o, w>> \in waiting
      BY <3>1, <3>2, <2>1, <1>6
    <3> QED BY <3>3, <1>9
  <2> QED BY <2>2, <2>3
<1> QED BY <1>12, <1>13, <1>14

LEMMA AnnotateStep ==
  ASSUME BoardIInv, NEW o \in Guests, NEW offer \in Offers, NEW revision \in Nat,
         Annotate(o, offer, revision, context)
  PROVE  StepOK
<1>1. UNCHANGED <<attached, enabled, page, views, editor>> /\ o \in attached /\ context \in Nat
  BY DEF Annotate, Guest, BoardIInv
<1>2. PICK e : e = Expire(board)
  OBVIOUS
<1>3. /\ BoardOK(e, attached, context, stream, page) /\ HoldersOK(e) /\ Settled(e) /\ e \in Boards
  BY <1>2, Expired DEF BoardOK
<1>4. PICK old : old = e.notes[o]
  OBVIOUS
<1>5. /\ old.shown => revision > old.revision \/ (revision = old.revision /\ offer = old.offer)
      /\ board' = Arbitrate([e EXCEPT !.notes[o] = Republished(old, offer, revision, context),
                                      !.arrivals = Joined(@, o, offer.flags)])
  BY <1>2, <1>4 DEF Annotate, Republished
<1>6. PICK m : m = Republished(old, offer, revision, context)
  OBVIOUS
<1>7. NotesOK(m, o, attached, context) /\ m.shown /\ m.offer = offer /\ m.revision = revision
  <2>1. NotesOK(old, o, attached, context)
    BY <1>3, <1>4 DEF BoardOK
  <2> QED BY <2>1, <1>1, <1>5, <1>6, RepublishedOK
<1>8. PICK line : line = Joined(e.arrivals, o, offer.flags)
  OBVIOUS
<1>9. ASSUME NEW c \in Claims
      PROVE  /\ Ordered(line[c]) /\ line[c] \in SUBSET (Guests \X Guests)
             /\ InLine(line[c]) = IF c \in m.offer.flags THEN InLine(e.arrivals[c]) \union {o}
                                  ELSE InLine(e.arrivals[c]) \ {o}
             /\ \A u, w \in Guests : <<u, w>> \in line[c] /\ w \in InLine(e.arrivals[c]) => <<u, w>> \in e.arrivals[c]
  <2>1. PICK waiting : waiting = e.arrivals[c]
    OBVIOUS
  <2>2. PICK longer : longer = line[c]
    OBVIOUS
  <2>3. PICK flags : flags = offer.flags
    OBVIOUS
  <2>4. Ordered(waiting) /\ waiting \subseteq Guests \X Guests
    BY <1>3, <2>1 DEF BoardOK, LineOK, Boards
  <2>5. longer = Enqueued(waiting, o, c, flags)
    BY <1>8, <2>1, <2>2, <2>3 DEF Joined, Enqueued
  <2>6. /\ Ordered(longer) /\ longer \in SUBSET (Guests \X Guests)
        /\ InLine(longer) = IF c \in flags THEN InLine(waiting) \union {o} ELSE InLine(waiting) \ {o}
        /\ \A u, w \in Guests : <<u, w>> \in longer /\ w \in InLine(waiting) => <<u, w>> \in waiting
    BY ONLY <2>4, <2>5, o \in Guests, JoinedOnce
  <2> QED BY <2>1, <2>2, <2>3, <2>6, <1>7
<1>10. line \in [Claims -> SUBSET (Guests \X Guests)]
  BY <1>8, <1>9 DEF Joined
<1>11. PICK d : d = board'
  OBVIOUS
<1>12. d = Published(e, o, m, line)
  <2>1. d = Arbitrate([e EXCEPT !.notes[o] = m, !.arrivals = line])
    BY <1>5, <1>6, <1>8, <1>11
  <2> QED BY <2>1, <1>3, PublishedShape
<1>13. Continues(line, e.arrivals, o, m.offer.flags)
  BY <1>9 DEF Continues
<1>14. BoardOK(d, attached, context, stream, page) /\ HoldersOK(d)
  <2>1. e.notes[o].shown => m.revision > e.notes[o].revision
                            \/ (m.revision = e.notes[o].revision /\ m.offer = e.notes[o].offer)
    BY <1>4, <1>5, <1>7
  <2> QED BY ONLY o \in Guests, <1>3, <1>7, <1>10, <1>12, <1>13, <2>1, PublishedSound
<1>15. BoardIInv'
  BY <1>1, <1>11, <1>14, AroundSame
<1>16. Orderly
  <2>1. board' = Published(e, o, m, line)
    BY <1>11, <1>12
  <2> QED BY <1>2, <1>13, <1>15, <2>1, PublishedOrderly
<1> QED BY <1>15, <1>16 DEF StepOK

-----------------------------------------------------------------------------
LEMMA NextStep ==
  ASSUME BoardIInv, DrawingNext PROVE StepOK
<1>1. CASE Lapse \/ Enable \/ Disable \/ OpenPage \/ UpdateSonar \/ Observe
  BY <1>1, LapseStep, PageStep, UpdateSonarStep, ObserveStep
<1>2. CASE \E changed \in BOOLEAN : UpdateMap(changed)
  BY <1>2, UpdateMapStep
<1>3. CASE MarkerKey \/ Place \/ Poll \/ Refused \/ \E p \in 1..MaxPage : Report(p)
  BY <1>3, MarkerKeyStep, PlaceStep, PollStep, RefusedStep, ReportStep
<1>4. ASSUME NEW o \in Guests,
             Attach(o) \/ Detach(o) \/ Cancel(o) \/ HideNotes(o) \/ Edit(o)
      PROVE  StepOK
  BY <1>4, AttachStep, LeaveStep, HideNotesStep, EditStep
<1>5. ASSUME NEW o \in Guests, NEW layer \in Layers,
             HideSurface(o, layer) \/ \E for \in 0..MaxContext : Publish(o, layer, for)
      PROVE  StepOK
  BY <1>5, HideSurfaceStep, PublishStep
<1>6. ASSUME NEW o \in Guests, NEW offer \in Offers, NEW revision \in 1..MaxRevision,
             Annotate(o, offer, revision, context)
      PROVE  StepOK
  BY <1>6, AnnotateStep
<1>7. ASSUME NEW o \in Guests, NEW version \in {2, 3}, ReadEvent(o, version)
      PROVE  StepOK
  BY <1>7, ReadEventStep
<1> QED BY <1>1, <1>2, <1>3, <1>4, <1>5, <1>6, <1>7 DEF DrawingNext, DrawingSteps

LEMMA InitBoard == DrawingInit => BoardIInv
<1> SUFFICES ASSUME DrawingInit PROVE BoardIInv
  OBVIOUS
<1>1. /\ attached = {} /\ page = 0 /\ context = 0 /\ stream = 0 /\ editor = NoEditor /\ board = EmptyBoard
      /\ enabled = FALSE /\ map = FALSE /\ projected = FALSE /\ sonar = FALSE
  BY DEF DrawingInit
<1>2. enabled \in BOOLEAN /\ map \in BOOLEAN /\ projected \in BOOLEAN /\ sonar \in BOOLEAN
  BY <1>1, Zenon
<1>3. BoardOK(board, attached, context, stream, page) /\ HoldersOK(board)
  BY <1>1, EmptySound
<1> QED BY <1>1, <1>2, <1>3 DEF BoardIInv

LEMMA SameBoard == ASSUME BoardIInv, UNCHANGED drawingVars PROVE BoardIInv'
<1>1. /\ attached' = attached /\ enabled' = enabled /\ page' = page /\ editor' = editor
      /\ context' = context /\ map' = map /\ projected' = projected /\ stream' = stream /\ sonar' = sonar
      /\ board' = board
  BY DEF drawingVars, views
<1>2. BoardOK(board, attached, context, stream, page) /\ HoldersOK(board)
  BY DEF BoardIInv
<1> QED BY <1>1, <1>2 DEF BoardIInv

\* The board is sound whenever the mutex is free.
THEOREM BoardInvariant == DrawingSpec => []BoardIInv
<1>1. BoardIInv /\ [DrawingNext]_drawingVars => BoardIInv'
  BY NextStep, SameBoard DEF StepOK
<1> QED BY InitBoard, <1>1, PTL DEF DrawingSpec

LEMMA BoardMatches == BoardIInv => EventsAreCurrent
<1> SUFFICES ASSUME BoardIInv PROVE EventsAreCurrent
  OBVIOUS
<1>1. \A o \in Guests : NotesOK(board.notes[o], o, attached, context)
  BY DEF BoardIInv, BoardOK
<1>2. ASSUME NEW o \in Guests
      PROVE  LET notes == board.notes[o] IN
             /\ notes.events # <<>> => notes.shown /\ o \in attached
             /\ notes.shown => notes.context = context
             /\ Len(notes.events) <= MaxQueue
             /\ \A e \in ToSet(notes.events) :
                  e.context = notes.context /\ e.version = notes.offer.version /\ e.revision <= notes.revision
             /\ IsInjective(notes.deletions)
  <2>1. PICK n : n = board.notes[o]
    OBVIOUS
  <2>2. NotesOK(n, o, attached, context) /\ n \in Sets
    BY <1>1, <2>1 DEF NotesOK
  <2>3. n.events # <<>> => n.shown /\ o \in attached
    BY <2>2 DEF NotesOK, NoNotes
  <2>4. n.shown => n.context = context
    BY <2>2 DEF NotesOK
  <2>5. Len(n.events) <= MaxQueue
    BY <2>2 DEF NotesOK, EventsOK
  <2>6. \A e \in ToSet(n.events) :
          e.context = n.context /\ e.version = n.offer.version /\ e.revision <= n.revision
    <3>1. \A e \in ToSet(n.events) : \E k \in 1..Len(n.events) : e = n.events[k]
      BY <2>2 DEF ToSet, Sets
    <3> QED BY <3>1, <2>2 DEF NotesOK, EventsOK
  <2>7. IsInjective(n.deletions)
    <3>1. DOMAIN n.deletions = 1..Len(n.deletions)
      BY <2>2 DEF Sets
    <3> QED BY <3>1, <2>2 DEF IsInjective, NotesOK, DeletionsOK
  <2> QED BY <2>1, <2>3, <2>4, <2>5, <2>6, <2>7
<1> QED BY <1>2 DEF EventsAreCurrent, EventsMatch, DeletesOnce

LEMMA BoardFocuses == BoardIInv => FocusIsCurrent
<1> SUFFICES ASSUME BoardIInv PROVE FocusIsCurrent
  OBVIOUS
<1>1. /\ BoardOK(board, attached, context, stream, page) /\ board \in Boards
      /\ editor \in Editors \union {NoEditor} /\ (enabled /\ editor # NoEditor => editor.page = page)
  BY DEF BoardIInv, BoardOK
<1>2. PICK e : e = Expire(board)
  OBVIOUS
<1>3. BoardOK(e, attached, context, stream, page)
  BY <1>2, Expired
<1>4. board.hover # NoHover => board.hover.page = page
  BY <1>1 DEF BoardOK, HoverOK
<1>5. MapEditorInputActive => editor.page = page
  BY <1>1 DEF MapEditorInputActive
<1>6. e.hover # NoHover => e.hover.owner = e.holder["place"]
  <2> SUFFICES ASSUME e.hover # NoHover PROVE e.hover.owner = e.holder["place"]
    OBVIOUS
  <2>1. e.notes = Remaining(board) /\ e.hover = board.hover /\ Stands(board.hover, Remaining(board))
    BY <1>1, <1>2, ExpireShape
  <2>2. e.hover.revision = e.notes[e.hover.owner].revision
    BY <2>1 DEF Stands
  <2>3. HoverOK(e.hover, e.notes, e.holder["place"], page)
    BY <1>3 DEF BoardOK
  <2> QED BY <2>2, <2>3 DEF HoverOK
<1>7. Cardinality(board.surfaces) <= MaxSurfaces
  BY <1>1 DEF BoardOK, SurfacesOK
<1>8. \A s \in e.surfaces : s.owner \in attached /\ s.context = ContextOf(s.layer)
  BY <1>3 DEF BoardOK, SurfacesOK, ContextOf
<1>9. FocusIsOfThisPage
  BY <1>2, <1>4, <1>5, <1>6 DEF FocusIsOfThisPage
<1>10. SurfacesAreCurrent
  BY <1>2, <1>7, <1>8 DEF SurfacesAreCurrent
<1> QED BY <1>9, <1>10 DEF FocusIsCurrent

\* What waits for a guest is about what it shows now, under this projection and in its
\* version, and no press of the key asks twice for one deletion, however the calls of
\* guests, game, page and keyboard interleave (mod_drawing.cpp expire,
\* annotations_publish, hovered_annotation_action, annotation_exchange).
THEOREM EventsCurrent == DrawingSpec => []EventsAreCurrent
<1> QED BY BoardInvariant, BoardMatches, PTL

\* A selection and a focused editor come from the document that is there, the selection
\* from the guest that holds the claim, and what is drawn was placed by the projection in
\* force, within the limit (mod_drawing.cpp exchange, poll, map_publish).
THEOREM FocusCurrent == DrawingSpec => []FocusIsCurrent
<1> QED BY BoardInvariant, BoardFocuses, PTL

\* No step takes a claim from a holder that still wants it, leaves one free that is
\* wanted, or passes over the guest that has waited longest (mod_drawing.cpp
\* arbitrate_native, arbitrate_placement).
THEOREM ClaimsOrderly == DrawingSpec => ClaimsAreOrderly
<1>1. BoardIInv /\ [DrawingNext]_drawingVars => [Orderly]_drawingVars
  BY NextStep DEF StepOK
<1> QED BY BoardInvariant, <1>1, PTL DEF DrawingSpec, ClaimsAreOrderly
==============================================================================
