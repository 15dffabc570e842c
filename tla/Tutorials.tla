----------------------------- MODULE Tutorials -----------------------------
(***************************************************************************)
(* runtime/mod_tutorials.cpp between the guests and the two presenters,    *)
(* runtime/tutorial_hint.cpp (hints and prompts) and tutorial_native.cpp   *)
(* with tutorial_panel.cpp (panels).                                       *)
(*                                                                         *)
(* A guest has one request.  A presenter claims one at a time, shows it by *)
(* lending the game private data, and must have taken that back before it  *)
(* reports the end.  It reads whether the request was cancelled and acts   *)
(* on it later; the service may have been told otherwise in between.  Each *)
(* presenter runs inside engine callbacks under a lock of its own, each    *)
(* function of the service under the lock of the service.                  *)
(*                                                                         *)
(* The game's side is what the presenters read of it: a hint fades before  *)
(* its id is gone; a panel is opened and closed by pending events that the *)
(* event worker carries out, and shown and hidden by the sync worker.      *)
(*                                                                         *)
(* An operator named Slip... is a plausible mistake in the definition that *)
(* follows it and is used nowhere; it shows that a property can fail.      *)
(***************************************************************************)
EXTENDS Naturals, FiniteSets

CONSTANTS
  Askers,        \* guests that may be attached to the service
  Total,         \* requests active at once (8)
  MaxTutorials,  \* INT64_MAX
  MaxContext     \* bound on the worlds of a session

ASSUME TutorialsAssumption == {Total, MaxTutorials, MaxContext} \subseteq Nat

Foreign == MaxTutorials + 1   \* key of the game's own panels

VARIABLES
  tutorial,    \* Entry of each owner, "absent" when it is erased
  presenters,  \* kinds a presenter is there for
  nextTutorial,
  session, hintAt, accepting, poisoned,  \* tutorial_hint: Session, its callback, flags
  hintUi,     \* the private state words: phase and displayed ticket
  live, panelAt, panelOn, faulted,       \* tutorial_native: Live, its callback, flags
  panelUi,    \* the native panel state
  context     \* the world and entity the panel system runs for

requestTable == <<tutorial, presenters, nextTutorial>>
hints        == <<session, hintAt, accepting, poisoned, hintUi>>
panels       == <<live, panelAt, panelOn, faulted, panelUi, context>>
tutorialVars == <<requestTable, hints, panels>>

Dynamic == {"hint", "prompt"}
Kinds   == Dynamic \union {"panel"}
Unasked == [ticket |-> 0, kind |-> "hint", status |-> "none", claimed |-> FALSE, detached |-> FALSE]
Absent  == [Unasked EXCEPT !.status = "absent"]
NoSession == [ticket |-> 0, kind |-> "hint", presented |-> FALSE, retiring |-> FALSE,
              cancelled |-> FALSE, suspended |-> FALSE, ripe |-> FALSE]
Dark == [phase |-> "off", ticket |-> 0]
NoPanel == [ticket |-> 0, context |-> 0, opened |-> FALSE, presented |-> FALSE,
            cancel |-> FALSE, retired |-> FALSE]
Closed == [pending |-> "none", wanted |-> 0, active |-> FALSE, visible |-> FALSE, key |-> 0]

\* Whichever guests are attached and presenters were installed; that of prompts only
\* comes with that of hints.
TutorialsInit ==
  /\ tutorial \in [Askers -> {Unasked, Absent}] /\ nextTutorial = 1
  /\ presenters \in {kinds \in SUBSET Kinds : "prompt" \in kinds => "hint" \in kinds}
  /\ session = NoSession /\ hintAt = "idle" /\ accepting = TRUE /\ poisoned = FALSE /\ hintUi = Dark
  /\ live = NoPanel /\ panelAt = "idle" /\ panelOn = TRUE /\ faulted = FALSE
  /\ panelUi = Closed /\ context = 1
-----------------------------------------------------------------------------
(* The service.                                                            *)

Ongoing(e) == e.status \in {"queued", "presented", "cancelling"}
Here(o) == tutorial[o].status # "absent" /\ ~tutorial[o].detached

\* Impl::cancel
Cancelled(e) ==
  IF Ongoing(e) THEN [e EXCEPT !.status = IF e.claimed THEN "cancelling" ELSE "cancelled"] ELSE e

Erased(e) == IF e.detached /\ ~Ongoing(e) THEN Absent ELSE e

ShowTutorial(o, kind) ==
  /\ Here(o) /\ kind \in presenters /\ ~Ongoing(tutorial[o])
  /\ Cardinality({p \in Askers : Ongoing(tutorial[p])}) < Total /\ nextTutorial <= MaxTutorials
  /\ tutorial' = [tutorial EXCEPT ![o] = [Unasked EXCEPT !.ticket = nextTutorial, !.kind = kind, !.status = "queued"]]
  /\ nextTutorial' = nextTutorial + 1
  /\ UNCHANGED <<presenters, hints, panels>>

\* dismiss and cancel.
DismissTutorial(o) ==
  /\ Here(o) /\ Ongoing(tutorial[o])
  /\ tutorial' = [tutorial EXCEPT ![o] = Cancelled(@)]
  /\ UNCHANGED <<presenters, nextTutorial, hints, panels>>

Leaves(e) == Erased([Cancelled(e) EXCEPT !.detached = TRUE])
DetachAsker(o) ==
  /\ Here(o) /\ tutorial' = [tutorial EXCEPT ![o] = Leaves(@)]
  /\ UNCHANGED <<presenters, nextTutorial, hints, panels>>

\* enable(kind, false) for each of gone.
WithoutKinds(gone, entries) ==
  [o \in Askers |-> IF entries[o].kind \in gone THEN Cancelled(entries[o]) ELSE entries[o]]

\* report(ticket, status).
SlipResurrects(e, ticket, status) ==
  IF e.ticket = ticket /\ e.claimed /\ Ongoing(e) THEN Erased([e EXCEPT !.status = status]) ELSE e
Reported(e, ticket, status) ==
  IF e.ticket = ticket /\ e.claimed /\ Ongoing(e) /\ ~(status = "presented" /\ e.status = "cancelling")
  THEN Erased([e EXCEPT !.status = status]) ELSE e
Report(ticket, status) == [o \in Askers |-> Reported(tutorial[o], ticket, status)]

\* cancelled(ticket)
IsCancelled(ticket) ==
  \A o \in Askers : tutorial[o].ticket = ticket =>
    tutorial[o].detached \/ tutorial[o].status = "cancelling" \/ ~Ongoing(tutorial[o])

\* take and take_dynamic: the oldest request, if the last one has ended.
Takes(kinds, o) ==
  /\ \A p \in Askers : tutorial[p].kind \in kinds => ~(tutorial[p].claimed /\ Ongoing(tutorial[p]))
  /\ LET waiting == {p \in Askers : /\ tutorial[p].kind \in kinds \intersect presenters
                                    /\ tutorial[p].status = "queued" /\ ~tutorial[p].claimed} IN
     o \in waiting /\ \A p \in waiting : tutorial[o].ticket <= tutorial[p].ticket
-----------------------------------------------------------------------------
(* tutorial_hint: update(), in the game's sync callback.                   *)

\* fail(): the session is kept, and nothing is admitted any more.
HintFails ==
  /\ poisoned' = TRUE /\ accepting' = FALSE /\ hintAt' = "idle"
  /\ presenters' = presenters \ Dynamic
  /\ tutorial' = [o \in Askers |-> Reported(WithoutKinds(Dynamic, tutorial)[o], session.ticket, "failed")]
  /\ UNCHANGED <<nextTutorial, session, hintUi, panels>>

\* finish(), if the payload is destroyed.
HintEnds(s) ==
  /\ tutorial' = Report(s.ticket, IF s.cancelled THEN "cancelled" ELSE "dismissed")
  /\ session' = NoSession /\ hintUi' = Dark

HintTake ==
  /\ hintAt = "idle" /\ ~poisoned /\ session.ticket = 0 /\ accepting
  /\ \E o \in Askers :
       /\ Takes(Dynamic, o)
       /\ tutorial' = [tutorial EXCEPT ![o].claimed = TRUE]
       /\ session' = [NoSession EXCEPT !.ticket = tutorial[o].ticket, !.kind = tutorial[o].kind]
  /\ hintAt' = "taken"
  /\ UNCHANGED <<presenters, nextTutorial, accepting, poisoned, hintUi, panels>>

\* Cancelled meanwhile, or its text is made.
HintMake ==
  /\ hintAt = "taken"
  /\ IF IsCancelled(session.ticket)
     THEN /\ tutorial' = Report(session.ticket, "cancelled")
          /\ session' = NoSession /\ hintAt' = "idle"
     ELSE hintAt' = "made" /\ UNCHANGED <<tutorial, session>>
  /\ UNCHANGED <<presenters, nextTutorial, accepting, poisoned, hintUi, panels>>

HintLook ==
  /\ hintAt = "made" \/ (hintAt = "idle" /\ ~poisoned /\ session.ticket # 0)
  /\ LET cancelled == session.cancelled \/ ~accepting \/ IsCancelled(session.ticket) IN
     session' = [session EXCEPT !.cancelled = cancelled,
                                !.retiring = @ \/ cancelled \/ (session.presented /\ session.ripe)]
  /\ hintAt' = "looked"
  /\ UNCHANGED <<requestTable, accepting, poisoned, hintUi, panels>>

\* The game has a hint of its own: ours is hidden.
HintBusy ==
  /\ hintAt = "looked" /\ hintAt' = "idle"
  /\ IF session.retiring THEN HintEnds(session)
     ELSE session' = [session EXCEPT !.suspended = TRUE] /\ hintUi' = Dark /\ UNCHANGED tutorial
  /\ UNCHANGED <<presenters, nextTutorial, accepting, poisoned, panels>>

\* The game's worker draws our data, told to show it or to retire it.
Drawn(ui) ==
  IF session.retiring
  THEN CASE ui.phase = "shown"  -> {ui, [ui EXCEPT !.phase = "fading"]}
         [] ui.phase = "fading" -> {ui, Dark}
         [] OTHER               -> {Dark}
  ELSE {ui, [phase |-> "shown", ticket |-> session.ticket]}

Retired(ui) == ui = Dark

HintDraw ==
  /\ hintAt = "looked" /\ hintAt' = "idle"
  /\ \E ui \in Drawn(IF session.suspended THEN Dark ELSE hintUi) :
       LET s == [session EXCEPT !.suspended = FALSE, !.presented = @ \/ ui.phase = "shown"] IN
       IF s.retiring /\ Retired(ui)
       THEN HintEnds(s)
       ELSE /\ session' = s /\ hintUi' = ui
            /\ tutorial' = IF s.presented /\ ~session.presented
                        THEN Report(s.ticket, "presented") ELSE tutorial
  /\ UNCHANGED <<presenters, nextTutorial, accepting, poisoned, panels>>

\* A payload that cannot be made or destroyed, a fault in the drawing.
HintFault == hintAt \in {"taken", "looked"} /\ HintFails

\* update_input: the player dismisses a prompt.
HintInput ==
  /\ hintAt = "idle" /\ accepting /\ ~poisoned
  /\ session.kind = "prompt" /\ session.presented /\ ~session.retiring /\ ~session.suspended
  /\ hintUi # Dark
  /\ session' = [session EXCEPT !.retiring = TRUE]
  /\ UNCHANGED <<requestTable, hintAt, accepting, poisoned, hintUi, panels>>

\* The duration of the hint passes.
Elapse ==
  /\ session.presented /\ ~session.ripe /\ session' = [session EXCEPT !.ripe = TRUE]
  /\ UNCHANGED <<requestTable, hintAt, accepting, poisoned, hintUi, panels>>

\* shutdown_hint: admission stops first, then the service is told.
StopHints ==
  /\ accepting /\ accepting' = FALSE
  /\ UNCHANGED <<requestTable, session, hintAt, poisoned, hintUi, panels>>
DisableHints ==
  /\ ~accepting /\ presenters \intersect Dynamic # {}
  /\ presenters' = presenters \ Dynamic /\ tutorial' = WithoutKinds(Dynamic, tutorial)
  /\ UNCHANGED <<nextTutorial, hints, panels>>
-----------------------------------------------------------------------------
(* tutorial_native: before_events(), then the game's event worker.         *)

Idle(ui) == ui.pending = "none" /\ ~ui.active /\ ~ui.visible
Owned(ui) == live.ticket # 0 /\ live.context = context /\ ui.key = live.ticket

PanelFails ==
  /\ faulted' = TRUE /\ panelOn' = FALSE /\ panelAt' = "native"
  /\ presenters' = presenters \ {"panel"} /\ tutorial' = WithoutKinds({"panel"}, tutorial)

PanelTake ==
  /\ panelAt = "idle" /\ ~faulted /\ panelOn /\ live.ticket = 0 /\ Idle(panelUi)
  /\ \E o \in Askers :
       /\ Takes({"panel"}, o)
       /\ tutorial' = [tutorial EXCEPT ![o].claimed = TRUE]
       /\ live' = [NoPanel EXCEPT !.ticket = tutorial[o].ticket, !.context = context]
  /\ panelAt' = "taken"
  /\ UNCHANGED <<presenters, nextTutorial, hints, panelOn, faulted, panelUi, context>>

\* No key is free or open_owned refuses, and it failed even if it was cancelled; or it was
\* cancelled while its payload was made; or open_owned publishes it.
PanelOpen ==
  /\ panelAt = "taken" /\ panelAt' = "native"
  /\ \/ /\ \/ tutorial' = Report(live.ticket, "failed")
           \/ IsCancelled(live.ticket) /\ tutorial' = Report(live.ticket, "cancelled")
        /\ live' = NoPanel /\ UNCHANGED panelUi
     \/ /\ ~IsCancelled(live.ticket)
        /\ live' = [live EXCEPT !.opened = TRUE]
        /\ panelUi' = [panelUi EXCEPT !.pending = "open", !.wanted = live.ticket]
        /\ UNCHANGED tutorial
  /\ UNCHANGED <<presenters, nextTutorial, hints, panelOn, faulted, context>>

PanelLook ==
  /\ panelAt = "idle" /\ ~faulted /\ live.ticket # 0 /\ live.context = context
  /\ live' = [live EXCEPT !.cancel = @ \/ ~panelOn \/ IsCancelled(live.ticket)]
  /\ panelAt' = "looked"
  /\ UNCHANGED <<requestTable, hints, panelOn, faulted, panelUi, context>>

\* release_owned, then finish().
SlipAnySync == ~panelUi.active
MayFinish == live.retired /\ Idle(panelUi)
PanelFinish ==
  /\ panelAt = "looked" /\ MayFinish /\ panelAt' = "native"
  /\ tutorial' = Report(live.ticket, IF live.cancel THEN "cancelled" ELSE "dismissed")
  /\ panelUi' = IF Owned(panelUi) /\ Idle(panelUi) THEN [panelUi EXCEPT !.key = 0] ELSE panelUi
  /\ live' = NoPanel
  /\ UNCHANGED <<presenters, nextTutorial, hints, panelOn, faulted, context>>

\* close_owned: asked for only while the menu is ours, on top and nothing is pending.
PanelClose ==
  /\ panelAt = "looked" /\ ~MayFinish /\ live.cancel /\ Owned(panelUi)
  /\ panelUi.pending = "none" /\ panelUi.active
  /\ panelUi' = [panelUi EXCEPT !.active = FALSE] /\ panelAt' = "native"
  /\ UNCHANGED <<requestTable, hints, live, panelOn, faulted, context>>
PanelKeep ==
  /\ panelAt = "looked" /\ ~MayFinish /\ panelAt' = "native"
  /\ UNCHANGED <<requestTable, hints, live, panelOn, faulted, panelUi, context>>

PanelFault ==
  /\ panelAt \in {"taken", "looked"} /\ PanelFails
  /\ UNCHANGED <<nextTutorial, hints, live, panelUi, context>>

\* original_events, on the private data if it is asked for them; or a callback
\* that before_events leaves alone.
NativeEvents ==
  /\ panelAt = "native" \/ (panelAt = "idle" /\ panelUi.pending # "none")
  /\ panelAt' = "idle"
  /\ panelUi' = CASE panelUi.pending = "open" ->
                       [panelUi EXCEPT !.pending = "none", !.wanted = 0, !.active = TRUE, !.key = panelUi.wanted]
                  [] panelUi.pending = "close" -> [panelUi EXCEPT !.pending = "none", !.active = FALSE]
                  [] OTHER -> panelUi
  /\ UNCHANGED <<requestTable, hints, live, panelOn, faulted, context>>

\* The sync worker, then observe_sync.
PanelSync ==
  /\ panelAt = "idle"
  /\ panelUi' = [panelUi EXCEPT !.visible = panelUi.active]
  /\ LET match == ~faulted /\ live.ticket # 0 /\ live.context = context
         appears == match /\ live.opened /\ Owned(panelUi) /\ panelUi.active /\ ~live.presented IN
     /\ live' = [live EXCEPT !.presented = @ \/ appears,
                             !.retired = @ \/ (match /\ live.opened /\ Idle(panelUi'))]
     /\ tutorial' = IF appears THEN Report(live.ticket, "presented") ELSE tutorial
  /\ UNCHANGED <<presenters, nextTutorial, hints, panelAt, panelOn, faulted, context>>

\* The player closes the panel on screen; the game opens one of its own, or goes
\* to another world.
PlayerCloses ==
  /\ panelAt = "idle" /\ panelUi.visible /\ panelUi.active /\ panelUi.pending = "none"
  /\ panelUi' = [panelUi EXCEPT !.pending = "close"]
  /\ UNCHANGED <<requestTable, hints, live, panelAt, panelOn, faulted, context>>
GameOpens ==
  /\ panelAt = "idle" /\ panelUi.pending = "none"
  /\ panelUi' = [panelUi EXCEPT !.pending = "open", !.wanted = Foreign]
  /\ UNCHANGED <<requestTable, hints, live, panelAt, panelOn, faulted, context>>
NewContext ==
  /\ panelAt = "idle" /\ context < MaxContext
  /\ context' = context + 1 /\ panelUi' = Closed
  /\ UNCHANGED <<requestTable, hints, live, panelAt, panelOn, faulted>>

\* tutorial_native::stop.
StopPanels ==
  /\ panelOn /\ panelOn' = FALSE
  /\ presenters' = presenters \ {"panel"} /\ tutorial' = WithoutKinds({"panel"}, tutorial)
  /\ UNCHANGED <<nextTutorial, hints, live, panelAt, faulted, panelUi, context>>

TutorialsNext ==
  \/ \E o \in Askers : DismissTutorial(o) \/ DetachAsker(o) \/ \E kind \in Kinds : ShowTutorial(o, kind)
  \/ HintTake \/ HintMake \/ HintLook \/ HintBusy \/ HintDraw \/ HintFault \/ HintInput
  \/ Elapse \/ StopHints \/ DisableHints
  \/ PanelTake \/ PanelOpen \/ PanelLook \/ PanelFinish \/ PanelClose \/ PanelKeep \/ PanelFault
  \/ NativeEvents \/ PanelSync \/ PlayerCloses \/ GameOpens \/ NewContext \/ StopPanels

TutorialsSpec == TutorialsInit /\ [][TutorialsNext]_tutorialVars
-----------------------------------------------------------------------------
Requests == [ticket : 0..MaxTutorials, kind : Kinds, claimed : BOOLEAN, detached : BOOLEAN,
             status : {"none", "absent", "queued", "presented", "cancelling", "cancelled", "dismissed", "failed"}]
Sessions == [ticket : 0..MaxTutorials, kind : Kinds, presented : BOOLEAN, retiring : BOOLEAN,
             cancelled : BOOLEAN, suspended : BOOLEAN, ripe : BOOLEAN]
Panels   == [ticket : 0..MaxTutorials, context : Nat, opened : BOOLEAN, presented : BOOLEAN,
             cancel : BOOLEAN, retired : BOOLEAN]

TutorialsTypeOK ==
  /\ tutorial \in [Askers -> Requests] /\ presenters \subseteq Kinds
  /\ nextTutorial \in 1..(MaxTutorials + 1)
  /\ session \in Sessions /\ hintAt \in {"idle", "taken", "made", "looked"}
  /\ accepting \in BOOLEAN /\ poisoned \in BOOLEAN
  /\ hintUi \in [phase : {"off", "shown", "fading"}, ticket : 0..MaxTutorials]
  /\ live \in Panels /\ panelAt \in {"idle", "taken", "looked", "native"}
  /\ panelOn \in BOOLEAN /\ faulted \in BOOLEAN /\ context \in Nat
  /\ panelUi \in [pending : {"none", "open", "close"}, wanted : 0..Foreign, active : BOOLEAN,
                  visible : BOOLEAN, key : 0..Foreign]

\* What a presenter holds is exactly what the service has given out and not been
\* told the end of: no ticket is lost between them, which would block its kind
\* for ever, and none is reported ended before it was taken back
\* (mod_tutorials.h:40).
Holds(ticket) == ticket \in {session.ticket, live.ticket}
GivenOutIsHeld ==
  /\ \A o \in Askers : tutorial[o].claimed /\ Ongoing(tutorial[o]) => Holds(tutorial[o].ticket)
  /\ session.ticket # 0 /\ ~poisoned =>
       \E o \in Askers : tutorial[o].ticket = session.ticket /\ tutorial[o].claimed /\ Ongoing(tutorial[o])
  /\ live.ticket # 0 =>
       \E o \in Askers : tutorial[o].ticket = live.ticket /\ tutorial[o].claimed /\ Ongoing(tutorial[o])

\* A request that was dismissed or cancelled is not on the screen any more, nor
\* about to be: a late event of the game does not find it (docs/mod-tutorials.md:121).
OnScreen == {hintUi.ticket} \union
  (IF panelUi.active \/ panelUi.visible THEN {panelUi.key} ELSE {}) \union
  (IF panelUi.pending = "open" THEN {panelUi.wanted} ELSE {})
EndedIsGone ==
  \A o \in Askers : tutorial[o].status \in {"dismissed", "cancelled"} => tutorial[o].ticket \notin OnScreen

TutorialsAgree == GivenOutIsHeld /\ EndedIsGone

\* The end of a request is final, and one whose cancellation was asked for never
\* again says that it is presented.
NoResurrection ==
  [][\A o \in Askers : tutorial'[o].ticket = tutorial[o].ticket /\ tutorial[o].ticket # 0 =>
       /\ ~Ongoing(tutorial[o]) => tutorial'[o].status \in {tutorial[o].status, "absent"}
       /\ tutorial[o].status = "cancelling" => tutorial'[o].status \notin {"queued", "presented"}]_tutorialVars
=============================================================================
