------------------------------ MODULE ModPanel ------------------------------
(***************************************************************************)
(* The Mods page of the options menu (diagnostics/native_ui_panel.html),   *)
(* the protocol that serves it (runtime/settings_ui.cpp) and what it shows *)
(* and changes of one guest: a setting (runtime/mod_settings.cpp) and a    *)
(* list (runtime/mod_lists.cpp), which the guest changes too.              *)
(*                                                                         *)
(* The page shows a copy.  The player edits or clicks in the copy, the     *)
(* change waits in a queue, travels in a numbered request that may be      *)
(* late, repeated or given up, and is applied if its revision still is the *)
(* one of the setting or list.  A request and its answer are three locked  *)
(* sections: the change, the copy of the settings, the copy of the lists.  *)
(*                                                                         *)
(* change.saw and change.id, and tookEffect, are history: what the player saw *)
(* when the edit began, and which changes took effect.                     *)
(* An operator named Slip... is a plausible mistake in the definition that *)
(* follows it and is used nowhere; it shows that a property can fail.      *)
(***************************************************************************)
EXTENDS Naturals, Sequences, FiniteSets, TLC

CONSTANTS
  Values, Initial,   \* values of the setting, the one it is defined with
  Rows,         \* rows of the list
  MaxQueued,    \* changes queued in the page (32)
  MaxEvents,    \* CRML_LIST_EVENTS_MAX (16)
  MaxRevision, MaxLists, MaxDocs, MaxRequests, MaxChanges   \* bounds of the counters

\* The setting has its first value among the others; bounds are numbers.
PanelAssumption ==
  /\ Initial \in Values
  /\ {MaxQueued, MaxEvents, MaxRevision, MaxLists, MaxDocs, MaxRequests, MaxChanges} \subseteq Nat
ASSUME PanelAssumed == PanelAssumption

None == [kind |-> "none"]

VARIABLES
  attached,              \* the guest is known to both services
  setting,               \* Item: value and revision
  list, listRevision,    \* Owner of mod_lists and Impl::revision
  listsOn,               \* Impl::enabled of mod_lists
  uiOn, nonce, served,   \* SettingsUi: enabled_, page_, sequence_
  serving,               \* the exchange that holds the lock of SettingsUi
  wire,                  \* requests sent so far: each may arrive at any time, or again
  answer,                \* answer on its way to the request the page waits for
  doc,                   \* the document
  changes, tookEffect       \* history

guest == <<attached, setting, list, listRevision, listsOn>>
ui    == <<uiOn, nonce, served, serving>>
panelVars  == <<guest, ui, wire, answer, doc, changes, tookEffect>>

NoList == [visible |-> FALSE, revision |-> 0, page |-> {}, events |-> <<>>]
Fresh(page) == [page |-> page, sequence |-> 0, waiting |-> FALSE, writing |-> None, queued |-> <<>>,
                loaded |-> FALSE, active |-> FALSE, stopped |-> FALSE, edit |-> None,
                setting |-> None, list |-> None]

PanelInit ==
  /\ attached = TRUE /\ setting = [value |-> Initial, revision |-> 1]
  /\ list = NoList /\ listRevision = 0 /\ listsOn = TRUE
  /\ uiOn = TRUE /\ nonce = 1 /\ served = 0 /\ serving = None
  /\ wire = {} /\ answer = None /\ doc = Fresh(1) /\ changes = 0 /\ tookEffect = {}
-----------------------------------------------------------------------------
(* The guest.                                                              *)

\* ModSettings::set, with or without the revision it read.
Set(value) ==
  /\ attached /\ value # setting.value /\ setting.revision < MaxRevision
  /\ setting' = [value |-> value, revision |-> setting.revision + 1]
  /\ UNCHANGED <<attached, list, listRevision, listsOn, ui, wire, answer, doc, changes, tookEffect>>

\* ModLists::publish; its rate limit only refuses.
Same(page) == page = list.page
Publish(page) ==
  /\ attached /\ listsOn /\ listRevision < MaxLists
  /\ LET changed == ~list.visible \/ ~Same(page) IN
     /\ listRevision' = IF changed THEN listRevision + 1 ELSE listRevision
     /\ list' = [list EXCEPT !.page = page, !.visible = TRUE,
                             !.revision = IF changed THEN listRevision + 1 ELSE @]
  /\ UNCHANGED <<attached, setting, listsOn, ui, wire, answer, doc, changes, tookEffect>>

Hidden(l) == [l EXCEPT !.visible = FALSE, !.events = <<>>]
Hide ==
  /\ attached /\ (list.visible \/ list.events # <<>>)
  /\ list' = Hidden(list)
  /\ UNCHANGED <<attached, setting, listRevision, listsOn, ui, wire, answer, doc, changes, tookEffect>>

\* ModLists::next
TakeEvent ==
  /\ attached /\ listsOn /\ list.events # <<>>
  /\ list' = [list EXCEPT !.events = Tail(@)]
  /\ UNCHANGED <<attached, setting, listRevision, listsOn, ui, wire, answer, doc, changes, tookEffect>>

Detach ==
  /\ attached /\ attached' = FALSE /\ list' = NoList
  /\ UNCHANGED <<setting, listRevision, listsOn, ui, wire, answer, doc, changes, tookEffect>>
-----------------------------------------------------------------------------
(* SettingsUi.                                                             *)

\* native_ui's stop: first the protocol, then the lists.
StopUi ==
  /\ uiOn /\ serving = None
  /\ uiOn' = FALSE /\ nonce' = nonce + 1 /\ served' = 0
  /\ UNCHANGED <<guest, serving, wire, answer, doc, changes, tookEffect>>
StopLists ==
  /\ ~uiOn /\ listsOn /\ listsOn' = FALSE /\ list' = Hidden(list)
  /\ UNCHANGED <<attached, setting, listRevision, ui, wire, answer, doc, changes, tookEffect>>

Awaited(r) == doc.waiting /\ r.page = doc.page /\ r.sequence = doc.sequence
Answered(r, a) == answer' = IF Awaited(r) /\ answer = None THEN a ELSE answer

\* The checks of exchange that refuse a request.
Refusal(r) ==
  IF serving # None \/ ~uiOn THEN 503
  ELSE IF r.page # nonce THEN 403
  ELSE IF r.sequence <= served THEN 409
  ELSE 200

Refuse(r) ==
  /\ Refusal(r) # 200
  /\ Awaited(r) /\ answer = None
  /\ Answered(r, [kind |-> "refusal", code |-> Refusal(r)])
  /\ UNCHANGED <<guest, ui, wire, doc, changes, tookEffect>>

\* ModSettings::set for the page.
Applies(c) == attached /\ c.revision = setting.revision /\ c.value # setting.value
\* ModLists::activate.  Slip: a row with the same id on another page will do.
SlipAnyRevision(c) ==
  /\ listsOn /\ attached /\ list.visible
  /\ c.row \in list.page /\ Len(list.events) < MaxEvents
Activates(c) ==
  /\ listsOn /\ attached /\ list.visible /\ list.revision = c.revision
  /\ c.row \in list.page /\ Len(list.events) < MaxEvents

\* The first locked section.
Exchange(r) ==
  /\ Refusal(r) = 200
  /\ served' = r.sequence
  /\ LET c == r.change
         does == \/ c.kind = "set" /\ Applies(c) /\ setting.revision < MaxRevision
                 \/ c.kind = "list" /\ Activates(c) IN
     /\ setting' = IF does /\ c.kind = "set"
                   THEN [value |-> c.value, revision |-> setting.revision + 1] ELSE setting
     /\ list' = IF does /\ c.kind = "list" THEN [list EXCEPT !.events = Append(@, c)] ELSE list
     /\ tookEffect' = IF does THEN tookEffect \union {c.id} ELSE tookEffect
  /\ serving' = [kind |-> "settings", request |-> r]
  /\ UNCHANGED <<attached, listRevision, listsOn, uiOn, nonce, wire, answer, doc, changes>>

\* ModSettings::snapshot
CopySettings ==
  /\ serving.kind = "settings"
  /\ serving' = [kind |-> "lists", request |-> serving.request,
                 setting |-> IF ~attached THEN None
                             ELSE [kind |-> "setting", value |-> setting.value,
                                   revision |-> setting.revision]]
  /\ UNCHANGED <<guest, uiOn, nonce, served, wire, answer, doc, changes, tookEffect>>

\* ModLists::snapshot and the end of exchange.
CopyLists ==
  /\ serving.kind = "lists" /\ serving' = None
  /\ Answered(serving.request,
       [kind |-> "page", setting |-> serving.setting,
        list |-> IF listsOn /\ attached /\ list.visible
                 THEN [kind |-> "list", revision |-> list.revision, page |-> list.page] ELSE None])
  /\ UNCHANGED <<guest, uiOn, nonce, served, wire, doc, changes, tookEffect>>
-----------------------------------------------------------------------------
(* The document.                                                           *)

\* The menu loads its document: open_page numbers it.
Open ==
  /\ uiOn /\ serving = None /\ nonce < MaxDocs
  /\ nonce' = nonce + 1 /\ served' = 0 /\ doc' = Fresh(nonce + 1) /\ answer' = None
  /\ UNCHANGED <<guest, uiOn, serving, wire, changes, tookEffect>>

\* enter and leave: the player opens the tab, or the game takes it away.
Enter ==
  /\ ~doc.stopped /\ ~doc.active /\ doc' = [doc EXCEPT !.active = TRUE]
  /\ UNCHANGED <<guest, ui, wire, answer, changes, tookEffect>>
Left(d) == [d EXCEPT !.active = FALSE, !.edit = None]
Leave ==
  /\ doc.active /\ doc' = Left(doc)
  /\ UNCHANGED <<guest, ui, wire, answer, changes, tookEffect>>

Pending(kind) == doc.writing.kind = kind \/ \E i \in DOMAIN doc.queued : doc.queued[i].kind = kind
MaySubmit(kind) == doc.active /\ ~Pending(kind) /\ changes < MaxChanges
Submitted(c, edit) ==
  /\ doc' = [doc EXCEPT !.edit = edit,
                        !.queued = IF Len(@) < MaxQueued THEN Append(@, c) ELSE @]
  /\ changes' = changes + 1
  /\ UNCHANGED <<guest, ui, wire, answer, tookEffect>>

\* A drag or a text edit begins with the value and revision on the screen.
BeginEdit ==
  /\ doc.active /\ ~Pending("set") /\ doc.edit = None /\ doc.setting # None
  /\ doc' = [doc EXCEPT !.edit = doc.setting]
  /\ UNCHANGED <<guest, ui, wire, answer, changes, tookEffect>>
SlipLatestRevision == doc.setting.revision
EditRevision == doc.edit.revision
EndEdit(value) ==
  /\ doc.edit # None /\ doc.setting # None /\ MaySubmit("set")
  /\ Submitted([kind |-> "set", revision |-> EditRevision, value |-> value,
                saw |-> doc.edit.value, id |-> changes + 1], None)

Click(row) ==
  /\ doc.list # None /\ row \in doc.list.page /\ MaySubmit("list")
  /\ Submitted([kind |-> "list", revision |-> doc.list.revision, row |-> row,
                saw |-> doc.list.page, id |-> changes + 1], doc.edit)

\* pollSettings, every 200 ms and after a change.
Poll ==
  /\ ~doc.stopped /\ ~doc.waiting /\ (~doc.loaded \/ doc.active \/ doc.queued # <<>>)
  /\ Cardinality(wire) < MaxRequests
  /\ LET c == IF doc.queued = <<>> THEN None ELSE Head(doc.queued) IN
     /\ doc' = [doc EXCEPT !.sequence = @ + 1, !.waiting = TRUE, !.writing = c,
                           !.queued = IF @ = <<>> THEN @ ELSE Tail(@)]
     /\ wire' = wire \union {[page |-> doc.page, sequence |-> doc.sequence + 1, change |-> c]}
  /\ answer' = None
  /\ UNCHANGED <<guest, ui, changes, tookEffect>>

\* fail(): the time limit, an error or an answer that makes no sense.
GiveUp ==
  /\ doc.waiting
  /\ doc' = [doc EXCEPT !.waiting = FALSE, !.writing = None, !.queued = <<>>]
  /\ answer' = None
  /\ UNCHANGED <<guest, ui, wire, changes, tookEffect>>

\* onload
Receive ==
  /\ doc.waiting /\ answer # None /\ answer' = None
  /\ doc' = IF answer.kind = "refusal"
            THEN [Left(doc) EXCEPT !.stopped = TRUE, !.waiting = FALSE, !.queued = <<>>]
            ELSE [doc EXCEPT !.waiting = FALSE, !.writing = None, !.loaded = TRUE,
                             !.setting = answer.setting, !.list = answer.list,
                             !.edit = IF answer.setting = None THEN None ELSE @]
  /\ UNCHANGED <<guest, ui, wire, changes, tookEffect>>

PanelNext ==
  \/ \E value \in Values : Set(value) \/ EndEdit(value)
  \/ \E page \in SUBSET Rows : Publish(page)
  \/ Hide \/ TakeEvent \/ Detach \/ StopUi \/ StopLists
  \/ \E r \in wire : Refuse(r) \/ Exchange(r)
  \/ CopySettings \/ CopyLists
  \/ Open \/ Enter \/ Leave \/ BeginEdit \/ Poll \/ GiveUp \/ Receive
  \/ \E row \in Rows : Click(row)

PanelSpec == PanelInit /\ [][PanelNext]_panelVars
-----------------------------------------------------------------------------
\* What the player does takes effect at most once, and only on what he saw when
\* he began: a value the guest set meanwhile is never overwritten unseen, and a
\* row of a list that has become another one is never activated, though the
\* request was late, repeated or given up (docs/mod-settings.md, docs/mod-lists.md:85).
ActsOnWhatWasSeen ==
  [][serving = None /\ serving' # None =>
       LET c == serving'.request.change IN
       /\ setting' # setting => c.saw = setting.value /\ c.id \notin tookEffect
       /\ list' # list => c.saw = list.page /\ list.visible /\ c.id \notin tookEffect]_panelVars
=============================================================================
