------------------------------ MODULE Drawing ------------------------------
(***************************************************************************)
(* runtime/mod_drawing.cpp: what guests draw into the game's document and  *)
(* on its map, and what the player does with it.                           *)
(*                                                                         *)
(* Four threads meet under one mutex.  Guests publish surfaces and sets of *)
(* map annotations under leases, and read the events that the player's     *)
(* actions queue for them.  Hooks of the game bring the projection of its  *)
(* map and of its minimap; a new projection is a new context.  The page    *)
(* polls, names what the pointer is over and which editor is open, and     *)
(* sends edits.  A hook of the marker key asks whether the key is for a    *)
(* guest.  Each call is one step, but a poll, which takes the mutex twice. *)
(*                                                                         *)
(* Deadlines are flags that time takes away (late, ~map, ~fresh): of two   *)
(* deadlines either may pass first.  The rate limit and the validation of  *)
(* a frame only refuse, which changes nothing but what Expire finds.       *)
(* Positions are left out: whether an item is in sight, or near the        *)
(* cursor, is any outcome.  arrivals stands for native_order and           *)
(* placement_order: <<o, w>> when both have an order and o's is no larger. *)
(*                                                                         *)
(* The page in hover and editor, the context of an event, and deletions,   *)
(* are history.                                                            *)
(* An operator named Slip... is a plausible mistake in the definition that *)
(* follows it and is used nowhere; it shows that a property can fail.      *)
(***************************************************************************)
EXTENDS Naturals, Sequences, FiniteSets, SequencesExt

CONSTANTS
  Guests, Nobody,    \* owners, owner 0
  Layers,            \* what a guest may publish: of "frame", "map", "sonar"
  Offers,            \* annotation sets a guest may publish: [version, flags, items]
  MaxSurfaces,       \* CRML_DRAWING_VISIBLE_MAX (4)
  MaxNotes,          \* owners with annotations (4)
  MaxQueue,          \* events of an owner, and hovered_deletes (16)
  MaxPage, MaxContext, MaxRevision   \* bounds of the counters

\* Guests are somebody, and there is room for an event.
DrawingAssumption ==
  /\ Nobody \notin Guests /\ Layers \subseteq {"frame", "map", "sonar"}
  /\ MaxQueue \in Nat \ {0} /\ MaxSurfaces \in Nat /\ MaxRevision \in Nat
ASSUME DrawingAssumed == DrawingAssumption

Claims == {"native", "place"}   \* CRML_MAP_ANNOTATIONS_NATIVE_MARKERS, _PLACE_ACTION

VARIABLES
  attached, enabled,  \* owners; the renderer is there
  page, document,     \* Impl::page, and the one the document has, which the renderer may outdate
  context, map,       \* map_context, and: now < map_deadline
  projected,          \* projection_valid
  stream, sonar,      \* sonar_context, and: now < sonar_deadline
  board,              \* what expire changes: surfaces, notes, arrivals, holder, hover
  editor,             \* editor_owner.., and: now < editor_deadline
  polls               \* pages whose poll has released the mutex once

views == <<context, map, projected, stream, sonar>>
drawingVars == <<attached, enabled, page, document, views, board, editor, polls>>

NoNotes == [shown |-> FALSE, late |-> FALSE, offer |-> [version |-> 0, flags |-> {}, items |-> {}],
            revision |-> 0, context |-> 0, events |-> <<>>, hovered |-> {}, deletions |-> <<>>]
NoHover == [owner |-> Nobody]
NoEditor == [owner |-> Nobody]
EmptyBoard == [surfaces |-> {}, notes |-> [o \in Guests |-> NoNotes], hover |-> NoHover,
               arrivals |-> [c \in Claims |-> {}], holder |-> [c \in Claims |-> Nobody]]

DrawingInit ==
  /\ attached = {} /\ enabled = FALSE /\ page = 0 /\ document = 0
  /\ context = 0 /\ map = FALSE /\ projected = FALSE /\ stream = 0 /\ sonar = FALSE
  /\ board = EmptyBoard /\ editor = NoEditor /\ polls = {}
-----------------------------------------------------------------------------
(* Leases.                                                                 *)

Fresh(layer) == CASE layer = "frame" -> TRUE [] layer = "map" -> map [] OTHER -> sonar
ContextOf(layer) == CASE layer = "frame" -> 0 [] layer = "map" -> context [] OTHER -> stream

\* Hiding a set takes the events and the deletions that wait for its guest.
SlipKeepsEvents(notes) == [NoNotes EXCEPT !.events = notes.events]
Hidden(notes) == NoNotes

Over(notes) == notes.shown /\ (notes.late \/ ~(map \/ sonar))

\* Who waits for a claim, who has waited longest, and the line of some of them.
InLine(line) == {o \in Guests : <<o, o>> \in line}
Foremost(line) == CHOOSE o \in InLine(line) : \A w \in InLine(line) : <<o, w>> \in line
Kept(line, owners) == line \intersect (owners \X owners)

\* The holder keeps a claim while it is eligible; then the first arrival has it.
SlipLatest(b) ==
  [b EXCEPT !.holder = [c \in Claims |->
     IF InLine(b.arrivals[c]) = {} THEN Nobody
     ELSE CHOOSE o \in InLine(b.arrivals[c]) : \A w \in InLine(b.arrivals[c]) : <<w, o>> \in b.arrivals[c]]]
Arbitrate(b) ==
  [b EXCEPT !.holder = [c \in Claims |->
     IF b.holder[c] \in InLine(b.arrivals[c]) THEN b.holder[c]
     ELSE IF InLine(b.arrivals[c]) = {} THEN Nobody ELSE Foremost(b.arrivals[c])]]

\* The pointer is over an item of what its owner still shows.
Stands(hover, notes) ==
  /\ hover # NoHover /\ hover.fresh /\ map
  /\ notes[hover.owner].shown
  /\ notes[hover.owner].revision = hover.revision /\ notes[hover.owner].context = hover.context

\* expire
Expire(b) ==
  LET notes == [o \in Guests |-> IF Over(b.notes[o]) THEN Hidden(b.notes[o]) ELSE b.notes[o]] IN
  Arbitrate([b EXCEPT
    !.notes = notes,
    !.surfaces = {s \in b.surfaces : ~s.late /\ Fresh(s.layer)},
    !.arrivals = [c \in Claims |-> Kept(b.arrivals[c], {o \in Guests : notes[o].shown})],
    !.hover = IF Stands(b.hover, notes) THEN b.hover ELSE NoHover])

\* Time passes one of the deadlines.
Lapse ==
  /\ \/ /\ \E s \in board.surfaces : board' = [board EXCEPT !.surfaces = (@ \ {s}) \union {[s EXCEPT !.late = TRUE]}]
        /\ UNCHANGED <<map, sonar, editor>>
     \/ /\ \E o \in Guests :
             board.notes[o].shown /\ ~board.notes[o].late /\ board' = [board EXCEPT !.notes[o].late = TRUE]
        /\ UNCHANGED <<map, sonar, editor>>
     \/ /\ board.hover # NoHover /\ board.hover.fresh /\ board' = [board EXCEPT !.hover.fresh = FALSE]
        /\ UNCHANGED <<map, sonar, editor>>
     \/ map /\ map' = FALSE /\ UNCHANGED <<board, sonar, editor>>
     \/ sonar /\ sonar' = FALSE /\ UNCHANGED <<board, map, editor>>
     \/ editor # NoEditor /\ editor' = NoEditor /\ UNCHANGED <<board, map, sonar>>
  /\ UNCHANGED <<attached, enabled, page, document, context, projected, stream, polls>>
-----------------------------------------------------------------------------
(* The host, and the hooks that bring the projections.                     *)

Attach(o) ==
  /\ o \notin attached /\ attached' = attached \union {o}
  /\ UNCHANGED <<enabled, page, document, views, board, editor, polls>>

Without(b, o) ==
  [b EXCEPT !.notes[o] = Hidden(@), !.hover = IF @.owner = o THEN NoHover ELSE @,
            !.arrivals = [c \in Claims |-> Kept(@[c], Guests \ {o})]]

\* detach and cancel also take the surfaces of the owner.
Detach(o) ==
  /\ o \in attached /\ attached' = attached \ {o}
  /\ board' = Expire([Without(board, o) EXCEPT !.surfaces = {s \in @ : s.owner # o}])
  /\ UNCHANGED <<enabled, page, document, views, editor, polls>>
Cancel(o) ==
  /\ o \in attached
  /\ board' = Expire([Without(board, o) EXCEPT !.surfaces = {s \in @ : s.owner # o}])
  /\ UNCHANGED <<attached, enabled, page, document, views, editor, polls>>

\* enable_renderer, enable_map_editor_input.
Enable ==
  /\ ~enabled /\ enabled' = TRUE /\ editor' = NoEditor
  /\ UNCHANGED <<attached, page, document, views, board, polls>>

\* No document has the new page number.
Disable ==
  /\ enabled /\ page < MaxPage /\ enabled' = FALSE /\ page' = page + 1
  /\ projected' = FALSE /\ map' = FALSE /\ sonar' = FALSE /\ board' = EmptyBoard
  /\ UNCHANGED <<attached, document, context, stream, editor, polls>>

OpenPage ==
  /\ enabled /\ page < MaxPage /\ page' = page + 1 /\ document' = page + 1
  /\ board' = EmptyBoard /\ editor' = NoEditor
  /\ UNCHANGED <<attached, enabled, views, polls>>

\* A changed projection is a new context and hides all that was placed by the old one.
SlipKeepsNotes(changed) ==
  /\ enabled /\ (changed \/ projected) /\ (changed => context < MaxContext)
  /\ context' = (IF changed THEN context + 1 ELSE context)
  /\ board' = IF changed
              THEN [board EXCEPT !.hover = NoHover, !.surfaces = {s \in @ : s.layer # "map"}]
              ELSE board
  /\ projected' = TRUE /\ map' = TRUE
  /\ UNCHANGED <<attached, enabled, page, document, stream, sonar, editor, polls>>
UpdateMap(changed) ==
  /\ enabled /\ (changed \/ projected) /\ (changed => context < MaxContext)
  /\ context' = (IF changed THEN context + 1 ELSE context)
  /\ board' = IF changed
              THEN [board EXCEPT !.hover = NoHover, !.notes = [o \in Guests |-> Hidden(@[o])],
                                 !.surfaces = {s \in @ : s.layer # "map"}]
              ELSE board
  /\ projected' = TRUE /\ map' = TRUE
  /\ UNCHANGED <<attached, enabled, page, document, stream, sonar, editor, polls>>

UpdateSonar ==
  /\ enabled /\ (~sonar => stream < MaxContext) /\ sonar' = TRUE
  /\ stream' = (IF sonar THEN stream ELSE stream + 1)
  /\ board' = IF sonar THEN board ELSE [board EXCEPT !.surfaces = {s \in @ : s.layer # "sonar"}]
  /\ UNCHANGED <<attached, enabled, page, document, context, map, projected, editor, polls>>
-----------------------------------------------------------------------------
(* The guest's calls.                                                      *)

Guest(o) == enabled /\ o \in attached /\ UNCHANGED <<attached, enabled, page, document, views, editor, polls>>

\* publish, map_publish: for is the context the guest read; a frame of the map that is
\* all out of sight is not shown, one of the minimap keeps its place.
SlipAnyContext(o, layer, for) ==
  /\ Guest(o) /\ Fresh(layer)
  /\ LET b == Expire(board)
         others == {s \in b.surfaces : ~(s.owner = o /\ s.layer = layer)} IN
     /\ b.surfaces # others \/ Cardinality(b.surfaces) < MaxSurfaces
     /\ \E shown \in (IF layer = "map" THEN BOOLEAN ELSE {TRUE}) :
          board' = [b EXCEPT !.surfaces = others \union
                      (IF shown THEN {[owner |-> o, layer |-> layer, context |-> for, late |-> FALSE]} ELSE {})]
SlipUnlimited(o, layer, for) ==
  /\ Guest(o) /\ Fresh(layer) /\ for = ContextOf(layer)
  /\ LET b == Expire(board)
         others == {s \in b.surfaces : ~(s.owner = o /\ s.layer = layer)} IN
     board' = [b EXCEPT !.surfaces = others \union {[owner |-> o, layer |-> layer, context |-> for, late |-> FALSE]}]
Publish(o, layer, for) ==
  /\ Guest(o) /\ Fresh(layer) /\ for = ContextOf(layer)
  /\ LET b == Expire(board)
         others == {s \in b.surfaces : ~(s.owner = o /\ s.layer = layer)} IN
     /\ b.surfaces # others \/ Cardinality(b.surfaces) < MaxSurfaces
     /\ \E shown \in (IF layer = "map" THEN BOOLEAN ELSE {TRUE}) :
          board' = [b EXCEPT !.surfaces = others \union
                      (IF shown THEN {[owner |-> o, layer |-> layer, context |-> for, late |-> FALSE]} ELSE {})]

HideSurface(o, layer) ==
  /\ o \in attached
  /\ board' = [Expire(board) EXCEPT !.surfaces = {s \in @ : ~(s.owner = o /\ s.layer = layer)}]
  /\ UNCHANGED <<attached, enabled, page, document, views, editor, polls>>

HideNotes(o) ==
  /\ o \in attached /\ board' = Expire(Without(board, o))
  /\ UNCHANGED <<attached, enabled, page, document, views, editor, polls>>

\* An opt-in that is new arrives last; one that is given up loses its place.
Joined(arrivals, o, flags) ==
  [c \in Claims |-> IF c \notin flags THEN Kept(arrivals[c], Guests \ {o})
                    ELSE IF o \in InLine(arrivals[c]) THEN arrivals[c]
                    ELSE arrivals[c] \union {<<w, o>> : w \in InLine(arrivals[c]) \union {o}}]

\* annotations_publish of the three versions: of a set that is shown, a revision may not
\* go back, nor mean something else.
Annotate(o, offer, revision, for) ==
  /\ Guest(o) /\ (map \/ sonar) /\ for = context
  /\ LET b == Expire(board)
         old == b.notes[o] IN
     /\ old.shown \/ Cardinality({p \in Guests : b.notes[p].shown}) < MaxNotes
     /\ old.shown => revision > old.revision \/ (revision = old.revision /\ offer = old.offer)
     /\ board' = Arbitrate([b EXCEPT
          !.notes[o] = [shown |-> TRUE, late |-> FALSE, offer |-> offer, revision |-> revision, context |-> for,
                        events |-> IF old.shown /\ old.offer.version = offer.version THEN old.events ELSE <<>>,
                        hovered |-> IF old.shown /\ old.revision = revision THEN old.hovered ELSE {},
                        deletions |-> IF old.shown THEN old.deletions ELSE <<>>],
          !.arrivals = Joined(@, o, offer.flags)])

\* annotations_next, annotations_next_v2: each reads the sets of its own versions.
ReadEvent(o, version) ==
  /\ Guest(o)
  /\ LET b == Expire(board) IN
     /\ b.notes[o].events # <<>> /\ (b.notes[o].offer.version = 3) = (version = 3)
     /\ board' = [b EXCEPT !.notes[o].events = Tail(@)]

\* Status, diagnostics and what is refused.
Observe ==
  /\ board' = Expire(board) /\ board' # board
  /\ UNCHANGED <<attached, enabled, page, document, views, editor, polls>>
-----------------------------------------------------------------------------
(* The player: the marker key, which a hook of the game asks about.        *)

Player == enabled /\ UNCHANGED <<attached, enabled, page, document, views, editor, polls>>

Event(notes, action, item) ==
  [action |-> action, item |-> item, revision |-> notes.revision, context |-> notes.context,
   version |-> notes.offer.version]
Editable(notes) == {i \in notes.offer.items : ~i.native /\ i.editable}

\* hovered_annotation_action: the key is taken when the pointer is in the box of the
\* selected item; its deletion is asked for once in a revision, if there is room.
SlipAsksAgain ==
  /\ Player /\ map /\ projected /\ editor = NoEditor
  /\ LET b == Expire(board)
         notes == b.notes[b.hover.owner] IN
     /\ b.hover # NoHover /\ b.hover.owner = b.holder["place"] /\ "place" \in notes.offer.flags
     /\ board' =
          IF Len(notes.events) >= MaxQueue THEN b
          ELSE [b EXCEPT !.notes[b.hover.owner].events = Append(@, Event(notes, "delete", b.hover.item)),
                         !.notes[b.hover.owner].deletions = Append(@, <<notes.revision, b.hover.item>>)]
MarkerKey ==
  /\ Player /\ map /\ projected /\ editor = NoEditor
  /\ LET b == Expire(board)
         notes == b.notes[b.hover.owner]
         waits == \E e \in ToSet(notes.events) :
                    e.action = "delete" /\ e.revision = notes.revision /\ e.item = b.hover.item IN
     /\ b.hover # NoHover /\ b.hover.owner = b.holder["place"] /\ "place" \in notes.offer.flags
     /\ board' =
          IF b.hover.item \in notes.hovered \/ Cardinality(notes.hovered) >= MaxQueue THEN b
          ELSE IF waits THEN [b EXCEPT !.notes[b.hover.owner].hovered = @ \union {b.hover.item}]
          ELSE IF Len(notes.events) >= MaxQueue THEN b
          ELSE [b EXCEPT !.notes[b.hover.owner] = [notes EXCEPT
                           !.events = Append(@, Event(notes, "delete", b.hover.item)),
                           !.hovered = @ \union {b.hover.item},
                           !.deletions = Append(@, <<notes.revision, b.hover.item>>)]]

\* placement_action, after the pointer was over nothing: the holder's item at the point
\* is to go, or a new one is to come if the game has no slot left.
Place ==
  /\ Player /\ map /\ projected /\ editor = NoEditor
  /\ LET b == Expire(board)
         o == b.holder["place"]
         notes == b.notes[o] IN
     /\ o # Nobody /\ notes.shown /\ notes.context = context /\ notes.events = <<>>
     /\ \E e \in {Event(notes, "delete", i) : i \in Editable(notes)} \union
                 (IF "create" \in notes.offer.flags THEN {Event(notes, "create", 0)} ELSE {}) :
          board' = [b EXCEPT !.notes[o].events = <<e>>]
-----------------------------------------------------------------------------
(* The document.                                                           *)

Page == document # 0 /\ UNCHANGED <<attached, enabled, page, document, views>>

\* poll: the mutex is released before the second half, and the selection is gone.  A
\* sonar surface ends with its stream, or when it cannot be projected or numbered anew.
Poll ==
  /\ Page /\ enabled /\ document = page /\ page \notin polls /\ polls' = polls \union {page}
  /\ LET b == Expire([board EXCEPT !.hover = NoHover]) IN
     \E unseen \in SUBSET {s \in b.surfaces : s.layer = "sonar"} :
        board' = [b EXCEPT !.surfaces = {s \in @ \ unseen : s.layer = "sonar" => s.context = stream}]
  /\ UNCHANGED editor

\* exchange, once poll has returned: a report that does not match what is there counts
\* as none; an open editor excludes a selection.
Focused(b, p) ==
  {[owner |-> o, revision |-> b.notes[o].revision, context |-> b.notes[o].context, page |-> p] :
     o \in {q \in attached : b.notes[q].shown /\ map}}
Selected(b, p) ==
  LET o == b.holder["place"] IN
  IF o = Nobody \/ ~map THEN {}
  ELSE {[owner |-> o, revision |-> b.notes[o].revision, context |-> context, item |-> i, fresh |-> TRUE, page |-> p] :
          i \in Editable(b.notes[o])}
SlipAnyPage(p) ==
  /\ Page /\ p \in polls /\ polls' = polls \ {p}
  /\ LET b == Expire(board) IN
     \/ editor' \in Focused(b, p) \union {NoEditor} /\ board' = b
     \/ editor' = NoEditor /\ \E h \in Selected(b, p) : board' = [b EXCEPT !.hover = h]
Report(p) ==
  /\ Page /\ p \in polls /\ polls' = polls \ {p}
  /\ LET b == Expire(board) IN
     \/ p # page /\ board' = b /\ UNCHANGED editor
     \/ p = page /\ editor' \in Focused(b, p) \union {NoEditor} /\ board' = b
     \/ p = page /\ editor' = NoEditor /\ \E h \in Selected(b, p) : board' = [b EXCEPT !.hover = h]

\* annotation_exchange: what the document asks for, if it is still so.
Asked(b, o) ==
  LET notes == b.notes[o]
      mine == b.holder["native"] = o
      native == {i \in notes.offer.items : i.native} IN
  {Event(notes, "attach", i) : i \in {j \in native : j.editable /\ mine}} \union
  (IF native = {} /\ mine THEN {Event(notes, "attach", 0)} ELSE {}) \union
  (IF "create" \in notes.offer.flags THEN {Event(notes, "create", 0)} ELSE {}) \union
  {Event(notes, a, i) : a \in {"update", "delete"},
                        i \in {j \in notes.offer.items : j.editable /\ (j.native => mine)}}
Edit(o) ==
  /\ Page /\ enabled /\ document = page /\ o \in attached /\ map
  /\ LET b == Expire([board EXCEPT !.hover = NoHover]) IN
     /\ b.notes[o].shown /\ b.notes[o].context = context /\ Len(b.notes[o].events) < MaxQueue
     /\ \E e \in Asked(b, o) : board' = [b EXCEPT !.notes[o].events = Append(@, e)]
  /\ UNCHANGED <<editor, polls>>

\* A refused edit, a malformed report, an old document's edit.
Refused ==
  /\ Page /\ board.hover # NoHover
  /\ board' = Expire([board EXCEPT !.hover = NoHover]) /\ UNCHANGED <<editor, polls>>
-----------------------------------------------------------------------------
DrawingSteps(guests, layers, offers, revisions) ==
  \/ Lapse \/ Enable \/ Disable \/ OpenPage \/ UpdateSonar \/ Observe
  \/ \E changed \in BOOLEAN : UpdateMap(changed)
  \/ \E o \in guests :
       \/ Attach(o) \/ Detach(o) \/ Cancel(o) \/ HideNotes(o) \/ Edit(o)
       \/ \E layer \in layers : HideSurface(o, layer) \/ \E for \in 0..MaxContext : Publish(o, layer, for)
       \/ \E offer \in offers, revision \in revisions : Annotate(o, offer, revision, context)
       \/ \E version \in {2, 3} : ReadEvent(o, version)
  \/ MarkerKey \/ Place \/ Poll \/ Refused
  \/ \E p \in 1..MaxPage : Report(p)

DrawingNext == DrawingSteps(Guests, Layers, Offers, 1..MaxRevision)

DrawingSpec == DrawingInit /\ [][DrawingNext]_drawingVars
-----------------------------------------------------------------------------
(* Properties.                                                             *)

\* map_editor_input_active
MapEditorInputActive ==
  /\ enabled /\ map /\ editor # NoEditor /\ editor.owner \in attached
  /\ LET notes == board.notes[editor.owner] IN
     notes.shown /\ ~notes.late /\ notes.revision = editor.revision /\ notes.context = editor.context

\* An event that waits for a guest is about what the guest shows now: the set is shown,
\* under the projection in force, in the version its reader understands, and the event
\* names no later revision.  What hides a set takes its events.
EventsMatch ==
  \A o \in Guests : LET notes == board.notes[o] IN
    /\ notes.events # <<>> => notes.shown /\ o \in attached
    /\ notes.shown => notes.context = context
    /\ Len(notes.events) <= MaxQueue
    /\ \A e \in ToSet(notes.events) :
         e.context = notes.context /\ e.version = notes.offer.version /\ e.revision <= notes.revision

\* Pressing the key on a selected annotation asks its guest once to delete it, however
\* often the key is pressed and whether or not the guest has read the event yet.
DeletesOnce == \A o \in Guests : IsInjective(board.notes[o].deletions)

\* What waits for a guest is about what it shows, and each deletion is asked for once.
EventsAreCurrent == EventsMatch /\ DeletesOnce

\* A selection and a focused editor were reported by the document that is there, and
\* the selection belongs to the guest that holds the placement claim.
FocusIsOfThisPage ==
  /\ board.hover # NoHover => board.hover.page = page
  /\ MapEditorInputActive => editor.page = page
  /\ LET b == Expire(board) IN b.hover # NoHover => b.hover.owner = b.holder["place"]

\* The surfaces a poll returns were placed by the projection in force, and fit.
SurfacesAreCurrent ==
  LET shown == Expire(board).surfaces IN
  /\ Cardinality(board.surfaces) <= MaxSurfaces
  /\ \A s \in shown : s.owner \in attached /\ s.context = ContextOf(s.layer)

\* What the pointer and the keyboard are held for was reported by this document, for the
\* guest that holds the claim, and what is drawn was placed by this projection.
FocusIsCurrent == FocusIsOfThisPage /\ SurfacesAreCurrent

\* A guest that opts in late takes no claim from the one that holds it, and a claim that
\* falls free goes to the guest that has waited longest.
Wants(o, c) == board.notes[o].shown /\ c \in board.notes[o].offer.flags
Orderly ==
  \A c \in Claims :
    /\ \A o \in Guests : board.holder[c] = o /\ board'.holder[c] # o => Over(board.notes[o]) \/ ~Wants(o, c)'
    /\ board'.holder[c] = Nobody => \A o \in Guests : ~Wants(o, c)'
    /\ \A o, w \in Guests :
         board'.holder[c] = o /\ board.holder[c] # o /\ w # o /\ Wants(w, c)' /\ Wants(w, c) /\ ~Over(board.notes[w])
        => Wants(o, c) /\ <<o, w>> \in board.arrivals[c]

ClaimsAreOrderly == [][Orderly]_drawingVars
=============================================================================
