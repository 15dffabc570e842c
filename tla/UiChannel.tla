----------------------------- MODULE UiChannel -----------------------------
(***************************************************************************)
(* UiService together with the page that runtime/ui_bootstrap.html puts    *)
(* into the game's renderer, and the requests between them.                *)
(*                                                                         *)
(* open_page() numbers each copy of the page, and an old copy may go on    *)
(* running, and its requests may go on arriving, after the next one has    *)
(* been opened.  A page keeps one request pending and gives up on it after *)
(* 1500 ms; what it gave up on may still reach the service, in any order,  *)
(* or never.  The page's handlers run to completion, each is one action.   *)
(*                                                                         *)
(* An operator named Slip... is a plausible mistake in the definition that *)
(* follows it and is used nowhere; it shows that a property can fail.      *)
(***************************************************************************)
EXTENDS UiServiceProps

CONSTANTS
  Unseen,    \* lastScreen before the first snapshot
  NoAnswer,  \* no response has arrived
  MaxVisit   \* bound on the game's changes of screen

ASSUME ChannelAssumption == Unseen \notin Screens /\ MaxVisit \in Nat

VARIABLES
  shown,     \* the screen the game's data models show
  ready,     \* ... and that its Continue action is ready
  visit,     \* how often the game has changed the screen
  pages,     \* the page of each number, [] before it is opened
  wire,      \* requests that have not reached the service; one that never does is lost
  fate,      \* history: what engine.trigger did for each command
  queuedOn,  \* history: the screen each command was queued for
  sent       \* history: triggers of each page in this visit that returned

pageVars    == <<pages, wire>>
gameVars    == <<shown, ready, visit>>
channelVars == <<gameVars, pageVars, fate, queuedOn, sent>>
allVars     == <<vars, channelVars>>

\* A new copy of the script.  `undisturbed` says that epoch has not moved since
\* the pending request was sent, `calm` that `since` is 750 ms ago.
NewPage == [sequence |-> 0, acknowledged |-> 0, outcome |-> "NONE", lastId |-> 0,
            screen |-> Unseen, ready |-> FALSE, calm |-> FALSE, continued |-> FALSE,
            pending |-> 0, undisturbed |-> FALSE, answer |-> NoAnswer]

\* The pages that run; stop() ends one for good.
Running == DOMAIN pages
Keep(p, state) == pages' = [pages EXCEPT ![p] = state]

ChannelInit ==
  /\ Init
  /\ shown \in Screens /\ ready = FALSE /\ visit = 0
  /\ pages = [p \in {} |-> NewPage] /\ wire = {}
  /\ fate = [id \in Ids |-> "none"]
  /\ queuedOn = [id \in Ids |-> NoScreen]
  /\ sent = [p \in 1..MaxPage |-> 0]

-----------------------------------------------------------------------------
(* The script.                                                              *)

\* snapshot: a changed key restarts the 750 ms and the epoch, a changed screen
\* rearms the Continue event.
See(pg) ==
  LET same == pg.screen = shown /\ pg.ready = ready
  IN  [pg EXCEPT !.screen = shown, !.ready = ready,
                 !.calm = @ /\ same, !.undisturbed = @ /\ same,
                 !.continued = @ /\ pg.screen = shown]

\* Slip: a visit that has had its Continue event is offered again.
SlipOffersAgain(pg) == pg.ready /\ pg.calm

Offers(pg) == pg.ready /\ pg.calm /\ ~pg.continued

\* poll, on the 250 ms timer.
SendPoll(p) ==
  LET pg == See(pages[p])
  IN  /\ pg.pending = 0 /\ pg.sequence < MaxSequence
      /\ Keep(p, [pg EXCEPT !.sequence = @ + 1, !.pending = pg.sequence + 1,
                            !.undisturbed = TRUE])
      /\ wire' = wire \union
           {[page |-> p, sequence |-> pg.sequence + 1, screen |-> pg.screen,
             actions |-> Offers(pg), ack |-> pg.acknowledged, outcome |-> pg.outcome]}
      /\ UNCHANGED <<vars, gameVars, fate, queuedOn, sent>>

\* poll while a request is pending.
JustLook(p) ==
  /\ pages[p].pending # 0
  /\ Keep(p, See(pages[p]))
  /\ UNCHANGED <<vars, wire, gameVars, fate, queuedOn, sent>>

\* The request fails, is refused, or has been pending for 1500 ms.
GiveUp(p) ==
  /\ pages[p].pending # 0
  /\ Keep(p, [pages[p] EXCEPT !.pending = 0, !.answer = NoAnswer])
  /\ UNCHANGED <<vars, wire, gameVars, fate, queuedOn, sent>>

\* 750 ms have passed since the last change that a snapshot saw.
Settle(p) ==
  /\ pages[p].screen # Unseen /\ ~pages[p].calm
  /\ Keep(p, [pages[p] EXCEPT !.calm = TRUE])
  /\ UNCHANGED <<vars, wire, gameVars, fate, queuedOn, sent>>

\* Date.now() has gone back: the 750 ms start again, and if it is behind `since`
\* the epoch changes too.
DateGoesBack(p) ==
  /\ pages[p].screen # Unseen
  /\ \E still \in {FALSE, pages[p].undisturbed} :
       Keep(p, [pages[p] EXCEPT !.calm = FALSE, !.undisturbed = still])
  /\ UNCHANGED <<vars, wire, gameVars, fate, queuedOn, sent>>

\* unload, or sequence numbers have run out.
StopPage(p) ==
  /\ pages' = [q \in Running \ {p} |-> pages[q]]
  /\ UNCHANGED <<vars, wire, gameVars, fate, queuedOn, sent>>

\* Slip: a command is taken for dispatched until something goes wrong.
SlipMarkDispatched(pg, answer) ==
  IF answer.id > pg.lastId
  THEN [pg EXCEPT !.lastId = answer.id, !.acknowledged = answer.id, !.outcome = "DISPATCHED"]
  ELSE pg

\* Lines 154-156: a command is acknowledged, as skipped, before anything else.
Mark(pg, answer) ==
  IF answer.id > pg.lastId
  THEN [pg EXCEPT !.lastId = answer.id, !.acknowledged = answer.id, !.outcome = "SKIPPED"]
  ELSE pg

\* Slip: the page does not look again before it triggers.
SlipNoRecheck(pg, answer) == TRUE

\* Lines 161 and 164, for the state that snapshot() has just returned.
StillWanted(pg, answer) ==
  /\ pg.undisturbed /\ pg.screen = answer.screen
  /\ Offers(pg)

\* receive: the response of the pending request has arrived.
Receive(p) ==
  LET answer == pages[p].answer
      marked == Mark([pages[p] EXCEPT !.pending = 0, !.answer = NoAnswer], answer)
      pg     == See(marked)
  IN  /\ answer # NoAnswer
      /\ \/ \* Nothing new, not wanted any more, or Date.now() has gone back.
            /\ Keep(p, pg)
            /\ UNCHANGED <<fate, sent>>
         \/ /\ answer.id > pages[p].lastId /\ StillWanted(pg, answer)
            /\ \/ /\ Keep(p, [pg EXCEPT !.continued = TRUE, !.outcome = "DISPATCHED"])
                  /\ fate' = [fate EXCEPT ![answer.id] = "returned"]
                  /\ sent' = [sent EXCEPT ![p] = @ + 1]
               \/ /\ Keep(p, [pg EXCEPT !.continued = FALSE, !.outcome = "DISPATCH_FAILED"])
                  /\ fate' = [fate EXCEPT ![answer.id] = "threw"]
                  /\ UNCHANGED sent
      /\ UNCHANGED <<vars, wire, gameVars, queuedOn>>

-----------------------------------------------------------------------------
(* The requests.                                                            *)

\* serve_ui: the engine's handler hands the request to exchange.
Serve(poll, late) ==
  /\ wire' = wire \ {poll}
  /\ \/ /\ Exchange(poll, late)
        /\ LET cmd == CurrentCommand(poll, late)
               id  == IF Deliverable(cmd, generation') THEN cmd.id ELSE 0
           IN  pages' = [p \in Running |->
                           IF p = poll.page /\ pages[p].pending = poll.sequence
                           THEN [pages[p] EXCEPT !.answer = [id |-> id, screen |-> poll.screen]]
                           ELSE pages[p]]
     \/ /\ \/ ExchangeUnanswered(poll, late)
           \/ ExchangeExhausted(poll, late)
           \/ ~Accepted(poll) /\ UNCHANGED vars
        /\ UNCHANGED pages
  /\ UNCHANGED <<gameVars, fate, queuedOn, sent>>

-----------------------------------------------------------------------------
(* The rest of the world.                                                   *)

\* The game moves on, or its Continue action becomes (un)available.
GameMoves ==
  /\ \/ /\ visit < MaxVisit /\ visit' = visit + 1
        /\ shown' \in Screens \ {shown} /\ ready' = FALSE
        /\ sent' = [p \in 1..MaxPage |-> 0]
     \/ /\ shown \in ContinueScreens
        /\ ready' = ~ready
        /\ UNCHANGED <<shown, visit, sent>>
  /\ UNCHANGED <<vars, pageVars, fate, queuedOn>>

\* A mod queues a command for what it has read.
Submit(o, gen, late, tracked) ==
  /\ Queue(o, gen, late, tracked)
  /\ queuedOn' = [queuedOn EXCEPT ![nextCommand'] = screen]
  /\ UNCHANGED <<gameVars, pageVars, fate, sent>>

\* The page's text is requested with the next number in it.
LoadPage ==
  /\ OpenPage
  /\ pages' = [p \in Running \union {page'} |-> IF p = page' THEN NewPage ELSE pages[p]]
  /\ UNCHANGED <<wire, gameVars, fate, queuedOn, sent>>

\* Without the service's end: that is the end of the runtime.
ServiceAlone ==
  /\ \/ Enable \/ Tick
     \/ \E o \in Owners :
          \/ Release(o)
          \/ \E late \in Lags :
               Status(o, late) \/ \E gen \in 1..MaxGeneration : QueueRefused(o, gen, late)
  /\ UNCHANGED channelVars

Page(p) ==
  \/ SendPoll(p) \/ JustLook(p) \/ GiveUp(p)
  \/ Settle(p) \/ DateGoesBack(p)
  \/ StopPage(p) \/ Receive(p)

ChannelNext ==
  \/ GameMoves \/ LoadPage \/ ServiceAlone
  \/ \E p \in Running : Page(p)
  \/ \E poll \in wire, late \in Lags : Serve(poll, late)
  \/ \E o \in Owners, gen \in 1..MaxGeneration, late \in Lags, tracked \in BOOLEAN :
       Submit(o, gen, late, tracked)

ChannelSpec == ChannelInit /\ [][ChannelNext]_allVars

-----------------------------------------------------------------------------
(* Properties.                                                              *)

\* What a receipt says is what happened in the renderer: DISPATCHED means that
\* the trigger returned and DISPATCH_FAILED that it threw; SKIPPED, EXPIRED and
\* CANCELLED mean that it was not called and, since this always holds, never
\* will be (docs/api.md:234-252).
ReceiptsTellTheTruth ==
  \A i \in Slots :
    LET happened == fate[receipts[i].id]
    IN  receipts[i].id # 0 =>
          /\ receipts[i].status = "DISPATCHED"      => happened = "returned"
          /\ receipts[i].status = "DISPATCH_FAILED" => happened = "threw"
          /\ receipts[i].status \in Withdrawn \union {"QUEUED", "SKIPPED"} => happened = "none"

\* The Continue event is only sent to the screen for which a mod asked for it,
\* while the game is ready for it, however long the command, its response and
\* the snapshots between took.
TriggersItsScreen ==
  [][\A id \in Ids : fate'[id] # fate[id] =>
       shown = queuedOn[id] /\ shown \in ContinueScreens /\ ready]_allVars

\* A page sends the Continue event at most once per visit of a screen, unless
\* the trigger threw, whichever changes of readiness it notices and whichever
\* visits it misses (docs/api.md:216).
OncePerVisit == \A p \in 1..MaxPage : sent[p] <= 1
=============================================================================
