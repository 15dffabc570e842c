------------------------------ MODULE Feedback ------------------------------
(***************************************************************************)
(* runtime/mod_feedback.cpp with the page that shows its messages,         *)
(* runtime/diagnostics/native_ui_feedback.html.                            *)
(*                                                                         *)
(* A guest has one message.  The page polls with a growing sequence        *)
(* number, draws what the answer lists, and acknowledges in its next poll  *)
(* what a frame has shown.  Requests may be served late or never, answers  *)
(* may be lost, the page gives up on either, and a new document replaces   *)
(* the page while the old one still runs.  Every function of the service   *)
(* holds its mutex and reads the clock under it, so each is one action.    *)
(* The two clocks, GetTickCount64 and performance.now, advance together.   *)
(*                                                                         *)
(* An operator named Slip... is a plausible mistake in the definition that *)
(* follows it and is used nowhere; it shows that a property can fail.      *)
(***************************************************************************)
EXTENDS Naturals, FiniteSets, Functions

CONSTANTS
  Senders,     \* guests attached to the service
  Capacity,    \* messages active at once (4)
  Gap,         \* time between two publications of a guest (1000 ms)
  Durations,   \* 1000 to 10000 ms
  MaxMessages, \* INT64_MAX
  MaxPage,     \* UINT64_MAX
  MaxClock,    \* UINT64_MAX of the clock
  MaxPolls     \* bound on the polls of all pages

ASSUME FeedbackAssumption ==
  /\ IsFiniteSet(Senders)
  /\ {Capacity, Gap, MaxMessages, MaxPage, MaxClock, MaxPolls} \subseteq Nat
  /\ Durations \subseteq Nat

VARIABLES
  owners,                                            \* attached owners
  message,                                           \* Entry of each owner
  offered, page, sequence, nextMessage, messagesOn,  \* Impl
  clock,
  script,    \* script[p]: the script of page p
  requests,  \* requests that may still be served; a lost one never is
  hidden,    \* document.hidden
  drawn,     \* history: tickets that were in the document at a frame
  due        \* history: the deadline of each ticket

store       == <<owners, message, offered, page, sequence, nextMessage, messagesOn>>
messageVars == <<store, clock, script, requests, hidden, drawn, due>>

Pages == 1..MaxPage
Blank == [ticket |-> 0, status |-> "none", deadline |-> 0, lastShow |-> 0]
\* A page that was never opened, or has stopped; `asked` is the sequence number
\* of the request it waits for, and `sentAt` its time.
Off == [runs |-> FALSE, polls |-> 0, asked |-> 0, sentAt |-> 0, answer |-> {},
        answered |-> FALSE, items |-> {}, framed |-> FALSE, acks |-> {}]

FeedbackInit ==
  /\ owners = Senders /\ message = [o \in Senders |-> Blank]
  /\ offered = {} /\ page = 0 /\ sequence = 0 /\ nextMessage = 1 /\ messagesOn = TRUE
  /\ clock = 0 /\ script = [p \in Pages |-> Off] /\ requests = {} /\ hidden = FALSE
  /\ drawn = {} /\ due = [t \in 1..MaxMessages |-> 0]

\* stop()
Stopped(d) == [Off EXCEPT !.polls = d.polls]

Stands(m) == m.status \in {"queued", "presented"}
Lapsed(m) ==
  IF Stands(m) /\ clock >= m.deadline
  THEN [m EXCEPT !.status = IF @ = "presented" THEN "expired presented" ELSE "expired"]
  ELSE m
\* expire
UpToDate == [o \in Senders |-> IF o \in owners THEN Lapsed(message[o]) ELSE message[o]]
-----------------------------------------------------------------------------
(* The guests.                                                             *)

Full(m) == Cardinality({o \in owners : Stands(m[o])}) >= Capacity
TooSoon(m) == m.ticket # 0 /\ clock - m.lastShow < Gap

ShowMessage(o, duration) ==
  /\ o \in owners
  /\ IF /\ messagesOn /\ ~Stands(UpToDate[o]) /\ ~Full(UpToDate) /\ ~TooSoon(UpToDate[o])
        /\ nextMessage <= MaxMessages /\ clock <= MaxClock - duration
     THEN /\ message' = [UpToDate EXCEPT ![o] = [ticket |-> nextMessage, status |-> "queued",
                                              deadline |-> clock + duration, lastShow |-> clock]]
          /\ nextMessage' = nextMessage + 1
          /\ due' = [due EXCEPT ![nextMessage] = clock + duration]
     ELSE message' = UpToDate /\ UNCHANGED <<nextMessage, due>>
  /\ UNCHANGED <<owners, offered, page, sequence, messagesOn, clock, script, requests, hidden, drawn>>

\* dismiss, and cancel, which crml_release calls; either is refused for an ended message.
End(o, how) ==
  /\ o \in owners
  /\ message' = IF Stands(UpToDate[o]) THEN [UpToDate EXCEPT ![o].status = how] ELSE UpToDate
  /\ UNCHANGED <<owners, offered, page, sequence, nextMessage, messagesOn, clock, script, requests, hidden, drawn, due>>

Status(o) ==
  /\ o \in owners /\ message' = UpToDate
  /\ UNCHANGED <<owners, offered, page, sequence, nextMessage, messagesOn, clock, script, requests, hidden, drawn, due>>

DetachSender(o) ==
  /\ o \in owners /\ owners' = owners \ {o}
  /\ message' = [message EXCEPT ![o] = Blank]
  /\ UNCHANGED <<offered, page, sequence, nextMessage, messagesOn, clock, script, requests, hidden, drawn, due>>
-----------------------------------------------------------------------------
(* The renderer side of the service.                                       *)

\* enable_renderer(false), when native_ui stops.
Disable ==
  /\ messagesOn /\ messagesOn' = FALSE
  /\ page' = IF page < MaxPage THEN page + 1 ELSE page
  /\ offered' = {} /\ sequence' = 0
  /\ message' = [o \in Senders |-> IF Stands(message[o])
                                  THEN [message[o] EXCEPT !.status = "cancelled"] ELSE message[o]]
  /\ UNCHANGED <<owners, nextMessage, clock, script, requests, hidden, drawn, due>>

\* open_page: the game's document is loaded anew, and its script starts.
OpenPage ==
  /\ messagesOn /\ page < MaxPage
  /\ page' = page + 1 /\ offered' = {} /\ sequence' = 0
  /\ script' = [script EXCEPT ![page + 1] = [Off EXCEPT !.runs = TRUE]]
  /\ UNCHANGED <<owners, message, nextMessage, messagesOn, clock, requests, hidden, drawn, due>>

\* poll, for one message: an acknowledgement counts if the last answer offered it.
SlipAnyAnswer(m, acks) ==
  CASE ~Stands(m) /\ m.ticket \in acks -> [m EXCEPT !.status = "expired presented"]
    [] Stands(m) /\ m.ticket \in acks -> [m EXCEPT !.status = "presented"]
    [] OTHER -> m
Acknowledged(m, acks) ==
  IF m.ticket \in acks \intersect offered
  THEN CASE Stands(m) -> [m EXCEPT !.status = "presented"]
         [] m.status = "expired" -> [m EXCEPT !.status = "expired presented"]
         [] OTHER -> m
  ELSE m

\* The request of page p reaches the host.
Serve(request) ==
  /\ request \in requests /\ requests' = requests \ {request}
  /\ LET p == request.page
         good == messagesOn /\ p = page /\ request.sequence > sequence
         after == [o \in Senders |-> IF o \in owners THEN Acknowledged(UpToDate[o], request.acks) ELSE UpToDate[o]]
         listed == {o \in owners : Stands(after[o])}
         answer == {[ticket |-> after[o].ticket, left |-> after[o].deadline - clock] : o \in listed}
         waits == script[p].runs /\ script[p].asked = request.sequence /\ ~script[p].answered IN
     /\ IF good
        THEN /\ message' = after /\ sequence' = request.sequence
             /\ offered' = {after[o].ticket : o \in listed}
        ELSE UNCHANGED <<message, sequence, offered>>
     \* Refused with 403, 409 or 503, the page stops.
     /\ script' = CASE ~waits -> script
                    [] waits /\ good -> [script EXCEPT ![p] = [script[p] EXCEPT !.answered = TRUE, !.answer = answer]]
                    [] OTHER -> [script EXCEPT ![p] = Stopped(@)]
  /\ UNCHANGED <<owners, page, nextMessage, messagesOn, clock, hidden, drawn, due>>
-----------------------------------------------------------------------------
(* The page.                                                               *)

\* clear(true)
Cleared(d) == [d EXCEPT !.items = {}, !.framed = FALSE]
Pruned(d) ==
  LET kept == {i \in d.items : clock < i.until} IN
  IF hidden \/ kept = {} THEN Cleared(d) ELSE [d EXCEPT !.items = kept]
Settled(d) == [d EXCEPT !.asked = 0, !.sentAt = 0, !.answered = FALSE, !.answer = {}]

Polls == FoldFunction(+, 0, [p \in Pages |-> script[p].polls])

\* The timer: poll().
PollMessages(p) ==
  /\ script[p].runs
  /\ LET d == Pruned(script[p]) IN
     IF d.asked # 0 \/ hidden \/ Polls = MaxPolls
     THEN script' = [script EXCEPT ![p] = d] /\ UNCHANGED requests
     ELSE /\ script' = [script EXCEPT ![p] = [d EXCEPT !.polls = d.polls + 1, !.asked = d.polls + 1, !.sentAt = clock]]
          /\ requests' = requests \union {[page |-> p, sequence |-> d.polls + 1, acks |-> d.acks]}
  /\ UNCHANGED <<store, clock, hidden, drawn, due>>

\* The answer arrives: render().
SlipFromNow(d, m) == clock + m.left
Until(d, m) == d.sentAt + m.left
Lesser(a, b) == IF a < b THEN a ELSE b
Rendered(d) ==
  LET old(t) == {i.until : i \in {j \in d.items : j.ticket = t}}
      fresh == {m \in d.answer : Until(d, m) > clock}
      next == {[ticket |-> m.ticket,
                until |-> IF old(m.ticket) = {} THEN Until(d, m)
                          ELSE Lesser(Until(d, m), CHOOSE u \in old(m.ticket) : TRUE)] : m \in fresh} IN
  IF hidden \/ next = {} THEN Cleared(d)
  ELSE IF {m.ticket : m \in d.answer} = {i.ticket : i \in d.items}
       THEN Pruned([d EXCEPT !.items = next])
       ELSE [d EXCEPT !.items = next, !.framed = TRUE]

ReceiveMessages(p) ==
  /\ script[p].answered
  /\ script' = [script EXCEPT ![p] = Settled(Rendered(@))]
  /\ UNCHANGED <<store, clock, requests, hidden, drawn, due>>

\* requestAnimationFrame: only now are the nodes acknowledged.
Shown(p) == {i.ticket : i \in Pruned(script[p]).items}
Frame(p) ==
  /\ script[p].framed
  /\ IF hidden THEN script' = [script EXCEPT ![p].framed = FALSE] /\ UNCHANGED drawn
     ELSE /\ script' = [script EXCEPT ![p] = [Pruned(script[p]) EXCEPT !.framed = FALSE, !.acks = Shown(p)]]
          /\ drawn' = drawn \union Shown(p)
  /\ UNCHANGED <<store, clock, requests, hidden, due>>

\* fail(): the request timed out, or its answer was lost or makes no sense.
Failed(d) == [Settled(Cleared(d)) EXCEPT !.acks = {}]
GiveUpPoll(p) ==
  /\ script[p].asked # 0
  /\ script' = [script EXCEPT ![p] = Failed(@)]
  /\ UNCHANGED <<store, clock, requests, hidden, drawn, due>>

\* stop(), on pagehide or unload.
Unload(p) ==
  /\ script[p].runs /\ script' = [script EXCEPT ![p] = Stopped(@)]
  /\ UNCHANGED <<store, clock, requests, hidden, drawn, due>>

\* The game hides or shows its document; time passes.
Toggle == hidden' = ~hidden /\ UNCHANGED <<store, clock, script, requests, drawn, due>>
MessageTick == clock < MaxClock /\ clock' = clock + 1 /\ UNCHANGED <<store, script, requests, hidden, drawn, due>>

FeedbackNext ==
  \/ \E o \in Senders :
       \/ Status(o) \/ DetachSender(o) \/ \E d \in Durations : ShowMessage(o, d)
       \/ \E how \in {"dismissed", "cancelled"} : End(o, how)
  \/ Disable \/ OpenPage \/ Toggle \/ MessageTick
  \/ \E request \in requests : Serve(request)
  \/ \E p \in Pages : PollMessages(p) \/ ReceiveMessages(p) \/ Frame(p) \/ GiveUpPoll(p) \/ Unload(p)

FeedbackSpec == FeedbackInit /\ [][FeedbackNext]_messageVars
-----------------------------------------------------------------------------
Statuses  == {"none", "queued", "presented", "dismissed", "cancelled", "expired", "expired presented"}
Messages  == [ticket : 0..MaxMessages, status : Statuses, deadline : 0..MaxClock, lastShow : 0..MaxClock]
Listings  == [ticket : 1..MaxMessages, left : Nat]
Nodes     == [ticket : 1..MaxMessages, until : Nat]
Documents == [runs : BOOLEAN, polls : Nat, asked : Nat, sentAt : 0..MaxClock, answer : SUBSET Listings,
              answered : BOOLEAN, items : SUBSET Nodes, framed : BOOLEAN, acks : SUBSET (1..MaxMessages)]

FeedbackTypeOK ==
  /\ owners \subseteq Senders /\ message \in [Senders -> Messages]
  /\ offered \subseteq 0..MaxMessages /\ page \in 0..MaxPage /\ sequence \in Nat
  /\ nextMessage \in 1..(MaxMessages + 1) /\ messagesOn \in BOOLEAN /\ clock \in 0..MaxClock
  /\ script \in [Pages -> Documents]
  /\ requests \subseteq [page : Pages, sequence : Nat, acks : SUBSET (1..MaxMessages)]
  /\ hidden \in BOOLEAN /\ drawn \subseteq 1..MaxMessages /\ due \in [1..MaxMessages -> 0..MaxClock]

\* A receipt says a message was presented only if a frame had it in the document;
\* a page in hiding, replaced or given up on never makes it say so (docs/mod-feedback.md:74).
PresentedWasDrawn ==
  \A o \in owners : message[o].status \in {"presented", "expired presented"} =>
    message[o].ticket \in drawn

\* No page keeps a message beyond its deadline, measured from its acceptance: not
\* a slow answer, a repeated one nor a new page prolongs it; and what is active
\* fits the array `offered`.
NeverProlonged ==
  /\ \A p \in Pages : \A i \in script[p].items : i.until <= due[i.ticket]
  /\ Cardinality(offered) <= Capacity

FeedbackIsTrue == PresentedWasDrawn /\ NeverProlonged

\* A message that has ended stays so: an answer that comes late can at most tell
\* that an expired one had been presented.
EndedStaysEnded ==
  [][\A o \in owners \intersect owners' :
       message'[o].ticket = message[o].ticket /\ message[o].ticket # 0 /\ ~Stands(message[o])
       => \/ message'[o].status = message[o].status
          \/ message[o].status = "expired" /\ message'[o].status = "expired presented"]_messageVars
=============================================================================
