---------------------------- MODULE FlightProofs ----------------------------
(***************************************************************************)
(* Proofs about Flight, for every number of guests, size of the table of   *)
(* receipts, set of samples and of limits:                                 *)
(*                                                                         *)
(*   TypeCorrect   the types, and that a flight is on exactly while it has *)
(*                 an owner (TypeOK);                                      *)
(*   HooksFollow   the hooks, the watchdog and the controller step agree   *)
(*                 on when a flight goes on (HooksFollowFlight);           *)
(*   PressSwitchesOnce  one press of F6 switches the flight at most once   *)
(*                 (PressOnce);                                            *)
(*   Refinement    Flight implements MotionPromise (KeepsPromise).         *)
(*                                                                         *)
(* The receipts need one invariant (ReceiptsAgree): a guest has at most    *)
(* one, and the one of a guest that flies is unspoilt.  The key needs      *)
(* another (PressOK): once a press has switched the flight, what the       *)
(* toggle holds, and what the worker has read of the key, are what the key *)
(* still is, because a change of any of them begins a new press.           *)
(***************************************************************************)
EXTENDS Flight, WellFoundedInduction, TLAPS

-----------------------------------------------------------------------------
(* The first of a set, and the first check that fires.                     *)

LEMMA FirstIn ==
  ASSUME NEW S \in SUBSET Nat, S # {}
  PROVE  First(S) \in S /\ \A t \in S : First(S) <= t
<1> DEFINE R == {ss \in Nat \X Nat : ss[1] < ss[2]}
<1>1. IsWellFoundedOn(R, Nat)
  BY NatLessThanWellFounded DEF OpToRel
<1>2. ASSUME NEW x \in Nat, NEW y \in Nat, y < x
      PROVE  <<y, x>> \in R
  <2> DEFINE p == <<y, x>>
  <2>1. p \in Nat \X Nat /\ p[1] = y /\ p[2] = x
    OBVIOUS
  <2> HIDE DEF p
  <2>2. p \in R
    BY <1>2, <2>1
  <2> QED
    BY <2>2 DEF p
<1> HIDE DEF R
<1>3. PICK x \in S : \A y \in S : ~ (<<y, x>> \in R)
  BY <1>1, WFMin
<1>4. \A y \in S : x <= y
  <2>1. ASSUME NEW y \in S PROVE x <= y
    <3>1. x \in Nat /\ y \in Nat
      OBVIOUS
    <3>2. ~(y < x)
      BY <1>3, <1>2, <3>1
    <3> QED
      BY <3>1, <3>2
  <2> QED
    BY <2>1
<1> QED
  BY <1>4 DEF First

\* Verdict is the reason of one of the checks that fire, or "none" if none does.
LEMMA VerdictIs ==
  ASSUME NEW n \in Nat, NEW checks, DOMAIN checks = 1..n
  PROVE  \/ (\A i \in 1..n : ~checks[i][1]) /\ Verdict(checks) = "none"
         \/ \E i \in 1..n : /\ checks[i][1] /\ Verdict(checks) = checks[i][2]
                            /\ \A j \in 1..n : checks[j][1] => i <= j
<1> DEFINE hits == {i \in DOMAIN checks : checks[i][1]}
<1>1. hits \in SUBSET Nat
  OBVIOUS
<1>2. Verdict(checks) = IF hits = {} THEN "none" ELSE checks[First(hits)][2]
  BY DEF Verdict
<1>3. CASE hits = {}
  BY <1>2, <1>3
<1>4. CASE hits # {}
  <2>1. First(hits) \in hits /\ \A t \in hits : First(hits) <= t
    BY <1>1, <1>4, FirstIn
  <2> QED
    BY <1>2, <1>4, <2>1
<1> QED
  BY <1>3, <1>4

LEMMA Verdict4 ==
  ASSUME NEW a, NEW b, NEW c, NEW d, NEW ra, NEW rb, NEW rc, NEW rd
  PROVE  LET v == Verdict(<< <<a, ra>>, <<b, rb>>, <<c, rc>>, <<d, rd>> >>) IN
         /\ ~a /\ ~b /\ ~c /\ ~d => v = "none"
         /\ a \/ b \/ c \/ d => v \in {ra, rb, rc, rd}
<1> DEFINE checks == << <<a, ra>>, <<b, rb>>, <<c, rc>>, <<d, rd>> >>
<1>1. DOMAIN checks = 1..4
  OBVIOUS
<1>2. /\ checks[1][1] = a /\ checks[2][1] = b /\ checks[3][1] = c /\ checks[4][1] = d
      /\ checks[1][2] = ra /\ checks[2][2] = rb /\ checks[3][2] = rc /\ checks[4][2] = rd
  OBVIOUS
<1>3. 1..4 = {1, 2, 3, 4}
  OBVIOUS
<1> HIDE DEF checks
<1>4. \/ (\A i \in 1..4 : ~checks[i][1]) /\ Verdict(checks) = "none"
      \/ \E i \in 1..4 : checks[i][1] /\ Verdict(checks) = checks[i][2]
  BY <1>1, VerdictIs
<1> QED
  BY <1>2, <1>3, <1>4 DEF checks

LEMMA Verdict5 ==
  ASSUME NEW a, NEW b, NEW c, NEW d, NEW ra, NEW rb, NEW rc, NEW rd, NEW re
  PROVE  Verdict(<< <<a, ra>>, <<b, rb>>, <<c, rc>>, <<d, rd>>, <<TRUE, re>> >>)
           \in {ra, rb, rc, rd, re}
<1> DEFINE checks == << <<a, ra>>, <<b, rb>>, <<c, rc>>, <<d, rd>>, <<TRUE, re>> >>
<1>1. DOMAIN checks = 1..5
  OBVIOUS
<1>2. /\ checks[1][1] = a /\ checks[2][1] = b /\ checks[3][1] = c /\ checks[4][1] = d
      /\ checks[5][1] /\ checks[5][2] = re
      /\ checks[1][2] = ra /\ checks[2][2] = rb /\ checks[3][2] = rc /\ checks[4][2] = rd
  OBVIOUS
<1>3. 1..5 = {1, 2, 3, 4, 5}
  OBVIOUS
<1> HIDE DEF checks
<1>4. \/ (\A i \in 1..5 : ~checks[i][1]) /\ Verdict(checks) = "none"
      \/ \E i \in 1..5 : checks[i][1] /\ Verdict(checks) = checks[i][2]
  BY <1>1, VerdictIs
<1> QED
  BY <1>2, <1>3, <1>4 DEF checks

LEMMA Verdict6 ==
  ASSUME NEW a, NEW b, NEW c, NEW d, NEW e, NEW f,
         NEW ra, NEW rb, NEW rc, NEW rd, NEW re, NEW rf
  PROVE  Verdict(<< <<a, ra>>, <<b, rb>>, <<c, rc>>, <<d, rd>>, <<e, re>>, <<f, rf>> >>)
           \in {"none", ra, rb, rc, rd, re, rf}
<1> DEFINE checks == << <<a, ra>>, <<b, rb>>, <<c, rc>>, <<d, rd>>, <<e, re>>, <<f, rf>> >>
<1>1. DOMAIN checks = 1..6
  OBVIOUS
<1>2. /\ checks[1][2] = ra /\ checks[2][2] = rb /\ checks[3][2] = rc /\ checks[4][2] = rd
      /\ checks[5][2] = re /\ checks[6][2] = rf
  OBVIOUS
<1>3. 1..6 = {1, 2, 3, 4, 5, 6}
  OBVIOUS
<1> HIDE DEF checks
<1>4. \/ Verdict(checks) = "none"
      \/ \E i \in 1..6 : Verdict(checks) = checks[i][2]
  BY <1>1, VerdictIs
<1> QED
  BY <1>2, <1>3, <1>4 DEF checks

\* Of nine checks, the last decides only where no other fires.
LEMMA Verdict9 ==
  ASSUME NEW a, NEW b, NEW c, NEW d, NEW e, NEW f, NEW g, NEW h, NEW i,
         NEW ra, NEW rb, NEW rc, NEW rd, NEW re, NEW rf, NEW rg, NEW rh, NEW ri
  PROVE  Verdict(<< <<a, ra>>, <<b, rb>>, <<c, rc>>, <<d, rd>>, <<e, re>>, <<f, rf>>,
                    <<g, rg>>, <<h, rh>>, <<i, ri>> >>)
           \in IF a \/ b \/ c \/ d \/ e \/ f \/ g \/ h
               THEN {ra, rb, rc, rd, re, rf, rg, rh} ELSE {"none", ri}
<1> DEFINE checks == << <<a, ra>>, <<b, rb>>, <<c, rc>>, <<d, rd>>, <<e, re>>, <<f, rf>>,
                        <<g, rg>>, <<h, rh>>, <<i, ri>> >>
<1>1. DOMAIN checks = 1..9
  OBVIOUS
<1>2. /\ checks[1][1] = a /\ checks[2][1] = b /\ checks[3][1] = c /\ checks[4][1] = d
      /\ checks[5][1] = e /\ checks[6][1] = f /\ checks[7][1] = g /\ checks[8][1] = h
      /\ checks[1][2] = ra /\ checks[2][2] = rb /\ checks[3][2] = rc /\ checks[4][2] = rd
      /\ checks[5][2] = re /\ checks[6][2] = rf /\ checks[7][2] = rg /\ checks[8][2] = rh
      /\ checks[9][2] = ri
  OBVIOUS
<1>3. 1..9 = {1, 2, 3, 4, 5, 6, 7, 8, 9}
  OBVIOUS
<1> HIDE DEF checks
<1>4. \/ (\A k \in 1..9 : ~checks[k][1]) /\ Verdict(checks) = "none"
      \/ \E k \in 1..9 : /\ checks[k][1] /\ Verdict(checks) = checks[k][2]
                         /\ \A j \in 1..9 : checks[j][1] => k <= j
  BY <1>1, VerdictIs
<1>5. CASE a \/ b \/ c \/ d \/ e \/ f \/ g \/ h
  <2>1. ~ \A k \in 1..9 : ~checks[k][1]
    BY <1>2, <1>3, <1>5
  <2>2. PICK k \in 1..9 : /\ checks[k][1] /\ Verdict(checks) = checks[k][2]
                          /\ \A j \in 1..9 : checks[j][1] => k <= j
    BY <1>4, <2>1
  <2>3. k # 9
    BY <1>2, <1>5, <2>2
  <2>4. Verdict(checks) \in {ra, rb, rc, rd, re, rf, rg, rh}
    BY <1>2, <1>3, <2>2, <2>3
  <2> QED
    BY <1>5, <2>4 DEF checks
<1>6. CASE ~(a \/ b \/ c \/ d \/ e \/ f \/ g \/ h)
  <2>1. Verdict(checks) \in {"none", ri}
    BY <1>2, <1>3, <1>4, <1>6
  <2> QED
    BY <1>6, <2>1 DEF checks
<1> QED
  BY <1>5, <1>6

-----------------------------------------------------------------------------
(* What each list of checks comes to.                                      *)

LEMMA RequestReasons ==
  RequestBlocked \in Reasons \union {"none"} /\ RequestFailed \in Reasons \union {"none"}
<1>1. RequestBlocked \in {"none", "focus", "escape", "stale_sample"}
  <2> DEFINE late == ~SampleWithin(IF flight.enabled THEN StepGap ELSE AcquireLimit, 0)
  <2>1. RequestBlocked = Verdict(<< <<~input.focused, "focus">>, <<Escape, "escape">>,
                                    <<late, "stale_sample">>, <<~input.fresh, "stale_sample">> >>)
    BY DEF RequestBlocked
  <2> HIDE DEF late
  <2> QED
    BY <2>1, Verdict4
<1>2. RequestFailed \in {"none", "lease", "entity", "world", "disabled", "teleport", "keyframed"}
  BY Verdict6 DEF RequestFailed
<1> QED
  BY <1>1, <1>2 DEF Reasons

LEMMA BridgeReasons == BridgeReason \in Reasons
<1>1. BridgeReason \in {"focus", "stale_sample", "disabled", "teleport", "keyframed"}
  <2> DEFINE unfocused == ~input.focused
             stale     == ~input.fresh \/ ~SampleWithin(LeaseLimit, worker.skew)
             disabled  == latest.disabled
             moved     == latest.teleported
  <2>1. BridgeReason =
          Verdict(<< <<unfocused, "focus">>, <<stale, "stale_sample">>, <<disabled, "disabled">>,
                     <<moved, "teleport">>, <<TRUE, "keyframed">> >>)
    BY DEF BridgeReason
  <2> HIDE DEF unfocused, stale, disabled, moved
  <2> QED
    BY <2>1, Verdict5
<1> QED
  BY <1>1 DEF Reasons

LEMMA PollReasons ==
  ASSUME NEW foreground, NEW skew
  PROVE  LET ends == \/ ~foreground \/ Escape \/ ~input.fresh \/ ~SampleWithin(LeaseLimit, skew)
                     \/ flight.enabled /\ flight.lease > LeaseLimit + skew IN
         /\ PollVerdict(foreground, skew) \in Reasons \union {"none"}
         /\ (PollVerdict(foreground, skew) = "none" <=> ~ends)
<1> DEFINE away  == ~foreground
           stop  == Escape
           stale == ~input.fresh \/ ~SampleWithin(LeaseLimit, skew)
           late  == flight.enabled /\ flight.lease > LeaseLimit + skew
<1>1. PollVerdict(foreground, skew) =
        Verdict(<< <<away, "focus">>, <<stop, "escape">>,
                   <<stale, "stale_sample">>, <<late, "lease">> >>)
  BY DEF PollVerdict
<1> HIDE DEF away, stop, stale, late
<1>2. away \/ stop \/ stale \/ late =>
        PollVerdict(foreground, skew) \in {"focus", "escape", "stale_sample", "lease"}
  BY <1>1, Verdict4
<1>3. ~away /\ ~stop /\ ~stale /\ ~late => PollVerdict(foreground, skew) = "none"
  BY <1>1, Verdict4
<1> QED
  BY <1>2, <1>3 DEF Reasons, away, stop, stale, late

LEMMA StepReasons ==
  ASSUME NEW s
  PROVE  LET ends == \/ ~input.focused \/ ~input.fresh \/ flight.lease > LeaseLimit
                     \/ s.entity # flight.entity \/ s.world # flight.world
                     \/ s.disabled \/ TeleportBlocks(s) \/ s.keyframed IN
         /\ StepVerdict(s) \in Reasons \union {"none"}
         /\ (StepVerdict(s) \in {"none", "tick_gap"} <=> ~ends)
<1> DEFINE p1 == ~input.focused
           p2 == ~input.fresh
           p3 == flight.lease > LeaseLimit
           p4 == s.entity # flight.entity
           p5 == s.world # flight.world
           p6 == s.disabled
           p7 == TeleportBlocks(s)
           p8 == s.keyframed
           p9 == flight.step # NoStep /\ flight.step > StepGap
<1>1. StepVerdict(s) =
        Verdict(<< <<p1, "focus">>, <<p2, "stale_sample">>, <<p3, "lease">>, <<p4, "entity">>,
                   <<p5, "world">>, <<p6, "disabled">>, <<p7, "teleport">>, <<p8, "keyframed">>,
                   <<p9, "tick_gap">> >>)
  BY DEF StepVerdict
<1> HIDE DEF p1, p2, p3, p4, p5, p6, p7, p8, p9
<1>2. StepVerdict(s) \in
        IF p1 \/ p2 \/ p3 \/ p4 \/ p5 \/ p6 \/ p7 \/ p8
        THEN {"focus", "stale_sample", "lease", "entity", "world", "disabled",
              "teleport", "keyframed"}
        ELSE {"none", "tick_gap"}
  BY <1>1, Verdict9
<1>3. StepVerdict(s) \in {"none", "tick_gap"} <=> ~(p1 \/ p2 \/ p3 \/ p4 \/ p5 \/ p6 \/ p7 \/ p8)
  BY <1>2
<1>4. StepVerdict(s) \in Reasons \union {"none"}
  BY <1>2 DEF Reasons
<1> QED
  BY <1>3, <1>4 DEF p1, p2, p3, p4, p5, p6, p7, p8

-----------------------------------------------------------------------------
(* The receipts: who has one, and what reset leaves there.                 *)

Receipt == [owner : Owners \union {NoOwner}, reason : Reasons \union {"none"}, pending : BOOLEAN]

LEMMA SlotsAreNumbers == Slots \in SUBSET Nat /\ \A o : SlotsOf(o) \in SUBSET Slots
  BY FlightAssumption DEF Slots, SlotsOf

LEMMA FirstSlot ==
  ASSUME NEW o, SlotsOf(o) # {}
  PROVE  First(SlotsOf(o)) \in Slots /\ receipts[First(SlotsOf(o))].owner = o
<1>1. SlotsOf(o) \in SUBSET Nat
  BY SlotsAreNumbers
<1>2. First(SlotsOf(o)) \in SlotsOf(o)
  BY <1>1, FirstIn
<1> QED
  BY <1>2 DEF SlotsOf

LEMMA Marked ==
  ASSUME NEW r \in Receipt, NEW why \in Reasons
  PROVE  [r EXCEPT !.reason = why, !.pending = TRUE] =
           [owner |-> r.owner, reason |-> why, pending |-> TRUE]
<1> DEFINE m == [r EXCEPT !.reason = why, !.pending = TRUE]
           n == [owner |-> r.owner, reason |-> why, pending |-> TRUE]
<1>1. m \in Receipt /\ n \in Receipt
  BY DEF Receipt
<1>2. m.owner = n.owner /\ m.reason = n.reason /\ m.pending = n.pending
  BY DEF Receipt
<1> HIDE DEF m, n
<1>3. m = n
  BY <1>1, <1>2 DEF Receipt
<1> QED
  BY <1>3 DEF m, n

\* The receipts after a reset: the reason is in the flying guest's, the others stay.
LEMMA CancelledIs ==
  ASSUME receipts \in [Slots -> Receipt], NEW why \in Reasons
  PROVE  /\ Cancelled(why) \in [Slots -> Receipt]
         /\ \A s \in Slots :
              \/ Cancelled(why)[s] = receipts[s]
              \/ /\ flight.enabled /\ flight.guest /\ s = First(SlotsOf(flight.owner))
                 /\ receipts[s].owner = flight.owner
                 /\ Cancelled(why)[s] = [owner |-> flight.owner, reason |-> why, pending |-> TRUE]
         /\ flight.enabled /\ flight.guest /\ SlotsOf(flight.owner) # {} =>
              Cancelled(why)[First(SlotsOf(flight.owner))] =
                [owner |-> flight.owner, reason |-> why, pending |-> TRUE]
<1> DEFINE first == First(SlotsOf(flight.owner))
<1>1. CASE flight.enabled /\ flight.guest /\ SlotsOf(flight.owner) # {}
  <2>1. first \in Slots /\ receipts[first].owner = flight.owner
    BY <1>1, FirstSlot
  <2>2. receipts[first] \in Receipt
    BY <2>1
  <2>3. [receipts[first] EXCEPT !.reason = why, !.pending = TRUE] =
          [owner |-> flight.owner, reason |-> why, pending |-> TRUE]
    BY <2>1, <2>2, Marked
  <2>4. Cancelled(why) =
          [receipts EXCEPT ![first] = [receipts[first] EXCEPT !.reason = why, !.pending = TRUE]]
    BY <1>1 DEF Cancelled
  <2>5. flight.owner \in Owners \union {NoOwner}
    BY <2>1, <2>2 DEF Receipt
  <2>6. [owner |-> flight.owner, reason |-> why, pending |-> TRUE] \in Receipt
    BY <2>5 DEF Receipt
  <2> HIDE DEF first
  <2>7. Cancelled(why) = [receipts EXCEPT ![first] =
                            [owner |-> flight.owner, reason |-> why, pending |-> TRUE]]
    BY <2>3, <2>4
  <2> DEFINE mark == [owner |-> flight.owner, reason |-> why, pending |-> TRUE]
  <2> HIDE DEF mark
  <2>8. /\ Cancelled(why) \in [Slots -> Receipt] /\ Cancelled(why)[first] = mark
        /\ \A s \in Slots : s # first => Cancelled(why)[s] = receipts[s]
    BY <2>1, <2>6, <2>7 DEF mark
  <2> QED
    BY <1>1, <2>1, <2>8 DEF first, mark
<1>2. CASE ~(flight.enabled /\ flight.guest /\ SlotsOf(flight.owner) # {})
  <2>1. Cancelled(why) = receipts
    BY <1>2 DEF Cancelled
  <2> QED
    BY <1>2, <2>1
<1> QED
  BY <1>1, <1>2

\* A reset keeps the types and the agreement of the receipts.
LEMMA StopKeeps ==
  ASSUME TypeOK, ReceiptsAgree, NEW why \in Reasons, Stop(why)
  PROVE  /\ flight' \in [owner : Owners \union {NoOwner}, entity : Nat, world : Nat, lease : Ages,
                         step : Ages \union {NoStep}, enabled : BOOLEAN, positioned : BOOLEAN,
                         guest : BOOLEAN]
         /\ ~flight'.enabled /\ ~flight'.guest /\ flight'.owner = NoOwner
         /\ receipts' \in [Slots -> Receipt]
         /\ ReceiptsAgree'
<1>1. receipts \in [Slots -> Receipt]
  BY DEF TypeOK, Receipt
<1>2. flight' = Off /\ receipts' = Cancelled(why)
  BY DEF Stop
<1>3. 0 \in Ages
  BY FlightAssumption DEF Ages, Cap
<1>4. /\ flight' \in [owner : Owners \union {NoOwner}, entity : Nat, world : Nat, lease : Ages,
                      step : Ages \union {NoStep}, enabled : BOOLEAN, positioned : BOOLEAN,
                      guest : BOOLEAN]
      /\ ~flight'.enabled /\ ~flight'.guest /\ flight'.owner = NoOwner
  BY <1>2, <1>3 DEF Off
<1>5. receipts' \in [Slots -> Receipt]
  BY <1>1, <1>2, CancelledIs
<1>6. \A s \in Slots : \/ receipts'[s] = receipts[s]
                       \/ /\ receipts[s].owner = flight.owner
                          /\ receipts'[s] = [owner |-> flight.owner, reason |-> why, pending |-> TRUE]
  BY <1>1, <1>2, CancelledIs
<1>7. \A s \in Slots : /\ receipts'[s].owner = receipts[s].owner
                       /\ receipts'[s].pending => receipts'[s].reason # "none"
  <2>1. why # "none"
    BY DEF Reasons
  <2> QED
    BY <1>6, <2>1 DEF ReceiptsAgree
<1>8. ReceiptsAgree'
  BY <1>4, <1>7 DEF ReceiptsAgree, SlotsOf
<1> QED
  BY <1>4, <1>5, <1>8

\* The receipt a request uses: the guest's own if it has one, else one nobody owns,
\* else one whose guest was told.
LEMMA ReceiptForIs ==
  ASSUME NEW o \in Owners, NEW s \in ReceiptFor(o)
  PROVE  /\ s \in Slots
         /\ SlotsOf(o) # {} => receipts[s].owner = o
         /\ SlotsOf(o) = {} => receipts[s].owner = NoOwner \/ ~receipts[s].pending
<1> DEFINE settled == {t \in Slots : ~receipts[t].pending}
<1>1. CASE SlotsOf(o) # {}
  <2>1. s = First(SlotsOf(o))
    BY <1>1 DEF ReceiptFor
  <2> QED
    BY <1>1, <2>1, FirstSlot
<1>2. CASE SlotsOf(o) = {} /\ SlotsOf(NoOwner) # {}
  <2>1. s = First(SlotsOf(NoOwner))
    BY <1>2 DEF ReceiptFor
  <2> QED
    BY <1>2, <2>1, FirstSlot
<1>3. CASE SlotsOf(o) = {} /\ SlotsOf(NoOwner) = {}
  <2>1. settled # {} /\ s = First(settled)
    BY <1>3 DEF ReceiptFor
  <2>2. settled \in SUBSET Nat
    BY SlotsAreNumbers
  <2>3. s \in settled
    BY <2>1, <2>2, FirstIn
  <2> QED
    BY <1>3, <2>3
<1> QED
  BY <1>1, <1>2, <1>3

-----------------------------------------------------------------------------
(* The types and the receipts, action by action.                           *)

FlightType == [owner : Owners \union {NoOwner}, entity : Nat, world : Nat, lease : Ages,
               step : Ages \union {NoStep}, enabled : BOOLEAN, positioned : BOOLEAN, guest : BOOLEAN]
\* Only the bridge polls the key, for a guest.
BridgeOnly == worker.call = "noclip" => ~motion /\ worker.owner \in Owners
Sound == TypeOK /\ ReceiptsAgree /\ BridgeOnly

LEMMA Types ==
  ASSUME TypeOK
  PROVE  flight \in FlightType /\ receipts \in [Slots -> Receipt]
  BY DEF TypeOK, FlightType, Receipt

LEMMA RefuseSound ==
  ASSUME Sound, NEW o \in Owners, Refuse(o)
  PROVE  TypeOK' /\ ReceiptsAgree'
<1>1. PICK why \in Reasons : Stop(why)
  BY RequestReasons DEF Refuse
<1>2. /\ flight' \in FlightType /\ ~flight'.enabled /\ ~flight'.guest /\ flight'.owner = NoOwner
      /\ receipts' \in [Slots -> Receipt] /\ ReceiptsAgree'
  BY <1>1, StopKeeps DEF Sound, FlightType
<1>3. UNCHANGED Unasked
  BY DEF Refuse
<1> QED
  BY <1>2, <1>3 DEF Sound, BridgeOnly, TypeOK, FlightType, Receipt, Unasked, AtRest

LEMMA TellSound ==
  ASSUME Sound, NEW o \in Owners, Tell(o)
  PROVE  TypeOK' /\ ReceiptsAgree'
<1> DEFINE first == First(SlotsOf(o))
<1>1. SlotsOf(o) # {}
  BY DEF Tell, OwesRefusal
<1>2. first \in Slots /\ receipts[first].owner = o
  BY <1>1, FirstSlot
<1>3. receipts \in [Slots -> Receipt]
  BY Types DEF Sound
<1>4. receipts' = [receipts EXCEPT ![first].pending = FALSE]
  BY DEF Tell
<1> HIDE DEF first
<1>5. receipts' \in [Slots -> Receipt]
  BY <1>2, <1>3, <1>4 DEF Receipt
<1>6. \A s \in Slots : /\ receipts'[s].owner = receipts[s].owner
                       /\ receipts'[s].reason = receipts[s].reason
                       /\ receipts'[s].pending => receipts[s].pending
  BY <1>2, <1>3, <1>4 DEF Receipt
<1>7. UNCHANGED <<flight, Unasked>>
  BY DEF Tell
<1>8. TypeOK'
  BY <1>5, <1>7 DEF Sound, BridgeOnly, TypeOK, Receipt, Unasked, AtRest
<1>9. ReceiptsAgree'
  BY <1>6, <1>7 DEF Sound, ReceiptsAgree, SlotsOf
<1> QED
  BY <1>8, <1>9 DEF Sound

LEMMA GrantSound ==
  ASSUME Sound, NEW o \in Owners, Grant(o)
  PROVE  TypeOK' /\ ReceiptsAgree'
<1> DEFINE fresh == [owner |-> o, reason |-> "none", pending |-> FALSE]
<1>1. PICK s \in ReceiptFor(o) : receipts' = [receipts EXCEPT ![s] = fresh]
  BY DEF Grant
<1>2. /\ s \in Slots
      /\ SlotsOf(o) # {} => receipts[s].owner = o
  BY ReceiptForIs
<1>3. receipts \in [Slots -> Receipt] /\ flight \in FlightType
  BY Types DEF Sound
<1>4. fresh \in Receipt
  BY DEF Receipt
<1>5. /\ receipts' \in [Slots -> Receipt] /\ receipts'[s] = fresh
      /\ \A t \in Slots : t # s => receipts'[t] = receipts[t]
  BY <1>1, <1>2, <1>3, <1>4
<1>6. /\ flight' \in FlightType /\ flight'.enabled /\ flight'.guest /\ flight'.owner = o
  <2>1. flight' = IF flight.enabled THEN [flight EXCEPT !.guest = TRUE, !.lease = 0]
                  ELSE [owner |-> o, entity |-> latest.entity, world |-> latest.world, lease |-> 0,
                        step |-> NoStep, enabled |-> TRUE, positioned |-> FALSE, guest |-> TRUE]
    BY DEF Grant
  <2>2. latest.entity \in Nat /\ latest.world \in Nat /\ 0 \in Ages
    BY FlightAssumption DEF Sound, BridgeOnly, TypeOK, NoSample, Ages, Cap
  <2>3. flight.enabled => flight.owner = o
    BY DEF Grant, Foreign, Sound, BridgeOnly, TypeOK
  <2>4. CASE flight.enabled
    BY <1>3, <2>1, <2>2, <2>3, <2>4 DEF FlightType
  <2>5. CASE ~flight.enabled
    BY <2>1, <2>2, <2>5 DEF FlightType
  <2> QED
    BY <2>4, <2>5
<1>7. motion /\ UNCHANGED Unasked /\ o # NoOwner
  BY FlightAssumption DEF Grant
<1>8. TypeOK'
  BY <1>5, <1>6, <1>7 DEF Sound, BridgeOnly, TypeOK, FlightType, Receipt, Unasked, AtRest
<1>9. ReceiptsAgree'
  <2>1. \A p \in Owners : \A t, u \in SlotsOf(p)' : t = u
    <3> SUFFICES ASSUME NEW p \in Owners, NEW t \in Slots, NEW u \in Slots,
                        receipts'[t].owner = p, receipts'[u].owner = p
                 PROVE  t = u
      BY DEF SlotsOf
    <3>1. CASE t = s \/ u = s
      <4>1. p = o
        BY <1>5, <3>1
      <4>2. \A v \in Slots : v # s => receipts[v].owner # o
        BY <1>2 DEF Sound, ReceiptsAgree, SlotsOf
      <4> QED
        BY <1>5, <3>1, <4>1, <4>2
    <3>2. CASE t # s /\ u # s
      BY <1>5, <3>2 DEF Sound, ReceiptsAgree, SlotsOf
    <3> QED
      BY <3>1, <3>2
  <2>2. \E t \in SlotsOf(flight.owner)' : receipts'[t].reason = "none"
    BY <1>2, <1>5, <1>6 DEF SlotsOf
  <2>3. \A t \in Slots : receipts'[t].pending => receipts'[t].reason # "none"
    BY <1>5 DEF Sound, ReceiptsAgree
  <2> QED
    BY <2>1, <2>2, <2>3 DEF ReceiptsAgree
<1> QED
  BY <1>8, <1>9 DEF Sound

LEMMA ReleaseSound ==
  ASSUME Sound, NEW o \in Owners, Release(o)
  PROVE  TypeOK' /\ ReceiptsAgree'
<1>1. receipts \in [Slots -> Receipt] /\ flight \in FlightType
  BY Types DEF Sound
<1>2. Free \in Receipt /\ Off \in FlightType /\ o # NoOwner
  BY FlightAssumption DEF Free, Off, Receipt, FlightType, Ages, Cap
<1>3. /\ receipts' = [s \in Slots |-> IF receipts[s].owner = o THEN Free ELSE receipts[s]]
      /\ flight' = (IF flight.owner = o THEN Off ELSE flight) /\ UNCHANGED Unasked
  BY DEF Release
<1>4. /\ receipts' \in [Slots -> Receipt] /\ flight' \in FlightType
      /\ \A s \in Slots : \/ receipts'[s] = receipts[s] /\ receipts[s].owner # o
                          \/ receipts'[s] = Free
      /\ \A s \in Slots : receipts[s].owner # o => receipts'[s] = receipts[s]
  BY <1>1, <1>2, <1>3
<1>5. TypeOK'
  BY <1>3, <1>4 DEF Sound, BridgeOnly, TypeOK, FlightType, Receipt, Unasked, AtRest, Off
<1>6. ReceiptsAgree'
  <2>1. \A p \in Owners : \A t, u \in SlotsOf(p)' : t = u
    <3>1. \A p \in Owners : SlotsOf(p)' \subseteq SlotsOf(p)
      BY <1>4, FlightAssumption DEF SlotsOf, Free
    <3> QED
      BY <3>1 DEF Sound, ReceiptsAgree
  <2>2. flight'.guest => \E t \in SlotsOf(flight.owner)' : receipts'[t].reason = "none"
    <3>1. flight'.guest => flight' = flight /\ flight.owner # o
      BY <1>3 DEF Off
    <3> QED
      BY <1>4, <3>1 DEF Sound, ReceiptsAgree, SlotsOf
  <2>3. \A t \in Slots : receipts'[t].pending => receipts'[t].reason # "none"
    BY <1>4 DEF Sound, ReceiptsAgree, Free
  <2> QED
    BY <2>1, <2>2, <2>3 DEF ReceiptsAgree
<1> QED
  BY <1>5, <1>6 DEF Sound

\* The calls that only read the key, the focus and the clock.
LEMMA BeginSound ==
  ASSUME Sound,
         (\E o \in Owners : NoclipBegin(o)) \/ PollBegin \/ NoclipContended
  PROVE  TypeOK' /\ ReceiptsAgree'
<1>1. UNCHANGED <<flight, receipts, held, latest, sampleAge, input, closed, motion, toggles>>
  BY DEF NoclipBegin, PollBegin, NoclipContended
<1>2. /\ worker' \in [call : {"none", "poll", "noclip"}, owner : Owners \union {NoOwner},
                      seen : BOOLEAN, skew : 0..MaxSkew]
      /\ worker'.call = "none" <=> worker' = AtRest
  <2>1. 0 \in 0..MaxSkew
    BY FlightAssumption
  <2>2. input.focused \in BOOLEAN /\ (input.focused /\ Key) \in BOOLEAN
    BY DEF Sound, BridgeOnly, TypeOK, Key
  <2>3. ASSUME NEW o \in Owners, NoclipBegin(o)
        PROVE  <1>2!1 /\ <1>2!2
    <3> DEFINE seen == input.focused /\ Key
    <3>1. worker' = [call |-> "noclip", owner |-> o, seen |-> seen, skew |-> 0]
      BY <2>3 DEF NoclipBegin
    <3>2. seen \in BOOLEAN
      BY <2>2
    <3> HIDE DEF seen
    <3> QED
      BY <3>1, <3>2, <2>1 DEF AtRest
  <2>4. CASE PollBegin
    BY <2>1, <2>2, <2>4 DEF PollBegin, AtRest
  <2>5. CASE NoclipContended
    BY <2>1, <2>5 DEF NoclipContended, AtRest
  <2> QED
    BY <2>3, <2>4, <2>5
<1>3. TypeOK'
  BY <1>1, <1>2 DEF Sound, BridgeOnly, TypeOK
<1>4. ReceiptsAgree'
  BY <1>1 DEF Sound, ReceiptsAgree, SlotsOf
<1> QED
  BY <1>3, <1>4 DEF Sound

LEMMA AtRestType ==
  /\ AtRest \in [call : {"none", "poll", "noclip"}, owner : Owners \union {NoOwner},
                 seen : BOOLEAN, skew : 0..MaxSkew]
  /\ AtRest.call = "none"
  BY FlightAssumption DEF AtRest

LEMMA NoclipSound ==
  ASSUME Sound, Noclip
  PROVE  TypeOK' /\ ReceiptsAgree'
<1>1. /\ worker' = AtRest /\ held' = worker.seen /\ held' \in BOOLEAN
      /\ UNCHANGED <<latest, sampleAge, input, closed, motion>>
  BY DEF Noclip, Sound, BridgeOnly, TypeOK
<1>2. worker.owner \in Owners /\ worker.skew \in Ages
  <2>1. worker.call = "noclip"
    BY DEF Noclip
  <2>3. 0..MaxSkew \subseteq Ages
    BY FlightAssumption DEF Ages, Cap
  <2> QED
    BY <2>1, <2>3 DEF Sound, BridgeOnly, TypeOK
<1>3. toggles' \in 0..2
  BY DEF Noclip, Switched, Sound, BridgeOnly, TypeOK
<1>4. CASE \E why \in Reasons : Stop(why)
  <2>1. /\ flight' \in FlightType /\ ~flight'.enabled /\ ~flight'.guest /\ flight'.owner = NoOwner
        /\ receipts' \in [Slots -> Receipt] /\ ReceiptsAgree'
    BY <1>4, StopKeeps DEF Sound, FlightType
  <2> QED
    BY <1>1, <1>3, <2>1, AtRestType DEF Sound, BridgeOnly, TypeOK, FlightType, Receipt
<1>5. CASE ~\E why \in Reasons : Stop(why)
  <2>1. UNCHANGED receipts
    BY <1>5, BridgeReasons DEF Noclip, Reasons
  <2>2. /\ flight' \in FlightType /\ ~flight'.guest
        /\ flight'.enabled <=> flight'.owner # NoOwner
    <3>1. CASE flight' = [owner |-> worker.owner, entity |-> latest.entity, world |-> latest.world,
                          lease |-> worker.skew, step |-> NoStep, enabled |-> TRUE,
                          positioned |-> FALSE, guest |-> FALSE]
      <4>1. latest.entity \in Nat /\ latest.world \in Nat
        BY FlightAssumption DEF Sound, BridgeOnly, TypeOK, NoSample
      <4> QED
        BY <1>2, <3>1, <4>1, FlightAssumption DEF FlightType
    <3>2. CASE flight' = IF flight.enabled THEN [flight EXCEPT !.lease = worker.skew] ELSE flight
      BY <1>2, <3>2 DEF FlightType, Noclip, Sound, BridgeOnly, TypeOK
    <3> QED
      BY <1>5, <3>1, <3>2, BridgeReasons DEF Noclip, Reasons
  <2>3. TypeOK'
    BY <1>1, <1>3, <2>1, <2>2, AtRestType DEF Sound, BridgeOnly, TypeOK, FlightType, Noclip
  <2>4. ReceiptsAgree'
    BY <2>1, <2>2 DEF Sound, ReceiptsAgree, SlotsOf
  <2> QED
    BY <2>3, <2>4 DEF Sound
<1> QED
  BY <1>4, <1>5

LEMMA PollSound ==
  ASSUME Sound, Poll
  PROVE  TypeOK' /\ ReceiptsAgree'
<1>1. worker' = AtRest /\ UNCHANGED <<held, latest, sampleAge, input, closed, motion, toggles>>
  BY DEF Poll
<1>2. CASE \E why \in Reasons : Stop(why)
  <2>1. /\ flight' \in FlightType /\ ~flight'.enabled /\ ~flight'.guest /\ flight'.owner = NoOwner
        /\ receipts' \in [Slots -> Receipt] /\ ReceiptsAgree'
    BY <1>2, StopKeeps DEF Sound, FlightType
  <2> QED
    BY <1>1, <2>1, AtRestType DEF Sound, BridgeOnly, TypeOK, FlightType, Receipt
<1>3. CASE UNCHANGED <<flight, receipts>>
  <2>1. TypeOK'
    BY <1>1, <1>3, AtRestType DEF Sound, BridgeOnly, TypeOK
  <2>2. ReceiptsAgree'
    BY <1>3 DEF Sound, ReceiptsAgree, SlotsOf
  <2> QED
    BY <2>1, <2>2 DEF Sound
<1> QED
  BY <1>2, <1>3, PollReasons DEF Poll

LEMMA CloseSound ==
  ASSUME Sound, Close
  PROVE  TypeOK' /\ ReceiptsAgree'
<1>1. "shutdown" \in Reasons /\ Stop("shutdown")
  BY DEF Close, Reasons
<1>2. /\ flight' \in FlightType /\ ~flight'.enabled /\ ~flight'.guest /\ flight'.owner = NoOwner
      /\ receipts' \in [Slots -> Receipt] /\ ReceiptsAgree'
  BY <1>1, StopKeeps DEF Sound, FlightType
<1>3. closed' = TRUE /\ UNCHANGED <<held, latest, sampleAge, input, worker, motion, toggles>>
  BY DEF Close
<1> QED
  BY <1>2, <1>3 DEF Sound, BridgeOnly, TypeOK, FlightType, Receipt, AtRest

LEMMA ControllerSound ==
  ASSUME Sound, NEW s \in Samples, NEW ending \in Outcomes, Controller(s, ending)
  PROVE  TypeOK' /\ ReceiptsAgree'
<1>1. /\ latest' \in Samples /\ sampleAge' \in Ages
      /\ UNCHANGED <<held, input, worker, closed, motion, toggles>>
  BY FlightAssumption DEF Controller, Ages, Cap
<1>2. CASE \E why \in Reasons : Stop(why)
  <2>1. /\ flight' \in FlightType /\ ~flight'.enabled /\ ~flight'.guest /\ flight'.owner = NoOwner
        /\ receipts' \in [Slots -> Receipt] /\ ReceiptsAgree'
    BY <1>2, StopKeeps DEF Sound, FlightType
  <2> QED
    BY <1>1, <2>1 DEF Sound, BridgeOnly, TypeOK, FlightType, Receipt, AtRest
<1>3. CASE ~\E why \in Reasons : Stop(why)
  <2>1. ending # "moved" => ending \in Reasons
    BY FlightAssumption DEF Reasons
  <2>2. UNCHANGED receipts /\ flight' \in {flight, [flight EXCEPT !.step = 0, !.positioned = TRUE]}
    BY <1>3, <2>1, StepReasons DEF Controller, Reasons
  <2>3. 0 \in Ages /\ flight \in FlightType
    BY Types, FlightAssumption DEF Ages, Cap, Sound
  <2>4. /\ flight' \in FlightType /\ flight'.enabled = flight.enabled
        /\ flight'.guest = flight.guest /\ flight'.owner = flight.owner
    BY <2>2, <2>3 DEF FlightType
  <2>5. TypeOK'
    BY <1>1, <2>2, <2>4 DEF Sound, BridgeOnly, TypeOK, FlightType, AtRest
  <2>6. ReceiptsAgree'
    BY <2>2, <2>4 DEF Sound, ReceiptsAgree, SlotsOf
  <2> QED
    BY <2>5, <2>6 DEF Sound
<1> QED
  BY <1>2, <1>3

LEMMA InputSound ==
  ASSUME Sound, NEW field \in Inputs, InputChanges(field)
  PROVE  TypeOK' /\ ReceiptsAgree'
<1>1. UNCHANGED <<flight, receipts, held, latest, sampleAge, worker, closed, motion>>
  BY DEF InputChanges
<1>2. toggles' \in 0..2
  BY DEF InputChanges, Sound, BridgeOnly, TypeOK
<1>3. input' \in [focused : BOOLEAN, escape : BOOLEAN, fresh : BOOLEAN, key : BOOLEAN]
  <2>1. field \in {"focused", "escape", "fresh", "key"}
    BY FlightAssumption
  <2>2. input' = [input EXCEPT ![field] = ~input[field]]
    BY DEF InputChanges
  <2> QED
    BY <2>1, <2>2 DEF Sound, BridgeOnly, TypeOK
<1>4. TypeOK'
  BY <1>1, <1>2, <1>3 DEF Sound, BridgeOnly, TypeOK, AtRest
<1>5. ReceiptsAgree'
  BY <1>1 DEF Sound, ReceiptsAgree, SlotsOf
<1> QED
  BY <1>4, <1>5 DEF Sound

LEMMA TickSound ==
  ASSUME Sound, Tick
  PROVE  TypeOK' /\ ReceiptsAgree'
<1>1. UNCHANGED <<receipts, held, latest, input, closed, motion, toggles>>
  BY DEF Tick
<1>2. \A age \in Ages : Older(age) \in Ages
  BY FlightAssumption DEF Older, Ages, Cap
<1>3. sampleAge' \in Ages
  BY <1>2 DEF Tick, Sound, BridgeOnly, TypeOK
<1>4. flight' \in FlightType /\ flight'.enabled = flight.enabled
      /\ flight'.guest = flight.guest /\ flight'.owner = flight.owner
  <2>1. flight \in FlightType
    BY Types DEF Sound
  <2>2. CASE flight.enabled
    <3> DEFINE lease == Older(flight.lease)
               step  == IF flight.step = NoStep THEN NoStep ELSE Older(flight.step)
    <3>1. flight' = [flight EXCEPT !.lease = lease, !.step = step]
      BY <2>2 DEF Tick
    <3>2. lease \in Ages /\ step \in Ages \union {NoStep}
      BY <1>2, <2>1 DEF FlightType
    <3> HIDE DEF lease, step
    <3> QED
      BY <2>1, <3>1, <3>2 DEF FlightType
  <2>3. CASE ~flight.enabled
    BY <2>1, <2>3 DEF Tick
  <2> QED
    BY <2>2, <2>3
<1>5. /\ worker' \in [call : {"none", "poll", "noclip"}, owner : Owners \union {NoOwner},
                      seen : BOOLEAN, skew : 0..MaxSkew]
      /\ worker'.call = "none" <=> worker' = AtRest
  <2>1. CASE worker = AtRest
    BY <2>1 DEF Tick, Sound, BridgeOnly, TypeOK
  <2>2. CASE worker # AtRest
    <3>1. worker.skew + 1 \in 0..MaxSkew
      BY <2>2, FlightAssumption DEF Tick, Sound, BridgeOnly, TypeOK
    <3>2. worker' = [worker EXCEPT !.skew = worker.skew + 1]
      BY <2>2 DEF Tick
    <3> DEFINE skew == worker.skew + 1
    <3> HIDE DEF skew
    <3>3. /\ worker' \in [call : {"none", "poll", "noclip"}, owner : Owners \union {NoOwner},
                          seen : BOOLEAN, skew : 0..MaxSkew]
          /\ worker'.call = worker.call
      BY <3>1, <3>2 DEF skew, Sound, BridgeOnly, TypeOK
    <3>4. worker.call # "none"
      BY <2>2 DEF Sound, BridgeOnly, TypeOK
    <3> QED
      BY <3>3, <3>4 DEF AtRest
  <2> QED
    BY <2>1, <2>2
<1>6. TypeOK'
  BY <1>1, <1>3, <1>4, <1>5 DEF Sound, BridgeOnly, TypeOK, FlightType
<1>7. ReceiptsAgree'
  BY <1>1, <1>4 DEF Sound, ReceiptsAgree, SlotsOf
<1> QED
  BY <1>6, <1>7 DEF Sound

-----------------------------------------------------------------------------
(* The key.                                                                *)

PressOK ==
  /\ toggles <= 1
  /\ toggles # 0 =>
       IF input.focused /\ Key
       THEN held /\ (worker.call = "noclip" => worker.seen)
       ELSE worker.call = "noclip" => ~worker.seen

FlightIInv == Sound /\ PressOK

\* Time only makes what the worker read older.
LEMMA TickWorker ==
  ASSUME Sound, Tick
  PROVE  worker'.call = worker.call /\ worker'.owner = worker.owner /\ worker'.seen = worker.seen
<1>1. worker \in [call : {"none", "poll", "noclip"}, owner : Owners \union {NoOwner},
                  seen : BOOLEAN, skew : 0..MaxSkew]
  BY DEF Sound, TypeOK
<1>2. worker' = IF worker = AtRest THEN worker ELSE [worker EXCEPT !.skew = worker.skew + 1]
  BY DEF Tick
<1> DEFINE skew == worker.skew + 1
<1> HIDE DEF skew
<1>3. worker' = worker \/ worker' = [worker EXCEPT !.skew = skew]
  BY <1>2 DEF skew
<1> QED
  BY <1>1, <1>3

\* The bridge's worker is the only one that looks at the key.
LEMMA BridgeStep ==
  ASSUME Sound, Next
  PROVE  BridgeOnly'
<1>1. CASE UNCHANGED <<worker, motion>>
  BY <1>1 DEF Sound, BridgeOnly
<1>2. CASE worker' = AtRest
  BY <1>2, AtRestType DEF BridgeOnly
<1>3. ASSUME NEW o \in Owners, NoclipBegin(o)
      PROVE  BridgeOnly'
  <2> DEFINE seen == input.focused /\ Key
  <2>1. worker' = [call |-> "noclip", owner |-> o, seen |-> seen, skew |-> 0]
    BY <1>3 DEF NoclipBegin
  <2> HIDE DEF seen
  <2> QED
    BY <1>3, <2>1 DEF NoclipBegin, BridgeOnly
<1>4. CASE PollBegin
  BY <1>4 DEF PollBegin, BridgeOnly
<1>5. CASE Tick
  BY <1>5, TickWorker DEF Tick, Sound, BridgeOnly
<1> QED
  BY <1>1, <1>2, <1>3, <1>4, <1>5
     DEF Next, Refuse, Tell, Grant, Release, Unasked, NoclipContended, Noclip, Poll, Close,
         Controller, InputChanges

\* The switch: the worker saw the key, and the toggle had not.  Were the press one
\* that had switched the flight already, both or neither would have.
LEMMA SwitchIsFirst ==
  ASSUME Sound, PressOK, worker.call = "noclip", worker.seen, ~held
  PROVE  toggles = 0
  BY DEF PressOK

LEMMA PressStep ==
  ASSUME Sound, PressOK, Next
  PROVE  PressOK'
<1>1. toggles \in 0..2 /\ worker.seen \in BOOLEAN /\ held \in BOOLEAN
  BY DEF Sound, TypeOK
<1>2. CASE UNCHANGED <<held, input, worker, toggles>>
  BY <1>2 DEF PressOK, Key
<1>3. ASSUME NEW o \in Owners, NoclipBegin(o)
      PROVE  PressOK'
  <2> DEFINE seen == input.focused /\ Key
  <2>1. worker' = [call |-> "noclip", owner |-> o, seen |-> seen, skew |-> 0]
    BY <1>3 DEF NoclipBegin
  <2>2. seen \in BOOLEAN /\ UNCHANGED <<held, input, toggles, seen>>
    BY <1>3 DEF NoclipBegin, Sound, TypeOK, Key
  <2>3. PressOK <=> /\ toggles <= 1
                    /\ toggles # 0 => IF seen THEN held /\ (worker.call = "noclip" => worker.seen)
                                      ELSE worker.call = "noclip" => ~worker.seen
    BY DEF PressOK
  <2>4. PressOK' <=> /\ toggles' <= 1
                     /\ toggles' # 0 => IF seen' THEN held' /\ (worker'.call = "noclip" => worker'.seen)
                                        ELSE worker'.call = "noclip" => ~worker'.seen
    BY DEF PressOK, Key
  <2> HIDE DEF seen
  <2> QED
    BY <2>1, <2>2, <2>3, <2>4
<1>4. CASE PollBegin \/ NoclipContended
  BY <1>4, AtRestType DEF PollBegin, NoclipContended, PressOK, Key
<1>5. CASE Noclip
  <2>1. worker.call = "noclip" /\ worker' = AtRest /\ held' = worker.seen /\ UNCHANGED input
    BY <1>5 DEF Noclip
  <2>2. \/ worker.seen /\ ~held /\ Switched
        \/ UNCHANGED toggles
    BY <1>5 DEF Noclip
  <2>3. CASE worker.seen /\ ~held /\ Switched
    <3>1. toggles = 0
      BY <2>1, <2>3, SwitchIsFirst
    <3>2. toggles' = 1
      BY <2>3, <3>1 DEF Switched
    <3> QED
      BY <2>1, <2>3, <3>2, AtRestType DEF PressOK, Key
  <2>4. CASE UNCHANGED toggles
    BY <1>1, <2>1, <2>4, AtRestType DEF PressOK, Key
  <2> QED
    BY <2>2, <2>3, <2>4
<1>6. CASE Poll
  BY <1>6, AtRestType DEF Poll, PressOK, Key
<1>7. CASE Tick
  BY <1>7, TickWorker DEF Tick, PressOK, Key
<1>8. ASSUME NEW field \in Inputs, InputChanges(field)
      PROVE  PressOK'
  <2>1. CASE field = "escape"
    <3>1. /\ input' = [input EXCEPT !.escape = ~input.escape]
          /\ UNCHANGED <<held, worker, toggles>>
      BY <1>8, <2>1 DEF InputChanges
    <3> DEFINE escape == ~input.escape
    <3> HIDE DEF escape
    <3>2. input' = [input EXCEPT !.escape = escape]
      BY <3>1 DEF escape
    <3>3. input \in [focused : BOOLEAN, escape : BOOLEAN, fresh : BOOLEAN, key : BOOLEAN]
      BY DEF Sound, TypeOK
    <3>4. /\ input'.focused = input.focused /\ input'.fresh = input.fresh
          /\ input'.key = input.key
      BY <3>2, <3>3
    <3> QED
      BY <3>1, <3>4 DEF PressOK, Key
  <2>2. CASE field # "escape"
    BY <1>8, <2>2 DEF InputChanges, PressOK
  <2> QED
    BY <2>1, <2>2
<1> QED
  BY <1>2, <1>3, <1>4, <1>5, <1>6, <1>7, <1>8
     DEF Next, Refuse, Tell, Grant, Release, Unasked, Close, Controller

-----------------------------------------------------------------------------
(* The theorems about states.                                              *)

LEMMA FlightInit ==
  ASSUME Init
  PROVE  FlightIInv
<1>1. Free \in Receipt /\ Off \in FlightType /\ Cap \in Ages /\ 0 \in Ages
  BY FlightAssumption DEF Free, Off, Receipt, FlightType, Ages, Cap
<1>2. receipts \in [Slots -> Receipt] /\ flight \in FlightType
      /\ \A s \in Slots : receipts[s] = Free
  BY <1>1 DEF Init
<1>3. TypeOK
  <2>1. input \in [focused : BOOLEAN, escape : BOOLEAN, fresh : BOOLEAN, key : BOOLEAN]
    BY DEF Init
  <2>2. /\ worker \in [call : {"none", "poll", "noclip"}, owner : Owners \union {NoOwner},
                       seen : BOOLEAN, skew : 0..MaxSkew]
        /\ worker.call = "none" /\ worker = AtRest
    BY AtRestType DEF Init
  <2>3. flight.enabled <=> flight.owner # NoOwner
    BY DEF Init, Off
  <2>4. flight.guest <=> flight.enabled /\ motion
    BY DEF Init, Off
  <2>5. held \in BOOLEAN /\ closed \in BOOLEAN
    BY DEF Init
  <2>6. motion \in Modes /\ toggles \in 0..2
    BY DEF Init
  <2>7. latest \in Samples \union {NoSample} /\ sampleAge \in Ages
    BY <1>1 DEF Init
  <2> QED
    BY <1>2, <2>1, <2>2, <2>3, <2>4, <2>5, <2>6, <2>7 DEF TypeOK, FlightType, Receipt
<1>4. ReceiptsAgree
  BY <1>2, FlightAssumption DEF Init, ReceiptsAgree, SlotsOf, Free, Off
<1>5. BridgeOnly /\ PressOK
  BY AtRestType DEF Init, BridgeOnly, PressOK
<1> QED
  BY <1>3, <1>4, <1>5 DEF FlightIInv, Sound

LEMMA FlightStep ==
  ASSUME FlightIInv, [Next]_vars
  PROVE  FlightIInv'
<1>1. CASE Next
  <2>1. Sound
    BY DEF FlightIInv
  <2>2. TypeOK' /\ ReceiptsAgree'
    BY <1>1, <2>1, RefuseSound, TellSound, GrantSound, ReleaseSound, BeginSound, NoclipSound,
       PollSound, CloseSound, TickSound, ControllerSound, InputSound DEF Next
  <2>3. BridgeOnly' /\ PressOK'
    BY <1>1, <2>1, BridgeStep, PressStep DEF FlightIInv
  <2> QED
    BY <2>2, <2>3 DEF FlightIInv, Sound
<1>2. CASE UNCHANGED vars
  <2>1. TypeOK'
    BY <1>2 DEF FlightIInv, Sound, TypeOK, vars
  <2>2. ReceiptsAgree' /\ BridgeOnly' /\ PressOK'
    BY <1>2 DEF FlightIInv, Sound, ReceiptsAgree, SlotsOf, BridgeOnly, PressOK, Key, vars
  <2> QED
    BY <2>1, <2>2 DEF FlightIInv, Sound
<1> QED
  BY <1>1, <1>2

\* The inductive invariant of every theorem below.
LEMMA FlightInductive == Spec => []FlightIInv
<1>1. Init => FlightIInv
  BY FlightInit
<1>2. FlightIInv /\ [Next]_vars => FlightIInv'
  BY FlightStep
<1> QED
  BY <1>1, <1>2, PTL DEF Spec

\* Every variable keeps its type; a flight is on exactly while someone owns it, and
\* a guest's only where the Recorder serves guests (noclip.h:40, movement_probe.cpp).
THEOREM TypeCorrect == Spec => []TypeOK
<1>1. FlightIInv => TypeOK
  BY DEF FlightIInv, Sound
<1> QED
  BY <1>1, FlightInductive, PTL

\* A guest has at most one receipt, and one that flies has an unspoilt one: reset
\* always finds where to leave its reason (noclip.cpp:21).
THEOREM ReceiptsSound == Spec => []ReceiptsAgree
<1>1. FlightIInv => ReceiptsAgree
  BY DEF FlightIInv, Sound
<1> QED
  BY <1>1, FlightInductive, PTL

\* One press of F6 switches the flight at most once, however the worker's reading of
\* the key and its taking of the lock fall between the other calls (input.h, noclip.cpp).
THEOREM PressSwitchesOnce == Spec => []PressOnce
<1>1. FlightIInv => PressOnce
  BY DEF FlightIInv, PressOK, PressOnce
<1> QED
  BY <1>1, FlightInductive, PTL

\* The three copies of the rules of a flight (movement_probe.cpp:67, noclip.cpp:118)
\* agree in every state, for all limits and all samples.
THEOREM HooksFollow == Spec => []HooksFollowFlight
<1>1. TypeOK => HooksFollowFlight
  <2> SUFFICES ASSUME TypeOK, flight.enabled
               PROVE  ActivePlayer <=> /\ ~Escape
                                       /\ StepVerdict(latest) \in {"none", "tick_gap"}
                                       /\ PollVerdict(input.focused, 0) = "none"
    BY DEF HooksFollowFlight
  <2>1. LeaseLimit \in Nat /\ flight.lease \in Nat
    BY Types, FlightAssumption DEF FlightType, Ages, Cap
  <2>2. StepVerdict(latest) \in {"none", "tick_gap"} <=>
          ~(\/ ~input.focused \/ ~input.fresh \/ flight.lease > LeaseLimit
            \/ latest.entity # flight.entity \/ latest.world # flight.world
            \/ latest.disabled \/ TeleportBlocks(latest) \/ latest.keyframed)
    BY StepReasons
  <2>3. PollVerdict(input.focused, 0) = "none" <=>
          ~(\/ ~input.focused \/ Escape \/ ~input.fresh \/ ~SampleWithin(LeaseLimit, 0)
            \/ flight.enabled /\ flight.lease > LeaseLimit + 0)
    BY PollReasons
  <2>4. flight.lease > LeaseLimit <=> ~(flight.lease <= LeaseLimit)
    BY <2>1
  <2>5. flight.lease > LeaseLimit + 0 <=> ~(flight.lease <= LeaseLimit)
    BY <2>1
  <2> QED
    BY <2>2, <2>3, <2>4, <2>5 DEF ActivePlayer
<1> QED
  BY <1>1, TypeCorrect, PTL

-----------------------------------------------------------------------------
(* The promise.  What a guest reads depends on its receipt and on whether  *)
(* it flies; each action changes that for one guest, or for one more that  *)
(* was told of its last cancellation.                                      *)

Flying(o)  == flight.enabled /\ flight.guest /\ flight.owner = o
Idle       == [state |-> "idle", reason |-> "none", pending |-> FALSE]
Active     == [state |-> "active", reason |-> "none", pending |-> FALSE]
Says(s)    == IF receipts[s].reason = "none" THEN Idle
              ELSE [state |-> "stopped", reason |-> receipts[s].reason, pending |-> receipts[s].pending]

ReadsRight ==
  \A o \in Owners :
    /\ Flying(o) => MotionRead(o) = Active
    /\ ~Flying(o) /\ SlotsOf(o) = {} => MotionRead(o) = Idle
    /\ ~Flying(o) => \A s \in SlotsOf(o) : MotionRead(o) = Says(s)

LEMMA ReadsAreRight == Sound => ReadsRight
<1> SUFFICES ASSUME Sound, NEW o \in Owners
             PROVE  /\ Flying(o) => MotionRead(o) = Active
                    /\ ~Flying(o) /\ SlotsOf(o) = {} => MotionRead(o) = Idle
                    /\ ~Flying(o) => \A s \in SlotsOf(o) : MotionRead(o) = Says(s)
  BY DEF ReadsRight
<1>1. CASE Flying(o)
  BY <1>1 DEF Flying, MotionRead, Active
<1>2. CASE ~Flying(o) /\ SlotsOf(o) = {}
  BY <1>2 DEF Flying, MotionRead, Idle, Free
<1>3. ASSUME ~Flying(o), NEW s \in SlotsOf(o)
      PROVE  MotionRead(o) = Says(s)
  <2>1. First(SlotsOf(o)) = s
    <3>1. First(SlotsOf(o)) \in SlotsOf(o)
      BY <1>3, SlotsAreNumbers, FirstIn
    <3> QED
      BY <1>3, <3>1 DEF Sound, ReceiptsAgree
  <2>2. SlotsOf(o) # {}
    BY <1>3
  <2> QED
    BY <1>3, <2>1, <2>2 DEF Flying, MotionRead, Says, Idle
<1> QED
  BY <1>1, <1>2, <1>3

LEMMA ReadsStayRight == Sound' => ReadsRight'
  BY ReadsAreRight, PTL

LEMMA SameReads ==
  ASSUME receipts' = receipts, \A o \in Owners : Flying(o)' <=> Flying(o)
  PROVE  Records' = Records
<1>1. \A o \in Owners : MotionRead(o)' = MotionRead(o)
  BY DEF MotionRead, SlotsOf, Flying
<1> QED
  BY <1>1 DEF Records

\* What a guest reads before and after a step, by its receipt.
LEMMA ReadBefore ==
  ASSUME Sound, NEW p \in Owners, NEW s \in Slots, receipts[s].owner = p, ~Flying(p)
  PROVE  MotionRead(p) = Says(s)
  BY ReadsAreRight DEF ReadsRight, SlotsOf

LEMMA ReadAfter ==
  ASSUME Sound', NEW p \in Owners, NEW s \in Slots, receipts'[s].owner = p, ~Flying(p)'
  PROVE  MotionRead(p)' = Says(s)'
  BY ReadsStayRight DEF ReadsRight, SlotsOf

LEMMA RecordsAre ==
  /\ DOMAIN Records = Owners /\ \A o \in Owners : Records[o] = MotionRead(o)
  /\ DOMAIN Records' = Owners /\ \A o \in Owners : Records'[o] = MotionRead(o)'
  BY DEF Records

\* One record changes.
LEMMA OneChanges ==
  ASSUME NEW g \in Owners, NEW v, MotionRead(g)' = v,
         \A o \in Owners : o # g => MotionRead(o)' = MotionRead(o)
  PROVE  Records' = [Records EXCEPT ![g] = v]
  BY DEF Records

LEMMA StopCancels ==
  ASSUME Sound, Sound', NEW why \in Reasons, Stop(why)
  PROVE  Records' = Records \/ \E g \in Owners : Promise!Cancel(g)
<1>1. flight' = Off /\ receipts' = Cancelled(why)
  BY DEF Stop
<1>2. receipts \in [Slots -> Receipt]
  BY Types DEF Sound
<1>3. \A o : ~Flying(o)'
  BY <1>1 DEF Flying, Off
<1>4. CASE ~flight.guest
  <2>1. receipts' = receipts
    BY <1>1, <1>4 DEF Cancelled
  <2>2. \A o : ~Flying(o)
    BY <1>4 DEF Flying
  <2> QED
    BY <1>3, <2>1, <2>2, SameReads
<1>5. CASE flight.guest
  <2>1. PICK g \in Owners : g = flight.owner /\ flight.enabled
    BY <1>5 DEF Sound, TypeOK
  <2>2. SlotsOf(g) # {}
    BY <1>5, <2>1 DEF Sound, ReceiptsAgree
  <2>3. PICK f \in Slots : f = First(SlotsOf(g)) /\ receipts[f].owner = g
    BY <2>2, FirstSlot
  <2>4. /\ receipts'[f] = [owner |-> g, reason |-> why, pending |-> TRUE]
        /\ \A s \in Slots : s # f => receipts'[s] = receipts[s]
    BY <1>1, <1>2, <1>5, <2>1, <2>2, <2>3, CancelledIs
  <2>5. MotionRead(g)' = [state |-> "stopped", reason |-> why, pending |-> TRUE]
    <3>1. MotionRead(g)' = Says(f)'
      BY <1>3, <2>4, ReadAfter
    <3>2. why # "none"
      BY DEF Reasons
    <3> QED
      BY <2>4, <3>1, <3>2 DEF Says
  <2>6. ASSUME NEW o \in Owners, o # g
        PROVE  MotionRead(o)' = MotionRead(o)
    <3>1. ~Flying(o)
      BY <2>1, <2>6 DEF Flying
    <3>2. CASE \E s \in Slots : receipts[s].owner = o
      <4>1. PICK s \in Slots : receipts[s].owner = o
        BY <3>2
      <4>2. receipts'[s] = receipts[s]
        BY <2>3, <2>4, <2>6, <4>1
      <4> QED
        BY <1>3, <3>1, <4>1, <4>2, ReadBefore, ReadAfter DEF Says
    <3>3. CASE ~\E s \in Slots : receipts[s].owner = o
      <4>1. SlotsOf(o) = {} /\ SlotsOf(o)' = {}
        BY <2>3, <2>4, <2>6, <3>3 DEF SlotsOf
      <4> QED
        BY <1>3, <3>1, <4>1, ReadsAreRight, ReadsStayRight DEF ReadsRight
    <3> QED
      BY <3>2, <3>3
  <2>7. Records' = [Records EXCEPT ![g] = [state |-> "stopped", reason |-> why, pending |-> TRUE]]
    BY <2>5, <2>6, OneChanges
  <2>8. Records[g].state = "active"
    <3>1. Flying(g)
      BY <1>5, <2>1 DEF Flying
    <3>2. MotionRead(g) = Active
      BY <3>1, ReadsAreRight DEF ReadsRight
    <3> QED
      BY <3>2, RecordsAre DEF Active
  <2>9. Promise!Cancel(g)
    BY <2>7, <2>8 DEF Promise!Cancel, Promise!Stopped
  <2> QED
    BY <2>9
<1> QED
  BY <1>4, <1>5

\* What an own step leaves to the others.
LEMMA OthersKeep ==
  ASSUME Sound, Sound', NEW o \in Owners,
         Flying(o)' <=> Flying(o),
         \A s \in Slots : receipts[s].owner = o \/ receipts'[s].owner = o =>
           receipts'[s] = receipts[s]
  PROVE  MotionRead(o)' = MotionRead(o)
<1>1. CASE Flying(o)
  BY <1>1, ReadsAreRight, ReadsStayRight DEF ReadsRight
<1>2. CASE ~Flying(o) /\ \E s \in Slots : receipts[s].owner = o
  <2>1. PICK s \in Slots : receipts[s].owner = o
    BY <1>2
  <2> QED
    BY <1>2, <2>1, ReadBefore, ReadAfter DEF Says
<1>3. CASE ~Flying(o) /\ ~\E s \in Slots : receipts[s].owner = o
  <2>1. SlotsOf(o) = {} /\ SlotsOf(o)' = {}
    BY <1>3 DEF SlotsOf
  <2> QED
    BY <1>3, <2>1, ReadsAreRight, ReadsStayRight DEF ReadsRight
<1> QED
  BY <1>1, <1>2, <1>3

LEMMA TellTells ==
  ASSUME Sound, Sound', NEW g \in Owners, Tell(g)
  PROVE  Promise!Tell(g)
<1>1. PICK f \in Slots : f = First(SlotsOf(g)) /\ receipts[f].owner = g
  BY FirstSlot DEF Tell, OwesRefusal
<1>2. receipts[f].pending /\ receipts[f].reason # "none"
  BY <1>1 DEF Tell, OwesRefusal, Sound, ReceiptsAgree, SlotsOf
<1>3. receipts \in [Slots -> Receipt] /\ receipts' = [receipts EXCEPT ![f].pending = FALSE]
  BY <1>1, Types DEF Tell, Sound
<1>4. /\ receipts'[f].owner = g /\ receipts'[f].reason = receipts[f].reason
      /\ receipts'[f].pending = FALSE
      /\ \A s \in Slots : s # f => receipts'[s] = receipts[s]
  BY <1>1, <1>3 DEF Receipt
<1>5. \A o : ~Flying(o) /\ ~Flying(o)'
  BY DEF Tell, OwesRefusal, Flying
<1>6. MotionRead(g) = [state |-> "stopped", reason |-> receipts[f].reason, pending |-> TRUE]
  <2>1. MotionRead(g) = Says(f)
    BY <1>1, <1>5, ReadBefore
  <2>2. receipts[f].pending = TRUE
    BY <1>2, <1>3 DEF Receipt
  <2> QED
    BY <1>2, <2>1, <2>2 DEF Says
<1>7. MotionRead(g)' = [state |-> "stopped", reason |-> receipts[f].reason, pending |-> FALSE]
  <2>1. MotionRead(g)' = Says(f)'
    BY <1>4, <1>5, ReadAfter
  <2> QED
    BY <1>2, <1>4, <2>1 DEF Says
<1>8. \A o \in Owners : o # g => MotionRead(o)' = MotionRead(o)
  BY <1>1, <1>4, <1>5, OthersKeep
<1> DEFINE v == [state |-> "stopped", reason |-> receipts[f].reason, pending |-> FALSE]
<1>9. Records' = [Records EXCEPT ![g] = v]
  BY <1>7, <1>8, OneChanges
<1>10. /\ Records[g] = [state |-> "stopped", reason |-> receipts[f].reason, pending |-> TRUE]
       /\ Records[g].pending
  BY <1>6, RecordsAre
<1>11. [Records[g] EXCEPT !.pending = FALSE] = v
  <2>1. ASSUME NEW why \in Reasons \union {"none"}
        PROVE  [[state |-> "stopped", reason |-> why, pending |-> TRUE] EXCEPT !.pending = FALSE]
                 = [state |-> "stopped", reason |-> why, pending |-> FALSE]
    <3> DEFINE T == [state : {"stopped"}, reason : Reasons \union {"none"}, pending : BOOLEAN]
               b == [state |-> "stopped", reason |-> why, pending |-> TRUE]
               a == [state |-> "stopped", reason |-> why, pending |-> FALSE]
    <3>1. b \in T /\ b.state = "stopped" /\ b.reason = why
      OBVIOUS
    <3>2. a \in T /\ a.state = "stopped" /\ a.reason = why /\ a.pending = FALSE
      OBVIOUS
    <3> HIDE DEF b, a
    <3>3. [b EXCEPT !.pending = FALSE] \in T
      BY <3>1
    <3>4. /\ [b EXCEPT !.pending = FALSE].state = "stopped"
          /\ [b EXCEPT !.pending = FALSE].reason = why
          /\ [b EXCEPT !.pending = FALSE].pending = FALSE
      BY <3>1
    <3> DEFINE c == [b EXCEPT !.pending = FALSE]
    <3> HIDE DEF c
    <3>5. c = a
      BY <3>2, <3>3, <3>4 DEF c
    <3> QED
      BY <3>5 DEF a, b, c
  <2>2. receipts[f].reason \in Reasons \union {"none"}
    BY <1>1, <1>3 DEF Receipt
  <2> QED
    BY <1>10, <2>1, <2>2
<1> HIDE DEF v
<1>12. Records' = [Records EXCEPT ![g].pending = FALSE]
  BY <1>9, <1>11
<1> QED
  BY <1>10, <1>12 DEF Promise!Tell

LEMMA GrantGrants ==
  ASSUME Sound, Sound', NEW g \in Owners, Grant(g)
  PROVE  Records' = Records \/ Promise!Grant(g)
<1> DEFINE fresh == [owner |-> g, reason |-> "none", pending |-> FALSE]
<1>1. PICK s \in ReceiptFor(g) : receipts' = [receipts EXCEPT ![s] = fresh]
  BY DEF Grant
<1>2. /\ s \in Slots
      /\ SlotsOf(g) # {} => receipts[s].owner = g
      /\ SlotsOf(g) = {} => receipts[s].owner = NoOwner \/ ~receipts[s].pending
  BY ReceiptForIs
<1>3. /\ receipts'[s].owner = g
      /\ \A t \in Slots : t # s => receipts'[t] = receipts[t]
  BY <1>1, <1>2, Types DEF Sound
<1>4. flight'.enabled /\ flight'.guest /\ flight'.owner = g
  <2>1. flight' = IF flight.enabled THEN [flight EXCEPT !.guest = TRUE, !.lease = 0]
                  ELSE [owner |-> g, entity |-> latest.entity, world |-> latest.world, lease |-> 0,
                        step |-> NoStep, enabled |-> TRUE, positioned |-> FALSE, guest |-> TRUE]
    BY DEF Grant
  <2>2. flight.enabled => flight.owner = g
    BY DEF Grant, Foreign, Sound, TypeOK
  <2>3. flight \in FlightType
    BY Types DEF Sound
  <2> QED
    BY <2>1, <2>2, <2>3 DEF FlightType
<1>5. MotionRead(g)' = Active
  BY <1>4, ReadsStayRight DEF ReadsRight, Flying
<1>6. CASE flight.enabled
  <2>1. flight.owner = g /\ flight.guest
    BY <1>6 DEF Grant, Foreign, Sound, TypeOK
  <2>2. \A o \in Owners : Flying(o)' <=> Flying(o)
    BY <1>4, <1>6, <2>1 DEF Flying
  <2>3. receipts[s].owner = g
    BY <1>2, <2>1 DEF Sound, ReceiptsAgree
  <2>4. \A o \in Owners : o # g => MotionRead(o)' = MotionRead(o)
    BY <1>3, <2>2, <2>3, OthersKeep
  <2>5. MotionRead(g) = Active
    BY <1>6, <2>1, ReadsAreRight DEF ReadsRight, Flying
  <2> QED
    BY <1>5, <2>4, <2>5 DEF Records
<1>7. CASE ~flight.enabled
  <2>1. \A o : ~Flying(o)
    BY <1>7 DEF Flying
  <2>2. \A o \in Owners : o # g => ~Flying(o)'
    BY <1>4 DEF Flying
  <2>3. ~Records[g].pending
    <3>1. CASE SlotsOf(g) = {}
      BY <2>1, <3>1, ReadsAreRight, RecordsAre DEF ReadsRight, Idle
    <3>2. CASE SlotsOf(g) # {}
      <4>1. s \in SlotsOf(g)
        BY <1>2, <3>2 DEF SlotsOf
      <4>2. ~receipts[s].pending
        BY <1>7, <4>1 DEF Grant, OwesRefusal
      <4>3. Records[g] = Says(s)
        BY <1>2, <2>1, <3>2, ReadBefore, RecordsAre
      <4> QED
        BY <4>2, <4>3 DEF Says, Idle
    <3> QED
      BY <3>1, <3>2
  <2>4. \A o \in Owners : Records[o].state # "active"
    <3> SUFFICES ASSUME NEW o \in Owners PROVE Records[o].state # "active"
      OBVIOUS
    <3>1. CASE SlotsOf(o) = {}
      BY <2>1, <3>1, ReadsAreRight, RecordsAre DEF ReadsRight, Idle
    <3>2. CASE SlotsOf(o) # {}
      <4>1. PICK t \in Slots : receipts[t].owner = o
        BY <3>2 DEF SlotsOf
      <4> QED
        BY <2>1, <4>1, ReadBefore, RecordsAre DEF Says, Idle
    <3> QED
      BY <3>1, <3>2
  <2>5. \A o \in Owners : o # g /\ o # receipts[s].owner => MotionRead(o)' = MotionRead(o)
    BY <1>3, <2>1, <2>2, OthersKeep
  <2>6. CASE \A o \in Owners : o # g => MotionRead(o)' = MotionRead(o)
    <3>1. Records' = [Records EXCEPT ![g] = Active]
      BY <1>5, <2>6, OneChanges
    <3>2. Records' = [Records EXCEPT ![g] = Idle, ![g] = Active]
      BY <3>1, RecordsAre
    <3> QED
      BY <2>3, <2>4, <3>2 DEF Promise!Grant, Promise!Idle, Promise!Active, Promise!Told, Idle, Active
  <2>7. CASE ~\A o \in Owners : o # g => MotionRead(o)' = MotionRead(o)
    <3>1. PICK x \in Owners : x # g /\ x = receipts[s].owner /\ MotionRead(x)' # MotionRead(x)
      BY <2>5, <2>7
    <3>2. MotionRead(x) = Says(s)
      BY <1>2, <2>1, <3>1, ReadBefore
    <3>3. MotionRead(x)' = Idle
      <4>1. \A t \in Slots : t # s => receipts[t].owner # x
        BY <1>2, <3>1 DEF Sound, ReceiptsAgree, SlotsOf
      <4>2. SlotsOf(x)' = {}
        BY <1>3, <3>1, <4>1 DEF SlotsOf
      <4> QED
        BY <2>2, <3>1, <4>2, ReadsStayRight DEF ReadsRight
    <3>4. receipts[s].reason # "none"
      BY <3>1, <3>2, <3>3 DEF Says
    <3>5. ~receipts[s].pending
      <4>1. SlotsOf(g) = {} /\ x # NoOwner
        BY <1>2, <3>1, FlightAssumption
      <4> QED
        BY <1>2, <3>1, <4>1
    <3>6. Records[x].state = "stopped" /\ ~Records[x].pending
      BY <3>1, <3>2, <3>4, <3>5, RecordsAre DEF Says
    <3>7. Records' = [Records EXCEPT ![x] = Idle, ![g] = Active]
      BY <1>5, <2>5, <3>1, <3>3 DEF Records
    <3>8. x \in Promise!Told \union {g}
      BY <3>1, <3>6 DEF Promise!Told
    <3> QED
      BY <2>3, <2>4, <3>7, <3>8 DEF Promise!Grant, Promise!Idle, Promise!Active, Idle, Active
  <2> QED
    BY <2>6, <2>7
<1> QED
  BY <1>6, <1>7

LEMMA ReleaseReleases ==
  ASSUME Sound, Sound', NEW g \in Owners, Release(g)
  PROVE  Promise!Release(g)
<1>1. /\ receipts' = [s \in Slots |-> IF receipts[s].owner = g THEN Free ELSE receipts[s]]
      /\ flight' = (IF flight.owner = g THEN Off ELSE flight)
  BY DEF Release
<1>2. \A s \in Slots : /\ receipts[s].owner # g => receipts'[s] = receipts[s]
                       /\ receipts[s].owner = g => receipts'[s].owner = NoOwner
  BY <1>1 DEF Free
<1>3. MotionRead(g)' = Idle
  <2>1. ~Flying(g)'
    BY <1>1 DEF Flying, Off
  <2>2. SlotsOf(g)' = {}
    BY <1>2, FlightAssumption DEF SlotsOf
  <2> QED
    BY <2>1, <2>2, ReadsStayRight DEF ReadsRight
<1>4. ASSUME NEW o \in Owners, o # g
      PROVE  MotionRead(o)' = MotionRead(o)
  <2>1. Flying(o)' <=> Flying(o)
    BY <1>1, <1>4 DEF Flying, Off
  <2>2. \A s \in Slots : receipts[s].owner = o \/ receipts'[s].owner = o =>
          receipts'[s] = receipts[s]
    BY <1>2, <1>4, FlightAssumption
  <2> QED
    BY <2>1, <2>2, OthersKeep
<1>5. Records' = [Records EXCEPT ![g] = Idle]
  BY <1>3, <1>4, OneChanges
<1> QED
  BY <1>5 DEF Promise!Release, Promise!Idle, Idle

\* The steps that leave every receipt and every guest's flight as they are.
LEMMA QuietSteps ==
  ASSUME Sound, Sound',
         \/ UNCHANGED <<flight, receipts>>
         \/ Tick
         \/ Noclip /\ ~\E why \in Reasons : Stop(why)
         \/ \E s \in Samples, ending \in Outcomes :
              Controller(s, ending) /\ ~\E why \in Reasons : Stop(why)
  PROVE  Records' = Records
<1>1. flight \in FlightType
  BY Types DEF Sound
<1>2. CASE UNCHANGED <<flight, receipts>>
  BY <1>2, SameReads DEF Flying
<1>3. CASE Tick
  <2> DEFINE lease == Older(flight.lease)
             step  == IF flight.step = NoStep THEN NoStep ELSE Older(flight.step)
  <2>1. receipts' = receipts /\ flight' \in {flight, [flight EXCEPT !.lease = lease, !.step = step]}
    BY <1>3 DEF Tick
  <2> HIDE DEF lease, step
  <2>2. flight'.enabled = flight.enabled /\ flight'.guest = flight.guest /\ flight'.owner = flight.owner
    BY <1>1, <2>1 DEF FlightType
  <2> QED
    BY <2>1, <2>2, SameReads DEF Flying
<1>4. CASE Noclip /\ ~\E why \in Reasons : Stop(why)
  <2>1. receipts' = receipts
    BY <1>4, BridgeReasons DEF Noclip, Reasons
  <2>2. ~motion /\ motion' = motion
    BY <1>4 DEF Noclip, Sound, BridgeOnly
  <2>3. ~flight.guest /\ ~flight'.guest
    BY <2>2 DEF Sound, TypeOK
  <2> QED
    BY <2>1, <2>3, SameReads DEF Flying
<1>5. ASSUME NEW s \in Samples, NEW ending \in Outcomes,
             Controller(s, ending), ~\E why \in Reasons : Stop(why)
      PROVE  Records' = Records
  <2>1. ending # "moved" => ending \in Reasons
    BY FlightAssumption DEF Reasons
  <2>2. UNCHANGED receipts /\ flight' \in {flight, [flight EXCEPT !.step = 0, !.positioned = TRUE]}
    BY <1>5, <2>1, StepReasons DEF Controller, Reasons
  <2>3. flight'.enabled = flight.enabled /\ flight'.guest = flight.guest /\ flight'.owner = flight.owner
    BY <1>1, <2>2 DEF FlightType
  <2> QED
    BY <2>2, <2>3, SameReads DEF Flying
<1> QED
  BY <1>2, <1>3, <1>4, <1>5

LEMMA FlightRefines ==
  ASSUME Sound, Sound', [Next]_vars
  PROVE  [Promise!Next]_(Records)
<1>1. ASSUME NEW why \in Reasons, Stop(why)
      PROVE  [Promise!Next]_(Records)
  BY <1>1, StopCancels DEF Promise!Next
<1>2. CASE Records' = Records
  BY <1>2
<1>3. CASE UNCHANGED vars
  BY <1>3, QuietSteps DEF vars
<1>4. ASSUME NEW o \in Owners, Refuse(o)
      PROVE  [Promise!Next]_(Records)
  BY <1>1, <1>4, RequestReasons DEF Refuse
<1>5. ASSUME NEW o \in Owners, Tell(o)
      PROVE  [Promise!Next]_(Records)
  BY <1>5, TellTells DEF Promise!Next
<1>6. ASSUME NEW o \in Owners, Grant(o)
      PROVE  [Promise!Next]_(Records)
  BY <1>6, GrantGrants DEF Promise!Next
<1>7. ASSUME NEW o \in Owners, Release(o)
      PROVE  [Promise!Next]_(Records)
  BY <1>7, ReleaseReleases DEF Promise!Next
<1>8. CASE \/ \E o \in Owners : NoclipBegin(o)
           \/ NoclipContended \/ PollBegin
           \/ \E field \in Inputs : InputChanges(field)
  BY <1>8, QuietSteps DEF NoclipBegin, NoclipContended, PollBegin, InputChanges
<1>9. CASE Noclip
  BY <1>1, <1>9, QuietSteps
<1>10. CASE Poll
  BY <1>1, <1>10, QuietSteps, PollReasons DEF Poll
<1>11. CASE Close
  BY <1>1, <1>11 DEF Close, Reasons
<1>12. CASE Tick
  BY <1>12, QuietSteps
<1>13. ASSUME NEW s \in Samples, NEW ending \in Outcomes, Controller(s, ending)
       PROVE  [Promise!Next]_(Records)
  BY <1>1, <1>13, QuietSteps
<1> QED
  BY <1>3, <1>4, <1>5, <1>6, <1>7, <1>8, <1>9, <1>10, <1>11, <1>12, <1>13 DEF Next

LEMMA InitPromises == Init => Promise!Init
<1> SUFFICES ASSUME Init PROVE Promise!Init
  OBVIOUS
<1>1. Sound
  BY FlightInit DEF FlightIInv
<1>2. ASSUME NEW o \in Owners
      PROVE  MotionRead(o) = Idle
  <2>1. ~Flying(o)
    BY DEF Init, Flying, Off
  <2>2. SlotsOf(o) = {}
    BY FlightAssumption DEF Init, SlotsOf, Free
  <2> QED
    BY <1>1, <2>1, <2>2, ReadsAreRight DEF ReadsRight
<1> QED
  BY <1>2 DEF Promise!Init, Promise!Idle, Records, Idle

\* What each guest reads of its flight is what the documentation promises it
\* (docs/api.md:560, noclip.h:46): Flight implements MotionPromise, whatever the size
\* of the table and the number of guests that share it.
THEOREM Refinement == Spec => KeepsPromise
<1>1. Init => Promise!Init
  BY InitPromises
<1>2. FlightIInv /\ FlightIInv' /\ [Next]_vars => [Promise!Next]_(Records)
  BY FlightRefines DEF FlightIInv
<1> QED
  BY <1>1, <1>2, FlightInductive, PTL DEF Spec, KeepsPromise, Promise!Spec
=============================================================================
