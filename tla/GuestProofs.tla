------------------------------ MODULE GuestProofs ------------------------------
(***************************************************************************)
(* Proofs about what a guest holds and what it shows: GuestRuntime, for    *)
(* any number of Runtimes, guests and owner numbers and for any manifests  *)
(* and budgets, and the services of its messages and tutorials (Notices),  *)
(* for any number of guests, tickets, pages and limits.                    *)
(*                                                                         *)
(* GuestRuntime.  What a guest held is given back when it ends and nothing *)
(* of another guest with it (GuestsOwnWhatIsTheirs), and a call is charged *)
(* for itself only (ChargedForThisCall).  The services know a guest by its *)
(* owner number.  No two guests have the same one (OwnersOK), so every     *)
(* entry of a service has one guest behind it, which is still loading or   *)
(* active and could reach that service (HeldOK): the registries a guest    *)
(* has a pointer to, and the game services, are all it has to let go.  A   *)
(* Runtime is at one guest at a time, and in the stage the operation needs *)
(* (CallsOK).                                                              *)
(*                                                                         *)
(* Feedback.  An entry says of its ticket what the histories say           *)
(* (MessagesOK).  A document acknowledges only what it drew, and counts    *)
(* from when it asked, which is before the answer was made: so what it     *)
(* shows ends at the deadline at the latest (PagesOK).  Entries only begin *)
(* while there is room, and what is offered stands (RoomOK).               *)
(*                                                                         *)
(* Tutorials.  No two requests have the same ticket (TicketsOK).  What is  *)
(* given out of a kind is what the presenter of that kind holds, and the   *)
(* other way round (SessionOK, LiveOK); only after a fault is the session  *)
(* kept while its request has failed, and then nothing is at work any more *)
(* (HintOK).  The game shows nothing but what is held and its own          *)
(* (PanelOK).                                                              *)
(***************************************************************************)
EXTENDS GuestRuntime, Notices, WellFoundedInduction, FiniteSetTheorems, TLAPS

Live(g) == stage[g] \in {"loading", "active"}

\* A guest gets its number when it is attached, and no other guest the same.
OwnersOK ==
  /\ \A g \in Guests :
       /\ owner[g] < nextOwner
       /\ stage[g] \in {"unseen", "listed"} => owner[g] = 0
       /\ Live(g) => owner[g] # 0
  /\ \A g, h \in Guests : owner[g] = owner[h] /\ owner[g] # 0 => g = h

\* What a guest asked a service for, it could reach and was linked to.
Asked(g, service) == \E i \in Used : Imports[i].service = service /\ Imports[i].cap \in Caps[g]
HeldOK ==
  /\ \A entry \in attached : \E g \in Guests :
       Live(g) /\ entry[2] = owner[g] /\ entry[1] \in uses[g]
  /\ \A entry \in held : \E g \in Guests :
       Live(g) /\ entry[2] = owner[g] /\ Reaches(g, entry[1]) /\ Asked(g, entry[1])
  /\ \A g \in Guests : Live(g) => \A s \in uses[g] : <<s, owner[g]>> \in attached

\* The function that runs is one of the operation, of a guest that may run it.
CallsOK(r) == call[r] # "none" =>
  /\ op[r] \in {"load", "tick", "shutdown"} /\ queue[r] # {}
  /\ op[r] = "load" <=> call[r] \in {"start", "abi", "init"}
  /\ op[r] # "load" => call[r] = op[r]
  /\ stage[Current(r)] = IF op[r] = "load" THEN "loading" ELSE "active"
\* prepare was told of every guest that was not rejected before.
RequestedOK(r) == \A g \in PackagesOf(r) :
  /\ op[r] = "new" => stage[g] = "unseen"
  /\ stage[g] = "listed" \/ Live(g) => Caps[g] \subseteq requested[r]
\* What is charged to the guest was charged in this call.
ChargedOK(r) == IF call[r] = "none" THEN made[r] = Unspent ELSE spent[Current(r)] = made[r]

RuntimeOK(r) == CallsOK(r) /\ RequestedOK(r) /\ ChargedOK(r)

GuestsIInv == TypeOK /\ OwnersOK /\ HeldOK /\ \A r \in Runtimes : RuntimeOK(r)

-----------------------------------------------------------------------------
(* The guest an operation is at.                                           *)

LEMMA Least ==
  ASSUME NEW S \in SUBSET Nat, S # {}
  PROVE  \E i \in S : \A j \in S : i <= j
<1>1. \E i \in S : \A j \in S : ~(<<j, i>> \in OpToRel(<, Nat))
  BY NatLessThanWellFounded, WFMin
<1>2. PICK i \in S : \A j \in S : ~(<<j, i>> \in OpToRel(<, Nat))
  BY <1>1
<1>3. \A j \in S : ~(j < i)
  BY <1>2 DEF OpToRel
<1> QED
  BY <1>3

LEMMA Greatest ==
  ASSUME NEW n \in Nat, NEW S \in SUBSET (1 .. n), S # {}
  PROVE  \E i \in S : \A j \in S : j <= i
<1> DEFINE T == {n - i : i \in S}
<1>1. \A i \in S : n - i \in Nat
  OBVIOUS
<1>2. T \in SUBSET Nat /\ T # {}
  BY <1>1
<1>3. PICK t \in T : \A u \in T : t <= u
  BY <1>2, Least
<1>4. PICK i \in S : t = n - i
  OBVIOUS
<1>5. \A j \in S : n - i <= n - j
  BY <1>3, <1>4
<1> QED
  BY <1>5

LEMMA CurrentIsHere ==
  ASSUME TypeOK, NEW r \in Runtimes, queue[r] # {}
  PROVE  Place(r) \in queue[r] /\ Current(r) \in PackagesOf(r) /\ Current(r) \in Guests
<1> DEFINE Comes(i, j) == IF op[r] = "shutdown" THEN j <= i ELSE i <= j
<1>1. Order[r] \in Seq(Guests) /\ Len(Order[r]) \in Nat /\ DOMAIN Order[r] = 1 .. Len(Order[r])
  BY RuntimeAssumption
<1>2. queue[r] \in SUBSET (1 .. Len(Order[r])) /\ queue[r] \in SUBSET Nat
  BY <1>1 DEF TypeOK
<1>3. \E i \in queue[r] : \A j \in queue[r] : Comes(i, j)
  <2>1. CASE op[r] = "shutdown"
    <3>1. \E i \in queue[r] : \A j \in queue[r] : j <= i
      BY <1>1, <1>2, Greatest
    <3> QED
      BY <2>1, <3>1
  <2>2. CASE op[r] # "shutdown"
    <3>1. \E i \in queue[r] : \A j \in queue[r] : i <= j
      BY <1>2, Least
    <3> QED
      BY <2>2, <3>1
  <2> QED
    BY <2>1, <2>2
<1>4. Place(r) = CHOOSE i \in queue[r] : \A j \in queue[r] : Comes(i, j)
  BY DEF Place
<1> HIDE DEF Comes
<1>5. Place(r) \in queue[r]
  BY <1>3, <1>4
<1> QED
  BY <1>1, <1>2, <1>5 DEF Current, PackagesOf, Guests

LEMMA PackagesAreGuests ==
  ASSUME NEW r \in Runtimes
  PROVE  PackagesOf(r) \subseteq Guests
BY DEF Guests

\* The packages of another Runtime are others.
LEMMA OthersAreOthers ==
  ASSUME NEW r \in Runtimes, NEW s \in Runtimes, r # s, NEW g \in PackagesOf(s)
  PROVE  g \notin PackagesOf(r)
BY RuntimeAssumption

LEMMA CurrentSame ==
  ASSUME NEW r \in Runtimes, op'[r] = op[r], queue'[r] = queue[r]
  PROVE  Current(r)' = Current(r)
BY DEF Current, Place

-----------------------------------------------------------------------------
(* A step of one Runtime leaves the others alone.                          *)

LocalStep(r) ==
  /\ \A s \in Runtimes : s # r =>
       /\ op'[s] = op[s] /\ queue'[s] = queue[s] /\ call'[s] = call[s]
       /\ requested'[s] = requested[s] /\ made'[s] = made[s]
  /\ \A g \in Guests : g \notin PackagesOf(r) => stage'[g] = stage[g] /\ spent'[g] = spent[g]

\* A guest that goes on keeps its number and its registries.
GoesOn == \A g \in Guests : Live(g) /\ stage'[g] = stage[g] =>
  uses'[g] = uses[g] /\ owner'[g] = owner[g]

LEMMA LocalKeeps ==
  ASSUME GuestsIInv, NEW r \in Runtimes, LocalStep(r),
         TypeOK', OwnersOK', HeldOK', RuntimeOK(r)'
  PROVE  GuestsIInv'
<1>1. ASSUME NEW s \in Runtimes, s # r PROVE RuntimeOK(s)'
  <2>1. /\ op'[s] = op[s] /\ queue'[s] = queue[s] /\ call'[s] = call[s]
        /\ requested'[s] = requested[s] /\ made'[s] = made[s] /\ Current(s)' = Current(s)
    BY <1>1, CurrentSame DEF LocalStep
  <2>2. \A g \in PackagesOf(s) : stage'[g] = stage[g] /\ spent'[g] = spent[g]
    BY <1>1, OthersAreOthers, PackagesAreGuests DEF LocalStep
  <2>3. call[s] # "none" => Current(s) \in PackagesOf(s)
    BY CurrentIsHere DEF GuestsIInv, RuntimeOK, CallsOK
  <2>4. RuntimeOK(s)
    BY DEF GuestsIInv
  <2>5. CallsOK(s)'
    BY <2>1, <2>2, <2>3, <2>4 DEF RuntimeOK, CallsOK
  <2>6. RequestedOK(s)'
    BY <2>1, <2>2, <2>4 DEF RuntimeOK, RequestedOK, Live
  <2>7. ChargedOK(s)'
    BY <2>1, <2>2, <2>3, <2>4 DEF RuntimeOK, ChargedOK
  <2> QED
    BY <2>5, <2>6, <2>7 DEF RuntimeOK
<1> QED
  BY <1>1 DEF GuestsIInv

-----------------------------------------------------------------------------
(* What the services hold.                                                 *)

\* Nothing is taken or given back while guests only change their stage.
LEMMA StageKeeps ==
  ASSUME OwnersOK, HeldOK, UNCHANGED <<owner, nextOwner, uses, services>>,
         \A g \in Guests : Live(g)' <=> Live(g),
         \A g \in Guests : stage'[g] \in {"unseen", "listed"} => stage[g] \in {"unseen", "listed"}
  PROVE  OwnersOK' /\ HeldOK' /\ GoesOn
<1>1. OwnersOK' /\ GoesOn
  BY DEF OwnersOK, GoesOn
<1>2. HeldOK'
  BY DEF HeldOK, services, Reaches
<1> QED
  BY <1>1, <1>2

\* A guest that ends gives everything back, and only what is its own.
LEMMA LetGoKeeps ==
  ASSUME TypeOK, OwnersOK, HeldOK, NEW g \in Guests, LetGo(g),
         NEW ended \in {"rejected", "faulted", "stopped"},
         stage' = [stage EXCEPT ![g] = ended], uses' = [uses EXCEPT ![g] = {}],
         UNCHANGED <<owner, nextOwner>>
  PROVE  /\ OwnersOK' /\ HeldOK' /\ GoesOn
         /\ stage' \in [Guests -> Stages] /\ uses' \in [Guests -> SUBSET Services]
         /\ \A h \in Guests : uses'[h] \subseteq RegistriesOf(h)
         /\ attached' \subseteq Services \X Nat /\ held' \subseteq Services \X Nat
<1>1. /\ stage' \in [Guests -> Stages] /\ uses' \in [Guests -> SUBSET Services]
      /\ \A h \in Guests : h # g => stage'[h] = stage[h] /\ uses'[h] = uses[h]
      /\ stage'[g] = ended /\ uses'[g] = {}
  BY DEF TypeOK, Stages
<1>2. ~Live(g)' /\ \A h \in Guests : h # g => (Live(h)' <=> Live(h))
  BY <1>1 DEF Live
<1>3. OwnersOK' /\ GoesOn
  <2>1. stage'[g] \notin {"unseen", "listed"} /\ stage'[g] \notin {"loading", "active"}
    BY <1>1
  <2>2. OwnersOK'
    BY <1>1, <1>2, <2>1 DEF OwnersOK
  <2>3. GoesOn
    BY <1>1, <2>1 DEF GoesOn, Live
  <2> QED
    BY <2>2, <2>3
<1>4. \A h \in Guests : Live(h) /\ h # g => owner[h] # owner[g]
  BY DEF OwnersOK
<1>5. \A entry \in attached' : \E h \in Guests :
        Live(h)' /\ entry[2] = owner'[h] /\ entry[1] \in uses'[h]
  <2> SUFFICES ASSUME NEW entry \in attached'
               PROVE  \E h \in Guests : Live(h)' /\ entry[2] = owner'[h] /\ entry[1] \in uses'[h]
    OBVIOUS
  <2>1. entry \in attached /\ entry \notin uses[g] \X {owner[g]}
    BY DEF LetGo
  <2>2. PICK h \in Guests : Live(h) /\ entry[2] = owner[h] /\ entry[1] \in uses[h]
    BY <2>1 DEF HeldOK
  <2>3. entry = <<entry[1], entry[2]>>
    BY <2>1 DEF TypeOK
  <2>4. h # g
    BY <2>1, <2>2, <2>3
  <2> QED
    BY <1>1, <1>2, <2>2, <2>4
<1>6. \A entry \in held' : \E h \in Guests :
        Live(h)' /\ entry[2] = owner'[h] /\ Reaches(h, entry[1])' /\ Asked(h, entry[1])
  <2> SUFFICES ASSUME NEW entry \in held'
               PROVE  \E h \in Guests :
                        Live(h)' /\ entry[2] = owner'[h] /\ Reaches(h, entry[1])' /\ Asked(h, entry[1])
    OBVIOUS
  <2>1. entry \in held /\ entry \notin (Game \union uses[g]) \X {owner[g]}
    BY DEF LetGo
  <2>2. PICK h \in Guests :
          Live(h) /\ entry[2] = owner[h] /\ Reaches(h, entry[1]) /\ Asked(h, entry[1])
    BY <2>1 DEF HeldOK
  <2>3. entry = <<entry[1], entry[2]>>
    BY <2>1 DEF TypeOK
  <2>4. h # g
    BY <2>1, <2>2, <2>3 DEF Reaches
  <2> QED
    BY <1>1, <1>2, <2>2, <2>4 DEF Reaches
<1>7. ASSUME NEW h \in Guests, Live(h)', NEW s \in uses'[h] PROVE <<s, owner'[h]>> \in attached'
  <2>1. h # g /\ Live(h) /\ s \in uses[h] /\ owner[h] # owner[g]
    BY <1>1, <1>2, <1>4, <1>7
  <2>2. <<s, owner[h]>> \in attached
    BY <2>1 DEF HeldOK
  <2> QED
    BY <2>1, <2>2 DEF LetGo
<1>8. HeldOK'
  BY <1>5, <1>6, <1>7 DEF HeldOK, Asked
<1>9. attached' \subseteq Services \X Nat /\ held' \subseteq Services \X Nat
  BY DEF TypeOK, LetGo
<1>10. \A h \in Guests : uses'[h] \subseteq RegistriesOf(h)
  BY <1>1 DEF TypeOK
<1> QED
  BY <1>1, <1>3, <1>8, <1>9, <1>10

\* What an import takes or gives up is the guest's own.
LEMMA HoldKeeps ==
  ASSUME TypeOK, OwnersOK, HeldOK, NEW g \in Guests, Live(g),
         NEW service, Reaches(g, service), Asked(g, service),
         held' \subseteq held \union {<<service, owner[g]>>},
         UNCHANGED <<stage, owner, nextOwner, uses, attached>>
  PROVE  OwnersOK' /\ HeldOK' /\ GoesOn /\ held' \subseteq Services \X Nat
<1>1. OwnersOK' /\ GoesOn
  BY DEF OwnersOK, GoesOn, Live
<1>2. ASSUME NEW entry \in held'
      PROVE  \E h \in Guests : Live(h)' /\ entry[2] = owner'[h] /\ Reaches(h, entry[1])' /\ Asked(h, entry[1])
  <2>1. CASE entry \in held
    BY <2>1 DEF HeldOK, Live, Reaches
  <2>2. CASE entry = <<service, owner[g]>>
    BY <2>2 DEF Live, Reaches
  <2> QED
    BY <2>1, <2>2
<1>3. HeldOK'
  BY <1>2 DEF HeldOK, Live, Asked
<1>4. service \in Services /\ owner[g] \in Nat
  BY DEF TypeOK, Reaches, Services
<1> QED
  BY <1>1, <1>3, <1>4 DEF TypeOK

-----------------------------------------------------------------------------
(* Loading.                                                                *)

LEMMA ScanKeeps ==
  ASSUME GuestsIInv, NEW r \in Runtimes, Scan(r)
  PROVE  GuestsIInv' /\ GoesOn
<1>1. PICK accepted \in SUBSET PackagesOf(r) :
        /\ stage' = [g \in Guests |-> IF g \notin PackagesOf(r) THEN stage[g]
                                      ELSE IF g \in accepted THEN "listed" ELSE "rejected"]
        /\ queue' = [queue EXCEPT ![r] = Places(r, accepted)]
        /\ requested' = [requested EXCEPT ![r] = UNION {Caps[g] : g \in accepted}]
  BY DEF Scan
<1>2. /\ op[r] = "new" /\ op' = [op EXCEPT ![r] = "load"]
      /\ UNCHANGED <<call, loaded, owner, nextOwner, uses, spent, services, made>>
  BY DEF Scan
<1>3. /\ call[r] = "none" /\ made[r] = Unspent
      /\ \A g \in PackagesOf(r) : stage[g] = "unseen"
  BY <1>2 DEF GuestsIInv, RuntimeOK, CallsOK, RequestedOK, ChargedOK
<1>4. PackagesOf(r) \subseteq Guests
  BY PackagesAreGuests
<1>5. /\ stage' \in [Guests -> Stages]
      /\ \A g \in Guests : g \notin PackagesOf(r) => stage'[g] = stage[g]
      /\ \A g \in PackagesOf(r) : stage'[g] \in {"listed", "rejected"}
                                  /\ (stage'[g] = "listed" => g \in accepted)
  BY <1>1, <1>4 DEF GuestsIInv, TypeOK, Stages
<1>6. Places(r, accepted) \subseteq DOMAIN Order[r] /\ Places(r, accepted) \in SUBSET Nat
  BY RuntimeAssumption DEF Places
<1>7. TypeOK'
  <2>1. queue' \in [Runtimes -> SUBSET Nat] /\ \A s \in Runtimes : queue'[s] \subseteq DOMAIN Order[s]
    BY <1>1, <1>6 DEF GuestsIInv, TypeOK
  <2>2. requested' \in [Runtimes -> SUBSET UNION {Caps[g] : g \in Guests}]
    BY <1>1, <1>4 DEF GuestsIInv, TypeOK
  <2>3. op' \in [Runtimes -> {"new", "load", "idle", "tick", "shutdown", "over", "gone"}]
    BY <1>2 DEF GuestsIInv, TypeOK
  <2> QED
    BY <1>2, <1>5, <2>1, <2>2, <2>3 DEF GuestsIInv, TypeOK, services
<1>8. OwnersOK' /\ HeldOK' /\ GoesOn
  <2>1. \A g \in Guests : Live(g)' <=> Live(g)
    BY <1>3, <1>5 DEF Live
  <2>2. \A g \in Guests : stage'[g] \in {"unseen", "listed"} => stage[g] \in {"unseen", "listed"}
    BY <1>3, <1>5
  <2> QED
    BY <1>2, <2>1, <2>2, StageKeeps DEF GuestsIInv
<1>9. LocalStep(r)
  BY <1>1, <1>2, <1>5 DEF LocalStep, GuestsIInv, TypeOK
<1>10. RuntimeOK(r)'
  <2>1. op'[r] = "load" /\ requested'[r] = UNION {Caps[g] : g \in accepted}
    BY <1>1, <1>2 DEF GuestsIInv, TypeOK
  <2>2. CallsOK(r)' /\ ChargedOK(r)'
    BY <1>2, <1>3 DEF CallsOK, ChargedOK
  <2>3. RequestedOK(r)'
    BY <1>5, <2>1 DEF RequestedOK, Live
  <2> QED
    BY <2>2, <2>3 DEF RuntimeOK
<1> QED
  BY <1>7, <1>8, <1>9, <1>10, LocalKeeps

\* Between two calls nothing is charged.
LEMMA NoCall ==
  ASSUME GuestsIInv, NEW r \in Runtimes, call[r] = "none"
  PROVE  made[r] = Unspent
BY DEF GuestsIInv, RuntimeOK, ChargedOK

LEMMA ContinueTypes ==
  ASSUME TypeOK, NEW r \in Runtimes, Continue(r)
  PROVE  /\ queue' \in [Runtimes -> SUBSET Nat] /\ \A s \in Runtimes : queue'[s] \subseteq DOMAIN Order[s]
         /\ \A s \in Runtimes : s # r => queue'[s] = queue[s]
BY DEF TypeOK, Continue

LEMMA AttachKeeps ==
  ASSUME GuestsIInv, NEW r \in Runtimes, Attach(r)
  PROVE  GuestsIInv' /\ GoesOn
<1> DEFINE g == Current(r)
<1>1. /\ op[r] = "load" /\ queue[r] # {} /\ call[r] = "none" /\ stage[g] = "listed"
      /\ loaded' = [loaded EXCEPT ![r] = "none"] /\ UNCHANGED <<op, call, requested, spent, made>>
  BY DEF Attach
<1>2. g \in PackagesOf(r) /\ g \in Guests
  BY <1>1, CurrentIsHere DEF GuestsIInv
<1>3. owner[g] = 0 /\ ~Live(g) /\ Caps[g] \subseteq requested[r]
  BY <1>1, <1>2 DEF GuestsIInv, OwnersOK, Live, RuntimeOK, RequestedOK
<1>4. loaded' \in [Runtimes -> {"none", "start", "abi"}]
  BY <1>1 DEF GuestsIInv, TypeOK
<1>5. /\ \/ queue' = queue
         \/ Continue(r)
      /\ \E to \in {"rejected", "loading"} : stage' = [stage EXCEPT ![g] = to]
  BY DEF Attach
<1>6. /\ queue' \in [Runtimes -> SUBSET Nat] /\ \A s \in Runtimes : queue'[s] \subseteq DOMAIN Order[s]
      /\ \A s \in Runtimes : s # r => queue'[s] = queue[s]
  BY <1>5, ContinueTypes DEF GuestsIInv, TypeOK
<1>7. /\ stage' \in [Guests -> Stages] /\ stage'[g] \in {"rejected", "loading"}
      /\ \A h \in Guests : h # g => stage'[h] = stage[h]
  BY <1>2, <1>5 DEF GuestsIInv, TypeOK, Stages
<1>8. LocalStep(r)
  BY <1>1, <1>2, <1>6, <1>7 DEF LocalStep
<1>9. RuntimeOK(r)'
  <2>1. CallsOK(r)' /\ ChargedOK(r)'
    BY <1>1, NoCall DEF CallsOK, ChargedOK
  <2>2. RequestedOK(r)'
    BY <1>1, <1>3, <1>7, PackagesAreGuests DEF GuestsIInv, RuntimeOK, RequestedOK, Live
  <2> QED
    BY <2>1, <2>2 DEF RuntimeOK
<1>10. ASSUME /\ owner' \in [Guests -> Nat] /\ nextOwner' \in 1 .. MaxOwner
              /\ uses' \in [Guests -> SUBSET Services]
              /\ \A h \in Guests : uses'[h] \subseteq RegistriesOf(h)
              /\ attached' \subseteq Services \X Nat /\ held' \subseteq Services \X Nat
       PROVE  TypeOK'
  BY <1>1, <1>4, <1>6, <1>7, <1>10 DEF GuestsIInv, TypeOK
<1>11. CASE nextOwner = MaxOwner
  <2>1. /\ stage' = [stage EXCEPT ![g] = "rejected"]
        /\ UNCHANGED <<owner, nextOwner, uses, services>>
    BY <1>11 DEF Attach
  <2>2. TypeOK'
    BY <1>10, <2>1 DEF GuestsIInv, TypeOK, services
  <2>3. stage'[g] = "rejected"
    BY <1>2, <2>1 DEF GuestsIInv, TypeOK
  <2>4. \A h \in Guests : Live(h)' <=> Live(h)
    BY <1>3, <1>7, <2>3 DEF Live
  <2>5. OwnersOK' /\ HeldOK' /\ GoesOn
    BY <1>1, <1>7, <2>1, <2>3, <2>4, StageKeeps DEF GuestsIInv
  <2> QED
    BY <1>8, <1>9, <2>2, <2>5, LocalKeeps
<1>12. CASE nextOwner # MaxOwner
  <2>1. PICK full \in SUBSET RegistriesOf(g) :
          /\ owner' = [owner EXCEPT ![g] = nextOwner] /\ nextOwner' = nextOwner + 1
          /\ \/ stage' = [stage EXCEPT ![g] = "rejected"] /\ UNCHANGED <<uses, services>>
             \/ /\ stage' = [stage EXCEPT ![g] = "loading"]
                /\ uses' = [uses EXCEPT ![g] = RegistriesOf(g) \ full]
                /\ attached' = attached \union ((RegistriesOf(g) \ full) \X {owner'[g]})
                /\ held' = held
    BY <1>12 DEF Attach
  <2>2. nextOwner \in Nat \ {0} /\ nextOwner' \in 1 .. MaxOwner /\ nextOwner' = nextOwner + 1
    BY <1>12, <2>1, RuntimeAssumption DEF GuestsIInv, TypeOK
  <2>3. /\ owner' \in [Guests -> Nat] /\ owner'[g] = nextOwner
        /\ \A h \in Guests : h # g => owner'[h] = owner[h]
    BY <1>2, <2>1, <2>2 DEF GuestsIInv, TypeOK
  <2>4. \A h \in Guests : owner[h] \in Nat /\ owner[h] < nextOwner
    BY DEF GuestsIInv, TypeOK, OwnersOK
  <2>5. OwnersOK'
    <3>1. \A h \in Guests : owner'[h] < nextOwner'
      BY <2>2, <2>3, <2>4
    <3>2. \A h \in Guests : h # g => owner'[h] # owner'[g]
      BY <2>2, <2>3, <2>4
    <3>3. \A h \in Guests : /\ stage'[h] \in {"unseen", "listed"} => owner'[h] = 0
                            /\ Live(h)' => owner'[h] # 0
      BY <1>7, <2>2, <2>3 DEF GuestsIInv, OwnersOK, Live
    <3>4. \A h, k \in Guests : owner'[h] = owner'[k] /\ owner'[h] # 0 => h = k
      BY <2>3, <3>2 DEF GuestsIInv, OwnersOK
    <3> QED
      BY <3>1, <3>3, <3>4 DEF OwnersOK
  <2>6. /\ uses' \in [Guests -> SUBSET Services] /\ \A h \in Guests : uses'[h] \subseteq RegistriesOf(h)
        /\ \A h \in Guests : h # g => uses'[h] = uses[h]
        /\ attached \subseteq attached' /\ held' = held
        /\ attached' \subseteq Services \X Nat
        /\ \A entry \in attached' : entry \in attached
             \/ (entry[2] = owner'[g] /\ entry[1] \in uses'[g] /\ stage'[g] = "loading")
        /\ stage'[g] = "loading" => \A s \in uses'[g] : <<s, owner'[g]>> \in attached'
    <3>1. RegistriesOf(g) \subseteq Services
      BY <1>2 DEF Services
    <3>2. CASE stage' = [stage EXCEPT ![g] = "rejected"] /\ UNCHANGED <<uses, services>>
      <4>1. stage'[g] = "rejected"
        BY <1>2, <3>2 DEF GuestsIInv, TypeOK
      <4> QED
        BY <3>2, <4>1 DEF GuestsIInv, TypeOK, services
    <3>3. CASE /\ stage' = [stage EXCEPT ![g] = "loading"]
               /\ uses' = [uses EXCEPT ![g] = RegistriesOf(g) \ full]
               /\ attached' = attached \union ((RegistriesOf(g) \ full) \X {owner'[g]})
               /\ held' = held
      <4>1. stage'[g] = "loading" /\ uses'[g] = RegistriesOf(g) \ full
        BY <1>2, <3>3 DEF GuestsIInv, TypeOK
      <4>2. /\ uses' \in [Guests -> SUBSET Services]
            /\ \A h \in Guests : h # g => uses'[h] = uses[h]
        BY <3>1, <3>3 DEF GuestsIInv, TypeOK
      <4>3. \A h \in Guests : uses'[h] \subseteq RegistriesOf(h)
        BY <4>1, <4>2 DEF GuestsIInv, TypeOK
      <4>4. attached' \subseteq Services \X Nat
        BY <1>2, <2>3, <3>1, <3>3 DEF GuestsIInv, TypeOK
      <4>5. \A entry \in attached' : entry \in attached \/ (entry[2] = owner'[g] /\ entry[1] \in uses'[g])
        BY <3>3, <4>1
      <4>6. \A s \in uses'[g] : <<s, owner'[g]>> \in attached'
        BY <3>3, <4>1
      <4> QED
        BY <3>3, <4>1, <4>2, <4>3, <4>4, <4>5, <4>6
    <3> QED
      BY <2>1, <3>2, <3>3
  <2>7. HeldOK'
    <3>1. \A h \in Guests : Live(h) => h # g /\ Live(h)' /\ uses'[h] = uses[h] /\ owner'[h] = owner[h]
      BY <1>3, <1>7, <2>3, <2>6 DEF Live
    <3>2. \A h \in Guests : Live(h)' => Live(h) \/ (h = g /\ stage'[g] = "loading")
      BY <1>7 DEF Live
    <3>3. ASSUME NEW entry \in attached'
          PROVE  \E h \in Guests : Live(h)' /\ entry[2] = owner'[h] /\ entry[1] \in uses'[h]
      <4>1. CASE entry \in attached
        <5>1. PICK h \in Guests : Live(h) /\ entry[2] = owner[h] /\ entry[1] \in uses[h]
          BY <4>1 DEF GuestsIInv, HeldOK
        <5> QED
          BY <3>1, <5>1
      <4>2. CASE entry[2] = owner'[g] /\ entry[1] \in uses'[g] /\ stage'[g] = "loading"
        BY <1>2, <4>2 DEF Live
      <4> QED
        BY <2>6, <3>3, <4>1, <4>2
    <3>4. ASSUME NEW entry \in held'
          PROVE  \E h \in Guests :
                   Live(h)' /\ entry[2] = owner'[h] /\ Reaches(h, entry[1])' /\ Asked(h, entry[1])
      <4>1. PICK h \in Guests :
              Live(h) /\ entry[2] = owner[h] /\ Reaches(h, entry[1]) /\ Asked(h, entry[1])
        BY <2>6, <3>4 DEF GuestsIInv, HeldOK
      <4> QED
        BY <3>1, <4>1 DEF Reaches
    <3>5. ASSUME NEW h \in Guests, Live(h)' PROVE \A s \in uses'[h] : <<s, owner'[h]>> \in attached'
      <4>1. CASE Live(h)
        BY <2>6, <3>1, <4>1 DEF GuestsIInv, HeldOK
      <4>2. CASE h = g /\ stage'[g] = "loading"
        BY <2>6, <4>2
      <4> QED
        BY <3>2, <3>5, <4>1, <4>2
    <3> QED
      BY <3>3, <3>4, <3>5 DEF HeldOK, Asked
  <2>8. GoesOn
    BY <1>3, <2>3, <2>6 DEF GoesOn
  <2>9. TypeOK'
    BY <1>10, <2>2, <2>3, <2>6 DEF GuestsIInv, TypeOK
  <2> QED
    BY <1>8, <1>9, <2>5, <2>7, <2>8, <2>9, LocalKeeps
<1> QED
  BY <1>11, <1>12

-----------------------------------------------------------------------------
(* Between two calls.                                                      *)

\* A Runtime that calls nobody, with its guests as they were or one of them ready.
LEMMA RestKeeps ==
  ASSUME GuestsIInv, NEW r \in Runtimes,
         op' \in [Runtimes -> {"new", "load", "idle", "tick", "shutdown", "over", "gone"}],
         op'[r] # "new", \A s \in Runtimes : s # r => op'[s] = op[s],
         queue' \in [Runtimes -> SUBSET Nat], \A s \in Runtimes : queue'[s] \subseteq DOMAIN Order[s],
         \A s \in Runtimes : s # r => queue'[s] = queue[s],
         call' = [call EXCEPT ![r] = "none"], made' = [made EXCEPT ![r] = Unspent],
         loaded' \in [Runtimes -> {"none", "start", "abi"}],
         UNCHANGED <<requested, owner, nextOwner, uses, spent, services>>,
         \/ UNCHANGED stage
         \/ \E g \in PackagesOf(r) : stage[g] = "loading" /\ stage' = [stage EXCEPT ![g] = "active"]
  PROVE  GuestsIInv' /\ GoesOn
<1>1. /\ stage' \in [Guests -> Stages]
      /\ \A g \in Guests : stage'[g] = stage[g]
           \/ (g \in PackagesOf(r) /\ stage[g] = "loading" /\ stage'[g] = "active")
  BY PackagesAreGuests DEF GuestsIInv, TypeOK, Stages
<1>2. call'[r] = "none" /\ made'[r] = Unspent
      /\ \A s \in Runtimes : s # r => call'[s] = call[s] /\ made'[s] = made[s]
  BY DEF GuestsIInv, TypeOK
<1>3. call' \in [Runtimes -> {"none", "start", "abi", "init", "tick", "shutdown"}]
  BY DEF GuestsIInv, TypeOK
<1>4. made' \in [Runtimes -> Charges]
  BY DEF GuestsIInv, TypeOK, Unspent, Charges
<1>5. TypeOK'
  BY <1>1, <1>3, <1>4 DEF GuestsIInv, TypeOK, services
<1>6. \A g \in Guests : Live(g)' <=> Live(g)
  BY <1>1 DEF Live
<1>7. OwnersOK' /\ HeldOK' /\ GoesOn
  BY <1>1, <1>6, StageKeeps DEF GuestsIInv
<1>8. LocalStep(r)
  BY <1>1, <1>2 DEF LocalStep
<1>9. RuntimeOK(r)'
  <2>1. CallsOK(r)' /\ ChargedOK(r)'
    BY <1>2 DEF CallsOK, ChargedOK
  <2>2. \A g \in PackagesOf(r) : stage'[g] = "listed" => stage[g] = "listed"
    BY <1>1, PackagesAreGuests
  <2>3. RequestedOK(r)'
    BY <1>6, <2>2, PackagesAreGuests DEF GuestsIInv, RuntimeOK, RequestedOK
  <2> QED
    BY <2>1, <2>3 DEF RuntimeOK
<1> QED
  BY <1>5, <1>7, <1>8, <1>9, LocalKeeps

\* The guest the operation is at ends, in a call or without one.
LEMMA EndsKeeps ==
  ASSUME GuestsIInv, NEW r \in Runtimes, queue[r] # {}, op[r] # "new",
         NEW ended \in {"rejected", "faulted", "stopped"},
         LetGo(Current(r)), Continue(r),
         stage' = [stage EXCEPT ![Current(r)] = ended],
         uses' = [uses EXCEPT ![Current(r)] = {}],
         call' = [call EXCEPT ![r] = "none"], made' = [made EXCEPT ![r] = Unspent],
         spent' \in [Guests -> Charges],
         \A g \in Guests : g # Current(r) => spent'[g] = spent[g],
         UNCHANGED <<op, loaded, requested, owner, nextOwner>>
  PROVE  GuestsIInv' /\ GoesOn
<1>1. Current(r) \in PackagesOf(r) /\ Current(r) \in Guests
  BY CurrentIsHere DEF GuestsIInv
<1>2. /\ OwnersOK' /\ HeldOK' /\ GoesOn
      /\ stage' \in [Guests -> Stages] /\ uses' \in [Guests -> SUBSET Services]
      /\ \A h \in Guests : uses'[h] \subseteq RegistriesOf(h)
      /\ attached' \subseteq Services \X Nat /\ held' \subseteq Services \X Nat
  BY <1>1, LetGoKeeps DEF GuestsIInv
<1>3. call'[r] = "none" /\ made'[r] = Unspent
      /\ \A s \in Runtimes : s # r => call'[s] = call[s] /\ made'[s] = made[s]
  BY DEF GuestsIInv, TypeOK
<1>4. call' \in [Runtimes -> {"none", "start", "abi", "init", "tick", "shutdown"}]
  BY DEF GuestsIInv, TypeOK
<1>5. made' \in [Runtimes -> Charges]
  BY DEF GuestsIInv, TypeOK, Unspent, Charges
<1>6. /\ queue' \in [Runtimes -> SUBSET Nat] /\ \A s \in Runtimes : queue'[s] \subseteq DOMAIN Order[s]
      /\ \A s \in Runtimes : s # r => queue'[s] = queue[s]
  BY ContinueTypes DEF GuestsIInv
<1>7. TypeOK'
  BY <1>2, <1>4, <1>5, <1>6 DEF GuestsIInv, TypeOK
<1>8. stage'[Current(r)] = ended /\ \A g \in Guests : g # Current(r) => stage'[g] = stage[g]
  BY <1>1 DEF GuestsIInv, TypeOK
<1>9. LocalStep(r)
  BY <1>1, <1>3, <1>6, <1>8 DEF LocalStep
<1>10. RuntimeOK(r)'
  <2>1. CallsOK(r)' /\ ChargedOK(r)'
    BY <1>3 DEF CallsOK, ChargedOK
  <2>2. RequestedOK(r)'
    BY <1>8, PackagesAreGuests DEF GuestsIInv, RuntimeOK, RequestedOK, Live
  <2> QED
    BY <2>1, <2>2 DEF RuntimeOK
<1> QED
  BY <1>2, <1>7, <1>9, <1>10, LocalKeeps

\* A function of the guest is called: it starts with nothing charged.
LEMMA EnterKeeps ==
  ASSUME GuestsIInv, NEW r \in Runtimes, queue[r] # {}, call[r] = "none",
         NEW phase \in {"start", "abi", "init", "tick", "shutdown"}, Enter(r, phase),
         op[r] \in {"load", "tick", "shutdown"},
         op[r] = "load" <=> phase \in {"start", "abi", "init"},
         op[r] # "load" => phase = op[r],
         stage[Current(r)] = IF op[r] = "load" THEN "loading" ELSE "active",
         UNCHANGED <<op, queue, loaded, requested, stage, owner, nextOwner, uses, services>>
  PROVE  GuestsIInv' /\ GoesOn
<1>1. Current(r) \in PackagesOf(r) /\ Current(r) \in Guests /\ Current(r)' = Current(r)
  BY CurrentIsHere, CurrentSame DEF GuestsIInv
<1>2. /\ call' \in [Runtimes -> {"none", "start", "abi", "init", "tick", "shutdown"}]
      /\ call'[r] = phase /\ \A s \in Runtimes : s # r => call'[s] = call[s]
  BY DEF Enter, GuestsIInv, TypeOK
<1>3. /\ spent' \in [Guests -> Charges] /\ spent'[Current(r)] = Unspent
      /\ \A g \in Guests : g # Current(r) => spent'[g] = spent[g]
  <2>1. Unspent \in Charges
    BY DEF Unspent, Charges
  <2> QED
    BY <1>1, <2>1 DEF Enter, Budget, GuestsIInv, TypeOK
<1>4. made' = made /\ made[r] = Unspent
  BY NoCall DEF Enter
<1>5. TypeOK'
  BY <1>2, <1>3, <1>4 DEF GuestsIInv, TypeOK, services
<1>6. OwnersOK' /\ HeldOK' /\ GoesOn
  BY StageKeeps DEF GuestsIInv, Live
<1>7. LocalStep(r)
  BY <1>1, <1>2, <1>3, <1>4 DEF LocalStep
<1>8. RuntimeOK(r)'
  BY <1>1, <1>2, <1>3, <1>4 DEF GuestsIInv, RuntimeOK, CallsOK, RequestedOK, ChargedOK, Live
<1> QED
  BY <1>5, <1>6, <1>7, <1>8, LocalKeeps

\* Nothing was charged and nobody called: as if a call had ended.
LEMMA AlreadyNone ==
  ASSUME GuestsIInv, NEW r \in Runtimes, call[r] = "none"
  PROVE  call = [call EXCEPT ![r] = "none"] /\ made = [made EXCEPT ![r] = Unspent]
BY NoCall DEF GuestsIInv, TypeOK

LEMMA LoadCallKeeps ==
  ASSUME GuestsIInv, NEW r \in Runtimes, LoadCall(r)
  PROVE  GuestsIInv' /\ GoesOn
<1>1. loaded[r] \in {"none", "start", "abi"}
  BY DEF GuestsIInv, TypeOK
<1>2. After[loaded[r]] \in {"start", "abi", "init"}
  BY <1>1 DEF After
<1> QED
  BY <1>2, EnterKeeps DEF LoadCall

LEMMA RunKeeps ==
  ASSUME GuestsIInv, NEW r \in Runtimes, Run(r)
  PROVE  GuestsIInv' /\ GoesOn
BY EnterKeeps DEF Run

LEMMA UnloadableKeeps ==
  ASSUME GuestsIInv, NEW r \in Runtimes, Unloadable(r)
  PROVE  GuestsIInv' /\ GoesOn
<1>1. call[r] = "none" /\ call' = call /\ made' = made /\ spent' = spent
  BY DEF Unloadable
<1>2. call' = [call EXCEPT ![r] = "none"] /\ made' = [made EXCEPT ![r] = Unspent]
  BY <1>1, AlreadyNone
<1>3. spent' \in [Guests -> Charges]
  BY <1>1 DEF GuestsIInv, TypeOK
<1> QED
  BY <1>1, <1>2, <1>3, EndsKeeps DEF Unloadable, Rejected

\* A pass over the guests begins or ends.
LEMMA PassKeeps ==
  ASSUME GuestsIInv, NEW r \in Runtimes, Tick(r) \/ Shutdown(r) \/ Finish(r)
  PROVE  GuestsIInv' /\ GoesOn
<1>1. call[r] = "none"
  BY DEF Tick, Shutdown, Finish, GuestsIInv, RuntimeOK, CallsOK
<1>2. PICK next \in {"idle", "tick", "shutdown", "over"} : op' = [op EXCEPT ![r] = next]
  BY DEF Tick, Shutdown, Finish
<1>3. /\ op' \in [Runtimes -> {"new", "load", "idle", "tick", "shutdown", "over", "gone"}]
      /\ op'[r] # "new" /\ \A s \in Runtimes : s # r => op'[s] = op[s]
  BY <1>2 DEF GuestsIInv, TypeOK
<1>4. Places(r, Kept) \subseteq DOMAIN Order[r] /\ Places(r, Kept) \in SUBSET Nat
  BY RuntimeAssumption DEF Places
<1>5. queue' = queue \/ queue' = [queue EXCEPT ![r] = Places(r, Kept)]
  BY DEF Tick, Shutdown, Finish
<1>6. /\ queue' \in [Runtimes -> SUBSET Nat] /\ \A s \in Runtimes : queue'[s] \subseteq DOMAIN Order[s]
      /\ \A s \in Runtimes : s # r => queue'[s] = queue[s]
  BY <1>4, <1>5 DEF GuestsIInv, TypeOK
<1>7. UNCHANGED <<call, loaded, requested, stage, owner, nextOwner, uses, spent, services, made>>
  BY DEF Tick, Shutdown, Finish
<1>8. loaded' \in [Runtimes -> {"none", "start", "abi"}]
  BY <1>7 DEF GuestsIInv, TypeOK
<1>9. call' = [call EXCEPT ![r] = "none"] /\ made' = [made EXCEPT ![r] = Unspent]
  BY <1>1, <1>7, AlreadyNone
<1> QED
  BY <1>3, <1>6, <1>7, <1>8, <1>9, RestKeeps

LEMMA PassOverKeeps ==
  ASSUME GuestsIInv, NEW r \in Runtimes, PassOver(r)
  PROVE  GuestsIInv' /\ GoesOn
<1>1. /\ op[r] \in {"tick", "shutdown"} /\ queue[r] # {} /\ call[r] = "none" /\ Continue(r)
      /\ UNCHANGED <<op, call, loaded, requested, owner, nextOwner, spent, made>>
  BY DEF PassOver
<1>2. call' = [call EXCEPT ![r] = "none"] /\ made' = [made EXCEPT ![r] = Unspent]
  BY <1>1, AlreadyNone
<1>3. spent' \in [Guests -> Charges] /\ loaded' \in [Runtimes -> {"none", "start", "abi"}]
      /\ op' \in [Runtimes -> {"new", "load", "idle", "tick", "shutdown", "over", "gone"}]
  BY <1>1 DEF GuestsIInv, TypeOK
<1>4. \/ /\ stage' = [stage EXCEPT ![Current(r)] = "stopped"] /\ LetGo(Current(r))
         /\ uses' = [uses EXCEPT ![Current(r)] = {}]
      \/ UNCHANGED <<stage, uses, services>>
  BY DEF PassOver
<1>5. CASE UNCHANGED <<stage, uses, services>>
  <2>1. /\ queue' \in [Runtimes -> SUBSET Nat] /\ \A s \in Runtimes : queue'[s] \subseteq DOMAIN Order[s]
        /\ \A s \in Runtimes : s # r => queue'[s] = queue[s]
    BY <1>1, ContinueTypes DEF GuestsIInv
  <2>2. op'[r] # "new" /\ \A s \in Runtimes : op'[s] = op[s]
    BY <1>1
  <2> QED
    BY <1>1, <1>2, <1>3, <1>5, <2>1, <2>2, RestKeeps
<1>6. CASE /\ stage' = [stage EXCEPT ![Current(r)] = "stopped"] /\ LetGo(Current(r))
           /\ uses' = [uses EXCEPT ![Current(r)] = {}]
  BY <1>1, <1>2, <1>3, <1>6, EndsKeeps
<1> QED
  BY <1>4, <1>5, <1>6

-----------------------------------------------------------------------------
(* The end of a Runtime.                                                   *)

LEMMA DestroyKeeps ==
  ASSUME GuestsIInv, NEW r \in Runtimes, Destroy(r)
  PROVE  GuestsIInv' /\ GoesOn
<1> DEFINE kept == {g \in PackagesOf(r) : stage[g] \in {"active", "faulted", "stopped"}}
           gone == {<<s, owner[g]>> : s \in Game, g \in kept}
             \union UNION {uses[g] \X {owner[g]} : g \in kept}
<1>1. /\ op[r] \in {"idle", "over"} /\ op' = [op EXCEPT ![r] = "gone"]
      /\ attached' = attached \ gone /\ held' = held \ gone
      /\ stage' = [g \in Guests |-> IF g \in kept THEN "destroyed" ELSE stage[g]]
      /\ uses' = [g \in Guests |-> IF g \in kept THEN {} ELSE uses[g]]
      /\ UNCHANGED <<queue, call, loaded, requested, owner, nextOwner, spent, made>>
  BY DEF Destroy
<1>2. kept \subseteq PackagesOf(r) /\ kept \subseteq Guests
  BY PackagesAreGuests
<1>3. \A g \in Guests : /\ g \in kept => stage'[g] = "destroyed" /\ uses'[g] = {}
                        /\ g \notin kept => stage'[g] = stage[g] /\ uses'[g] = uses[g]
  BY <1>1
\* An entry that went was of a guest that went; one of such a guest did not stay.
<1>4. \A g \in Guests : \A s : <<s, owner[g]>> \in gone => \E h \in kept : owner[h] = owner[g]
  OBVIOUS
<1>5. \A g \in kept : \A s : s \in Game \union uses[g] => <<s, owner[g]>> \in gone
  OBVIOUS
<1>6. \A g \in Guests : Live(g)' <=> Live(g) /\ g \notin kept
  BY <1>3 DEF Live
<1> HIDE DEF kept, gone
<1>7. \A g \in Guests : Live(g) /\ g \notin kept => \A h \in kept : owner[h] # owner[g]
  BY <1>2 DEF GuestsIInv, OwnersOK
<1>8. OwnersOK' /\ GoesOn
  <2>1. OwnersOK'
    <3>1. \A g \in Guests : stage'[g] \in {"unseen", "listed"} => stage[g] \in {"unseen", "listed"}
      BY <1>3
    <3> QED
      BY <1>1, <1>6, <3>1 DEF GuestsIInv, OwnersOK
  <2>2. GoesOn
    BY <1>1, <1>3 DEF GoesOn, Live
  <2> QED
    BY <2>1, <2>2
<1>9. HeldOK'
  <2>1. ASSUME NEW entry \in attached'
        PROVE  \E h \in Guests : Live(h)' /\ entry[2] = owner'[h] /\ entry[1] \in uses'[h]
    <3>1. entry \in attached /\ entry \notin gone /\ entry = <<entry[1], entry[2]>>
      BY <1>1, <2>1 DEF GuestsIInv, TypeOK
    <3>2. PICK h \in Guests : Live(h) /\ entry[2] = owner[h] /\ entry[1] \in uses[h]
      BY <3>1 DEF GuestsIInv, HeldOK
    <3>3. h \notin kept
      BY <1>5, <3>1, <3>2
    <3> QED
      BY <1>1, <1>3, <1>6, <3>2, <3>3
  <2>2. ASSUME NEW entry \in held'
        PROVE  \E h \in Guests :
                 Live(h)' /\ entry[2] = owner'[h] /\ Reaches(h, entry[1])' /\ Asked(h, entry[1])
    <3>1. entry \in held /\ entry \notin gone /\ entry = <<entry[1], entry[2]>>
      BY <1>1, <2>2 DEF GuestsIInv, TypeOK
    <3>2. PICK h \in Guests :
            Live(h) /\ entry[2] = owner[h] /\ Reaches(h, entry[1]) /\ Asked(h, entry[1])
      BY <3>1 DEF GuestsIInv, HeldOK
    <3>3. h \notin kept
      BY <1>5, <3>1, <3>2 DEF Reaches
    <3> QED
      BY <1>1, <1>3, <1>6, <3>2, <3>3 DEF Reaches
  <2>3. ASSUME NEW h \in Guests, Live(h)', NEW s \in uses'[h] PROVE <<s, owner'[h]>> \in attached'
    <3>1. Live(h) /\ h \notin kept /\ s \in uses[h] /\ owner'[h] = owner[h]
      BY <1>1, <1>3, <1>6, <2>3
    <3>2. <<s, owner[h]>> \in attached
      BY <3>1 DEF GuestsIInv, HeldOK
    <3>3. <<s, owner[h]>> \notin gone
      BY <1>4, <1>7, <3>1
    <3> QED
      BY <1>1, <3>1, <3>2, <3>3
  <2> QED
    BY <2>1, <2>2, <2>3 DEF HeldOK, Asked
<1>10. TypeOK'
  <2>1. op' \in [Runtimes -> {"new", "load", "idle", "tick", "shutdown", "over", "gone"}]
    BY <1>1 DEF GuestsIInv, TypeOK
  <2>2. stage' \in [Guests -> Stages] /\ uses' \in [Guests -> SUBSET Services]
    BY <1>1 DEF GuestsIInv, TypeOK, Stages
  <2>3. \A g \in Guests : uses'[g] \subseteq RegistriesOf(g)
    BY <1>3 DEF GuestsIInv, TypeOK
  <2>4. attached' \subseteq Services \X Nat /\ held' \subseteq Services \X Nat
    BY <1>1 DEF GuestsIInv, TypeOK
  <2> QED
    BY <1>1, <2>1, <2>2, <2>3, <2>4 DEF GuestsIInv, TypeOK
<1>11. LocalStep(r)
  BY <1>1, <1>2, <1>3 DEF LocalStep, GuestsIInv, TypeOK
<1>12. RuntimeOK(r)'
  <2>1. call[r] = "none" /\ made[r] = Unspent
    BY <1>1, NoCall DEF GuestsIInv, RuntimeOK, CallsOK
  <2>2. op'[r] = "gone"
    BY <1>1 DEF GuestsIInv, TypeOK
  <2>3. CallsOK(r)' /\ ChargedOK(r)'
    BY <1>1, <2>1 DEF CallsOK, ChargedOK
  <2>4. \A g \in PackagesOf(r) : stage'[g] = "listed" => stage[g] = "listed"
    BY <1>3, PackagesAreGuests
  <2>5. RequestedOK(r)'
    BY <1>1, <1>6, <2>2, <2>4, PackagesAreGuests DEF GuestsIInv, RuntimeOK, RequestedOK
  <2> QED
    BY <2>3, <2>5 DEF RuntimeOK
<1> QED
  BY <1>8, <1>9, <1>10, <1>11, <1>12, LocalKeeps

-----------------------------------------------------------------------------
(* A guest function runs.                                                  *)

LEMMA InCall ==
  ASSUME GuestsIInv, NEW r \in Runtimes, call[r] # "none"
  PROVE  /\ queue[r] # {} /\ op[r] \in {"load", "tick", "shutdown"}
         /\ Current(r) \in PackagesOf(r) /\ Current(r) \in Guests /\ Live(Current(r))
BY CurrentIsHere DEF GuestsIInv, RuntimeOK, CallsOK, Live

\* An import charges the guest and the call alike, and changes what the guest holds.
LEMMA ChargeKeeps ==
  ASSUME GuestsIInv, NEW r \in Runtimes, call[r] # "none", NEW budget \in Budgets,
         Charge(r, budget), OwnersOK', HeldOK', held' \subseteq Services \X Nat,
         UNCHANGED <<host, stage, owner, nextOwner, uses, attached>>
  PROVE  GuestsIInv'
<1>1. Current(r) \in PackagesOf(r) /\ Current(r) \in Guests /\ Current(r)' = Current(r)
  BY InCall, CurrentSame DEF host
<1>2. spent[Current(r)] = made[r] /\ made[r] \in [Budgets -> Nat]
  BY DEF GuestsIInv, RuntimeOK, ChargedOK, TypeOK, Charges
<1> DEFINE charged == [made[r] EXCEPT ![budget] = made[r][budget] + 1]
<1>3. charged \in Charges
  BY <1>2 DEF Charges
<1>4. spent' = [spent EXCEPT ![Current(r)] = charged] /\ made' = [made EXCEPT ![r] = charged]
  BY <1>2 DEF Charge
<1> HIDE DEF charged
<1>5. /\ spent' \in [Guests -> Charges] /\ made' \in [Runtimes -> Charges]
      /\ spent'[Current(r)] = made'[r]
      /\ \A g \in Guests : g # Current(r) => spent'[g] = spent[g]
      /\ \A s \in Runtimes : s # r => made'[s] = made[s]
  BY <1>1, <1>3, <1>4 DEF GuestsIInv, TypeOK
<1>6. TypeOK'
  BY <1>5 DEF GuestsIInv, TypeOK, host
<1>7. LocalStep(r)
  BY <1>1, <1>5 DEF LocalStep, host
<1>8. RuntimeOK(r)'
  BY <1>1, <1>5 DEF GuestsIInv, RuntimeOK, CallsOK, RequestedOK, ChargedOK, Live, host
<1> QED
  BY <1>6, <1>7, <1>8, LocalKeeps

LEMMA HostCallKeeps ==
  ASSUME GuestsIInv, NEW r \in Runtimes, NEW i \in Used, HostCall(r, i)
  PROVE  GuestsIInv' /\ GoesOn
<1> DEFINE g == Current(r)
<1>1. /\ call[r] # "none" /\ i \in Linked(g) /\ Charge(r, Imports[i].budget)
      /\ UNCHANGED <<host, stage, owner, nextOwner, uses, attached>>
  BY DEF HostCall
<1>2. g \in Guests /\ Live(g) /\ Imports[i].budget \in Budgets
  BY <1>1, InCall DEF Budgets
<1>3. Asked(g, Imports[i].service)
  BY <1>1 DEF Asked, Linked
<1>4. OwnersOK' /\ HeldOK' /\ GoesOn /\ held' \subseteq Services \X Nat
  <2>1. CASE Reaches(g, Imports[i].service)
    <3>1. held' \subseteq held \union {<<Imports[i].service, owner[g]>>}
      BY <2>1 DEF HostCall
    <3> QED
      BY <1>1, <1>2, <1>3, <2>1, <3>1, HoldKeeps DEF GuestsIInv
  <2>2. CASE ~Reaches(g, Imports[i].service)
    <3>1. held' = held
      BY <2>2 DEF HostCall
    <3>2. UNCHANGED <<owner, nextOwner, uses, services>> /\ \A h \in Guests : stage'[h] = stage[h]
      BY <1>1, <3>1 DEF services
    <3>3. OwnersOK' /\ HeldOK' /\ GoesOn
      BY <3>2, StageKeeps DEF GuestsIInv, Live
    <3> QED
      BY <3>1, <3>3 DEF GuestsIInv, TypeOK
  <2> QED
    BY <2>1, <2>2
<1> QED
  BY <1>1, <1>2, <1>4, ChargeKeeps

LEMMA ReleaseCallKeeps ==
  ASSUME GuestsIInv, NEW r \in Runtimes, ReleaseCall(r)
  PROVE  GuestsIInv' /\ GoesOn
<1>1. /\ call[r] # "none" /\ "command" \in Budgets /\ Charge(r, "command") /\ held' \subseteq held
      /\ UNCHANGED <<host, stage, owner, nextOwner, uses, attached>>
  BY DEF ReleaseCall
<1>2. OwnersOK' /\ GoesOn
  BY <1>1 DEF GuestsIInv, OwnersOK, GoesOn, Live
<1>3. HeldOK'
  BY <1>1 DEF GuestsIInv, HeldOK, Live, Reaches, Asked
<1>4. held' \subseteq Services \X Nat
  BY <1>1 DEF GuestsIInv, TypeOK
<1> QED
  BY <1>1, <1>2, <1>3, <1>4, ChargeKeeps

LEMMA ReturnKeeps ==
  ASSUME GuestsIInv, NEW r \in Runtimes, Return(r)
  PROVE  GuestsIInv' /\ GoesOn
<1>1. /\ call[r] # "none" /\ call' = [call EXCEPT ![r] = "none"] /\ made' = [made EXCEPT ![r] = Unspent]
      /\ UNCHANGED <<op, requested, owner, nextOwner, spent>>
  BY DEF Return
<1>2. /\ queue[r] # {} /\ op[r] \in {"load", "tick", "shutdown"}
      /\ Current(r) \in PackagesOf(r) /\ Current(r) \in Guests
  BY <1>1, InCall
<1>3. /\ op' \in [Runtimes -> {"new", "load", "idle", "tick", "shutdown", "over", "gone"}]
      /\ op'[r] # "new" /\ \A s \in Runtimes : op'[s] = op[s]
      /\ spent' \in [Guests -> Charges] /\ \A g \in Guests : spent'[g] = spent[g]
  BY <1>1, <1>2 DEF GuestsIInv, TypeOK
<1>4. loaded \in [Runtimes -> {"none", "start", "abi"}]
  BY DEF GuestsIInv, TypeOK
<1>5. call[r] \in {"start", "abi", "init", "tick", "shutdown"}
  BY <1>1 DEF GuestsIInv, TypeOK
<1>6. CASE call[r] \in {"start", "abi"}
  <2>1. loaded' = [loaded EXCEPT ![r] = call[r]] /\ UNCHANGED <<queue, stage, uses, services>>
    BY <1>6 DEF Return
  <2>2. loaded' \in [Runtimes -> {"none", "start", "abi"}]
    BY <1>4, <1>6, <2>1
  <2>3. /\ queue' \in [Runtimes -> SUBSET Nat] /\ \A s \in Runtimes : queue'[s] \subseteq DOMAIN Order[s]
        /\ \A s \in Runtimes : queue'[s] = queue[s]
    BY <2>1 DEF GuestsIInv, TypeOK
  <2> QED
    BY <1>1, <1>3, <2>1, <2>2, <2>3, RestKeeps
<1>7. CASE call[r] \in {"init", "tick"}
  <2>1. Continue(r) /\ UNCHANGED <<loaded, uses, services>>
    BY <1>7 DEF Return
  <2>2. /\ queue' \in [Runtimes -> SUBSET Nat] /\ \A s \in Runtimes : queue'[s] \subseteq DOMAIN Order[s]
        /\ \A s \in Runtimes : s # r => queue'[s] = queue[s]
    BY <2>1, ContinueTypes DEF GuestsIInv
  <2>3. \/ UNCHANGED stage
        \/ stage[Current(r)] = "loading" /\ stage' = [stage EXCEPT ![Current(r)] = "active"]
    BY <1>1, <1>7 DEF Return, GuestsIInv, RuntimeOK, CallsOK
  <2> QED
    BY <1>1, <1>2, <1>3, <1>4, <2>1, <2>2, <2>3, RestKeeps
<1>8. CASE call[r] = "shutdown"
  <2>1. /\ stage' = [stage EXCEPT ![Current(r)] = "stopped"] /\ LetGo(Current(r))
        /\ uses' = [uses EXCEPT ![Current(r)] = {}] /\ Continue(r) /\ UNCHANGED loaded
    BY <1>8 DEF Return
  <2> QED
    BY <1>1, <1>2, <1>3, <2>1, EndsKeeps
<1> QED
  BY <1>5, <1>6, <1>7, <1>8

LEMMA FailsKeeps ==
  ASSUME GuestsIInv, NEW r \in Runtimes, call[r] # "none", Fails(r),
         spent' \in [Guests -> Charges], \A g \in Guests : g # Current(r) => spent'[g] = spent[g]
  PROVE  GuestsIInv' /\ GoesOn
<1>1. queue[r] # {} /\ op[r] \in {"load", "tick", "shutdown"}
  BY InCall
<1>2. PICK ended \in {"rejected", "faulted"} :
        /\ stage' = [stage EXCEPT ![Current(r)] = ended] /\ LetGo(Current(r))
        /\ uses' = [uses EXCEPT ![Current(r)] = {}] /\ Continue(r)
  BY DEF Fails, Rejected, Disabled
<1> QED
  BY <1>1, <1>2, EndsKeeps DEF Fails

LEMMA TrapKeeps ==
  ASSUME GuestsIInv, NEW r \in Runtimes, Trap(r)
  PROVE  GuestsIInv' /\ GoesOn
BY FailsKeeps DEF Trap, GuestsIInv, TypeOK

LEMMA OverBudgetKeeps ==
  ASSUME GuestsIInv, NEW r \in Runtimes, NEW i \in Used, OverBudget(r, i)
  PROVE  GuestsIInv' /\ GoesOn
<1> DEFINE budget == Imports[i].budget
           charged == [spent[Current(r)] EXCEPT ![budget] = spent[Current(r)][budget] + 1]
<1>1. call[r] # "none" /\ Fails(r) /\ spent' = [spent EXCEPT ![Current(r)] = charged]
  BY DEF OverBudget
<1>2. budget \in Budgets /\ Current(r) \in Guests
  BY <1>1, InCall DEF Budgets
<1> HIDE DEF budget
<1>3. charged \in Charges
  BY <1>2 DEF GuestsIInv, TypeOK, Charges
<1> HIDE DEF charged
<1>4. spent' \in [Guests -> Charges] /\ \A g \in Guests : g # Current(r) => spent'[g] = spent[g]
  BY <1>1, <1>2, <1>3 DEF GuestsIInv, TypeOK
<1> QED
  BY <1>1, <1>4, FailsKeeps

-----------------------------------------------------------------------------
(* The theorems.                                                           *)

LEMMA InitEstablishes ==
  ASSUME Init
  PROVE  GuestsIInv
<1>1. Unspent \in Charges
  BY DEF Unspent, Charges
<1>2. TypeOK
  <2>1. nextOwner \in 1 .. MaxOwner /\ owner \in [Guests -> Nat]
    BY RuntimeAssumption DEF Init
  <2>2. spent \in [Guests -> Charges] /\ made \in [Runtimes -> Charges]
    BY <1>1 DEF Init
  <2>3. /\ uses \in [Guests -> SUBSET Services] /\ \A g \in Guests : uses[g] \subseteq RegistriesOf(g)
        /\ attached \subseteq Services \X Nat /\ held \subseteq Services \X Nat
    BY DEF Init
  <2>4. /\ queue \in [Runtimes -> SUBSET Nat] /\ \A r \in Runtimes : queue[r] \subseteq DOMAIN Order[r]
        /\ requested \in [Runtimes -> SUBSET UNION {Caps[g] : g \in Guests}]
    BY DEF Init
  <2>5. /\ op \in [Runtimes -> {"new", "load", "idle", "tick", "shutdown", "over", "gone"}]
        /\ call \in [Runtimes -> {"none", "start", "abi", "init", "tick", "shutdown"}]
        /\ loaded \in [Runtimes -> {"none", "start", "abi"}]
        /\ stage \in [Guests -> Stages]
    BY DEF Init, Stages
  <2> QED
    BY <2>1, <2>2, <2>3, <2>4, <2>5 DEF TypeOK
<1>3. OwnersOK
  BY DEF Init, OwnersOK, Live
<1>4. HeldOK
  BY DEF Init, HeldOK, Live
<1>5. ASSUME NEW r \in Runtimes PROVE RuntimeOK(r)
  BY PackagesAreGuests DEF Init, RuntimeOK, CallsOK, RequestedOK, ChargedOK, Live
<1> QED
  BY <1>2, <1>3, <1>4, <1>5 DEF GuestsIInv

LEMMA StutterKeeps ==
  ASSUME GuestsIInv, UNCHANGED vars
  PROVE  GuestsIInv' /\ GoesOn
<1>1. UNCHANGED <<op, queue, call, loaded, requested, stage, owner, nextOwner, uses, spent,
                  attached, held, made>>
  BY DEF vars, host, services
<1>2. TypeOK' /\ OwnersOK' /\ HeldOK' /\ GoesOn
  BY <1>1 DEF GuestsIInv, TypeOK, OwnersOK, HeldOK, GoesOn, Live, Reaches, Asked
<1>3. ASSUME NEW r \in Runtimes PROVE RuntimeOK(r)'
  BY <1>1, CurrentSame DEF GuestsIInv, RuntimeOK, CallsOK, RequestedOK, ChargedOK, Live
<1> QED
  BY <1>2, <1>3 DEF GuestsIInv

LEMMA NextKeeps ==
  ASSUME GuestsIInv, [Next]_vars
  PROVE  GuestsIInv' /\ GoesOn
<1>1. CASE UNCHANGED vars
  BY <1>1, StutterKeeps
<1>2. ASSUME NEW r \in Runtimes,
             \/ Scan(r) \/ Attach(r) \/ LoadCall(r) \/ Unloadable(r)
             \/ Tick(r) \/ Shutdown(r) \/ Run(r) \/ PassOver(r) \/ Finish(r) \/ Destroy(r)
             \/ ReleaseCall(r) \/ Return(r) \/ Trap(r)
      PROVE  GuestsIInv' /\ GoesOn
  BY <1>2, ScanKeeps, AttachKeeps, LoadCallKeeps, UnloadableKeeps, PassKeeps, RunKeeps,
     PassOverKeeps, DestroyKeeps, ReleaseCallKeeps, ReturnKeeps, TrapKeeps
<1>3. ASSUME NEW r \in Runtimes, NEW i \in Used, HostCall(r, i) \/ OverBudget(r, i)
      PROVE  GuestsIInv' /\ GoesOn
  BY <1>3, HostCallKeeps, OverBudgetKeeps
<1> QED
  BY <1>1, <1>2, <1>3 DEF Next

LEMMA Invariance == Spec => []GuestsIInv
<1>1. Init => GuestsIInv
  BY InitEstablishes
<1>2. GuestsIInv /\ [Next]_vars => GuestsIInv'
  BY NextKeeps
<1> QED
  BY <1>1, <1>2, PTL DEF Spec

\* Runtimes, guests and what the services hold of them keep their types (runtime.cpp).
THEOREM TypeCorrect == Spec => []TypeOK
<1>1. GuestsIInv => TypeOK
  BY DEF GuestsIInv
<1> QED
  BY <1>1, Invariance, PTL

\* A call is charged against its budgets for what it asked itself (Mod::budget).
THEOREM ChargedRight == Spec => []ChargedForThisCall
<1>1. GuestsIInv => ChargedForThisCall
  BY DEF GuestsIInv, RuntimeOK, ChargedOK, ChargedForThisCall
<1> QED
  BY <1>1, Invariance, PTL

LEMMA NothingLeft ==
  ASSUME GuestsIInv
  PROVE  GivenBack
<1>1. ASSUME NEW g \in Guests, stage[g] \in {"rejected", "faulted", "stopped", "destroyed"},
             NEW entry \in attached \union held
      PROVE  entry[2] # owner[g]
  <2>1. PICK h \in Guests : Live(h) /\ entry[2] = owner[h]
    BY <1>1 DEF GuestsIInv, HeldOK
  <2>2. h # g /\ owner[h] # 0
    BY <1>1, <2>1 DEF GuestsIInv, OwnersOK, Live
  <2> QED
    BY <2>1, <2>2 DEF GuestsIInv, OwnersOK
<1>2. ASSUME NEW g \in Guests, NEW entry \in held, entry[2] = owner[g]
      PROVE  \E i \in Used : Imports[i].service = entry[1] /\ Imports[i].cap \in Caps[g]
  <2>1. PICK h \in Guests : Live(h) /\ entry[2] = owner[h] /\ Asked(h, entry[1])
    BY <1>2 DEF GuestsIInv, HeldOK
  <2>2. h = g
    BY <1>2, <2>1 DEF GuestsIInv, OwnersOK
  <2> QED
    BY <2>1, <2>2 DEF Asked
<1>3. ASSUME NEW r \in Runtimes, call[r] # "none" PROVE Caps[Current(r)] \subseteq requested[r]
  BY <1>3, InCall DEF GuestsIInv, RuntimeOK, RequestedOK
<1> QED
  BY <1>1, <1>2, <1>3 DEF GivenBack

\* A guest that goes on keeps its registries, since they are attached under its number.
LEMMA KeepsItsOwn ==
  ASSUME GuestsIInv', GoesOn
  PROVE  \A g \in Guests : stage[g] \in {"loading", "active"} /\ stage'[g] = stage[g] =>
           \A s \in uses[g] : <<s, owner[g]>> \in attached'
<1> SUFFICES ASSUME NEW g \in Guests, Live(g), stage'[g] = stage[g], NEW s \in uses[g]
             PROVE  <<s, owner[g]>> \in attached'
  BY DEF Live
<1>1. Live(g)' /\ uses'[g] = uses[g] /\ owner'[g] = owner[g]
  BY DEF GoesOn, Live
<1> QED
  BY <1>1 DEF GuestsIInv, HeldOK

\* Every service has forgotten a guest that ended, holds nothing of one that its manifest
\* did not ask for, and the end of one takes nothing from another (fault, shutdown, ~Mod).
THEOREM OwnedRight == Spec => GuestsOwnWhatIsTheirs
<1> DEFINE Own == \A g \in Guests : stage[g] \in {"loading", "active"} /\ stage'[g] = stage[g] =>
                    \A s \in uses[g] : <<s, owner[g]>> \in attached'
<1>1. GuestsIInv /\ [Next]_vars => GuestsIInv' /\ Own
  <2>1. ASSUME GuestsIInv, [Next]_vars PROVE GuestsIInv' /\ GoesOn
    BY <2>1, NextKeeps
  <2> QED
    BY <2>1, KeepsItsOwn
<1>2. GuestsIInv => GivenBack
  BY NothingLeft
<1>3. Spec => [][Own]_vars
  BY <1>1, Invariance, PTL DEF Spec
<1>4. Spec => [][GivenBack']_vars
  BY <1>1, <1>2, Invariance, PTL DEF Spec
<1> QED
  BY <1>3, <1>4 DEF GuestsOwnWhatIsTheirs, TakesOnlyItsOwn

\* An active guest with a tick leaves a pass only by having been called in it,
\* whichever guests before it trapped (Runtime::tick).
THEOREM NobodyPassed == Spec => NobodyIsPassed
<1> DEFINE Called == \A r \in Runtimes : \A i \in queue[r] \ queue'[r] :
                       op[r] = "tick" /\ stage[Order[r][i]] = "active" /\ Order[r][i] \in HasTick =>
                         call[r] = "tick" /\ i = Place(r)
<1>1. GuestsIInv /\ [Next]_vars => Called
  <2> SUFFICES ASSUME GuestsIInv, [Next]_vars, NEW r \in Runtimes, NEW i \in queue[r] \ queue'[r],
                      op[r] = "tick", stage[Order[r][i]] = "active", Order[r][i] \in HasTick
               PROVE  call[r] = "tick" /\ i = Place(r)
    OBVIOUS
  <2>1. queue \in [Runtimes -> SUBSET Nat]
    BY DEF GuestsIInv, TypeOK
  <2>2. queue' # queue
    OBVIOUS
  <2>3. PICK s \in Runtimes :
          \/ Scan(s) \/ Attach(s) \/ Unloadable(s) \/ Tick(s) \/ Shutdown(s)
          \/ PassOver(s) \/ Return(s) \/ Trap(s) \/ \E j \in Used : OverBudget(s, j)
    BY <2>2 DEF Next, vars, host, LoadCall, Run, Finish, Destroy, ReleaseCall, HostCall
  <2>4. CASE \/ op[s] \in {"new", "load", "idle"} /\ \E q : queue' = [queue EXCEPT ![s] = q]
             \/ UNCHANGED queue
    BY <2>1, <2>4
  <2>5. CASE Scan(s) \/ Attach(s) \/ Unloadable(s) \/ Tick(s) \/ Shutdown(s)
    BY <2>4, <2>5 DEF Scan, Attach, Unloadable, Tick, Shutdown, Rejected, Continue
  <2>6. ASSUME Continue(s) PROVE s = r /\ i = Place(s)
    BY <2>1, <2>6 DEF Continue
  <2>7. CASE PassOver(s)
    <3>1. Continue(s) /\ ~(stage[Current(s)] = "active" /\ Current(s) \in Exports(s))
      BY <2>7 DEF PassOver
    <3> QED
      BY <2>6, <3>1 DEF Current, Exports
  <2>8. CASE call[s] # "none" /\ Continue(s)
    BY <2>6, <2>8 DEF GuestsIInv, RuntimeOK, CallsOK
  <2>9. CASE Return(s)
    BY <2>2, <2>8, <2>9 DEF Return
  <2>10. CASE Trap(s) \/ \E j \in Used : OverBudget(s, j)
    <3>1. call[s] # "none" /\ Continue(s)
      BY <2>10 DEF Trap, OverBudget, Fails, Rejected, Disabled
    <3> QED
      BY <2>8, <3>1
  <2> QED
    BY <2>3, <2>5, <2>7, <2>9, <2>10
<1>2. Spec => [][Called]_vars
  BY <1>1, Invariance, PTL DEF Spec
<1> QED
  BY <1>2 DEF NobodyIsPassed
-----------------------------------------------------------------------------
(* The messages: Feedback.                                                 *)

\* What an entry says of its ticket is true.
TrueMessage(m) ==
  /\ m.ticket < nextMessage
  /\ Stands(m) => m.ticket # 0
  /\ m.ticket # 0 => due[m.ticket] = m.deadline
  /\ m.status \in {"presented", "expired presented"} => m.ticket \in drawn
MessagesOK == \A o \in Senders : TrueMessage(message[o])

\* A document acknowledges what it drew, and counts from when it asked.
TrueDocument(d) ==
  /\ d.acks \subseteq drawn /\ d.sentAt <= clock /\ (d.asked = 0 => d.answer = {})
  /\ \A i \in d.items : i.ticket < nextMessage /\ i.until <= due[i.ticket]
  /\ \A m \in d.answer : m.ticket < nextMessage /\ d.sentAt + m.left <= due[m.ticket]
PagesOK ==
  /\ \A p \in Pages : TrueDocument(script[p])
  /\ \A r \in requests : r.acks \subseteq drawn /\ r.sequence # 0

Standing == {o \in owners : Stands(message[o])}
RoomOK == Cardinality(Standing) <= Capacity /\ Cardinality(offered) <= Capacity

FeedbackIInv == FeedbackTypeOK /\ RoomOK /\ MessagesOK /\ PagesOK
-----------------------------------------------------------------------------
(* Entries.                                                                *)

LEMMA FeedbackNumbers ==
  /\ Capacity \in Nat /\ Gap \in Nat /\ MaxMessages \in Nat /\ MaxPage \in Nat /\ MaxClock \in Nat
  /\ Durations \subseteq Nat /\ IsFiniteSet(Senders)
  BY FeedbackAssumption

LEMMA BlankShape == Blank \in Messages /\ Blank.ticket = 0 /\ ~Stands(Blank) /\ Blank.status = "none"
  BY FeedbackNumbers DEF Blank, Messages, Statuses, Stands

LEMMA LapsedShape ==
  ASSUME clock \in Nat, NEW m \in Messages
  PROVE  LET n == Lapsed(m) IN
         /\ n \in Messages /\ n.ticket = m.ticket /\ n.deadline = m.deadline
         /\ Stands(n) => n = m /\ clock < m.deadline
         /\ ~Stands(m) => n = m
         /\ n.status \in {"presented", "expired presented"} => m.status \in {"presented", "expired presented"}
<1>1. CASE Stands(m) /\ clock >= m.deadline
  <2>1. PICK s : s = IF m.status = "presented" THEN "expired presented" ELSE "expired"
    OBVIOUS
  <2>2. Lapsed(m) = [m EXCEPT !.status = s]
    BY <1>1, <2>1 DEF Lapsed
  <2>3. s \in Statuses /\ s \in {"expired", "expired presented"} /\ (s = "expired presented" => m.status = "presented")
    BY <2>1 DEF Statuses
  <2> QED BY <1>1, <2>2, <2>3 DEF Messages, Stands
<1>2. CASE ~(Stands(m) /\ clock >= m.deadline)
  <2>1. Lapsed(m) = m
    BY <1>2 DEF Lapsed
  <2>2. Stands(m) => clock < m.deadline
    <3>1. m.deadline \in Nat
      BY FeedbackNumbers DEF Messages
    <3> QED BY <1>2, <3>1
  <2> QED BY <2>1, <2>2
<1> QED BY <1>1, <1>2

LEMMA AcknowledgedShape ==
  ASSUME NEW m \in Messages, NEW acks
  PROVE  LET n == Acknowledged(m, acks) IN
         /\ n \in Messages /\ n.ticket = m.ticket /\ n.deadline = m.deadline
         /\ Stands(n) <=> Stands(m)
         /\ n.status \in {"presented", "expired presented"} =>
              m.status \in {"presented", "expired presented"} \/ m.ticket \in acks
         /\ ~Stands(m) => n.status = m.status \/ (m.status = "expired" /\ n.status = "expired presented")
<1>1. CASE m.ticket \notin acks \intersect offered
  BY <1>1 DEF Acknowledged
<1>2. CASE m.ticket \in acks \intersect offered /\ Stands(m)
  <2>1. Acknowledged(m, acks) = [m EXCEPT !.status = "presented"]
    BY <1>2 DEF Acknowledged, Stands
  <2> QED BY <1>2, <2>1 DEF Messages, Statuses, Stands
<1>3. CASE m.ticket \in acks \intersect offered /\ ~Stands(m) /\ m.status = "expired"
  <2>1. Acknowledged(m, acks) = [m EXCEPT !.status = "expired presented"]
    BY <1>3 DEF Acknowledged
  <2> QED BY <1>3, <2>1 DEF Messages, Statuses, Stands
<1>4. CASE m.ticket \in acks \intersect offered /\ ~Stands(m) /\ m.status # "expired"
  <2>1. Acknowledged(m, acks) = m
    BY <1>4 DEF Acknowledged
  <2> QED BY <1>4, <2>1
<1> QED BY <1>1, <1>2, <1>3, <1>4

\* A change that keeps ticket and deadline, and says presented only of what was drawn.
LEMMA StaysTrue ==
  ASSUME NEW m, NEW n, TrueMessage(m), n.ticket = m.ticket, n.deadline = m.deadline,
         Stands(n) => Stands(m),
         n.status \in {"presented", "expired presented"} =>
           m.status \in {"presented", "expired presented"} \/ m.ticket \in drawn
  PROVE  TrueMessage(n)
  BY DEF TrueMessage

LEMMA UpToDateShape ==
  ASSUME FeedbackTypeOK, MessagesOK
  PROVE  /\ UpToDate \in [Senders -> Messages]
         /\ \A o \in Senders :
              /\ TrueMessage(UpToDate[o]) /\ UpToDate[o].ticket = message[o].ticket
              /\ Stands(UpToDate[o]) => UpToDate[o] = message[o]
              /\ Stands(UpToDate[o]) /\ o \in owners => clock < UpToDate[o].deadline
              /\ ~Stands(message[o]) => UpToDate[o] = message[o]
<1>1. clock \in Nat
  BY FeedbackNumbers DEF FeedbackTypeOK
<1>2. ASSUME NEW o \in Senders
      PROVE  /\ UpToDate[o] \in Messages
             /\ TrueMessage(UpToDate[o]) /\ UpToDate[o].ticket = message[o].ticket
             /\ Stands(UpToDate[o]) => UpToDate[o] = message[o]
             /\ Stands(UpToDate[o]) /\ o \in owners => clock < UpToDate[o].deadline
             /\ ~Stands(message[o]) => UpToDate[o] = message[o]
  <2>1. PICK m \in Messages : m = message[o]
    BY DEF FeedbackTypeOK
  <2>2. TrueMessage(m)
    BY <2>1 DEF MessagesOK
  <2>3. PICK n : n = Lapsed(m)
    OBVIOUS
  <2>4. /\ n \in Messages /\ n.ticket = m.ticket /\ n.deadline = m.deadline
        /\ Stands(n) => n = m /\ clock < m.deadline
        /\ ~Stands(m) => n = m
        /\ n.status \in {"presented", "expired presented"} => m.status \in {"presented", "expired presented"}
    BY <1>1, <2>3, LapsedShape
  <2>5. TrueMessage(n)
    BY <2>2, <2>4 DEF TrueMessage
  <2>6. UpToDate[o] = IF o \in owners THEN n ELSE m
    BY <2>1, <2>3 DEF UpToDate
  <2> QED BY <2>1, <2>2, <2>4, <2>5, <2>6
<1>3. UpToDate \in [Senders -> Messages]
  BY <1>2 DEF UpToDate
<1> QED BY <1>2, <1>3

\* Fewer entries that stand need no more room.
LEMMA FewerFit ==
  ASSUME FeedbackTypeOK, RoomOK, NEW S, S \subseteq Standing
  PROVE  IsFiniteSet(S) /\ Cardinality(S) <= Capacity /\ Cardinality(S) \in Nat
<1>1. IsFiniteSet(Standing)
  BY FeedbackNumbers, FS_Subset DEF Standing, FeedbackTypeOK
<1>2. IsFiniteSet(S) /\ Cardinality(S) <= Cardinality(Standing)
  BY <1>1, FS_Subset
<1>3. Cardinality(S) \in Nat /\ Cardinality(Standing) \in Nat
  BY <1>1, <1>2, FS_CardinalityType
<1> QED BY <1>2, <1>3, FeedbackNumbers DEF RoomOK

LEMMA TicketsFit ==
  ASSUME FeedbackTypeOK, RoomOK, NEW S, S \subseteq Standing, NEW f
  PROVE  Cardinality({f[o].ticket : o \in S}) <= Capacity
<1>1. IsFiniteSet(S) /\ Cardinality(S) <= Capacity /\ Cardinality(S) \in Nat
  BY FewerFit
<1>2. PICK T : T = {f[o].ticket : o \in S}
  OBVIOUS
<1>3. PICK g : g = [o \in S |-> f[o].ticket]
  OBVIOUS
<1>4. g \in Surjection(S, T)
  BY <1>2, <1>3 DEF Surjection
<1>5. IsFiniteSet(T) /\ Cardinality(T) <= Cardinality(S)
  BY <1>1, <1>4, FS_Surjection
<1>6. Cardinality(T) \in Nat
  BY <1>5, FS_CardinalityType
<1> QED BY <1>1, <1>2, <1>5, <1>6, FeedbackNumbers
-----------------------------------------------------------------------------
(* Documents.                                                              *)

LEMMA OffShape == Off \in Documents /\ Off.acks = {} /\ Off.sentAt = 0 /\ Off.items = {} /\ Off.answer = {}
  BY FeedbackNumbers DEF Off, Documents

LEMMA StoppedTrue ==
  ASSUME FeedbackTypeOK, NEW d \in Documents
  PROVE  Stopped(d) \in Documents /\ TrueDocument(Stopped(d))
<1>1. PICK n : n = Stopped(d)
  OBVIOUS
<1>2. n \in Documents /\ n.acks = {} /\ n.sentAt = 0 /\ n.items = {} /\ n.answer = {}
  <2>1. d.polls \in Nat
    BY DEF Documents
  <2> QED BY <1>1, <2>1, OffShape DEF Stopped, Documents
<1>3. 0 <= clock
  BY FeedbackNumbers DEF FeedbackTypeOK
<1>4. TrueDocument(n)
  BY <1>2, <1>3 DEF TrueDocument
<1> QED BY <1>1, <1>2, <1>4

LEMMA ClearedTrue ==
  ASSUME NEW d \in Documents, TrueDocument(d)
  PROVE  Cleared(d) \in Documents /\ TrueDocument(Cleared(d))
<1>1. PICK n : n = Cleared(d)
  OBVIOUS
<1>2. n \in Documents /\ n.acks = d.acks /\ n.sentAt = d.sentAt /\ n.items = {} /\ n.answer = d.answer /\ n.asked = d.asked
  BY <1>1 DEF Cleared, Documents
<1>3. TrueDocument(n)
  BY <1>2 DEF TrueDocument
<1> QED BY <1>1, <1>2, <1>3

LEMMA ItemsTrue ==
  ASSUME NEW d \in Documents, TrueDocument(d), NEW kept \in SUBSET Nodes, NEW framed \in BOOLEAN,
         \A i \in kept : i.ticket < nextMessage /\ i.until <= due[i.ticket]
  PROVE  LET n == [d EXCEPT !.items = kept, !.framed = framed] IN n \in Documents /\ TrueDocument(n)
<1>1. PICK n : n = [d EXCEPT !.items = kept, !.framed = framed]
  OBVIOUS
<1>2. n \in Documents /\ n.acks = d.acks /\ n.sentAt = d.sentAt /\ n.items = kept /\ n.answer = d.answer /\ n.asked = d.asked
  BY <1>1 DEF Documents
<1>3. TrueDocument(n)
  BY <1>2 DEF TrueDocument
<1> QED BY <1>1, <1>2, <1>3

LEMMA PrunedTrue ==
  ASSUME NEW d \in Documents, TrueDocument(d)
  PROVE  /\ Pruned(d) \in Documents /\ TrueDocument(Pruned(d))
         /\ Pruned(d).items \subseteq d.items /\ Pruned(d).acks = d.acks
<1>1. PICK kept : kept = {i \in d.items : clock < i.until}
  OBVIOUS
<1>2. kept \in SUBSET Nodes /\ \A i \in kept : i.ticket < nextMessage /\ i.until <= due[i.ticket]
  BY <1>1 DEF TrueDocument, Documents
<1>3. CASE hidden \/ kept = {}
  <2>1. Pruned(d) = Cleared(d)
    BY <1>1, <1>3 DEF Pruned
  <2>2. Cleared(d).items = {} /\ Cleared(d).acks = d.acks
    BY DEF Cleared, Documents
  <2> QED BY <2>1, <2>2, ClearedTrue
<1>4. CASE ~(hidden \/ kept = {})
  <2>1. Pruned(d) = [d EXCEPT !.items = kept]
    BY <1>1, <1>4 DEF Pruned
  <2>2. PICK n : n = Pruned(d)
    OBVIOUS
  <2>3. n \in Documents /\ n.acks = d.acks /\ n.sentAt = d.sentAt /\ n.items = kept /\ n.answer = d.answer /\ n.asked = d.asked
    BY <1>2, <2>1, <2>2 DEF Documents
  <2>4. TrueDocument(n)
    BY <1>2, <2>3 DEF TrueDocument
  <2> QED BY <1>1, <2>2, <2>3, <2>4
<1> QED BY <1>3, <1>4

LEMMA SettledTrue ==
  ASSUME FeedbackTypeOK, NEW d \in Documents, TrueDocument(d)
  PROVE  Settled(d) \in Documents /\ TrueDocument(Settled(d))
<1>1. PICK n : n = Settled(d)
  OBVIOUS
<1>2. n \in Documents /\ n.acks = d.acks /\ n.sentAt = 0 /\ n.items = d.items /\ n.answer = {}
  <2>1. 0 \in 0..MaxClock /\ 0 \in Nat /\ {} \in SUBSET Listings
    BY FeedbackNumbers
  <2> QED BY <1>1, <2>1 DEF Settled, Documents
<1>3. 0 <= clock
  BY FeedbackNumbers DEF FeedbackTypeOK
<1>4. TrueDocument(n)
  BY <1>2, <1>3 DEF TrueDocument
<1> QED BY <1>1, <1>2, <1>4

LEMMA FailedTrue ==
  ASSUME FeedbackTypeOK, NEW d \in Documents, TrueDocument(d)
  PROVE  Failed(d) \in Documents /\ TrueDocument(Failed(d))
<1>1. PICK c : c = Cleared(d)
  OBVIOUS
<1>2. c \in Documents /\ TrueDocument(c)
  BY <1>1, ClearedTrue
<1>3. PICK s : s = Settled(c)
  OBVIOUS
<1>4. s \in Documents /\ TrueDocument(s)
  BY <1>2, <1>3, SettledTrue
<1>5. PICK n : n = [s EXCEPT !.acks = {}]
  OBVIOUS
<1>6. n \in Documents /\ n.acks = {} /\ n.sentAt = s.sentAt /\ n.items = s.items /\ n.answer = s.answer /\ n.asked = s.asked
  BY <1>4, <1>5 DEF Documents
<1>7. TrueDocument(n)
  BY <1>4, <1>6 DEF TrueDocument
<1> QED BY <1>1, <1>3, <1>5, <1>6, <1>7 DEF Failed

\* What is rendered lasts until the deadline at most, and not longer than before.
LEMMA RenderedTrue ==
  ASSUME FeedbackTypeOK, NEW d \in Documents, TrueDocument(d)
  PROVE  Rendered(d) \in Documents /\ TrueDocument(Rendered(d))
<1> DEFINE old(t) == {i.until : i \in {j \in d.items : j.ticket = t}}
           new == {m \in d.answer : Until(d, m) > clock}
           end(m) == IF old(m.ticket) = {} THEN Until(d, m) ELSE Lesser(Until(d, m), CHOOSE u \in old(m.ticket) : TRUE)
           next == {[ticket |-> m.ticket, until |-> end(m)] : m \in new}
<1>1. ASSUME NEW m \in new
      PROVE  /\ m.ticket \in 1..MaxMessages /\ m.ticket < nextMessage /\ end(m) \in Nat /\ end(m) <= due[m.ticket]
  <2>1. m \in d.answer /\ m.ticket \in 1..MaxMessages /\ m.left \in Nat /\ d.sentAt \in Nat
    BY FeedbackNumbers DEF Documents, Listings
  <2>2. m.ticket < nextMessage /\ d.sentAt + m.left <= due[m.ticket] /\ due[m.ticket] \in Nat
    BY <2>1, FeedbackNumbers DEF TrueDocument, FeedbackTypeOK
  <2>3. PICK e : e = Until(d, m)
    OBVIOUS
  <2>4. e \in Nat /\ e <= due[m.ticket]
    BY <2>1, <2>2, <2>3 DEF Until
  <2>5. CASE old(m.ticket) = {}
    BY <2>1, <2>2, <2>3, <2>4, <2>5
  <2>6. CASE old(m.ticket) # {}
    <3>1. PICK u : u = CHOOSE v \in old(m.ticket) : TRUE
      OBVIOUS
    <3>2. u \in old(m.ticket)
      BY <2>6, <3>1
    <3>3. u \in Nat
      BY <3>2 DEF Documents, Nodes
    <3>4. end(m) = Lesser(e, u)
      BY <2>3, <2>6, <3>1
    <3>5. PICK l : l = Lesser(e, u)
      OBVIOUS
    <3>6. l \in Nat /\ l <= e
      BY <2>4, <3>3, <3>5 DEF Lesser
    <3>7. l <= due[m.ticket]
      BY <2>2, <2>4, <3>6
    <3> HIDE DEF end, old
    <3> QED BY <2>1, <2>2, <3>4, <3>5, <3>6, <3>7
  <2> QED BY <2>5, <2>6
<1>2. next \in SUBSET Nodes /\ \A i \in next : i.ticket < nextMessage /\ i.until <= due[i.ticket]
  <2> HIDE DEF end, new
  <2>1. ASSUME NEW i \in next
        PROVE  i \in Nodes /\ i.ticket < nextMessage /\ i.until <= due[i.ticket]
    <3>1. PICK m \in new : i = [ticket |-> m.ticket, until |-> end(m)]
      OBVIOUS
    <3> QED BY <1>1, <3>1 DEF Nodes
  <2> QED BY <2>1
<1>4. CASE hidden \/ next = {}
  <2>1. Rendered(d) = Cleared(d)
    BY <1>4 DEF Rendered
  <2> QED BY <2>1, ClearedTrue
<1>5. CASE ~(hidden \/ next = {}) /\ {m.ticket : m \in d.answer} = {i.ticket : i \in d.items}
  <2>1. PICK n : n = [d EXCEPT !.items = next]
    OBVIOUS
  <2>2. n \in Documents /\ n.acks = d.acks /\ n.sentAt = d.sentAt /\ n.items = next /\ n.answer = d.answer /\ n.asked = d.asked
    BY <1>2, <2>1 DEF Documents
  <2>3. TrueDocument(n)
    BY <1>2, <2>2 DEF TrueDocument
  <2>4. Rendered(d) = Pruned(n)
    BY <1>5, <2>1 DEF Rendered
  <2> QED BY <2>2, <2>3, <2>4, PrunedTrue
<1>6. CASE ~(hidden \/ next = {}) /\ {m.ticket : m \in d.answer} # {i.ticket : i \in d.items}
  <2>1. Rendered(d) = [d EXCEPT !.items = next, !.framed = TRUE]
    BY <1>6 DEF Rendered
  <2> QED BY <1>2, <2>1, ItemsTrue
<1> QED BY <1>4, <1>5, <1>6
-----------------------------------------------------------------------------
(* Every step of the messages keeps the invariant.                         *)

LEMMA FeedbackShapes ==
  ASSUME FeedbackIInv
  PROVE  /\ FeedbackTypeOK /\ RoomOK /\ MessagesOK /\ PagesOK
         /\ clock \in Nat /\ nextMessage \in Nat
         /\ \A o \in Senders : message[o] \in Messages /\ TrueMessage(message[o])
         /\ \A p \in Pages : script[p] \in Documents /\ TrueDocument(script[p])
<1>1. FeedbackTypeOK /\ RoomOK /\ MessagesOK /\ PagesOK
  BY DEF FeedbackIInv
<1>2. clock \in Nat /\ nextMessage \in Nat
  BY <1>1, FeedbackNumbers DEF FeedbackTypeOK
<1> QED BY <1>1, <1>2 DEF FeedbackTypeOK, MessagesOK, PagesOK

\* Later, with more drawn and more tickets given out.
LEMMA MessageStays ==
  ASSUME NEW m \in Messages, TrueMessage(m), nextMessage \in Nat, nextMessage' \in Nat,
         nextMessage <= nextMessage', drawn \subseteq drawn',
         \A t \in 1..MaxMessages : t < nextMessage => due'[t] = due[t]
  PROVE  TrueMessage(m)'
<1>1. m.ticket \in 0..MaxMessages /\ m.ticket \in Nat
  BY FeedbackNumbers DEF Messages
<1>2. m.ticket # 0 => m.ticket \in 1..MaxMessages
  BY <1>1, FeedbackNumbers
<1>3. m.ticket < nextMessage'
  <2>1. m.ticket < nextMessage
    BY DEF TrueMessage
  <2> QED BY <1>1, <2>1
<1> QED BY <1>2, <1>3 DEF TrueMessage, Stands

LEMMA DocumentStays ==
  ASSUME NEW d \in Documents, TrueDocument(d), nextMessage \in Nat, nextMessage' \in Nat,
         nextMessage <= nextMessage', drawn \subseteq drawn', clock \in Nat, clock' \in Nat, clock <= clock',
         \A t \in 1..MaxMessages : t < nextMessage => due'[t] = due[t]
  PROVE  TrueDocument(d)'
<1>1. d.sentAt \in Nat /\ d.answer \subseteq Listings /\ d.items \subseteq Nodes
  BY FeedbackNumbers DEF Documents
<1>2. d.sentAt <= clock' /\ d.acks \subseteq drawn'
  BY <1>1 DEF TrueDocument
<1>3. ASSUME NEW i \in d.items PROVE i.ticket < nextMessage' /\ i.until <= due'[i.ticket]
  <2>1. i.ticket \in 1..MaxMessages /\ i.ticket \in Nat /\ i.ticket < nextMessage /\ i.until <= due[i.ticket]
    BY <1>1, FeedbackNumbers DEF Nodes, TrueDocument
  <2> QED BY <2>1
<1>4. ASSUME NEW m \in d.answer PROVE m.ticket < nextMessage' /\ d.sentAt + m.left <= due'[m.ticket]
  <2>1. m.ticket \in 1..MaxMessages /\ m.ticket \in Nat /\ m.ticket < nextMessage
        /\ d.sentAt + m.left <= due[m.ticket]
    BY <1>1, FeedbackNumbers DEF Listings, TrueDocument
  <2> QED BY <2>1
<1> QED BY <1>2, <1>3, <1>4 DEF TrueDocument

\* A change of the entries that starts none.
LEMMA EntriesKeep ==
  ASSUME FeedbackIInv, message' \in [Senders -> Messages], \A o \in Senders : TrueMessage(message'[o]),
         owners' \subseteq owners, \A o \in owners' : Stands(message'[o]) => Stands(message[o]),
         offered' \in {offered, {}}, page' \in 0..MaxPage, sequence' \in Nat, messagesOn' \in BOOLEAN,
         UNCHANGED <<nextMessage, clock, script, requests, hidden, drawn, due>>
  PROVE  FeedbackIInv'
<1>1. FeedbackTypeOK /\ RoomOK /\ PagesOK
  BY FeedbackShapes
<1>2. FeedbackTypeOK'
  BY <1>1 DEF FeedbackTypeOK
<1>3. RoomOK'
  <2>1. PICK S : S = {o \in owners' : Stands(message'[o])}
    OBVIOUS
  <2>2. S \subseteq Standing
    BY <2>1 DEF Standing
  <2>3. Cardinality(S) <= Capacity
    BY <1>1, <2>2, FewerFit
  <2>4. Cardinality(offered') <= Capacity
    BY <1>1, FS_EmptySet, FeedbackNumbers DEF RoomOK
  <2>5. Standing' = S
    BY <2>1 DEF Standing, Stands
  <2> QED BY <2>3, <2>4, <2>5 DEF RoomOK
<1>4. MessagesOK'
  BY DEF MessagesOK, TrueMessage, Stands
<1>5. PagesOK'
  BY <1>1 DEF PagesOK, TrueDocument
<1> QED BY <1>2, <1>3, <1>4, <1>5 DEF FeedbackIInv

LEMMA EntryStepsKeep ==
  ASSUME FeedbackIInv,
         \/ \E o \in Senders : \/ Status(o) \/ DetachSender(o)
                              \/ \E how \in {"dismissed", "cancelled"} : End(o, how)
         \/ Disable
  PROVE  FeedbackIInv'
<1>1. /\ FeedbackTypeOK /\ MessagesOK /\ clock \in Nat
      /\ \A o \in Senders : message[o] \in Messages /\ TrueMessage(message[o])
  BY FeedbackShapes
<1>2. /\ UpToDate \in [Senders -> Messages]
      /\ \A o \in Senders :
           /\ TrueMessage(UpToDate[o]) /\ UpToDate[o].ticket = message[o].ticket
           /\ Stands(UpToDate[o]) => UpToDate[o] = message[o]
  BY <1>1, UpToDateShape
<1>3. /\ owners \subseteq Senders /\ page \in 0..MaxPage /\ sequence \in Nat /\ messagesOn \in BOOLEAN
      /\ message \in [Senders -> Messages]
  BY <1>1 DEF FeedbackTypeOK
<1>4. ASSUME NEW o \in Senders, Status(o) PROVE FeedbackIInv'
  <2>1. message' = UpToDate
        /\ UNCHANGED <<owners, offered, page, sequence, messagesOn, nextMessage, clock, script, requests, hidden, drawn, due>>
    BY <1>4 DEF Status
  <2> QED BY <1>2, <1>3, <2>1, EntriesKeep
<1>5. ASSUME NEW o \in Senders, DetachSender(o) PROVE FeedbackIInv'
  <2>1. message' = [message EXCEPT ![o] = Blank] /\ owners' = owners \ {o}
        /\ UNCHANGED <<offered, page, sequence, messagesOn, nextMessage, clock, script, requests, hidden, drawn, due>>
    BY <1>5 DEF DetachSender
  <2>2. message' \in [Senders -> Messages]
    BY <1>3, <2>1, BlankShape
  <2>3. \A q \in Senders : message'[q] = IF q = o THEN Blank ELSE message[q]
    BY <1>3, <2>1
  <2>4. TrueMessage(Blank)
    <3>1. nextMessage \in Nat /\ 0 < nextMessage
      BY <1>1, FeedbackNumbers DEF FeedbackTypeOK
    <3> QED BY <3>1, BlankShape DEF TrueMessage
  <2>5. \A q \in Senders : TrueMessage(message'[q])
    BY <1>1, <2>3, <2>4
  <2>6. \A q \in owners' : Stands(message'[q]) => Stands(message[q])
    BY <1>3, <2>1, <2>3
  <2> QED BY <1>3, <2>1, <2>2, <2>5, <2>6, EntriesKeep
<1>6. ASSUME NEW o \in Senders, NEW how \in {"dismissed", "cancelled"}, End(o, how) PROVE FeedbackIInv'
  <2>1. UNCHANGED <<owners, offered, page, sequence, messagesOn, nextMessage, clock, script, requests, hidden, drawn, due>>
    BY <1>6 DEF End
  <2>2. CASE message' = UpToDate
    BY <1>2, <1>3, <2>1, <2>2, EntriesKeep
  <2>3. CASE Stands(UpToDate[o]) /\ message' = [UpToDate EXCEPT ![o].status = how]
    <3>1. PICK m \in Messages : m = UpToDate[o]
      BY <1>2
    <3>2. PICK n : n = [m EXCEPT !.status = how]
      OBVIOUS
    <3>3. n \in Messages /\ n.ticket = m.ticket /\ n.deadline = m.deadline /\ n.status = how
      BY <3>2 DEF Messages, Statuses
    <3>4. ~Stands(n) /\ TrueMessage(n)
      <4>1. ~Stands(n) /\ n.status \notin {"presented", "expired presented"}
        BY <3>3 DEF Stands
      <4>2. TrueMessage(m)
        BY <1>2, <3>1
      <4> QED BY <3>3, <4>1, <4>2, StaysTrue
    <3>5. message' = [UpToDate EXCEPT ![o] = n]
      BY <2>3, <3>1, <3>2
    <3>6. /\ message' \in [Senders -> Messages]
          /\ \A q \in Senders : message'[q] = IF q = o THEN n ELSE UpToDate[q]
      BY <1>2, <3>3, <3>5
    <3>7. \A q \in Senders : TrueMessage(message'[q])
      BY <1>2, <3>4, <3>6
    <3>8. \A q \in owners' : Stands(message'[q]) => Stands(message[q])
      BY <1>2, <1>3, <2>1, <3>4, <3>6
    <3> QED BY <1>3, <2>1, <3>6, <3>7, <3>8, EntriesKeep
  <2> QED BY <1>6, <2>2, <2>3 DEF End
<1>7. CASE Disable
  <2>1. /\ message' = [o \in Senders |-> IF Stands(message[o])
                                         THEN [message[o] EXCEPT !.status = "cancelled"] ELSE message[o]]
        /\ messagesOn' = FALSE /\ offered' = {} /\ sequence' = 0
        /\ page' = IF page < MaxPage THEN page + 1 ELSE page
        /\ UNCHANGED <<owners, nextMessage, clock, script, requests, hidden, drawn, due>>
    BY <1>7 DEF Disable
  <2>2. page' \in 0..MaxPage /\ sequence' \in Nat
    BY <1>3, <2>1, FeedbackNumbers
  <2>3. messagesOn' \in BOOLEAN
    BY <2>1, Zenon
  <2>4. ASSUME NEW o \in Senders
        PROVE  message'[o] \in Messages /\ TrueMessage(message'[o]) /\ (Stands(message'[o]) => Stands(message[o]))
    <3>1. PICK m \in Messages : m = message[o]
      BY <1>1
    <3>2. TrueMessage(m)
      BY <1>1, <3>1
    <3>3. PICK n : n = [m EXCEPT !.status = "cancelled"]
      OBVIOUS
    <3>4. n \in Messages /\ n.ticket = m.ticket /\ n.deadline = m.deadline /\ n.status = "cancelled"
      BY <3>3 DEF Messages, Statuses
    <3>5. ~Stands(n) /\ n.status \notin {"presented", "expired presented"}
      BY <3>4 DEF Stands
    <3>6. TrueMessage(n)
      BY <3>2, <3>4, <3>5, StaysTrue
    <3>7. message'[o] = IF Stands(m) THEN n ELSE m
      BY <2>1, <3>1, <3>3
    <3> QED BY <3>1, <3>2, <3>4, <3>5, <3>6, <3>7
  <2>5. message' \in [Senders -> Messages]
    BY <2>1, <2>4
  <2>6. \A o \in owners' : Stands(message'[o]) => Stands(message[o])
    BY <1>3, <2>1, <2>4
  <2> QED BY <2>1, <2>2, <2>3, <2>4, <2>5, <2>6, EntriesKeep
<1> QED BY <1>4, <1>5, <1>6, <1>7

\* A document that changes to a true one.
LEMMA PageKeeps ==
  ASSUME FeedbackIInv, NEW p \in Pages, NEW d \in Documents, TrueDocument(d),
         script' = [script EXCEPT ![p] = d],
         UNCHANGED <<store, clock, requests, hidden, drawn, due>>
  PROVE  FeedbackIInv'
<1>1. FeedbackTypeOK /\ RoomOK /\ MessagesOK /\ PagesOK
  BY FeedbackShapes
<1>2. UNCHANGED <<owners, message, offered, page, sequence, nextMessage, messagesOn>>
  BY DEF store
<1>3. script \in [Pages -> Documents]
  BY <1>1 DEF FeedbackTypeOK
<1>4. script' \in [Pages -> Documents] /\ \A q \in Pages : script'[q] = IF q = p THEN d ELSE script[q]
  BY <1>3
<1>5. FeedbackTypeOK'
  BY <1>1, <1>2, <1>4 DEF FeedbackTypeOK
<1>6. RoomOK' /\ MessagesOK'
  BY <1>1, <1>2 DEF RoomOK, Standing, Stands, MessagesOK, TrueMessage
<1>7. PagesOK'
  BY <1>1, <1>2, <1>4 DEF PagesOK, TrueDocument
<1> QED BY <1>5, <1>6, <1>7 DEF FeedbackIInv

LEMMA PageStepsKeep ==
  ASSUME FeedbackIInv, NEW p \in Pages, ReceiveMessages(p) \/ GiveUpPoll(p) \/ Unload(p)
  PROVE  FeedbackIInv'
<1>1. PICK d \in Documents : d = script[p] /\ TrueDocument(d)
  BY FeedbackShapes
<1>2. FeedbackTypeOK
  BY FeedbackShapes
<1>3. CASE ReceiveMessages(p)
  <2>1. PICK r : r = Rendered(d)
    OBVIOUS
  <2>2. r \in Documents /\ TrueDocument(r)
    BY <1>1, <1>2, <2>1, RenderedTrue
  <2>3. PICK n : n = Settled(r)
    OBVIOUS
  <2>4. n \in Documents /\ TrueDocument(n)
    BY <1>2, <2>2, <2>3, SettledTrue
  <2>5. script' = [script EXCEPT ![p] = n] /\ UNCHANGED <<store, clock, requests, hidden, drawn, due>>
    BY <1>1, <1>3, <2>1, <2>3 DEF ReceiveMessages
  <2> QED BY <2>4, <2>5, PageKeeps
<1>4. CASE GiveUpPoll(p)
  <2>1. PICK n : n = Failed(d)
    OBVIOUS
  <2>2. n \in Documents /\ TrueDocument(n)
    BY <1>1, <1>2, <2>1, FailedTrue
  <2>3. script' = [script EXCEPT ![p] = n] /\ UNCHANGED <<store, clock, requests, hidden, drawn, due>>
    BY <1>1, <1>4, <2>1 DEF GiveUpPoll
  <2> QED BY <2>2, <2>3, PageKeeps
<1>5. CASE Unload(p)
  <2>1. PICK n : n = Stopped(d)
    OBVIOUS
  <2>2. n \in Documents /\ TrueDocument(n)
    BY <1>1, <1>2, <2>1, StoppedTrue
  <2>3. script' = [script EXCEPT ![p] = n] /\ UNCHANGED <<store, clock, requests, hidden, drawn, due>>
    BY <1>1, <1>5, <2>1 DEF Unload
  <2> QED BY <2>2, <2>3, PageKeeps
<1> QED BY <1>3, <1>4, <1>5

\* A request carries the acknowledgements of its document.
LEMMA PollKeeps ==
  ASSUME FeedbackIInv, NEW p \in Pages, PollMessages(p)
  PROVE  FeedbackIInv'
<1>1. PICK e \in Documents : e = script[p] /\ TrueDocument(e)
  BY FeedbackShapes
<1>2. FeedbackTypeOK /\ RoomOK /\ MessagesOK /\ PagesOK /\ clock \in Nat
  BY FeedbackShapes
<1>3. PICK d : d = Pruned(e)
  OBVIOUS
<1>4. d \in Documents /\ TrueDocument(d)
  BY <1>1, <1>3, PrunedTrue
<1>5. UNCHANGED <<store, clock, hidden, drawn, due>>
  BY DEF PollMessages
<1>6. CASE script' = [script EXCEPT ![p] = d] /\ UNCHANGED requests
  BY <1>4, <1>5, <1>6, PageKeeps
<1>7. CASE /\ d.asked = 0
           /\ script' = [script EXCEPT ![p] = [d EXCEPT !.polls = d.polls + 1, !.asked = d.polls + 1, !.sentAt = clock]]
           /\ requests' = requests \union {[page |-> p, sequence |-> d.polls + 1, acks |-> d.acks]}
  <2>1. PICK n : n = [d EXCEPT !.polls = d.polls + 1, !.asked = d.polls + 1, !.sentAt = clock]
    OBVIOUS
  <2>2. clock \in 0..MaxClock /\ clock <= clock
    BY <1>2 DEF FeedbackTypeOK
  <2>3. d.polls + 1 \in Nat /\ d.polls + 1 # 0
    BY <1>4 DEF Documents
  <2>4. n \in Documents /\ n.acks = d.acks /\ n.sentAt = clock /\ n.items = d.items /\ n.answer = d.answer
        /\ n.asked = d.polls + 1
    BY <1>4, <2>1, <2>2, <2>3 DEF Documents
  <2>5. d.answer = {}
    BY <1>4, <1>7 DEF TrueDocument
  <2>6. TrueDocument(n)
    BY <1>4, <2>2, <2>3, <2>4, <2>5 DEF TrueDocument
  <2>7. UNCHANGED <<owners, message, offered, page, sequence, nextMessage, messagesOn>>
    BY <1>5 DEF store
  <2>8. script' \in [Pages -> Documents] /\ \A q \in Pages : script'[q] = IF q = p THEN n ELSE script[q]
    BY <1>2, <1>7, <2>1, <2>4 DEF FeedbackTypeOK
  <2>9. PICK r : r = [page |-> p, sequence |-> d.polls + 1, acks |-> d.acks]
    OBVIOUS
  <2>10. r \in [page : Pages, sequence : Nat, acks : SUBSET (1..MaxMessages)] /\ r.acks \subseteq drawn /\ r.sequence # 0
    BY <1>4, <2>3, <2>9 DEF Documents, TrueDocument
  <2>11. requests' = requests \union {r}
    BY <1>7, <2>9
  <2>12. FeedbackTypeOK'
    BY <1>2, <1>5, <2>7, <2>8, <2>10, <2>11 DEF FeedbackTypeOK
  <2>13. RoomOK' /\ MessagesOK'
    BY <1>2, <1>5, <2>7 DEF RoomOK, Standing, Stands, MessagesOK, TrueMessage
  <2>14. PagesOK'
    <3>1. \A q \in Pages : TrueDocument(script[q])'
      BY <1>2, <1>5, <2>6, <2>7, <2>8 DEF PagesOK, TrueDocument
    <3>2. \A q \in requests' : q.acks \subseteq drawn' /\ q.sequence # 0
      BY <1>2, <1>5, <2>10, <2>11 DEF PagesOK
    <3> QED BY <3>1, <3>2 DEF PagesOK
  <2> QED BY <2>12, <2>13, <2>14 DEF FeedbackIInv
<1>8. \/ script' = [script EXCEPT ![p] = d] /\ UNCHANGED requests
      \/ /\ d.asked = 0
         /\ script' = [script EXCEPT ![p] = [d EXCEPT !.polls = d.polls + 1, !.asked = d.polls + 1, !.sentAt = clock]]
         /\ requests' = requests \union {[page |-> p, sequence |-> d.polls + 1, acks |-> d.acks]}
  BY <1>1, <1>3 DEF PollMessages
<1> QED BY <1>6, <1>7, <1>8

\* What a frame shows is drawn, and only that is acknowledged.
LEMMA FrameKeeps ==
  ASSUME FeedbackIInv, NEW p \in Pages, Frame(p)
  PROVE  FeedbackIInv'
<1>1. PICK e \in Documents : e = script[p] /\ TrueDocument(e)
  BY FeedbackShapes
<1>2. FeedbackTypeOK /\ RoomOK /\ MessagesOK /\ PagesOK /\ clock \in Nat /\ nextMessage \in Nat
  BY FeedbackShapes
<1>3. UNCHANGED <<store, clock, requests, hidden, due>>
  BY DEF Frame
<1>4. CASE script' = [script EXCEPT ![p].framed = FALSE] /\ UNCHANGED drawn
  <2>1. PICK n : n = [e EXCEPT !.framed = FALSE]
    OBVIOUS
  <2>2. n \in Documents /\ n.acks = e.acks /\ n.sentAt = e.sentAt /\ n.items = e.items /\ n.answer = e.answer
        /\ n.asked = e.asked
    BY <1>1, <2>1 DEF Documents
  <2>3. TrueDocument(n)
    BY <1>1, <2>2 DEF TrueDocument
  <2>4. script' = [script EXCEPT ![p] = n]
    BY <1>1, <1>4, <2>1
  <2> QED BY <1>3, <1>4, <2>2, <2>3, <2>4, PageKeeps
<1>5. CASE /\ script' = [script EXCEPT ![p] = [Pruned(script[p]) EXCEPT !.framed = FALSE, !.acks = Shown(p)]]
           /\ drawn' = drawn \union Shown(p)
  <2>1. PICK d : d = Pruned(e)
    OBVIOUS
  <2>2. d \in Documents /\ TrueDocument(d)
    BY <1>1, <2>1, PrunedTrue
  <2>3. PICK S : S = Shown(p)
    OBVIOUS
  <2>4. S \subseteq 1..MaxMessages
    BY <1>1, <2>1, <2>2, <2>3 DEF Shown, Documents, Nodes
  <2>5. PICK n : n = [d EXCEPT !.framed = FALSE, !.acks = S]
    OBVIOUS
  <2>6. n \in Documents /\ n.acks = S /\ n.sentAt = d.sentAt /\ n.items = d.items /\ n.answer = d.answer
        /\ n.asked = d.asked
    BY <2>2, <2>4, <2>5 DEF Documents
  <2>7. drawn' = drawn \union S /\ script' = [script EXCEPT ![p] = n]
    BY <1>1, <1>5, <2>1, <2>3, <2>5
  <2>8. UNCHANGED <<owners, message, offered, page, sequence, nextMessage, messagesOn>>
    BY <1>3 DEF store
  <2>9. script' \in [Pages -> Documents] /\ \A q \in Pages : script'[q] = IF q = p THEN n ELSE script[q]
    BY <1>2, <2>6, <2>7 DEF FeedbackTypeOK
  <2>10. FeedbackTypeOK'
    BY <1>2, <1>3, <2>4, <2>7, <2>8, <2>9 DEF FeedbackTypeOK
  <2>11. RoomOK' /\ MessagesOK'
    BY <1>2, <1>3, <2>7, <2>8 DEF RoomOK, Standing, Stands, MessagesOK, TrueMessage
  <2>12. TrueDocument(n)'
    BY <1>3, <2>2, <2>6, <2>7, <2>8 DEF TrueDocument
  <2>13. \A q \in Pages : TrueDocument(script[q])'
    BY <1>2, <1>3, <2>7, <2>8, <2>9, <2>12 DEF PagesOK, TrueDocument
  <2>14. PagesOK'
    BY <1>2, <1>3, <2>7, <2>13 DEF PagesOK
  <2> QED BY <2>10, <2>11, <2>14 DEF FeedbackIInv
<1> QED BY <1>4, <1>5 DEF Frame
-----------------------------------------------------------------------------
LEMMA OpenKeeps ==
  ASSUME FeedbackIInv, OpenPage
  PROVE  FeedbackIInv'
<1>1. FeedbackTypeOK /\ RoomOK /\ MessagesOK /\ PagesOK /\ clock \in Nat
  BY FeedbackShapes
<1>2. /\ page < MaxPage /\ page' = page + 1 /\ offered' = {} /\ sequence' = 0
      /\ script' = [script EXCEPT ![page + 1] = [Off EXCEPT !.runs = TRUE]]
      /\ UNCHANGED <<owners, message, nextMessage, messagesOn, clock, requests, hidden, drawn, due>>
  BY DEF OpenPage
<1>3. PICK n : n = [Off EXCEPT !.runs = TRUE]
  OBVIOUS
<1>4. n \in Documents /\ n.acks = {} /\ n.sentAt = 0 /\ n.items = {} /\ n.answer = {}
  BY <1>3, OffShape DEF Documents
<1>5. TrueDocument(n)
  BY <1>1, <1>4 DEF TrueDocument
<1>6. page' \in 0..MaxPage /\ page + 1 \in Pages
  BY <1>1, <1>2, FeedbackNumbers DEF FeedbackTypeOK, Pages
<1>7. /\ script' \in [Pages -> Documents]
      /\ \A q \in Pages : script'[q] = IF q = page + 1 THEN n ELSE script[q]
  BY <1>1, <1>2, <1>3, <1>4, <1>6 DEF FeedbackTypeOK
<1>8. FeedbackTypeOK'
  BY <1>1, <1>2, <1>6, <1>7 DEF FeedbackTypeOK
<1>9. RoomOK'
  BY <1>1, <1>2, FS_EmptySet, FeedbackNumbers DEF RoomOK, Standing, Stands
<1>10. MessagesOK'
  BY <1>1, <1>2 DEF MessagesOK, TrueMessage, Stands
<1>11. PagesOK'
  BY <1>1, <1>2, <1>5, <1>7 DEF PagesOK, TrueDocument
<1> QED BY <1>8, <1>9, <1>10, <1>11 DEF FeedbackIInv

\* Time passes, the document is hidden, or nothing happens.
LEMMA ClockKeeps ==
  ASSUME FeedbackIInv,
         \/ Toggle
         \/ MessageTick
         \/ UNCHANGED messageVars
  PROVE  FeedbackIInv'
<1>1. FeedbackTypeOK /\ RoomOK /\ MessagesOK /\ PagesOK /\ clock \in Nat /\ nextMessage \in Nat
  BY FeedbackShapes
<1>2. /\ UNCHANGED <<owners, message, offered, page, sequence, nextMessage, messagesOn, script, requests, drawn, due>>
      /\ clock' \in 0..MaxClock /\ clock <= clock' /\ clock' \in Nat
  BY <1>1, FeedbackNumbers DEF Toggle, MessageTick, messageVars, store, FeedbackTypeOK
<1>3. hidden' \in BOOLEAN
  BY <1>1 DEF Toggle, MessageTick, messageVars, FeedbackTypeOK
<1>4. FeedbackTypeOK'
  BY <1>1, <1>2, <1>3 DEF FeedbackTypeOK
<1>5. RoomOK' /\ MessagesOK'
  BY <1>1, <1>2 DEF RoomOK, Standing, Stands, MessagesOK, TrueMessage
<1>6. \A p \in Pages : TrueDocument(script[p])'
  <2>1. TAKE p \in Pages
  <2>2. PICK d \in Documents : d = script[p] /\ TrueDocument(d)
    BY FeedbackShapes
  <2>3. TrueDocument(d)'
    BY <1>1, <1>2, <2>2, DocumentStays
  <2> QED BY <1>2, <2>2, <2>3
<1>7. PagesOK'
  BY <1>1, <1>2, <1>6 DEF PagesOK
<1> QED BY <1>4, <1>5, <1>7 DEF FeedbackIInv


\* A message that starts has a ticket of its own, and the room for it was there.
LEMMA ShowKeeps ==
  ASSUME FeedbackIInv, NEW o \in Senders, NEW duration \in Durations, ShowMessage(o, duration)
  PROVE  FeedbackIInv'
<1>1. FeedbackTypeOK /\ RoomOK /\ MessagesOK /\ PagesOK /\ clock \in Nat /\ nextMessage \in Nat
  BY FeedbackShapes
<1>2. /\ UpToDate \in [Senders -> Messages]
      /\ \A q \in Senders :
           /\ TrueMessage(UpToDate[q]) /\ UpToDate[q].ticket = message[q].ticket
           /\ Stands(UpToDate[q]) => UpToDate[q] = message[q]
  BY <1>1, UpToDateShape
<1>3. UNCHANGED <<owners, offered, page, sequence, messagesOn, clock, script, requests, hidden, drawn>>
  BY DEF ShowMessage
<1>4. CASE message' = UpToDate /\ UNCHANGED <<nextMessage, due>>
  <2>1. page \in 0..MaxPage /\ sequence \in Nat /\ messagesOn \in BOOLEAN /\ owners \subseteq Senders
    BY <1>1 DEF FeedbackTypeOK
  <2> QED BY <1>2, <1>3, <1>4, <2>1, EntriesKeep
<1>5. CASE /\ ~Stands(UpToDate[o]) /\ ~Full(UpToDate)
           /\ nextMessage <= MaxMessages /\ clock <= MaxClock - duration
           /\ message' = [UpToDate EXCEPT ![o] = [ticket |-> nextMessage, status |-> "queued",
                                              deadline |-> clock + duration, lastShow |-> clock]]
           /\ nextMessage' = nextMessage + 1
           /\ due' = [due EXCEPT ![nextMessage] = clock + duration]
  <2>1. PICK end : end = clock + duration
    OBVIOUS
  <2>2. end \in 0..MaxClock /\ clock \in 0..MaxClock
    <3>1. duration \in Nat
      BY FeedbackNumbers
    <3> QED BY <1>1, <1>5, <2>1, <3>1, FeedbackNumbers DEF FeedbackTypeOK
  <2>3. nextMessage \in 1..MaxMessages /\ nextMessage' \in 1..(MaxMessages + 1)
    BY <1>1, <1>5, FeedbackNumbers DEF FeedbackTypeOK
  <2>4. PICK n : n = [ticket |-> nextMessage, status |-> "queued", deadline |-> end, lastShow |-> clock]
    OBVIOUS
  <2>5. n \in Messages /\ n.ticket = nextMessage /\ n.deadline = end /\ n.status = "queued"
    BY <2>2, <2>3, <2>4, FeedbackNumbers DEF Messages, Statuses
  <2>6. message' = [UpToDate EXCEPT ![o] = n] /\ due' = [due EXCEPT ![nextMessage] = end]
    BY <1>5, <2>1, <2>4
  <2>7. /\ message' \in [Senders -> Messages]
        /\ \A q \in Senders : message'[q] = IF q = o THEN n ELSE UpToDate[q]
    BY <1>2, <2>5, <2>6
  <2>8. /\ due' \in [1..MaxMessages -> 0..MaxClock] /\ due'[nextMessage] = end
        /\ \A t \in 1..MaxMessages : t < nextMessage => due'[t] = due[t]
    BY <1>1, <2>2, <2>3, <2>6 DEF FeedbackTypeOK
  <2>9. FeedbackTypeOK'
    BY <1>1, <1>3, <2>3, <2>7, <2>8 DEF FeedbackTypeOK
  <2>10. nextMessage' \in Nat /\ nextMessage <= nextMessage' /\ nextMessage < nextMessage' /\ nextMessage # 0
    BY <1>1, <1>5, <2>3
  <2>11. drawn \subseteq drawn' /\ clock' \in Nat /\ clock <= clock'
    BY <1>1, <1>3
  <2>12. TrueMessage(n)'
    BY <2>5, <2>8, <2>10 DEF TrueMessage
  <2>13. MessagesOK'
    <3>1. ASSUME NEW q \in Senders PROVE TrueMessage(message[q])'
      <4>1. PICK m \in Messages : m = UpToDate[q]
        BY <1>2
      <4>2. TrueMessage(m)
        BY <1>2, <4>1
      <4>3. TrueMessage(m)'
        BY <1>1, <2>8, <2>10, <2>11, <4>2, MessageStays
      <4>4. message'[q] = n \/ message'[q] = m
        BY <2>7, <4>1
      <4> QED BY <2>12, <4>3, <4>4
    <3> QED BY <3>1 DEF MessagesOK
  <2>14. PagesOK'
    <3>1. ASSUME NEW p \in Pages PROVE TrueDocument(script[p])'
      <4>1. PICK d \in Documents : d = script[p] /\ TrueDocument(d)
        BY FeedbackShapes
      <4>2. TrueDocument(d)'
        BY <1>1, <2>8, <2>10, <2>11, <4>1, DocumentStays
      <4> QED BY <1>3, <4>1, <4>2
    <3> QED BY <1>1, <1>3, <3>1 DEF PagesOK
  <2>15. RoomOK'
    <3>1. PICK S : S = {q \in owners : Stands(UpToDate[q])}
      OBVIOUS
    <3>2. S \subseteq Standing
      BY <1>1, <1>2, <3>1 DEF Standing, FeedbackTypeOK
    <3>3. IsFiniteSet(S) /\ Cardinality(S) \in Nat
      BY <1>1, <3>2, FewerFit
    <3>4. Cardinality(S) < Capacity
      BY <1>5, <3>1, <3>3, FeedbackNumbers DEF Full
    <3>5. o \in owners /\ owners \subseteq Senders
      BY <1>1 DEF ShowMessage, FeedbackTypeOK
    <3>6. PICK T : T = {q \in owners' : Stands(message'[q])}
      OBVIOUS
    <3>7. T \subseteq S \union {o}
      BY <1>3, <2>7, <3>1, <3>5, <3>6
    <3>8. IsFiniteSet(S \union {o}) /\ Cardinality(S \union {o}) \in Nat /\ Cardinality(S \union {o}) <= Capacity
      <4>1. IsFiniteSet(S \union {o}) /\ (Cardinality(S \union {o}) = Cardinality(S) \/ Cardinality(S \union {o}) = Cardinality(S) + 1)
        BY <3>3, FS_AddElement
      <4> QED BY <3>3, <3>4, <4>1, FeedbackNumbers
    <3>9. Cardinality(T) <= Cardinality(S \union {o}) /\ IsFiniteSet(T)
      BY <3>7, <3>8, FS_Subset
    <3>10. Cardinality(T) <= Capacity
      <4>1. Cardinality(T) \in Nat
        BY <3>9, FS_CardinalityType
      <4> QED BY <3>8, <3>9, <4>1, FeedbackNumbers
    <3>11. Standing' = T
      BY <3>6 DEF Standing, Stands
    <3> QED BY <1>1, <1>3, <3>10, <3>11 DEF RoomOK
  <2> QED BY <2>9, <2>13, <2>14, <2>15 DEF FeedbackIInv
<1> QED BY <1>4, <1>5 DEF ShowMessage

\* The answer tells of each message how long it still has.
LEMMA ServeKeeps ==
  ASSUME FeedbackIInv, NEW request \in requests, Serve(request)
  PROVE  FeedbackIInv'
<1>1. FeedbackTypeOK /\ RoomOK /\ MessagesOK /\ PagesOK /\ clock \in Nat /\ nextMessage \in Nat
  BY FeedbackShapes
<1>2. /\ UpToDate \in [Senders -> Messages]
      /\ \A o \in Senders :
           /\ TrueMessage(UpToDate[o]) /\ UpToDate[o].ticket = message[o].ticket
           /\ Stands(UpToDate[o]) => UpToDate[o] = message[o]
           /\ Stands(UpToDate[o]) /\ o \in owners => clock < UpToDate[o].deadline
  BY <1>1, UpToDateShape
<1>3. UNCHANGED <<owners, page, nextMessage, messagesOn, clock, hidden, drawn, due>> /\ requests' = requests \ {request}
  BY DEF Serve
<1>4. PICK p \in Pages : p = request.page
  BY <1>1 DEF FeedbackTypeOK
<1>5. request.sequence \in Nat /\ request.sequence # 0 /\ request.acks \subseteq drawn
  BY <1>1 DEF FeedbackTypeOK, PagesOK
<1>6. owners \subseteq Senders
  BY <1>1 DEF FeedbackTypeOK
<1> DEFINE after == [o \in Senders |-> IF o \in owners THEN Acknowledged(UpToDate[o], request.acks) ELSE UpToDate[o]]
           listed == {o \in owners : Stands(after[o])}
           answer == {[ticket |-> after[o].ticket, left |-> after[o].deadline - clock] : o \in listed}
           waits == script[p].runs /\ script[p].asked = request.sequence /\ ~script[p].answered
<1>7. PICK d \in Documents : d = script[p] /\ TrueDocument(d)
  BY FeedbackShapes
<1>8. ASSUME NEW o \in Senders
      PROVE  /\ after[o] \in Messages /\ TrueMessage(after[o])
             /\ Stands(after[o]) => Stands(message[o])
             /\ Stands(after[o]) /\ o \in owners => clock < after[o].deadline
  <2>1. PICK m \in Messages : m = UpToDate[o]
    BY <1>2
  <2>2. PICK n : n = Acknowledged(m, request.acks)
    OBVIOUS
  <2>3. /\ n \in Messages /\ n.ticket = m.ticket /\ n.deadline = m.deadline
        /\ Stands(n) <=> Stands(m)
        /\ n.status \in {"presented", "expired presented"} =>
             m.status \in {"presented", "expired presented"} \/ m.ticket \in request.acks
    BY <2>2, AcknowledgedShape
  <2>4. TrueMessage(m)
    BY <1>2, <2>1
  <2>5. TrueMessage(n)
    BY <1>5, <2>3, <2>4, StaysTrue
  <2>6. after[o] = IF o \in owners THEN n ELSE m
    BY <2>1, <2>2
  <2>7. (Stands(m) => Stands(message[o])) /\ (Stands(m) /\ o \in owners => clock < m.deadline)
    BY <1>2, <2>1
  <2> HIDE DEF after
  <2> QED BY <2>1, <2>3, <2>4, <2>5, <2>6, <2>7
<1>9. after \in [Senders -> Messages]
  BY <1>8
<1>10. listed \subseteq Standing
  BY <1>6, <1>8 DEF Standing
<1> HIDE DEF after
<1>11. ASSUME NEW m \in answer
       PROVE  m \in Listings /\ m.ticket < nextMessage /\ clock + m.left <= due[m.ticket]
  <2>1. PICK o \in listed : m = [ticket |-> after[o].ticket, left |-> after[o].deadline - clock]
    OBVIOUS
  <2>2. PICK n \in Messages : n = after[o]
    BY <1>6, <1>9
  <2>3. TrueMessage(n) /\ Stands(n) /\ clock < n.deadline
    BY <1>6, <1>8, <2>1, <2>2
  <2>4. n.ticket \in 0..MaxMessages /\ n.deadline \in Nat
    BY <2>2, FeedbackNumbers DEF Messages
  <2>5. n.ticket # 0 /\ n.ticket < nextMessage /\ due[n.ticket] = n.deadline
    BY <2>3 DEF TrueMessage
  <2>6. m.ticket = n.ticket /\ m.left = n.deadline - clock
    BY <2>1, <2>2
  <2>7. m.left \in Nat /\ clock + m.left = n.deadline
    BY <1>1, <2>3, <2>4, <2>6
  <2>8. m.ticket \in 1..MaxMessages
    BY <2>4, <2>5, <2>6, FeedbackNumbers
  <2>9. m \in Listings
    BY <2>1, <2>7, <2>8 DEF Listings
  <2> QED BY <2>4, <2>5, <2>6, <2>7, <2>9
<1>12. offered' = offered \/ offered' = {after[o].ticket : o \in listed}
  BY <1>4 DEF Serve, after
<1>13. /\ message' = message \/ message' = after
       /\ sequence' = sequence \/ sequence' = request.sequence
  BY <1>4 DEF Serve, after
<1>14. PICK full : full = [d EXCEPT !.answered = TRUE, !.answer = answer]
  OBVIOUS
<1>15. \/ script' = script
       \/ waits /\ script' = [script EXCEPT ![p] = full]
       \/ script' = [script EXCEPT ![p] = Stopped(d)]
  BY <1>4, <1>7, <1>14 DEF Serve, after
<1> HIDE DEF answer
<1>16. waits => full \in Documents /\ TrueDocument(full)
  <2> SUFFICES ASSUME waits PROVE full \in Documents /\ TrueDocument(full)
    OBVIOUS
  <2>1. answer \subseteq Listings
    BY <1>11
  <2>2. full \in Documents /\ full.acks = d.acks /\ full.sentAt = d.sentAt /\ full.items = d.items
        /\ full.asked = d.asked /\ full.answer = answer
    BY <1>14, <2>1 DEF Documents
  <2>3. d.asked # 0
    BY <1>5, <1>7
  <2>4. \A m \in answer : m.ticket < nextMessage /\ d.sentAt + m.left <= due[m.ticket]
    <3>1. TAKE m \in answer
    <3>2. m \in Listings /\ m.ticket < nextMessage /\ clock + m.left <= due[m.ticket]
      BY <1>11
    <3>3. m.left \in Nat /\ m.ticket \in 1..MaxMessages /\ d.sentAt \in Nat /\ d.sentAt <= clock
      BY <1>7, <3>2, FeedbackNumbers DEF Listings, Documents, TrueDocument
    <3>4. due[m.ticket] \in Nat
      BY <1>1, <3>3, FeedbackNumbers DEF FeedbackTypeOK
    <3> QED BY <1>1, <3>2, <3>3, <3>4
  <2>5. TrueDocument(full)
    BY <1>7, <2>2, <2>3, <2>4 DEF TrueDocument
  <2> QED BY <2>2, <2>5
<1>17. Stopped(d) \in Documents /\ TrueDocument(Stopped(d))
  BY <1>1, StoppedTrue
<1>18. script' \in [Pages -> Documents] /\ \A q \in Pages : TrueDocument(script'[q])
  <2>1. script \in [Pages -> Documents] /\ \A q \in Pages : TrueDocument(script[q])
    BY <1>1 DEF FeedbackTypeOK, PagesOK
  <2>2. CASE script' = script
    BY <2>1, <2>2
  <2>3. CASE waits /\ script' = [script EXCEPT ![p] = full]
    <3>1. \A q \in Pages : script'[q] = IF q = p THEN full ELSE script[q]
      BY <2>1, <2>3
    <3> QED BY <1>16, <2>1, <2>3, <3>1
  <2>4. CASE script' = [script EXCEPT ![p] = Stopped(d)]
    <3>1. \A q \in Pages : script'[q] = IF q = p THEN Stopped(d) ELSE script[q]
      BY <2>1, <2>4
    <3> QED BY <1>17, <2>1, <2>4, <3>1
  <2> QED BY <1>15, <2>2, <2>3, <2>4
<1>19. message' \in [Senders -> Messages] /\ \A o \in Senders : TrueMessage(message'[o])
  BY <1>1, <1>8, <1>9, <1>13 DEF MessagesOK, FeedbackTypeOK
<1>20. offered' \subseteq 0..MaxMessages
  <2>1. \A o \in listed : after[o].ticket \in 0..MaxMessages
    BY <1>6, <1>9 DEF Messages
  <2>2. {after[o].ticket : o \in listed} \subseteq 0..MaxMessages
    BY <2>1
  <2>3. offered \subseteq 0..MaxMessages
    BY <1>1 DEF FeedbackTypeOK
  <2> QED BY ONLY <1>12, <2>2, <2>3
<1>21. sequence' \in Nat
  BY <1>1, <1>5, <1>13 DEF FeedbackTypeOK
<1>22. FeedbackTypeOK'
  BY <1>1, <1>3, <1>18, <1>19, <1>20, <1>21 DEF FeedbackTypeOK
<1>23. MessagesOK'
  BY <1>3, <1>19 DEF MessagesOK, TrueMessage, Stands
<1>24. PagesOK'
  BY <1>1, <1>3, <1>18 DEF PagesOK, TrueDocument
<1>25. RoomOK'
  <2>1. Cardinality(offered') <= Capacity
    <3>1. Cardinality({after[o].ticket : o \in listed}) <= Capacity
      BY <1>1, <1>10, TicketsFit
    <3>2. Cardinality(offered) <= Capacity
      BY <1>1 DEF RoomOK
    <3> QED BY ONLY <1>12, <3>1, <3>2
  <2>2. PICK S : S = {o \in owners' : Stands(message'[o])}
    OBVIOUS
  <2>3. S \subseteq Standing
    BY <1>3, <1>6, <1>8, <1>13, <2>2 DEF Standing
  <2>4. Cardinality(S) <= Capacity
    BY <1>1, <2>3, FewerFit
  <2>5. Standing' = S
    BY <2>2 DEF Standing, Stands
  <2> QED BY <2>1, <2>4, <2>5 DEF RoomOK
<1> QED BY <1>22, <1>23, <1>24, <1>25 DEF FeedbackIInv

LEMMA FeedbackStarts == FeedbackInit => FeedbackIInv
<1> SUFFICES ASSUME FeedbackInit PROVE FeedbackIInv
  OBVIOUS
<1>0. /\ owners = Senders /\ message = [o \in Senders |-> Blank]
      /\ offered = {} /\ page = 0 /\ sequence = 0 /\ nextMessage = 1 /\ messagesOn = TRUE
      /\ clock = 0 /\ script = [p \in Pages |-> Off] /\ requests = {} /\ hidden = FALSE
      /\ drawn = {} /\ due = [t \in 1..MaxMessages |-> 0]
  BY DEF FeedbackInit
<1>1. FeedbackTypeOK
  <2>1. message \in [Senders -> Messages] /\ script \in [Pages -> Documents]
    BY <1>0, OffShape, BlankShape
  <2>2. due \in [1..MaxMessages -> 0..MaxClock] /\ 0 \in 0..MaxClock /\ 0 \in 0..MaxPage
        /\ 1 \in 1..(MaxMessages + 1)
    BY <1>0, FeedbackNumbers
  <2>3. messagesOn \in BOOLEAN /\ hidden \in BOOLEAN
    BY <1>0, Zenon
  <2> QED BY <1>0, <2>1, <2>2, <2>3 DEF FeedbackTypeOK
<1>2. RoomOK
  <2>1. Standing = {}
    BY BlankShape DEF Standing, FeedbackInit
  <2> QED BY <2>1, FS_EmptySet, FeedbackNumbers DEF RoomOK, FeedbackInit
<1>3. MessagesOK
  <2>1. TrueMessage(Blank)
    BY <1>0, BlankShape DEF TrueMessage
  <2> QED BY <1>0, <2>1 DEF MessagesOK
<1>4. PagesOK
  BY OffShape DEF FeedbackInit, PagesOK, TrueDocument
<1> QED BY <1>1, <1>2, <1>3, <1>4 DEF FeedbackIInv

LEMMA FeedbackKeeps == FeedbackIInv /\ [FeedbackNext]_messageVars => FeedbackIInv'
<1> SUFFICES ASSUME FeedbackIInv, [FeedbackNext]_messageVars PROVE FeedbackIInv'
  OBVIOUS
<1>1. CASE UNCHANGED messageVars \/ Toggle \/ MessageTick
  BY <1>1, ClockKeeps
<1>2. CASE OpenPage
  BY <1>2, OpenKeeps
<1>3. CASE \/ \E o \in Senders : \/ Status(o) \/ DetachSender(o)
                              \/ \E how \in {"dismissed", "cancelled"} : End(o, how)
           \/ Disable
  BY <1>3, EntryStepsKeep
<1>4. ASSUME NEW o \in Senders, NEW d \in Durations, ShowMessage(o, d) PROVE FeedbackIInv'
  BY <1>4, ShowKeeps
<1>5. ASSUME NEW request \in requests, Serve(request) PROVE FeedbackIInv'
  BY <1>5, ServeKeeps
<1>6. ASSUME NEW p \in Pages, PollMessages(p) PROVE FeedbackIInv'
  BY <1>6, PollKeeps
<1>7. ASSUME NEW p \in Pages, Frame(p) PROVE FeedbackIInv'
  BY <1>7, FrameKeeps
<1>8. ASSUME NEW p \in Pages, ReceiveMessages(p) \/ GiveUpPoll(p) \/ Unload(p) PROVE FeedbackIInv'
  BY <1>8, PageStepsKeep
<1> QED BY <1>1, <1>2, <1>3, <1>4, <1>5, <1>6, <1>7, <1>8 DEF FeedbackNext

LEMMA FeedbackTrue == FeedbackIInv => FeedbackIsTrue
<1> SUFFICES ASSUME FeedbackIInv PROVE FeedbackIsTrue
  OBVIOUS
<1>1. FeedbackTypeOK /\ RoomOK /\ MessagesOK /\ PagesOK
  BY FeedbackShapes
<1>2. PresentedWasDrawn
  BY <1>1 DEF PresentedWasDrawn, MessagesOK, TrueMessage, FeedbackTypeOK
<1>3. NeverProlonged
  BY <1>1 DEF NeverProlonged, PagesOK, TrueDocument, RoomOK
<1> QED BY <1>2, <1>3 DEF FeedbackIsTrue

\* An entry that has ended is only replaced by one with another ticket.
MessageEndStays(o) ==
  message'[o].ticket = message[o].ticket /\ message[o].ticket # 0 /\ ~Stands(message[o])
  => \/ message'[o].status = message[o].status
     \/ message[o].status = "expired" /\ message'[o].status = "expired presented"

LEMMA MessageEnds ==
  ASSUME FeedbackIInv, FeedbackNext, NEW o \in owners \intersect owners'
  PROVE  MessageEndStays(o)
<1>1. FeedbackTypeOK /\ MessagesOK /\ clock \in Nat /\ nextMessage \in Nat /\ o \in Senders
  BY FeedbackShapes DEF FeedbackTypeOK
<1>2. PICK m \in Messages : m = message[o] /\ TrueMessage(m)
  BY <1>1, FeedbackShapes
<1> SUFFICES ASSUME m.ticket # 0, ~Stands(m), message'[o].ticket = m.ticket
             PROVE  message'[o].status = m.status \/ (m.status = "expired" /\ message'[o].status = "expired presented")
  BY <1>2 DEF MessageEndStays
<1>3. UpToDate \in [Senders -> Messages] /\ UpToDate[o] = m
  BY <1>1, <1>2, UpToDateShape
<1>4. message \in [Senders -> Messages]
  BY <1>1 DEF FeedbackTypeOK
<1>5. CASE message'[o] = m
  BY <1>5
<1>6. CASE message' = UpToDate \/ message' = message
  BY <1>2, <1>3, <1>5, <1>6
<1>7. ASSUME NEW q \in Senders, DetachSender(q) PROVE message'[o] = m
  BY <1>2, <1>4, <1>7 DEF DetachSender
<1>8. ASSUME NEW q \in Senders, NEW d \in Durations, ShowMessage(q, d) PROVE message'[o] = m
  <2>1. CASE message' = UpToDate
    BY <1>3, <2>1
  <2>2. CASE message' = [UpToDate EXCEPT ![q] = [ticket |-> nextMessage, status |-> "queued",
                                              deadline |-> clock + d, lastShow |-> clock]]
    <3>1. q = o => message'[o].ticket = nextMessage
      BY <1>3, <2>2
    <3>2. m.ticket < nextMessage /\ m.ticket \in Nat
      <4>1. m.ticket \in Nat
        BY FeedbackNumbers DEF Messages
      <4>2. m.ticket < nextMessage
        BY <1>2 DEF TrueMessage
      <4> QED BY <4>1, <4>2
    <3>3. q # o
      BY <1>1, <3>1, <3>2
    <3> QED BY <1>3, <2>2, <3>3
  <2> QED BY <1>8, <2>1, <2>2 DEF ShowMessage
<1>9. ASSUME NEW q \in Senders, NEW how \in {"dismissed", "cancelled"}, End(q, how) PROVE message'[o] = m
  <2>1. CASE q = o
    BY <1>3, <1>9, <2>1 DEF End
  <2>2. CASE q # o
    BY <1>3, <1>9, <2>2 DEF End
  <2> QED BY <2>1, <2>2
<1>10. ASSUME Disable PROVE message'[o] = m
  BY <1>1, <1>2, <1>10 DEF Disable
<1>11. ASSUME NEW request \in requests, Serve(request)
       PROVE  message'[o].status = m.status \/ (m.status = "expired" /\ message'[o].status = "expired presented")
  <2>1. PICK n : n = Acknowledged(m, request.acks)
    OBVIOUS
  <2>2. n.status = m.status \/ (m.status = "expired" /\ n.status = "expired presented")
    BY <2>1, AcknowledgedShape
  <2>3. \/ message' = message
        \/ message' = [q \in Senders |-> IF q \in owners THEN Acknowledged(UpToDate[q], request.acks) ELSE UpToDate[q]]
    BY <1>11 DEF Serve
  <2>4. message'[o] = m \/ message'[o] = n
    BY <1>1, <1>2, <1>3, <2>1, <2>3
  <2> QED BY <2>2, <2>4
<1>12. \/ message' = UpToDate \/ message' = message
       \/ Disable
       \/ \E q \in Senders : \/ DetachSender(q)
                             \/ \E d \in Durations : ShowMessage(q, d)
                             \/ \E how \in {"dismissed", "cancelled"} : End(q, how)
       \/ \E request \in requests : Serve(request)
  BY DEF FeedbackNext, Status, OpenPage, Toggle, MessageTick, store, PollMessages, ReceiveMessages, Frame, GiveUpPoll, Unload
<1> QED BY <1>5, <1>6, <1>7, <1>8, <1>9, <1>10, <1>11, <1>12

\* Whatever is late, lost or replaced, a receipt says presented only of what a frame drew,
\* no page keeps a message beyond its deadline, and a message that has ended stays so
\* (poll, show and dismiss of mod_feedback.cpp, and native_ui_feedback.html).
THEOREM MessagesTrue == FeedbackSpec => [][FeedbackIsTrue']_messageVars /\ EndedStaysEnded
<1>1. FeedbackInit => FeedbackIInv
  BY FeedbackStarts
<1>2. FeedbackIInv /\ [FeedbackNext]_messageVars => FeedbackIInv'
  BY FeedbackKeeps
<1>3. FeedbackIInv => FeedbackIsTrue
  BY FeedbackTrue
<1>4. FeedbackIInv /\ [FeedbackNext]_messageVars =>
        [\A o \in owners \intersect owners' :
           message'[o].ticket = message[o].ticket /\ message[o].ticket # 0 /\ ~Stands(message[o])
           => \/ message'[o].status = message[o].status
              \/ message[o].status = "expired" /\ message'[o].status = "expired presented"]_messageVars
  BY MessageEnds DEF MessageEndStays
<1> QED BY <1>1, <1>2, <1>3, <1>4, PTL DEF FeedbackSpec, EndedStaysEnded
-----------------------------------------------------------------------------
(* The tutorials: Tutorials.                                               *)

\* No two requests have the same ticket, and one without a ticket was never made.
TicketsOK ==
  /\ \A o \in Askers :
       /\ tutorial[o].ticket < nextTutorial
       /\ tutorial[o].ticket = 0 => tutorial[o].status \in {"none", "absent"} /\ ~tutorial[o].claimed
  /\ \A o, p \in Askers : tutorial[o].ticket = tutorial[p].ticket /\ tutorial[o].ticket # 0 => o = p

Given(e) == e.claimed /\ Ongoing(e)

\* The presenter of hints holds what was given out of its kinds; after a fault, what failed.
SessionOK ==
  /\ session.ticket < nextTutorial
  /\ \A o \in Askers :
       /\ Given(tutorial[o]) /\ tutorial[o].kind \in Dynamic => tutorial[o].ticket = session.ticket
       /\ tutorial[o].ticket = session.ticket /\ session.ticket # 0 =>
            /\ tutorial[o].kind \in Dynamic /\ tutorial[o].claimed
            /\ Ongoing(tutorial[o]) \/ (poisoned /\ tutorial[o].status = "failed")
  /\ session.ticket # 0 /\ ~poisoned => \E o \in Askers : tutorial[o].ticket = session.ticket

\* Its callback, and what it lent to the game.
HintOK ==
  /\ poisoned => hintAt = "idle"
  /\ hintAt # "idle" => session.ticket # 0
  /\ hintUi.ticket \in {0, session.ticket}
  /\ hintAt = "taken" => hintUi.ticket = 0

\* The same of the presenter of panels.
LiveOK ==
  /\ live.ticket < nextTutorial
  /\ \A o \in Askers :
       /\ Given(tutorial[o]) /\ tutorial[o].kind = "panel" => tutorial[o].ticket = live.ticket
       /\ tutorial[o].ticket = live.ticket /\ live.ticket # 0 => tutorial[o].kind = "panel" /\ Given(tutorial[o])
  /\ live.ticket # 0 => \E o \in Askers : tutorial[o].ticket = live.ticket

\* The game shows its own panels, or the one that was opened and is held.
Ours(key) == key = Foreign \/ (live.opened /\ live.ticket # 0 /\ key = live.ticket)
PanelOK ==
  /\ panelAt \in {"taken", "looked"} => live.ticket # 0
  /\ panelAt = "taken" => ~live.opened
  /\ panelUi.active \/ panelUi.visible => Ours(panelUi.key)
  /\ panelUi.pending = "open" => Ours(panelUi.wanted)

TutorialsIInv == TutorialsTypeOK /\ TicketsOK /\ SessionOK /\ HintOK /\ LiveOK /\ PanelOK
-----------------------------------------------------------------------------
(* What a step does to one request.                                        *)

LEMMA TutorialNumbers == MaxTutorials \in Nat /\ MaxContext \in Nat /\ Total \in Nat /\ Foreign = MaxTutorials + 1
  BY TutorialsAssumption DEF Foreign

LEMMA AbsentShape ==
  /\ Absent \in Requests /\ Unasked \in Requests
  /\ Absent.ticket = 0 /\ Absent.status = "absent" /\ ~Absent.claimed /\ ~Given(Absent) /\ Absent.kind = "hint"
  /\ Unasked.ticket = 0 /\ Unasked.status = "none" /\ ~Unasked.claimed /\ ~Given(Unasked) /\ Unasked.kind = "hint"
<1>1. /\ Unasked.ticket = 0 /\ Unasked.status = "none" /\ Unasked.claimed = FALSE /\ Unasked.kind = "hint"
      /\ Unasked \in Requests
  BY TutorialNumbers DEF Unasked, Requests, Kinds, Dynamic
<1>2. /\ Absent.ticket = 0 /\ Absent.status = "absent" /\ Absent.claimed = FALSE /\ Absent.kind = "hint"
      /\ Absent \in Requests
  BY <1>1 DEF Absent, Requests
<1> QED BY <1>1, <1>2 DEF Given

\* e is erased, or stays what it is; if it has ended nothing changes, and if it is
\* being cancelled it can only end.
Declines(e, f) ==
  /\ f \in Requests /\ (Given(f) => Given(e))
  /\ \/ f = Absent
     \/ /\ f.ticket = e.ticket /\ f.kind = e.kind /\ f.claimed = e.claimed
        /\ ~Ongoing(e) => f.status = e.status
        /\ e.status = "cancelling" => f.status \notin {"queued", "presented"}

LEMMA SameDeclines == ASSUME NEW e \in Requests PROVE Declines(e, e)
  BY DEF Declines, Ongoing

LEMMA CancelledDeclines ==
  ASSUME NEW e \in Requests
  PROVE  LET f == Cancelled(e) IN
         /\ f \in Requests /\ f.ticket = e.ticket /\ f.kind = e.kind /\ f.claimed = e.claimed
         /\ Given(e) <=> Given(f)
         /\ ~Ongoing(e) => f.status = e.status
         /\ e.status = "cancelling" => f.status \notin {"queued", "presented"}
         /\ Declines(e, f)
<1>1. CASE Ongoing(e)
  <2>1. PICK s : s = IF e.claimed THEN "cancelling" ELSE "cancelled"
    OBVIOUS
  <2>2. Cancelled(e) = [e EXCEPT !.status = s]
    BY <1>1, <2>1 DEF Cancelled
  <2>3. PICK f : f = Cancelled(e)
    OBVIOUS
  <2>4. f \in Requests /\ f.ticket = e.ticket /\ f.kind = e.kind /\ f.claimed = e.claimed /\ f.status = s
    BY <2>1, <2>2, <2>3 DEF Requests
  <2>5. (Given(f) <=> Given(e)) /\ s \notin {"queued", "presented"}
    BY <1>1, <2>1, <2>4 DEF Given, Ongoing
  <2> QED BY <1>1, <2>3, <2>4, <2>5 DEF Declines
<1>2. CASE ~Ongoing(e)
  BY <1>2, SameDeclines DEF Cancelled, Ongoing
<1> QED BY <1>1, <1>2

LEMMA LeavesDeclines ==
  ASSUME NEW e \in Requests
  PROVE  Declines(e, Leaves(e)) /\ (Given(e) => Given(Leaves(e)))
<1>1. PICK c : c = Cancelled(e)
  OBVIOUS
<1>2. /\ c \in Requests /\ c.ticket = e.ticket /\ c.kind = e.kind /\ c.claimed = e.claimed
      /\ Given(e) <=> Given(c)
      /\ ~Ongoing(e) => c.status = e.status
      /\ e.status = "cancelling" => c.status \notin {"queued", "presented"}
  BY <1>1, CancelledDeclines
<1>3. PICK d : d = [c EXCEPT !.detached = TRUE]
  OBVIOUS
<1>4. d \in Requests /\ d.ticket = c.ticket /\ d.kind = c.kind /\ d.claimed = c.claimed /\ d.status = c.status
  BY <1>2, <1>3 DEF Requests
<1>5. (Given(d) <=> Given(e)) /\ Declines(e, d)
  BY <1>2, <1>4 DEF Declines, Given, Ongoing
<1>6. Leaves(e) = d \/ (Leaves(e) = Absent /\ ~Given(e))
  <2>1. Leaves(e) = IF d.detached /\ ~Ongoing(d) THEN Absent ELSE d
    BY <1>1, <1>3 DEF Leaves, Erased
  <2>2. ~Ongoing(d) => ~Given(e)
    BY <1>5 DEF Given
  <2> QED BY <2>1, <2>2
<1>7. Declines(e, Absent)
  BY AbsentShape DEF Declines
<1> QED BY <1>5, <1>6, <1>7

Ends == {"cancelled", "dismissed", "failed"}

LEMMA ReportedEnds ==
  ASSUME NEW e \in Requests, NEW ticket, NEW status \in Ends
  PROVE  LET f == Reported(e, ticket, status) IN
         /\ Declines(e, f)
         /\ e.ticket # ticket => f = e
         /\ e.ticket = ticket => ~Given(f)
         /\ e.ticket = ticket /\ Given(e) => f = Absent \/ f.status = status
<1>1. CASE e.ticket = ticket /\ Given(e)
  <2>1. PICK d : d = [e EXCEPT !.status = status]
    OBVIOUS
  <2>2. d \in Requests /\ d.ticket = e.ticket /\ d.kind = e.kind /\ d.claimed = e.claimed /\ d.status = status
    BY <2>1 DEF Requests, Ends
  <2>3. Reported(e, ticket, status) = Erased(d)
    BY <1>1, <2>1 DEF Reported, Given, Ends
  <2>4. Erased(d) = d \/ Erased(d) = Absent
    BY DEF Erased
  <2>5. ~Ongoing(d)
    BY <2>2 DEF Ongoing, Ends
  <2> QED BY <1>1, <2>2, <2>3, <2>4, <2>5, AbsentShape DEF Declines, Given, Ends
<1>2. CASE ~(e.ticket = ticket /\ Given(e))
  <2>1. Reported(e, ticket, status) = e
    BY <1>2 DEF Reported, Given
  <2> QED BY <1>2, <2>1, SameDeclines
<1> QED BY <1>1, <1>2

LEMMA ReportedPresented ==
  ASSUME NEW e \in Requests, NEW ticket
  PROVE  LET f == Reported(e, ticket, "presented") IN Declines(e, f) /\ (Given(e) => Given(f))
<1>1. CASE e.ticket = ticket /\ Given(e) /\ e.status # "cancelling"
  <2>1. PICK d : d = [e EXCEPT !.status = "presented"]
    OBVIOUS
  <2>2. /\ d \in Requests /\ d.ticket = e.ticket /\ d.kind = e.kind /\ d.claimed = e.claimed
        /\ d.status = "presented" /\ Ongoing(d)
    BY <2>1 DEF Requests, Ongoing
  <2>3. Reported(e, ticket, "presented") = d
    BY <1>1, <2>1, <2>2 DEF Reported, Given, Erased
  <2> QED BY <1>1, <2>2, <2>3 DEF Declines, Given
<1>2. CASE ~(e.ticket = ticket /\ Given(e) /\ e.status # "cancelling")
  <2>1. Reported(e, ticket, "presented") = e
    BY <1>2 DEF Reported, Given
  <2> QED BY <2>1, SameDeclines
<1> QED BY <1>1, <1>2
-----------------------------------------------------------------------------
(* What a step does to all of them.                                        *)

Declining == tutorial' \in [Askers -> Requests] /\ \A o \in Askers : Declines(tutorial[o], tutorial'[o])
Keeping(kinds) == \A o \in Askers : Given(tutorial[o]) /\ tutorial[o].kind \in kinds => Given(tutorial'[o])
Ending(kinds)  == \A o \in Askers : Given(tutorial'[o]) => tutorial[o].kind \notin kinds

LEMMA SameGently ==
  ASSUME tutorial \in [Askers -> Requests], tutorial' = tutorial
  PROVE  Declining /\ Keeping(Kinds)
  BY SameDeclines DEF Declining, Keeping

LEMMA TicketsKeep ==
  ASSUME TutorialsTypeOK, TicketsOK, Declining, nextTutorial' = nextTutorial
  PROVE  TicketsOK'
<1>1. nextTutorial \in Nat /\ 0 < nextTutorial
  BY TutorialNumbers DEF TutorialsTypeOK
<1>2. ASSUME NEW o \in Askers
      PROVE  /\ tutorial'[o].ticket < nextTutorial
             /\ tutorial'[o].ticket = 0 => tutorial'[o].status \in {"none", "absent"} /\ ~tutorial'[o].claimed
             /\ tutorial'[o].ticket # 0 => tutorial'[o].ticket = tutorial[o].ticket
  <2>1. PICK e \in Requests : e = tutorial[o]
    BY DEF TutorialsTypeOK
  <2>2. PICK f : f = tutorial'[o] /\ Declines(e, f)
    BY <2>1 DEF Declining
  <2>3. CASE f = Absent
    BY <1>1, <2>2, <2>3, AbsentShape
  <2>4. CASE f # Absent
    <3>1. f.ticket = e.ticket /\ f.claimed = e.claimed /\ (~Ongoing(e) => f.status = e.status)
      BY <2>2, <2>4 DEF Declines
    <3>2. e.ticket < nextTutorial /\ (e.ticket = 0 => e.status \in {"none", "absent"} /\ ~e.claimed)
      BY <2>1 DEF TicketsOK
    <3> QED BY <2>1, <2>2, <3>1, <3>2 DEF Ongoing
  <2> QED BY <2>3, <2>4
<1>3. \A o, p \in Askers : tutorial'[o].ticket = tutorial'[p].ticket /\ tutorial'[o].ticket # 0 => o = p
  BY <1>2 DEF TicketsOK
<1> QED BY <1>2, <1>3 DEF TicketsOK

LEMMA SessionKeeps ==
  ASSUME TutorialsTypeOK, SessionOK, Declining, Keeping(Dynamic),
         nextTutorial' = nextTutorial, session'.ticket = session.ticket, poisoned' = poisoned
  PROVE  SessionOK'
<1>1. ASSUME NEW o \in Askers
      PROVE  /\ Given(tutorial'[o]) /\ tutorial'[o].kind \in Dynamic => tutorial'[o].ticket = session.ticket
             /\ tutorial'[o].ticket = session.ticket /\ session.ticket # 0 =>
                  /\ tutorial'[o].kind \in Dynamic /\ tutorial'[o].claimed
                  /\ Ongoing(tutorial'[o]) \/ (poisoned /\ tutorial'[o].status = "failed")
             /\ tutorial[o].ticket = session.ticket /\ session.ticket # 0 /\ ~poisoned =>
                  tutorial'[o].ticket = session.ticket
  <2>1. PICK e \in Requests : e = tutorial[o]
    BY DEF TutorialsTypeOK
  <2>2. PICK f : f = tutorial'[o] /\ Declines(e, f)
    BY <2>1 DEF Declining
  <2>3. Given(e) /\ e.kind \in Dynamic => Given(f)
    BY <2>1, <2>2 DEF Keeping
  <2>4. /\ Given(e) /\ e.kind \in Dynamic => e.ticket = session.ticket
        /\ e.ticket = session.ticket /\ session.ticket # 0 =>
             /\ e.kind \in Dynamic /\ e.claimed
             /\ Ongoing(e) \/ (poisoned /\ e.status = "failed")
    BY <2>1 DEF SessionOK
  <2>5. CASE f = Absent
    BY <2>1, <2>2, <2>3, <2>4, <2>5, AbsentShape DEF Given
  <2>6. CASE f # Absent
    <3>1. f.ticket = e.ticket /\ f.kind = e.kind /\ f.claimed = e.claimed /\ (~Ongoing(e) => f.status = e.status)
          /\ (Given(f) => Given(e))
      BY <2>2, <2>6 DEF Declines
    <3> QED BY <2>1, <2>2, <2>3, <2>4, <3>1 DEF Given
  <2> QED BY <2>5, <2>6
<1>2. session.ticket # 0 /\ ~poisoned => \E o \in Askers : tutorial'[o].ticket = session.ticket
  BY <1>1 DEF SessionOK
<1>3. session'.ticket < nextTutorial'
  BY DEF SessionOK
<1>4. \A o \in Askers : (Given(tutorial[o]) <=> tutorial[o].claimed /\ Ongoing(tutorial[o]))'
  BY DEF Given
<1> QED BY <1>1, <1>2, <1>3 DEF SessionOK, Given, Ongoing

LEMMA SessionEnds ==
  ASSUME TutorialsTypeOK, Declining, Ending(Dynamic), nextTutorial' = nextTutorial, session'.ticket = 0
  PROVE  SessionOK'
<1>1. ASSUME NEW o \in Askers, Given(tutorial'[o]) PROVE tutorial'[o].kind \notin Dynamic
  <2>1. PICK e \in Requests : e = tutorial[o]
    BY DEF TutorialsTypeOK
  <2>2. PICK f : f = tutorial'[o] /\ Declines(e, f)
    BY <2>1 DEF Declining
  <2> QED BY <1>1, <2>1, <2>2, AbsentShape DEF Ending, Declines
<1>2. session'.ticket < nextTutorial'
  BY TutorialNumbers DEF TutorialsTypeOK
<1> QED BY <1>1, <1>2 DEF SessionOK, Given, Ongoing

LEMMA LiveKeeps ==
  ASSUME TutorialsTypeOK, LiveOK, Declining, Keeping({"panel"}),
         nextTutorial' = nextTutorial, live'.ticket = live.ticket
  PROVE  LiveOK'
<1>1. ASSUME NEW o \in Askers
      PROVE  /\ Given(tutorial'[o]) /\ tutorial'[o].kind = "panel" => tutorial'[o].ticket = live.ticket
             /\ tutorial'[o].ticket = live.ticket /\ live.ticket # 0 => tutorial'[o].kind = "panel" /\ Given(tutorial'[o])
             /\ tutorial[o].ticket = live.ticket /\ live.ticket # 0 => tutorial'[o].ticket = live.ticket
  <2>1. PICK e \in Requests : e = tutorial[o]
    BY DEF TutorialsTypeOK
  <2>2. PICK f : f = tutorial'[o] /\ Declines(e, f)
    BY <2>1 DEF Declining
  <2>3. Given(e) /\ e.kind = "panel" => Given(f)
    BY <2>1, <2>2 DEF Keeping
  <2>4. /\ Given(e) /\ e.kind = "panel" => e.ticket = live.ticket
        /\ e.ticket = live.ticket /\ live.ticket # 0 => e.kind = "panel" /\ Given(e)
    BY <2>1 DEF LiveOK
  <2>5. CASE f = Absent
    BY <2>1, <2>2, <2>3, <2>4, <2>5, AbsentShape
  <2>6. CASE f # Absent
    <3>1. f.ticket = e.ticket /\ f.kind = e.kind /\ (Given(f) => Given(e))
      BY <2>2, <2>6 DEF Declines
    <3> QED BY <2>1, <2>2, <2>3, <2>4, <3>1
  <2> QED BY <2>5, <2>6
<1>2. live.ticket # 0 => \E o \in Askers : tutorial'[o].ticket = live.ticket
  BY <1>1 DEF LiveOK
<1>3. live'.ticket < nextTutorial'
  BY DEF LiveOK
<1> QED BY <1>1, <1>2, <1>3 DEF LiveOK, Given, Ongoing

LEMMA LiveEnds ==
  ASSUME TutorialsTypeOK, Declining, Ending({"panel"}), nextTutorial' = nextTutorial, live'.ticket = 0
  PROVE  LiveOK'
<1>1. ASSUME NEW o \in Askers, Given(tutorial'[o]) PROVE tutorial'[o].kind # "panel"
  <2>1. PICK e \in Requests : e = tutorial[o]
    BY DEF TutorialsTypeOK
  <2>2. PICK f : f = tutorial'[o] /\ Declines(e, f)
    BY <2>1 DEF Declining
  <2> QED BY <1>1, <2>1, <2>2, AbsentShape DEF Ending, Declines
<1>2. live'.ticket < nextTutorial'
  BY TutorialNumbers DEF TutorialsTypeOK
<1> QED BY <1>1, <1>2 DEF LiveOK, Given, Ongoing
-----------------------------------------------------------------------------
(* Every step of the tutorials keeps the invariant.                        *)

LEMMA TutorialShapes ==
  ASSUME TutorialsIInv
  PROVE  /\ TutorialsTypeOK /\ TicketsOK /\ SessionOK /\ HintOK /\ LiveOK /\ PanelOK
         /\ tutorial \in [Askers -> Requests] /\ session \in Sessions /\ live \in Panels
         /\ nextTutorial \in Nat /\ session.ticket \in Nat /\ live.ticket \in Nat
         /\ \A o \in Askers : tutorial[o] \in Requests /\ tutorial[o].ticket \in Nat
<1>1. TutorialsTypeOK /\ TicketsOK /\ SessionOK /\ HintOK /\ LiveOK /\ PanelOK
  BY DEF TutorialsIInv
<1>2. tutorial \in [Askers -> Requests] /\ session \in Sessions /\ live \in Panels /\ nextTutorial \in Nat
  BY <1>1, TutorialNumbers DEF TutorialsTypeOK
<1>3. session.ticket \in Nat /\ live.ticket \in Nat
  BY <1>2, TutorialNumbers DEF Sessions, Panels
<1>4. \A e \in Requests : e.ticket \in Nat
  BY TutorialNumbers DEF Requests
<1> QED BY <1>1, <1>2, <1>3, <1>4

LEMMA GentlyKeeps ==
  ASSUME TutorialsIInv, Declining, Keeping(Kinds), nextTutorial' = nextTutorial,
         session'.ticket = session.ticket, live'.ticket = live.ticket, poisoned' = poisoned
  PROVE  TicketsOK' /\ SessionOK' /\ LiveOK'
<1>1. Keeping(Dynamic) /\ Keeping({"panel"})
  BY DEF Keeping, Kinds
<1> QED BY <1>1, TutorialShapes, TicketsKeep, SessionKeeps, LiveKeeps

LEMMA WithoutGently ==
  ASSUME TutorialsIInv, NEW gone, tutorial' = WithoutKinds(gone, tutorial)
  PROVE  Declining /\ Keeping(Kinds)
<1>1. ASSUME NEW o \in Askers
      PROVE  Declines(tutorial[o], tutorial'[o]) /\ (Given(tutorial[o]) => Given(tutorial'[o]))
  <2>1. PICK e \in Requests : e = tutorial[o]
    BY TutorialShapes
  <2>2. PICK c : c = Cancelled(e)
    OBVIOUS
  <2>3. Declines(e, c) /\ (Given(e) => Given(c)) /\ Declines(e, e)
    BY <2>2, CancelledDeclines, SameDeclines
  <2>4. tutorial'[o] = c \/ tutorial'[o] = e
    BY <2>1, <2>2 DEF WithoutKinds
  <2> QED BY <2>1, <2>3, <2>4
<1>2. tutorial' \in [Askers -> Requests]
  BY <1>1 DEF WithoutKinds, Declines
<1> QED BY <1>1, <1>2 DEF Declining, Keeping

LEMMA PresentedGently ==
  ASSUME TutorialsIInv, NEW ticket, tutorial' = Report(ticket, "presented")
  PROVE  Declining /\ Keeping(Kinds)
<1>1. ASSUME NEW o \in Askers
      PROVE  Declines(tutorial[o], tutorial'[o]) /\ (Given(tutorial[o]) => Given(tutorial'[o]))
  <2>1. PICK e \in Requests : e = tutorial[o]
    BY TutorialShapes
  <2>2. PICK f : f = Reported(e, ticket, "presented")
    OBVIOUS
  <2>3. Declines(e, f) /\ (Given(e) => Given(f))
    BY <2>2, ReportedPresented
  <2>4. tutorial'[o] = f
    BY <2>1, <2>2 DEF Report
  <2> QED BY <2>1, <2>3, <2>4
<1>2. tutorial' \in [Askers -> Requests]
  BY <1>1 DEF Report, Declines
<1> QED BY <1>1, <1>2 DEF Declining, Keeping

\* The guests.
LEMMA AskerStepsKeep ==
  ASSUME TutorialsIInv, NEW o \in Askers, DismissTutorial(o) \/ DetachAsker(o)
  PROVE  TutorialsIInv' /\ Declining
<1>1. /\ TutorialsTypeOK /\ HintOK /\ PanelOK /\ tutorial \in [Askers -> Requests]
  BY TutorialShapes
<1>2. PICK e \in Requests : e = tutorial[o]
  BY <1>1
<1>3. PICK f : /\ Declines(e, f) /\ (Given(e) => Given(f)) /\ tutorial' = [tutorial EXCEPT ![o] = f]
  <2>1. CASE DismissTutorial(o)
    <3>1. tutorial' = [tutorial EXCEPT ![o] = Cancelled(e)]
      BY <1>2, <2>1 DEF DismissTutorial
    <3> QED BY <3>1, CancelledDeclines
  <2>2. CASE DetachAsker(o)
    <3>1. tutorial' = [tutorial EXCEPT ![o] = Leaves(e)]
      BY <1>2, <2>2 DEF DetachAsker
    <3> QED BY <3>1, LeavesDeclines
  <2> QED BY <2>1, <2>2
<1>4. \A p \in Askers : tutorial'[p] = IF p = o THEN f ELSE tutorial[p]
  BY <1>1, <1>3
<1>5. tutorial' \in [Askers -> Requests]
  BY <1>1, <1>3 DEF Declines
<1>6. Declining /\ Keeping(Kinds)
  BY <1>1, <1>2, <1>3, <1>4, <1>5, SameDeclines DEF Declining, Keeping
<1>7. UNCHANGED <<presenters, nextTutorial, session, hintAt, accepting, poisoned, hintUi,
                  live, panelAt, panelOn, faulted, panelUi, context>>
  BY DEF DismissTutorial, DetachAsker, hints, panels
<1>8. TicketsOK' /\ SessionOK' /\ LiveOK'
  BY <1>6, <1>7, GentlyKeeps
<1>9. TutorialsTypeOK'
  BY <1>1, <1>5, <1>7 DEF TutorialsTypeOK
<1>10. HintOK' /\ PanelOK'
  BY <1>1, <1>7 DEF HintOK, PanelOK, Ours
<1> QED BY <1>6, <1>8, <1>9, <1>10 DEF TutorialsIInv

LEMMA ShowTutorialKeeps ==
  ASSUME TutorialsIInv, NEW o \in Askers, NEW kind \in Kinds, ShowTutorial(o, kind)
  PROVE  TutorialsIInv' /\ tutorial'[o].ticket = nextTutorial
         /\ \A p \in Askers \ {o} : tutorial'[p] = tutorial[p]
<1>1. /\ TutorialsTypeOK /\ TicketsOK /\ SessionOK /\ HintOK /\ LiveOK /\ PanelOK
      /\ tutorial \in [Askers -> Requests] /\ nextTutorial \in Nat
      /\ session.ticket \in Nat /\ live.ticket \in Nat
      /\ \A p \in Askers : tutorial[p] \in Requests /\ tutorial[p].ticket \in Nat
  BY TutorialShapes
<1>2. /\ ~Ongoing(tutorial[o]) /\ nextTutorial <= MaxTutorials
      /\ tutorial' = [tutorial EXCEPT ![o] = [Unasked EXCEPT !.ticket = nextTutorial, !.kind = kind, !.status = "queued"]]
      /\ nextTutorial' = nextTutorial + 1
      /\ UNCHANGED <<presenters, session, hintAt, accepting, poisoned, hintUi,
                     live, panelAt, panelOn, faulted, panelUi, context>>
  BY DEF ShowTutorial, hints, panels
<1>3. PICK f : f = [Unasked EXCEPT !.ticket = nextTutorial, !.kind = kind, !.status = "queued"]
  OBVIOUS
<1>4. nextTutorial \in 1..MaxTutorials /\ nextTutorial' \in 1..(MaxTutorials + 1) /\ nextTutorial # 0
  BY <1>1, <1>2, TutorialNumbers DEF TutorialsTypeOK
<1>5. f \in Requests /\ f.ticket = nextTutorial /\ f.status = "queued" /\ f.claimed = FALSE
  <2>1. nextTutorial \in 0..MaxTutorials
    BY <1>4, TutorialNumbers
  <2>2. f = [ticket |-> nextTutorial, kind |-> kind, status |-> "queued", claimed |-> FALSE, detached |-> FALSE]
    BY <1>3 DEF Unasked
  <2> QED BY <2>1, <2>2 DEF Requests
<1>6. /\ tutorial' \in [Askers -> Requests]
      /\ \A p \in Askers : tutorial'[p] = IF p = o THEN f ELSE tutorial[p]
  BY <1>1, <1>2, <1>3, <1>5
<1>7. TutorialsTypeOK'
  BY <1>1, <1>2, <1>4, <1>6 DEF TutorialsTypeOK
<1>8. TicketsOK'
  <2>1. \A p \in Askers : tutorial[p].ticket < nextTutorial
    BY <1>1 DEF TicketsOK
  <2>2. \A p \in Askers : tutorial'[p].ticket < nextTutorial'
    BY <1>1, <1>2, <1>5, <1>6, <2>1
  <2>3. \A p \in Askers : tutorial'[p].ticket = 0 => tutorial'[p].status \in {"none", "absent"} /\ ~tutorial'[p].claimed
    BY <1>1, <1>4, <1>5, <1>6 DEF TicketsOK
  <2>4. \A p, q \in Askers : tutorial'[p].ticket = tutorial'[q].ticket /\ tutorial'[p].ticket # 0 => p = q
    <3>1. \A p \in Askers : tutorial[p].ticket # nextTutorial
      BY <1>1, <2>1
    <3>2. \A p, q \in Askers : tutorial[p].ticket = tutorial[q].ticket /\ tutorial[p].ticket # 0 => p = q
      BY <1>1 DEF TicketsOK
    <3> QED BY <1>5, <1>6, <3>1, <3>2
  <2> QED BY <2>2, <2>3, <2>4 DEF TicketsOK
<1>9. session.ticket < nextTutorial /\ live.ticket < nextTutorial
  BY <1>1 DEF SessionOK, LiveOK
<1>10. SessionOK'
  <2>1. session'.ticket < nextTutorial'
    BY <1>1, <1>2, <1>9
  <2>2. ~Given(f) /\ f.ticket # session.ticket
    BY <1>1, <1>5, <1>9 DEF Given
  <2>3. session.ticket # 0 /\ ~poisoned => \E p \in Askers : tutorial[p].ticket = session.ticket /\ p # o
    BY <1>1, <1>2 DEF SessionOK
  <2> QED BY <1>1, <1>2, <1>6, <2>1, <2>2, <2>3 DEF SessionOK, Given, Ongoing
<1>11. LiveOK'
  <2>1. live'.ticket < nextTutorial'
    BY <1>1, <1>2, <1>9
  <2>2. ~Given(f) /\ f.ticket # live.ticket
    BY <1>1, <1>5, <1>9 DEF Given
  <2>3. live.ticket # 0 => \E p \in Askers : tutorial[p].ticket = live.ticket /\ p # o
    BY <1>1, <1>2 DEF LiveOK, Given
  <2> QED BY <1>1, <1>2, <1>6, <2>1, <2>2, <2>3 DEF LiveOK, Given, Ongoing
<1>12. HintOK' /\ PanelOK'
  BY <1>1, <1>2 DEF HintOK, PanelOK, Ours
<1> QED BY <1>5, <1>6, <1>7, <1>8, <1>10, <1>11, <1>12 DEF TutorialsIInv


\* The presenter of hints.
LEMMA HintStaysKeep ==
  ASSUME TutorialsIInv, Declining, Keeping(Kinds), UNCHANGED <<nextTutorial, poisoned>>, UNCHANGED panels,
         presenters' \subseteq Kinds, session' \in Sessions, session'.ticket = session.ticket,
         hintAt' \in {"idle", "taken", "made", "looked"}, accepting' \in BOOLEAN,
         hintAt' # "idle" => hintAt # "idle" \/ (~poisoned /\ session.ticket # 0),
         hintUi' \in [phase : {"off", "shown", "fading"}, ticket : 0..MaxTutorials],
         hintUi'.ticket \in {0, session.ticket}, hintAt' = "taken" => hintUi'.ticket = 0
  PROVE  TutorialsIInv'
<1>1. TutorialsTypeOK /\ HintOK /\ PanelOK
  BY TutorialShapes
<1>2. UNCHANGED <<live, panelAt, panelOn, faulted, panelUi, context>>
  BY DEF panels
<1>3. TicketsOK' /\ SessionOK' /\ LiveOK'
  BY <1>2, GentlyKeeps
<1>4. TutorialsTypeOK'
  BY <1>1, <1>2 DEF TutorialsTypeOK, Declining
<1>5. HintOK'
  BY <1>1 DEF HintOK
<1>6. PanelOK'
  BY <1>1, <1>2 DEF PanelOK, Ours
<1> QED BY <1>3, <1>4, <1>5, <1>6 DEF TutorialsIInv

LEMMA ReportsHint ==
  ASSUME TutorialsIInv, session.ticket # 0, NEW status \in Ends, tutorial' = Report(session.ticket, status)
  PROVE  Declining /\ Keeping({"panel"}) /\ Ending(Dynamic)
<1>1. ASSUME NEW o \in Askers
      PROVE  /\ Declines(tutorial[o], tutorial'[o])
             /\ Given(tutorial[o]) /\ tutorial[o].kind = "panel" => Given(tutorial'[o])
             /\ Given(tutorial'[o]) => tutorial[o].kind \notin Dynamic
  <2>1. PICK e \in Requests : e = tutorial[o]
    BY TutorialShapes
  <2>2. PICK f : f = Reported(e, session.ticket, status)
    OBVIOUS
  <2>3. /\ Declines(e, f) /\ (e.ticket # session.ticket => f = e)
        /\ e.ticket = session.ticket => ~Given(f)
    BY <2>2, ReportedEnds
  <2>4. tutorial'[o] = f
    BY <2>1, <2>2 DEF Report
  <2>5. /\ Given(e) /\ e.kind \in Dynamic => e.ticket = session.ticket
        /\ e.ticket = session.ticket => e.kind \in Dynamic
    BY <2>1, TutorialShapes DEF SessionOK
  <2>6. "panel" \notin Dynamic
    BY DEF Dynamic
  <2>7. Given(f) => Given(e)
    BY <2>3 DEF Declines
  <2> QED BY <2>1, <2>3, <2>4, <2>5, <2>6, <2>7
<1>2. tutorial' \in [Askers -> Requests]
  BY <1>1 DEF Report, Declines
<1> QED BY <1>1, <1>2 DEF Declining, Keeping, Ending

LEMMA HintEndKeeps ==
  ASSUME TutorialsIInv, session.ticket # 0, NEW status \in Ends, tutorial' = Report(session.ticket, status),
         session' = NoSession, hintAt' = "idle", hintUi' \in {hintUi, Dark}, hintUi'.ticket = 0,
         UNCHANGED <<presenters, nextTutorial, accepting, poisoned>>, UNCHANGED panels
  PROVE  TutorialsIInv' /\ Declining
<1>1. TutorialsTypeOK /\ TicketsOK /\ LiveOK /\ HintOK /\ PanelOK
  BY TutorialShapes
<1>2. Declining /\ Keeping({"panel"}) /\ Ending(Dynamic)
  BY ReportsHint
<1>3. UNCHANGED <<live, panelAt, panelOn, faulted, panelUi, context>>
  BY DEF panels
<1>4. NoSession \in Sessions /\ NoSession.ticket = 0
  BY TutorialNumbers DEF NoSession, Sessions, Kinds, Dynamic
<1>5. Dark \in [phase : {"off", "shown", "fading"}, ticket : 0..MaxTutorials]
  BY TutorialNumbers DEF Dark
<1>6. TutorialsTypeOK'
  BY <1>1, <1>2, <1>3, <1>4, <1>5 DEF TutorialsTypeOK, Declining
<1>7. TicketsOK'
  BY <1>1, <1>2, TicketsKeep
<1>8. SessionOK'
  BY <1>1, <1>2, <1>4, SessionEnds
<1>9. LiveOK'
  BY <1>1, <1>2, <1>3, LiveKeeps
<1>10. HintOK'
  BY DEF HintOK
<1>11. PanelOK'
  BY <1>1, <1>3 DEF PanelOK, Ours
<1> QED BY <1>2, <1>6, <1>7, <1>8, <1>9, <1>10, <1>11 DEF TutorialsIInv

LEMMA HintStepsKeep ==
  ASSUME TutorialsIInv, HintMake \/ HintLook \/ HintBusy \/ HintDraw \/ HintInput \/ Elapse \/ StopHints \/ DisableHints
  PROVE  TutorialsIInv' /\ Declining
<1>1. /\ TutorialsTypeOK /\ HintOK /\ tutorial \in [Askers -> Requests] /\ session \in Sessions
      /\ session.ticket \in Nat
  BY TutorialShapes
<1>2. /\ presenters \subseteq Kinds /\ accepting \in BOOLEAN /\ hintAt \in {"idle", "taken", "made", "looked"}
      /\ hintUi \in [phase : {"off", "shown", "fading"}, ticket : 0..MaxTutorials]
  BY <1>1 DEF TutorialsTypeOK
<1>3. /\ hintAt # "idle" => session.ticket # 0
      /\ hintUi.ticket \in {0, session.ticket}
      /\ hintAt = "taken" => hintUi.ticket = 0
  BY <1>1 DEF HintOK
<1>4. /\ Dark \in [phase : {"off", "shown", "fading"}, ticket : 0..MaxTutorials] /\ Dark.ticket = 0
  BY TutorialNumbers DEF Dark
<1>5. CASE HintMake
  <2>1. CASE IsCancelled(session.ticket)
    <3>1. /\ tutorial' = Report(session.ticket, "cancelled") /\ session' = NoSession /\ hintAt' = "idle"
          /\ hintAt = "taken" /\ UNCHANGED <<presenters, nextTutorial, accepting, poisoned, hintUi>> /\ UNCHANGED panels
      BY <1>5, <2>1 DEF HintMake
    <3> QED BY <1>3, <3>1, HintEndKeeps DEF Ends
  <2>2. CASE ~IsCancelled(session.ticket)
    <3>1. /\ UNCHANGED <<tutorial, session, presenters, nextTutorial, accepting, poisoned, hintUi>> /\ UNCHANGED panels
          /\ hintAt = "taken" /\ hintAt' = "made"
      BY <1>5, <2>2 DEF HintMake
    <3>2. Declining /\ Keeping(Kinds)
      BY <1>1, <3>1, SameGently
    <3> QED BY <1>1, <1>2, <1>3, <3>1, <3>2, HintStaysKeep
  <2> QED BY <2>1, <2>2
<1>6. CASE HintLook
  <2>1. PICK c \in BOOLEAN : c = (session.cancelled \/ ~accepting \/ IsCancelled(session.ticket))
    OBVIOUS
  <2>2. PICK w \in BOOLEAN : w = (session.retiring \/ c \/ (session.presented /\ session.ripe))
    OBVIOUS
  <2>3. /\ session' = [session EXCEPT !.cancelled = c, !.retiring = w]
        /\ UNCHANGED <<tutorial, presenters, nextTutorial, accepting, poisoned, hintUi>> /\ UNCHANGED panels
        /\ hintAt' = "looked" /\ (hintAt = "made" \/ (~poisoned /\ session.ticket # 0))
    BY <1>6, <2>1, <2>2 DEF HintLook, requestTable
  <2>4. session' \in Sessions /\ session'.ticket = session.ticket
    BY <1>1, <2>3 DEF Sessions
  <2>5. Declining /\ Keeping(Kinds)
    BY <1>1, <2>3, SameGently
  <2> QED BY <1>1, <1>2, <1>3, <2>3, <2>4, <2>5, HintStaysKeep
<1>8. CASE HintBusy
  <2>1. hintAt = "looked" /\ hintAt' = "idle" /\ UNCHANGED <<presenters, nextTutorial, accepting, poisoned>> /\ UNCHANGED panels
    BY <1>8 DEF HintBusy
  <2>2. CASE session.retiring
    <3>1. PICK status \in Ends : status = IF session.cancelled THEN "cancelled" ELSE "dismissed"
      BY DEF Ends
    <3>2. tutorial' = Report(session.ticket, status) /\ session' = NoSession /\ hintUi' = Dark
      BY <1>8, <2>2, <3>1 DEF HintBusy, HintEnds
    <3> QED BY <1>3, <1>4, <2>1, <3>2, HintEndKeeps
  <2>3. CASE ~session.retiring
    <3>1. session' = [session EXCEPT !.suspended = TRUE] /\ hintUi' = Dark /\ UNCHANGED tutorial
      BY <1>8, <2>3 DEF HintBusy
    <3>2. session' \in Sessions /\ session'.ticket = session.ticket
      BY <1>1, <3>1 DEF Sessions
    <3>3. Declining /\ Keeping(Kinds)
      BY <1>1, <3>1, SameGently
    <3> QED BY <1>1, <1>2, <1>3, <1>4, <2>1, <3>1, <3>2, <3>3, HintStaysKeep
  <2> QED BY <2>2, <2>3
<1>9. CASE HintDraw
  <2>1. hintAt = "looked" /\ hintAt' = "idle" /\ UNCHANGED <<presenters, nextTutorial, accepting, poisoned>> /\ UNCHANGED panels
    BY <1>9 DEF HintDraw
  <2>2. PICK base : base = IF session.suspended THEN Dark ELSE hintUi
    OBVIOUS
  <2>3. /\ base \in [phase : {"off", "shown", "fading"}, ticket : 0..MaxTutorials]
        /\ base.ticket \in {0, session.ticket}
    BY <1>2, <1>3, <1>4, <2>2
  <2>4. PICK ui \in Drawn(base) :
          LET s == [session EXCEPT !.suspended = FALSE, !.presented = @ \/ ui.phase = "shown"] IN
          IF s.retiring /\ Retired(ui)
          THEN HintEnds(s)
          ELSE /\ session' = s /\ hintUi' = ui
               /\ tutorial' = IF s.presented /\ ~session.presented
                           THEN Report(s.ticket, "presented") ELSE tutorial
    BY <1>9, <2>2 DEF HintDraw
  <2>5. /\ ui \in [phase : {"off", "shown", "fading"}, ticket : 0..MaxTutorials]
        /\ ui.ticket \in {0, session.ticket}
    <3>1. session.ticket \in 0..MaxTutorials
      BY <1>1 DEF Sessions
    <3>2. ui \in {base, [base EXCEPT !.phase = "fading"], Dark, [phase |-> "shown", ticket |-> session.ticket]}
      BY <2>4 DEF Drawn
    <3> QED BY <1>4, <2>3, <3>1, <3>2
  <2>6. PICK shown \in BOOLEAN : shown = (session.presented \/ ui.phase = "shown")
    OBVIOUS
  <2>7. PICK s : s = [session EXCEPT !.suspended = FALSE, !.presented = shown]
    OBVIOUS
  <2>8. s \in Sessions /\ s.ticket = session.ticket /\ s.cancelled = session.cancelled
    BY <1>1, <2>7 DEF Sessions
  <2>9. \/ HintEnds(s)
        \/ session' = s /\ hintUi' = ui /\ tutorial' \in {Report(s.ticket, "presented"), tutorial}
    BY <2>4, <2>6, <2>7
  <2>10. CASE HintEnds(s)
    <3>1. PICK status \in Ends : status = IF s.cancelled THEN "cancelled" ELSE "dismissed"
      BY DEF Ends
    <3>2. tutorial' = Report(session.ticket, status) /\ session' = NoSession /\ hintUi' = Dark
      BY <2>8, <2>10, <3>1 DEF HintEnds
    <3> QED BY <1>3, <1>4, <2>1, <3>2, HintEndKeeps
  <2>11. CASE session' = s /\ hintUi' = ui /\ tutorial' \in {Report(s.ticket, "presented"), tutorial}
    <3>1. Declining /\ Keeping(Kinds)
      BY <1>1, <2>11, SameGently, PresentedGently
    <3> QED BY <1>2, <2>1, <2>5, <2>8, <2>11, <3>1, HintStaysKeep
  <2> QED BY <2>9, <2>10, <2>11
<1>10. CASE HintInput \/ Elapse
  <2>1. /\ \/ session' = [session EXCEPT !.retiring = TRUE] /\ hintAt = "idle"
           \/ session' = [session EXCEPT !.ripe = TRUE]
        /\ UNCHANGED <<tutorial, presenters, nextTutorial, hintAt, accepting, poisoned, hintUi>> /\ UNCHANGED panels
    BY <1>10 DEF HintInput, Elapse, requestTable
  <2>2. session' \in Sessions /\ session'.ticket = session.ticket
    BY <1>1, <2>1 DEF Sessions
  <2>3. Declining /\ Keeping(Kinds)
    BY <1>1, <2>1, SameGently
  <2> QED BY <1>1, <1>2, <1>3, <2>1, <2>2, <2>3, HintStaysKeep
<1>11. CASE StopHints
  <2>1. UNCHANGED <<tutorial, presenters, nextTutorial, session, hintAt, poisoned, hintUi>> /\ UNCHANGED panels
    BY <1>11 DEF StopHints, requestTable
  <2>2. accepting' \in BOOLEAN
    BY <1>11, Zenon DEF StopHints
  <2>3. Declining /\ Keeping(Kinds)
    BY <1>1, <2>1, SameGently
  <2> QED BY <1>1, <1>2, <1>3, <2>1, <2>2, <2>3, HintStaysKeep
<1>12. CASE DisableHints
  <2>1. /\ presenters' = presenters \ Dynamic /\ tutorial' = WithoutKinds(Dynamic, tutorial)
        /\ UNCHANGED <<nextTutorial, session, hintAt, accepting, poisoned, hintUi>> /\ UNCHANGED panels
    BY <1>12 DEF DisableHints, hints
  <2>2. Declining /\ Keeping(Kinds)
    BY <2>1, WithoutGently
  <2> QED BY <1>1, <1>2, <1>3, <2>1, <2>2, HintStaysKeep
<1> QED BY <1>5, <1>6, <1>8, <1>9, <1>10, <1>11, <1>12

\* What is taken has waited: it has a ticket, which nobody else has, and nothing else
\* of its kinds is given out.
LEMMA TakesShape ==
  ASSUME TutorialsIInv, NEW kinds, NEW o \in Askers, Takes(kinds, o)
  PROVE  /\ tutorial[o].kind \in kinds /\ tutorial[o].status = "queued" /\ ~Given(tutorial[o])
         /\ tutorial[o].ticket # 0 /\ tutorial[o].ticket < nextTutorial
         /\ \A p \in Askers : tutorial[p].ticket = tutorial[o].ticket => p = o
         /\ \A p \in Askers : tutorial[p].kind \in kinds => ~Given(tutorial[p])
         /\ LET f == [tutorial[o] EXCEPT !.claimed = TRUE] IN
            /\ f \in Requests /\ f.ticket = tutorial[o].ticket /\ f.kind = tutorial[o].kind
            /\ f.status = "queued" /\ Given(f) /\ f.claimed
<1>1. tutorial[o] \in Requests /\ TicketsOK
  BY TutorialShapes
<1>2. tutorial[o].kind \in kinds /\ tutorial[o].status = "queued" /\ ~tutorial[o].claimed
  BY DEF Takes
<1>3. tutorial[o].ticket # 0 /\ tutorial[o].ticket < nextTutorial
  BY <1>1, <1>2 DEF TicketsOK
<1>4. \A p \in Askers : tutorial[p].ticket = tutorial[o].ticket => p = o
  BY <1>1, <1>3 DEF TicketsOK
<1>5. \A p \in Askers : tutorial[p].kind \in kinds => ~Given(tutorial[p])
  BY DEF Takes, Given
<1>6. PICK f : f = [tutorial[o] EXCEPT !.claimed = TRUE]
  OBVIOUS
<1>7. f \in Requests /\ f.ticket = tutorial[o].ticket /\ f.kind = tutorial[o].kind /\ f.status = "queued" /\ f.claimed = TRUE
  BY <1>1, <1>2, <1>6 DEF Requests
<1>8. Given(f)
  BY <1>7 DEF Given, Ongoing
<1> QED BY <1>2, <1>3, <1>4, <1>5, <1>6, <1>7, <1>8 DEF Given

LEMMA HintTakeKeeps ==
  ASSUME TutorialsIInv, HintTake
  PROVE  TutorialsIInv' /\ \A p \in Askers : tutorial'[p].status = tutorial[p].status
<1>1. /\ TutorialsTypeOK /\ TicketsOK /\ SessionOK /\ HintOK /\ LiveOK /\ PanelOK
      /\ tutorial \in [Askers -> Requests] /\ live.ticket \in Nat
  BY TutorialShapes
<1>2. PICK o \in Askers : /\ Takes(Dynamic, o)
                         /\ tutorial' = [tutorial EXCEPT ![o].claimed = TRUE]
                         /\ session' = [NoSession EXCEPT !.ticket = tutorial[o].ticket, !.kind = tutorial[o].kind]
  BY DEF HintTake
<1>3. /\ hintAt = "idle" /\ ~poisoned /\ session.ticket = 0 /\ hintAt' = "taken"
      /\ UNCHANGED <<presenters, nextTutorial, accepting, poisoned, hintUi,
                     live, panelAt, panelOn, faulted, panelUi, context>>
  BY DEF HintTake, panels
<1>4. PICK f : f = [tutorial[o] EXCEPT !.claimed = TRUE]
  OBVIOUS
<1>5. /\ tutorial[o].kind \in Dynamic /\ tutorial[o].status = "queued" /\ ~Given(tutorial[o])
      /\ tutorial[o].ticket # 0 /\ tutorial[o].ticket < nextTutorial
      /\ \A p \in Askers : tutorial[p].ticket = tutorial[o].ticket => p = o
      /\ \A p \in Askers : tutorial[p].kind \in Dynamic => ~Given(tutorial[p])
      /\ f \in Requests /\ f.ticket = tutorial[o].ticket /\ f.kind = tutorial[o].kind
      /\ f.status = "queued" /\ Given(f) /\ f.claimed
  BY <1>2, <1>4, TakesShape
<1>6. /\ tutorial' \in [Askers -> Requests]
      /\ \A p \in Askers : tutorial'[p] = IF p = o THEN f ELSE tutorial[p]
  BY <1>1, <1>2, <1>4, <1>5
<1>7. session' \in Sessions /\ session'.ticket = f.ticket
  <2>1. f.ticket \in 0..MaxTutorials /\ f.kind \in Kinds
    BY <1>5 DEF Requests
  <2>2. session' = [ticket |-> f.ticket, kind |-> f.kind, presented |-> FALSE, retiring |-> FALSE,
                    cancelled |-> FALSE, suspended |-> FALSE, ripe |-> FALSE]
    BY <1>2, <1>5 DEF NoSession
  <2> QED BY <2>1, <2>2 DEF Sessions
<1>8. TutorialsTypeOK'
  BY <1>1, <1>3, <1>6, <1>7 DEF TutorialsTypeOK
<1>9. TicketsOK'
  <2>1. /\ \A p \in Askers :
             /\ tutorial[p].ticket < nextTutorial
             /\ tutorial[p].ticket = 0 => tutorial[p].status \in {"none", "absent"} /\ ~tutorial[p].claimed
        /\ \A p, q \in Askers : tutorial[p].ticket = tutorial[q].ticket /\ tutorial[p].ticket # 0 => p = q
    BY <1>1 DEF TicketsOK
  <2> QED BY <1>3, <1>5, <1>6, <2>1 DEF TicketsOK
<1>10. SessionOK'
  BY <1>3, <1>5, <1>6, <1>7 DEF SessionOK, Given, Ongoing
<1>11. LiveOK'
  <2>1. "panel" \notin Dynamic
    BY DEF Dynamic
  <2>2. /\ live.ticket < nextTutorial
        /\ \A p \in Askers :
             /\ Given(tutorial[p]) /\ tutorial[p].kind = "panel" => tutorial[p].ticket = live.ticket
             /\ tutorial[p].ticket = live.ticket /\ live.ticket # 0 => tutorial[p].kind = "panel" /\ Given(tutorial[p])
        /\ live.ticket # 0 => \E p \in Askers : tutorial[p].ticket = live.ticket
    BY <1>1 DEF LiveOK
  <2>3. /\ \A p \in Askers :
             /\ Given(tutorial'[p]) /\ tutorial'[p].kind = "panel" => tutorial'[p].ticket = live.ticket
             /\ tutorial'[p].ticket = live.ticket /\ live.ticket # 0 => tutorial'[p].kind = "panel" /\ Given(tutorial'[p])
        /\ live.ticket # 0 => \E p \in Askers : tutorial'[p].ticket = live.ticket
    BY <1>5, <1>6, <2>1, <2>2
  <2> QED BY <1>3, <2>2, <2>3 DEF LiveOK, Given, Ongoing
<1>12. HintOK'
  BY <1>1, <1>3, <1>5, <1>7 DEF HintOK
<1>13. PanelOK'
  BY <1>1, <1>3 DEF PanelOK, Ours
<1> QED BY <1>5, <1>6, <1>8, <1>9, <1>10, <1>11, <1>12, <1>13 DEF TutorialsIInv

\* After a fault the session is kept, and what it held has failed.
LEMMA HintFaultKeeps ==
  ASSUME TutorialsIInv, HintFault
  PROVE  TutorialsIInv' /\ Declining
<1>1. /\ TutorialsTypeOK /\ TicketsOK /\ SessionOK /\ HintOK /\ LiveOK /\ PanelOK
      /\ tutorial \in [Askers -> Requests]
  BY TutorialShapes
<1>2. /\ hintAt \in {"taken", "looked"} /\ poisoned' = TRUE /\ accepting' = FALSE /\ hintAt' = "idle"
      /\ presenters' = presenters \ Dynamic
      /\ tutorial' = [o \in Askers |-> Reported(WithoutKinds(Dynamic, tutorial)[o], session.ticket, "failed")]
      /\ UNCHANGED <<nextTutorial, session, hintUi, live, panelAt, panelOn, faulted, panelUi, context>>
  BY DEF HintFault, HintFails, panels
<1>3. session.ticket # 0 /\ ~poisoned
  BY <1>1, <1>2 DEF HintOK
<1>4. ASSUME NEW o \in Askers
      PROVE  /\ Declines(tutorial[o], tutorial'[o])
             /\ Given(tutorial[o]) /\ tutorial[o].kind = "panel" => Given(tutorial'[o])
             /\ Given(tutorial'[o]) => tutorial'[o].kind \notin Dynamic
             /\ tutorial'[o].ticket = session.ticket =>
                  tutorial'[o].kind \in Dynamic /\ tutorial'[o].claimed /\ tutorial'[o].status = "failed"
  <2>1. PICK e \in Requests : e = tutorial[o]
    BY <1>1
  <2>2. PICK c : c = IF e.kind \in Dynamic THEN Cancelled(e) ELSE e
    OBVIOUS
  <2>3. /\ c \in Requests /\ c.ticket = e.ticket /\ c.kind = e.kind /\ c.claimed = e.claimed
        /\ Given(e) <=> Given(c)
        /\ ~Ongoing(e) => c.status = e.status
        /\ e.status = "cancelling" => c.status \notin {"queued", "presented"}
    BY <2>2, CancelledDeclines
  <2>4. PICK f : f = Reported(c, session.ticket, "failed")
    OBVIOUS
  <2>5. "failed" \in Ends
    BY DEF Ends
  <2>6. /\ Declines(c, f)
        /\ c.ticket # session.ticket => f = c
        /\ c.ticket = session.ticket => ~Given(f)
        /\ c.ticket = session.ticket /\ Given(c) => f = Absent \/ f.status = "failed"
    BY <2>3, <2>4, <2>5, ReportedEnds
  <2>7. tutorial'[o] = f
    BY <1>2, <2>1, <2>2, <2>4 DEF WithoutKinds
  <2>8. /\ Given(e) /\ e.kind \in Dynamic => e.ticket = session.ticket
        /\ e.ticket = session.ticket => e.kind \in Dynamic /\ Given(e)
    BY <1>1, <1>3, <2>1 DEF SessionOK, Given
  <2>9. "panel" \notin Dynamic
    BY DEF Dynamic
  <2>10. Declines(e, f)
    <3>1. CASE f = Absent
      BY <3>1, AbsentShape DEF Declines
    <3>2. CASE f # Absent
      <4>1. /\ f \in Requests /\ (Given(f) => Given(c)) /\ f.ticket = c.ticket /\ f.kind = c.kind /\ f.claimed = c.claimed
            /\ ~Ongoing(c) => f.status = c.status
            /\ c.status = "cancelling" => f.status \notin {"queued", "presented"}
        BY <2>6, <3>2 DEF Declines
      <4>2. ~Ongoing(e) => ~Ongoing(c)
        BY <2>3 DEF Ongoing
      <4>3. c.status \notin {"queued", "presented"} => f.status \notin {"queued", "presented"}
        BY <4>1 DEF Ongoing
      <4> QED BY <2>3, <4>1, <4>2, <4>3 DEF Declines
    <3> QED BY <3>1, <3>2
  <2>11. Given(e) /\ e.kind = "panel" => Given(f)
    BY <2>3, <2>6, <2>8, <2>9
  <2>12. CASE f = Absent
    BY <1>3, <2>1, <2>7, <2>10, <2>11, <2>12, AbsentShape
  <2>13. CASE f # Absent
    <3>1. f.ticket = c.ticket /\ f.kind = c.kind /\ f.claimed = c.claimed /\ (Given(f) => Given(c))
      BY <2>6, <2>13 DEF Declines
    <3>2. Given(f) => f.kind \notin Dynamic
      BY <2>3, <2>6, <2>8, <3>1
    <3>3. f.ticket = session.ticket => f.kind \in Dynamic /\ f.claimed /\ f.status = "failed"
      BY <2>3, <2>6, <2>8, <2>13, <3>1 DEF Given
    <3> QED BY <2>1, <2>7, <2>10, <2>11, <3>2, <3>3
  <2> QED BY <2>12, <2>13
<1>5. tutorial' \in [Askers -> Requests]
  BY <1>2, <1>4 DEF Declines
<1>6. Declining /\ Keeping({"panel"})
  BY <1>4, <1>5 DEF Declining, Keeping
<1>7. TicketsOK'
  BY <1>1, <1>2, <1>6, TicketsKeep
<1>8. SessionOK'
  <2>1. session'.ticket < nextTutorial' /\ poisoned'
    BY <1>1, <1>2 DEF SessionOK
  <2> QED BY <1>2, <1>4, <2>1 DEF SessionOK, Given, Ongoing
<1>9. LiveOK'
  BY <1>1, <1>2, <1>6, LiveKeeps
<1>10. HintOK'
  BY <1>1, <1>2 DEF HintOK
<1>11. PanelOK'
  BY <1>1, <1>2 DEF PanelOK, Ours
<1>12. TutorialsTypeOK'
  <2>1. poisoned' \in BOOLEAN /\ accepting' \in BOOLEAN
    BY <1>2, Zenon
  <2> QED BY <1>1, <1>2, <1>5, <2>1 DEF TutorialsTypeOK
<1> QED BY <1>6, <1>7, <1>8, <1>9, <1>10, <1>11, <1>12 DEF TutorialsIInv


\* The presenter of panels.
LEMMA PanelShapes ==
  ASSUME TutorialsIInv
  PROVE  /\ presenters \subseteq Kinds /\ live \in Panels /\ panelAt \in {"idle", "taken", "looked", "native"}
         /\ panelOn \in BOOLEAN /\ faulted \in BOOLEAN /\ context \in Nat
         /\ panelUi \in [pending : {"none", "open", "close"}, wanted : 0..Foreign, active : BOOLEAN,
                         visible : BOOLEAN, key : 0..Foreign]
         /\ NoPanel \in Panels /\ NoPanel.ticket = 0 /\ ~NoPanel.opened
         /\ live.ticket \in 0..MaxTutorials /\ live.ticket \in 0..Foreign /\ Foreign \in 0..Foreign /\ 0 \in 0..Foreign
<1>1. TutorialsTypeOK
  BY TutorialShapes
<1>2. NoPanel \in Panels /\ NoPanel.ticket = 0 /\ NoPanel.opened = FALSE
  BY TutorialNumbers DEF NoPanel, Panels
<1>3. live.ticket \in 0..MaxTutorials
  BY <1>1 DEF TutorialsTypeOK, Panels
<1> QED BY <1>1, <1>2, <1>3, TutorialNumbers DEF TutorialsTypeOK

\* A step that leaves what is given out with its presenters.
LEMMA PanelStaysKeep ==
  ASSUME TutorialsIInv, Declining, Keeping(Kinds), UNCHANGED nextTutorial, UNCHANGED hints,
         presenters' \subseteq Kinds, live' \in Panels, live'.ticket = live.ticket,
         panelAt' \in {"idle", "taken", "looked", "native"}, panelOn' \in BOOLEAN, faulted' \in BOOLEAN,
         context' \in Nat,
         panelUi' \in [pending : {"none", "open", "close"}, wanted : 0..Foreign, active : BOOLEAN,
                       visible : BOOLEAN, key : 0..Foreign],
         PanelOK'
  PROVE  TutorialsIInv'
<1>1. TutorialsTypeOK /\ HintOK
  BY TutorialShapes
<1>2. UNCHANGED <<session, hintAt, accepting, poisoned, hintUi>>
  BY DEF hints
<1>3. TicketsOK' /\ SessionOK' /\ LiveOK'
  BY <1>2, GentlyKeeps
<1>4. TutorialsTypeOK'
  BY <1>1, <1>2 DEF TutorialsTypeOK, Declining
<1>5. HintOK'
  BY <1>1, <1>2 DEF HintOK
<1> QED BY <1>3, <1>4, <1>5 DEF TutorialsIInv

LEMMA ReportsPanel ==
  ASSUME TutorialsIInv, live.ticket # 0, NEW status \in Ends, tutorial' = Report(live.ticket, status)
  PROVE  Declining /\ Keeping(Dynamic) /\ Ending({"panel"})
<1>1. ASSUME NEW o \in Askers
      PROVE  /\ Declines(tutorial[o], tutorial'[o])
             /\ Given(tutorial[o]) /\ tutorial[o].kind \in Dynamic => Given(tutorial'[o])
             /\ Given(tutorial'[o]) => tutorial[o].kind # "panel"
  <2>1. PICK e \in Requests : e = tutorial[o]
    BY TutorialShapes
  <2>2. PICK f : f = Reported(e, live.ticket, status)
    OBVIOUS
  <2>3. /\ Declines(e, f) /\ (e.ticket # live.ticket => f = e)
        /\ e.ticket = live.ticket => ~Given(f)
    BY <2>2, ReportedEnds
  <2>4. tutorial'[o] = f
    BY <2>1, <2>2 DEF Report
  <2>5. /\ Given(e) /\ e.kind = "panel" => e.ticket = live.ticket
        /\ e.ticket = live.ticket => e.kind = "panel"
    BY <2>1, TutorialShapes DEF LiveOK
  <2>6. "panel" \notin Dynamic
    BY DEF Dynamic
  <2>7. Given(f) => Given(e)
    BY <2>3 DEF Declines
  <2> QED BY <2>1, <2>3, <2>4, <2>5, <2>6, <2>7
<1>2. tutorial' \in [Askers -> Requests]
  BY <1>1 DEF Report, Declines
<1> QED BY <1>1, <1>2 DEF Declining, Keeping, Ending

LEMMA PanelEndKeeps ==
  ASSUME TutorialsIInv, live.ticket # 0, NEW status \in Ends, tutorial' = Report(live.ticket, status),
         live' = NoPanel, panelAt' = "native", UNCHANGED <<presenters, nextTutorial, panelOn, faulted, context>>,
         UNCHANGED hints,
         panelUi' \in [pending : {"none", "open", "close"}, wanted : 0..Foreign, active : BOOLEAN,
                       visible : BOOLEAN, key : 0..Foreign],
         PanelOK'
  PROVE  TutorialsIInv' /\ Declining
<1>1. TutorialsTypeOK /\ TicketsOK /\ SessionOK /\ HintOK
  BY TutorialShapes
<1>2. Declining /\ Keeping(Dynamic) /\ Ending({"panel"})
  BY ReportsPanel
<1>3. UNCHANGED <<session, hintAt, accepting, poisoned, hintUi>>
  BY DEF hints
<1>4. NoPanel \in Panels /\ NoPanel.ticket = 0
  BY PanelShapes
<1>5. TutorialsTypeOK'
  BY <1>1, <1>2, <1>3, <1>4 DEF TutorialsTypeOK, Declining
<1>6. TicketsOK'
  BY <1>1, <1>2, TicketsKeep
<1>7. SessionOK'
  BY <1>1, <1>2, <1>3, SessionKeeps
<1>8. LiveOK'
  BY <1>1, <1>2, <1>4, LiveEnds
<1>9. HintOK'
  BY <1>1, <1>3 DEF HintOK
<1> QED BY <1>2, <1>5, <1>6, <1>7, <1>8, <1>9 DEF TutorialsIInv

LEMMA PanelTakeKeeps ==
  ASSUME TutorialsIInv, PanelTake
  PROVE  TutorialsIInv' /\ \A p \in Askers : tutorial'[p].status = tutorial[p].status
<1>1. /\ TutorialsTypeOK /\ TicketsOK /\ SessionOK /\ HintOK /\ LiveOK /\ PanelOK
      /\ tutorial \in [Askers -> Requests] /\ session.ticket \in Nat
  BY TutorialShapes
<1>2. PICK o \in Askers : /\ Takes({"panel"}, o)
                         /\ tutorial' = [tutorial EXCEPT ![o].claimed = TRUE]
                         /\ live' = [NoPanel EXCEPT !.ticket = tutorial[o].ticket, !.context = context]
  BY DEF PanelTake
<1>3. /\ panelAt = "idle" /\ live.ticket = 0 /\ Idle(panelUi) /\ panelAt' = "taken"
      /\ UNCHANGED <<presenters, nextTutorial, session, hintAt, accepting, poisoned, hintUi,
                     panelOn, faulted, panelUi, context>>
  BY DEF PanelTake, hints
<1>4. PICK f : f = [tutorial[o] EXCEPT !.claimed = TRUE]
  OBVIOUS
<1>5. /\ tutorial[o].kind = "panel" /\ tutorial[o].status = "queued" /\ ~Given(tutorial[o])
      /\ tutorial[o].ticket # 0 /\ tutorial[o].ticket < nextTutorial
      /\ \A p \in Askers : tutorial[p].ticket = tutorial[o].ticket => p = o
      /\ \A p \in Askers : tutorial[p].kind = "panel" => ~Given(tutorial[p])
      /\ f \in Requests /\ f.ticket = tutorial[o].ticket /\ f.kind = "panel"
      /\ f.status = "queued" /\ Given(f) /\ f.claimed
  BY <1>2, <1>4, TakesShape
<1>6. /\ tutorial' \in [Askers -> Requests]
      /\ \A p \in Askers : tutorial'[p] = IF p = o THEN f ELSE tutorial[p]
  BY <1>1, <1>2, <1>4, <1>5
<1>7. live' \in Panels /\ live'.ticket = f.ticket /\ live'.opened = FALSE
  <2>1. f.ticket \in 0..MaxTutorials /\ context \in Nat
    BY <1>5, PanelShapes DEF Requests
  <2>2. live' = [ticket |-> f.ticket, context |-> context, opened |-> FALSE, presented |-> FALSE,
                 cancel |-> FALSE, retired |-> FALSE]
    BY <1>2, <1>5 DEF NoPanel
  <2> QED BY <2>1, <2>2 DEF Panels
<1>8. TutorialsTypeOK'
  BY <1>1, <1>3, <1>6, <1>7 DEF TutorialsTypeOK
<1>9. TicketsOK'
  <2>1. /\ \A p \in Askers :
             /\ tutorial[p].ticket < nextTutorial
             /\ tutorial[p].ticket = 0 => tutorial[p].status \in {"none", "absent"} /\ ~tutorial[p].claimed
        /\ \A p, q \in Askers : tutorial[p].ticket = tutorial[q].ticket /\ tutorial[p].ticket # 0 => p = q
    BY <1>1 DEF TicketsOK
  <2> QED BY <1>3, <1>5, <1>6, <2>1 DEF TicketsOK
<1>10. LiveOK'
  BY <1>3, <1>5, <1>6, <1>7 DEF LiveOK, Given, Ongoing
<1>11. SessionOK'
  <2>1. "panel" \notin Dynamic
    BY DEF Dynamic
  <2>2. /\ session.ticket < nextTutorial
        /\ \A p \in Askers :
             /\ Given(tutorial[p]) /\ tutorial[p].kind \in Dynamic => tutorial[p].ticket = session.ticket
             /\ tutorial[p].ticket = session.ticket /\ session.ticket # 0 =>
                  /\ tutorial[p].kind \in Dynamic /\ tutorial[p].claimed
                  /\ Ongoing(tutorial[p]) \/ (poisoned /\ tutorial[p].status = "failed")
        /\ session.ticket # 0 /\ ~poisoned => \E p \in Askers : tutorial[p].ticket = session.ticket
    BY <1>1 DEF SessionOK
  <2>3. /\ \A p \in Askers :
             /\ Given(tutorial'[p]) /\ tutorial'[p].kind \in Dynamic => tutorial'[p].ticket = session.ticket
             /\ tutorial'[p].ticket = session.ticket /\ session.ticket # 0 =>
                  /\ tutorial'[p].kind \in Dynamic /\ tutorial'[p].claimed
                  /\ Ongoing(tutorial'[p]) \/ (poisoned /\ tutorial'[p].status = "failed")
        /\ session.ticket # 0 /\ ~poisoned => \E p \in Askers : tutorial'[p].ticket = session.ticket
    BY <1>5, <1>6, <2>1, <2>2
  <2> QED BY <1>3, <2>2, <2>3 DEF SessionOK, Given, Ongoing
<1>12. HintOK'
  BY <1>1, <1>3 DEF HintOK
<1>13. PanelOK'
  BY <1>1, <1>3, <1>5, <1>7 DEF PanelOK, Ours, Idle
<1> QED BY <1>5, <1>6, <1>8, <1>9, <1>10, <1>11, <1>12, <1>13 DEF TutorialsIInv

LEMMA PanelOpenKeeps ==
  ASSUME TutorialsIInv, PanelOpen
  PROVE  TutorialsIInv' /\ Declining
<1>1. PanelOK /\ tutorial \in [Askers -> Requests]
  BY TutorialShapes
<1>2. /\ panelAt = "taken" /\ panelAt' = "native"
      /\ UNCHANGED <<presenters, nextTutorial, panelOn, faulted, context>> /\ UNCHANGED hints
  BY DEF PanelOpen
<1>3. /\ presenters \subseteq Kinds /\ live \in Panels /\ panelOn \in BOOLEAN /\ faulted \in BOOLEAN /\ context \in Nat
      /\ panelUi \in [pending : {"none", "open", "close"}, wanted : 0..Foreign, active : BOOLEAN,
                      visible : BOOLEAN, key : 0..Foreign]
      /\ NoPanel.ticket = 0 /\ live.ticket \in 0..Foreign
  BY PanelShapes
<1>4. live.ticket # 0 /\ ~live.opened
  BY <1>1, <1>2 DEF PanelOK
<1>5. CASE /\ \/ tutorial' = Report(live.ticket, "failed")
              \/ tutorial' = Report(live.ticket, "cancelled")
           /\ live' = NoPanel /\ UNCHANGED panelUi
  <2>1. PICK status \in Ends : tutorial' = Report(live.ticket, status)
    BY <1>5 DEF Ends
  <2>2. PanelOK'
    BY <1>1, <1>2, <1>4, <1>5 DEF PanelOK, Ours
  <2> QED BY <1>2, <1>3, <1>4, <1>5, <2>1, <2>2, PanelEndKeeps
<1>6. CASE /\ live' = [live EXCEPT !.opened = TRUE]
           /\ panelUi' = [panelUi EXCEPT !.pending = "open", !.wanted = live.ticket]
           /\ UNCHANGED tutorial
  <2>1. live' \in Panels /\ live'.ticket = live.ticket /\ live'.opened = TRUE
    BY <1>3, <1>6 DEF Panels
  <2>2. /\ panelUi' \in [pending : {"none", "open", "close"}, wanted : 0..Foreign, active : BOOLEAN,
                         visible : BOOLEAN, key : 0..Foreign]
        /\ panelUi'.wanted = live.ticket /\ panelUi'.key = panelUi.key
        /\ panelUi'.active = panelUi.active /\ panelUi'.visible = panelUi.visible
    BY <1>3, <1>6
  <2>3. PanelOK'
    BY <1>1, <1>2, <1>4, <2>1, <2>2 DEF PanelOK, Ours
  <2>4. Declining /\ Keeping(Kinds)
    BY <1>1, <1>6, SameGently
  <2> QED BY <1>2, <1>3, <2>1, <2>2, <2>3, <2>4, PanelStaysKeep
<1> QED BY <1>5, <1>6 DEF PanelOpen

LEMMA PanelFinishKeeps ==
  ASSUME TutorialsIInv, PanelFinish
  PROVE  TutorialsIInv' /\ Declining
<1>1. PanelOK
  BY TutorialShapes
<1>2. /\ panelAt = "looked" /\ Idle(panelUi) /\ panelAt' = "native" /\ live' = NoPanel
      /\ tutorial' = Report(live.ticket, IF live.cancel THEN "cancelled" ELSE "dismissed")
      /\ panelUi' \in {panelUi, [panelUi EXCEPT !.key = 0]}
      /\ UNCHANGED <<presenters, nextTutorial, panelOn, faulted, context>> /\ UNCHANGED hints
  BY DEF PanelFinish, MayFinish
<1>3. live.ticket # 0
  BY <1>1, <1>2 DEF PanelOK
<1>4. /\ panelUi \in [pending : {"none", "open", "close"}, wanted : 0..Foreign, active : BOOLEAN,
                      visible : BOOLEAN, key : 0..Foreign] /\ 0 \in 0..Foreign
  BY PanelShapes
<1>5. /\ panelUi' \in [pending : {"none", "open", "close"}, wanted : 0..Foreign, active : BOOLEAN,
                       visible : BOOLEAN, key : 0..Foreign]
      /\ panelUi'.pending = panelUi.pending /\ panelUi'.active = panelUi.active /\ panelUi'.visible = panelUi.visible
  BY <1>2, <1>4
<1>6. PanelOK'
  BY <1>2, <1>5 DEF PanelOK, Idle
<1>7. PICK status \in Ends : status = IF live.cancel THEN "cancelled" ELSE "dismissed"
  BY DEF Ends
<1> QED BY <1>2, <1>3, <1>5, <1>6, <1>7, PanelEndKeeps

LEMMA PanelStepsKeep ==
  ASSUME TutorialsIInv,
         \/ PanelLook \/ PanelClose \/ PanelKeep \/ PanelFault \/ NativeEvents
         \/ PanelSync \/ PlayerCloses \/ GameOpens \/ NewContext \/ StopPanels
  PROVE  TutorialsIInv' /\ Declining
<1> DEFINE UiType == [pending : {"none", "open", "close"}, wanted : 0..Foreign, active : BOOLEAN,
                      visible : BOOLEAN, key : 0..Foreign]
<1>1. PanelOK /\ tutorial \in [Askers -> Requests]
  BY TutorialShapes
<1>2. /\ presenters \subseteq Kinds /\ live \in Panels /\ panelAt \in {"idle", "taken", "looked", "native"}
      /\ panelOn \in BOOLEAN /\ faulted \in BOOLEAN /\ context \in Nat
      /\ panelUi \in UiType /\ Foreign \in 0..Foreign /\ 0 \in 0..Foreign
  BY PanelShapes
<1>3. ASSUME UNCHANGED tutorial PROVE Declining /\ Keeping(Kinds)
  BY <1>1, <1>3, SameGently
<1>4. CASE PanelLook
  <2>1. PICK c \in BOOLEAN : c = (live.cancel \/ ~panelOn \/ IsCancelled(live.ticket))
    OBVIOUS
  <2>2. /\ live' = [live EXCEPT !.cancel = c] /\ panelAt' = "looked" /\ live.ticket # 0
        /\ UNCHANGED <<tutorial, presenters, nextTutorial, panelOn, faulted, panelUi, context>> /\ UNCHANGED hints
    BY <1>4, <2>1 DEF PanelLook, requestTable
  <2>3. live' \in Panels /\ live'.ticket = live.ticket /\ live'.opened = live.opened
    BY <1>2, <2>2 DEF Panels
  <2>4. PanelOK'
    BY <1>1, <2>2, <2>3 DEF PanelOK, Ours
  <2> QED BY <1>2, <1>3, <2>2, <2>3, <2>4, PanelStaysKeep
<1>5. CASE PanelClose \/ PanelKeep
  <2>1. /\ panelUi' \in {panelUi, [panelUi EXCEPT !.active = FALSE]} /\ panelAt' = "native"
        /\ UNCHANGED <<tutorial, presenters, nextTutorial, live, panelOn, faulted, context>> /\ UNCHANGED hints
    BY <1>5 DEF PanelClose, PanelKeep, requestTable
  <2>2. /\ panelUi' \in UiType /\ panelUi'.pending = panelUi.pending /\ panelUi'.wanted = panelUi.wanted
        /\ panelUi'.visible = panelUi.visible /\ panelUi'.key = panelUi.key /\ (panelUi'.active => panelUi.active)
    BY <1>2, <2>1
  <2>3. PanelOK'
    BY <1>1, <2>1, <2>2 DEF PanelOK, Ours
  <2> QED BY <1>2, <1>3, <2>1, <2>2, <2>3, PanelStaysKeep
<1>6. CASE PanelFault \/ StopPanels
  <2>1. /\ panelAt' \in {panelAt, "native"} /\ presenters' = presenters \ {"panel"} /\ panelOn' = FALSE
        /\ tutorial' = WithoutKinds({"panel"}, tutorial)
        /\ UNCHANGED <<nextTutorial, live, panelUi, context>> /\ UNCHANGED hints
    BY <1>6 DEF PanelFault, PanelFails, StopPanels
  <2>2. panelOn' \in BOOLEAN
    BY <2>1, Zenon
  <2>3. faulted' \in BOOLEAN
    <3>1. faulted' = TRUE \/ faulted' = faulted
      BY <1>6 DEF PanelFault, PanelFails, StopPanels
    <3> QED BY <1>2, <3>1
  <2>4. Declining /\ Keeping(Kinds)
    BY <2>1, WithoutGently
  <2>5. PanelOK'
    BY <1>1, <2>1 DEF PanelOK, Ours
  <2> QED BY <1>2, <2>1, <2>2, <2>3, <2>4, <2>5, PanelStaysKeep
<1>7. CASE NativeEvents
  <2>1. /\ panelAt' = "idle"
        /\ UNCHANGED <<tutorial, presenters, nextTutorial, live, panelOn, faulted, context>> /\ UNCHANGED hints
    BY <1>7 DEF NativeEvents, requestTable
  <2>2. panelUi' = CASE panelUi.pending = "open" ->
                       [panelUi EXCEPT !.pending = "none", !.wanted = 0, !.active = TRUE, !.key = panelUi.wanted]
                  [] panelUi.pending = "close" -> [panelUi EXCEPT !.pending = "none", !.active = FALSE]
                  [] OTHER -> panelUi
    BY <1>7 DEF NativeEvents
  <2>3. CASE panelUi.pending = "open"
    <3>1. panelUi' = [panelUi EXCEPT !.pending = "none", !.wanted = 0, !.active = TRUE, !.key = panelUi.wanted]
      BY <2>2, <2>3
    <3>2. panelUi' \in UiType /\ panelUi'.pending = "none" /\ panelUi'.key = panelUi.wanted
      BY <1>2, <3>1
    <3>3. PanelOK'
      BY <1>1, <2>1, <2>3, <3>2 DEF PanelOK, Ours
    <3> QED BY <1>2, <1>3, <2>1, <3>2, <3>3, PanelStaysKeep
  <2>4. CASE panelUi.pending = "close"
    <3>1. panelUi' = [panelUi EXCEPT !.pending = "none", !.active = FALSE]
      BY <2>2, <2>4
    <3>2. /\ panelUi' \in UiType /\ panelUi'.pending = "none" /\ panelUi'.active = FALSE
          /\ panelUi'.visible = panelUi.visible /\ panelUi'.key = panelUi.key
      BY <1>2, <3>1
    <3>3. PanelOK'
      BY <1>1, <2>1, <3>2 DEF PanelOK, Ours
    <3> QED BY <1>2, <1>3, <2>1, <3>2, <3>3, PanelStaysKeep
  <2>5. CASE panelUi.pending \notin {"open", "close"}
    <3>1. panelUi' = panelUi
      BY <2>2, <2>5
    <3>2. PanelOK'
      BY <1>1, <2>1, <3>1 DEF PanelOK, Ours
    <3> QED BY <1>2, <1>3, <2>1, <3>1, <3>2, PanelStaysKeep
  <2> QED BY <2>3, <2>4, <2>5
<1>8. CASE PanelSync
  <2>1. PICK appears \in BOOLEAN : appears =
          (~faulted /\ live.ticket # 0 /\ live.context = context /\ live.opened /\ Owned(panelUi)
           /\ panelUi.active /\ ~live.presented)
    OBVIOUS
  <2>2. PICK w \in BOOLEAN : w = (live.presented \/ appears)
    OBVIOUS
  <2>3. PICK r \in BOOLEAN : r =
          (live.retired \/ (~faulted /\ live.ticket # 0 /\ live.context = context /\ live.opened /\ Idle(panelUi')))
    OBVIOUS
  <2>4. /\ panelAt = "idle" /\ panelUi' = [panelUi EXCEPT !.visible = panelUi.active]
        /\ live' = [live EXCEPT !.presented = w, !.retired = r]
        /\ UNCHANGED <<presenters, nextTutorial, panelAt, panelOn, faulted, context>> /\ UNCHANGED hints
    BY <1>8, <2>1, <2>2, <2>3 DEF PanelSync
  <2>5. tutorial' = Report(live.ticket, "presented") \/ UNCHANGED tutorial
    BY <1>8 DEF PanelSync
  <2>6. live' \in Panels /\ live'.ticket = live.ticket /\ live'.opened = live.opened
    BY <1>2, <2>4 DEF Panels
  <2>7. /\ panelUi' \in UiType /\ panelUi'.pending = panelUi.pending /\ panelUi'.wanted = panelUi.wanted
        /\ panelUi'.active = panelUi.active /\ panelUi'.visible = panelUi.active /\ panelUi'.key = panelUi.key
    BY <1>2, <2>4
  <2>8. PanelOK'
    BY <1>1, <2>4, <2>6, <2>7 DEF PanelOK, Ours
  <2>9. Declining /\ Keeping(Kinds)
    BY <1>3, <2>5, PresentedGently
  <2> QED BY <1>2, <2>4, <2>6, <2>7, <2>8, <2>9, PanelStaysKeep
<1>9. CASE PlayerCloses \/ GameOpens
  <2>1. /\ \/ panelUi' = [panelUi EXCEPT !.pending = "close"]
           \/ panelUi' = [panelUi EXCEPT !.pending = "open", !.wanted = Foreign]
        /\ UNCHANGED <<tutorial, presenters, nextTutorial, live, panelAt, panelOn, faulted, context>> /\ UNCHANGED hints
    BY <1>9 DEF PlayerCloses, GameOpens, requestTable
  <2>2. /\ panelUi' \in UiType /\ (panelUi'.pending = "open" => panelUi'.wanted = Foreign)
        /\ panelUi'.active = panelUi.active /\ panelUi'.visible = panelUi.visible /\ panelUi'.key = panelUi.key
    BY <1>2, <2>1
  <2>3. PanelOK'
    BY <1>1, <2>1, <2>2 DEF PanelOK, Ours
  <2> QED BY <1>2, <1>3, <2>1, <2>2, <2>3, PanelStaysKeep
<1>10. CASE NewContext
  <2>1. /\ context' = context + 1 /\ panelUi' = Closed
        /\ UNCHANGED <<tutorial, presenters, nextTutorial, live, panelAt, panelOn, faulted>> /\ UNCHANGED hints
    BY <1>10 DEF NewContext, requestTable
  <2>2. panelUi' \in UiType /\ panelUi'.pending = "none" /\ panelUi'.active = FALSE /\ panelUi'.visible = FALSE
    BY <1>2, <2>1 DEF Closed
  <2>3. PanelOK'
    BY <1>1, <2>1, <2>2 DEF PanelOK, Ours
  <2>4. context' \in Nat
    BY <1>2, <2>1
  <2> QED BY <1>2, <1>3, <2>1, <2>2, <2>3, <2>4, PanelStaysKeep
<1> QED BY <1>4, <1>5, <1>6, <1>7, <1>8, <1>9, <1>10
-----------------------------------------------------------------------------
LEMMA TutorialsStart == TutorialsInit => TutorialsIInv
<1> SUFFICES ASSUME TutorialsInit PROVE TutorialsIInv
  OBVIOUS
<1>1. /\ tutorial \in [Askers -> {Unasked, Absent}] /\ presenters \subseteq Kinds /\ nextTutorial = 1
      /\ session = NoSession /\ hintAt = "idle" /\ accepting = TRUE /\ poisoned = FALSE /\ hintUi = Dark
      /\ live = NoPanel /\ panelAt = "idle" /\ panelOn = TRUE /\ faulted = FALSE
      /\ panelUi = Closed /\ context = 1
  BY DEF TutorialsInit
<1>2. \A o \in Askers :
        /\ tutorial[o] \in Requests /\ tutorial[o].ticket = 0 /\ tutorial[o].status \in {"none", "absent"}
        /\ ~tutorial[o].claimed /\ ~Given(tutorial[o])
  BY <1>1, AbsentShape
<1>3. NoSession \in Sessions /\ NoSession.ticket = 0
  BY TutorialNumbers DEF NoSession, Sessions, Kinds, Dynamic
<1>4. Dark \in [phase : {"off", "shown", "fading"}, ticket : 0..MaxTutorials] /\ Dark.ticket = 0
  BY TutorialNumbers DEF Dark
<1>5. NoPanel \in Panels /\ NoPanel.ticket = 0
  BY TutorialNumbers DEF NoPanel, Panels
<1>6. /\ Closed \in [pending : {"none", "open", "close"}, wanted : 0..Foreign, active : BOOLEAN,
                     visible : BOOLEAN, key : 0..Foreign]
      /\ Closed.active = FALSE /\ Closed.visible = FALSE /\ Closed.pending = "none"
  BY TutorialNumbers DEF Closed
<1>7. TutorialsTypeOK
  <2>1. tutorial \in [Askers -> Requests]
    BY <1>1, <1>2
  <2>2. accepting \in BOOLEAN /\ poisoned \in BOOLEAN /\ panelOn \in BOOLEAN /\ faulted \in BOOLEAN
    BY <1>1, Zenon
  <2>3. nextTutorial \in 1..(MaxTutorials + 1) /\ context \in Nat
    BY <1>1, TutorialNumbers
  <2> QED BY <1>1, <1>3, <1>4, <1>5, <1>6, <2>1, <2>2, <2>3 DEF TutorialsTypeOK
<1>8. TicketsOK
  BY <1>1, <1>2 DEF TicketsOK
<1>9. SessionOK /\ LiveOK
  BY <1>1, <1>2, <1>3, <1>5 DEF SessionOK, LiveOK
<1>10. HintOK
  BY <1>1, <1>3, <1>4 DEF HintOK
<1>11. PanelOK
  BY <1>1, <1>6 DEF PanelOK
<1> QED BY <1>7, <1>8, <1>9, <1>10, <1>11 DEF TutorialsIInv

\* What a step may do to a request: another takes its place, or it is given out, or it declines.
Moves(e, f) ==
  f.ticket # 0 /\ f.ticket = e.ticket =>
    f.status = e.status \/ Declines(e, f)

LEMMA TutorialSteps ==
  ASSUME TutorialsIInv, TutorialsNext
  PROVE  TutorialsIInv' /\ \A o \in Askers : Moves(tutorial[o], tutorial'[o])
<1>1. ASSUME Declining PROVE \A o \in Askers : Moves(tutorial[o], tutorial'[o])
  BY <1>1 DEF Declining, Moves
<1>2. ASSUME NEW o \in Askers, DismissTutorial(o) \/ DetachAsker(o) PROVE TutorialsIInv' /\ Declining
  BY <1>2, AskerStepsKeep
<1>3. ASSUME NEW o \in Askers, NEW kind \in Kinds, ShowTutorial(o, kind)
      PROVE  TutorialsIInv' /\ \A p \in Askers : Moves(tutorial[p], tutorial'[p])
  <2>1. /\ TutorialsIInv' /\ tutorial'[o].ticket = nextTutorial
        /\ \A p \in Askers \ {o} : tutorial'[p] = tutorial[p]
    BY <1>3, ShowTutorialKeeps
  <2>2. tutorial[o].ticket # nextTutorial
    <3>1. tutorial[o].ticket < nextTutorial /\ tutorial[o].ticket \in Nat /\ nextTutorial \in Nat
      BY TutorialShapes DEF TicketsOK
    <3> QED BY <3>1
  <2> QED BY <2>1, <2>2 DEF Moves
<1>4. CASE HintTake
  BY <1>4, HintTakeKeeps DEF Moves
<1>5. CASE HintMake \/ HintLook \/ HintBusy \/ HintDraw \/ HintInput \/ Elapse \/ StopHints \/ DisableHints
  BY <1>1, <1>5, HintStepsKeep
<1>6. CASE HintFault
  BY <1>1, <1>6, HintFaultKeeps
<1>7. CASE PanelTake
  BY <1>7, PanelTakeKeeps DEF Moves
<1>8. CASE PanelOpen
  BY <1>1, <1>8, PanelOpenKeeps
<1>9. CASE PanelFinish
  BY <1>1, <1>9, PanelFinishKeeps
<1>10. CASE \/ PanelLook \/ PanelClose \/ PanelKeep \/ PanelFault \/ NativeEvents
            \/ PanelSync \/ PlayerCloses \/ GameOpens \/ NewContext \/ StopPanels
  BY <1>1, <1>10, PanelStepsKeep
<1> QED BY <1>1, <1>2, <1>3, <1>4, <1>5, <1>6, <1>7, <1>8, <1>9, <1>10 DEF TutorialsNext

LEMMA TutorialsStutter == TutorialsIInv /\ UNCHANGED tutorialVars => TutorialsIInv'
<1> SUFFICES ASSUME TutorialsIInv, UNCHANGED tutorialVars PROVE TutorialsIInv'
  OBVIOUS
<1>1. UNCHANGED <<tutorial, presenters, nextTutorial, session, hintAt, accepting, poisoned, hintUi,
                  live, panelAt, panelOn, faulted, panelUi, context>>
  BY DEF tutorialVars, requestTable, hints, panels
<1>2. TutorialsTypeOK /\ TicketsOK /\ SessionOK /\ HintOK /\ LiveOK /\ PanelOK
  BY TutorialShapes
<1>3. TutorialsTypeOK' /\ TicketsOK' /\ HintOK' /\ PanelOK'
  BY <1>1, <1>2 DEF TutorialsTypeOK, TicketsOK, HintOK, PanelOK, Ours
<1>4. SessionOK' /\ LiveOK'
  BY <1>1, <1>2 DEF SessionOK, LiveOK, Given, Ongoing
<1> QED BY <1>3, <1>4 DEF TutorialsIInv

LEMMA TutorialsTrueHere == TutorialsIInv => TutorialsAgree
<1> SUFFICES ASSUME TutorialsIInv PROVE TutorialsAgree
  OBVIOUS
<1>1. /\ TutorialsTypeOK /\ TicketsOK /\ SessionOK /\ HintOK /\ LiveOK /\ PanelOK
      /\ nextTutorial \in Nat /\ session.ticket \in Nat /\ live.ticket \in Nat
      /\ \A o \in Askers : tutorial[o] \in Requests /\ tutorial[o].ticket \in Nat
  BY TutorialShapes
<1>2. ASSUME NEW o \in Askers, tutorial[o].claimed /\ Ongoing(tutorial[o]) PROVE Holds(tutorial[o].ticket)
  <2>1. tutorial[o].kind \in Dynamic \/ tutorial[o].kind = "panel"
    BY <1>1 DEF Requests, Kinds
  <2> QED BY <1>1, <1>2, <2>1 DEF Holds, SessionOK, LiveOK, Given
<1>3. session.ticket # 0 /\ ~poisoned =>
        \E o \in Askers : tutorial[o].ticket = session.ticket /\ tutorial[o].claimed /\ Ongoing(tutorial[o])
  BY <1>1 DEF SessionOK
<1>4. live.ticket # 0 =>
        \E o \in Askers : tutorial[o].ticket = live.ticket /\ tutorial[o].claimed /\ Ongoing(tutorial[o])
  BY <1>1 DEF LiveOK, Given
<1>5. GivenOutIsHeld
  BY <1>2, <1>3, <1>4 DEF GivenOutIsHeld
<1>6. ASSUME NEW o \in Askers, tutorial[o].status \in {"dismissed", "cancelled"}, tutorial[o].ticket \in OnScreen
      PROVE  FALSE
  <2>1. PICK t \in Nat : t = tutorial[o].ticket
    BY <1>1
  <2>2. t # 0 /\ t < nextTutorial
    BY <1>1, <1>6, <2>1 DEF TicketsOK
  <2>3. ~Ongoing(tutorial[o]) /\ tutorial[o].status # "failed"
    BY <1>6 DEF Ongoing
  <2>4. t # session.ticket
    BY <1>1, <2>1, <2>2, <2>3 DEF SessionOK
  <2>5. t # live.ticket
    BY <1>1, <2>1, <2>2, <2>3 DEF LiveOK, Given
  <2>6. t # Foreign
    BY <1>1, <2>2, TutorialNumbers DEF TutorialsTypeOK
  <2>7. ~Ours(t)
    BY <2>5, <2>6 DEF Ours
  <2>8. t # hintUi.ticket
    BY <1>1, <2>2, <2>4 DEF HintOK
  <2> QED BY <1>1, <1>6, <2>1, <2>7, <2>8 DEF OnScreen, PanelOK
<1>7. EndedIsGone
  BY <1>6 DEF EndedIsGone
<1> QED BY <1>5, <1>7 DEF TutorialsAgree

LEMMA TutorialEnds ==
  ASSUME TutorialsIInv, TutorialsNext, NEW o \in Askers,
         tutorial'[o].ticket = tutorial[o].ticket, tutorial[o].ticket # 0
  PROVE  /\ ~Ongoing(tutorial[o]) => tutorial'[o].status \in {tutorial[o].status, "absent"}
         /\ tutorial[o].status = "cancelling" => tutorial'[o].status \notin {"queued", "presented"}
<1>1. PICK e : e = tutorial[o]
  OBVIOUS
<1>2. PICK f : f = tutorial'[o]
  OBVIOUS
<1>3. f.status = e.status \/ Declines(e, f)
  BY <1>1, <1>2, TutorialSteps DEF Moves
<1>4. f # Absent
  BY <1>1, <1>2, AbsentShape
<1>5. /\ ~Ongoing(e) => f.status = e.status
      /\ e.status = "cancelling" => f.status \notin {"queued", "presented"}
  BY <1>3, <1>4 DEF Declines
<1> QED BY <1>1, <1>2, <1>5

\* What a presenter holds is what the service has given out and not been told the end of,
\* what has ended is not on the screen, and the end of a request is final, whenever the
\* game fails, the guest dismisses or a presenter stops (mod_tutorials.cpp).
THEOREM TutorialsTrue == TutorialsSpec => [][TutorialsAgree']_tutorialVars /\ NoResurrection
<1>1. TutorialsInit => TutorialsIInv
  BY TutorialsStart
<1>2. TutorialsIInv /\ [TutorialsNext]_tutorialVars => TutorialsIInv'
  BY TutorialSteps, TutorialsStutter
<1>3. TutorialsIInv => TutorialsAgree
  BY TutorialsTrueHere
<1>4. TutorialsIInv /\ [TutorialsNext]_tutorialVars =>
        [\A o \in Askers : tutorial'[o].ticket = tutorial[o].ticket /\ tutorial[o].ticket # 0 =>
           /\ ~Ongoing(tutorial[o]) => tutorial'[o].status \in {tutorial[o].status, "absent"}
           /\ tutorial[o].status = "cancelling" => tutorial'[o].status \notin {"queued", "presented"}]_tutorialVars
  BY TutorialEnds
<1> QED BY <1>1, <1>2, <1>3, <1>4, PTL DEF TutorialsSpec, NoResurrection

\* A message is only called presented if it was drawn while it ran, and no late answer
\* brings one back or prolongs it; the presenters of tutorials and their service agree on
\* what is given out, and nothing that was taken back is on the screen; and the end of
\* either is final (mod_feedback.cpp, mod_tutorials.cpp, tutorial_hint.cpp, tutorial_native.cpp).
THEOREM NoticesTrue == FeedbackSpec /\ TutorialsSpec => NoticesAreTrue
  BY MessagesTrue, TutorialsTrue DEF NoticesAreTrue
=============================================================================
