------------------------------ MODULE MediaSkip ------------------------------
(***************************************************************************)
(* runtime/media_service.{h,cpp} and the route of runtime/media_hook.cpp:  *)
(* a guest asks to skip the startup movie it was shown, and the next query *)
(* of the game's loop ends that movie, and no other.                       *)
(*                                                                         *)
(* The game's startup loop asks at two sites whether its movie still       *)
(* plays; both answers are observed, at most once per Throttle and site,   *)
(* and only the site at the top of the loop may end the movie.  The        *)
(* service is locked by try-locks: an observation that meets the worker is *)
(* lost.  Guests read the state and send back the generation they saw.     *)
(*                                                                         *)
(* The game is external: it may end a movie and start the next one at the  *)
(* same address and with the same name, without being observed in between. *)
(* Time is kept as ages in ticks; Throttle < Fresh <= SkipAfter are 16 ms, *)
(* 250 ms and 2000 ms, and requests last RequestLimit (1000 ms).           *)
(*                                                                         *)
(* An operator named Slip... is a plausible mistake in the definition that *)
(* follows it and is used nowhere; it shows that a property can fail.      *)
(***************************************************************************)
EXTENDS Naturals

CONSTANTS
  Guests, NoGuest,   \* guests; owner 0
  Addresses, NoAddress,
  Names,             \* valid resource names
  Throttle, Freshness, RequestLimit, SkipAfter,
  MaxGeneration,     \* UINT64_MAX
  MaxMovies          \* bound on the movies of a session

ASSUME MediaAssumption ==
  /\ NoGuest \notin Guests /\ NoAddress \notin Addresses
  /\ {Throttle, Freshness, RequestLimit, SkipAfter, MaxGeneration, MaxMovies} \subseteq Nat
  /\ Throttle < Freshness /\ Freshness <= SkipAfter

VARIABLES
  movie,      \* the game: the movie that plays, or played last
  queried,    \* the game: the sites it has asked at since the last tick
  clocks,     \* route_at's clocks: the object and the age of each site's last sample
  enabled,    \* enabled_
  state,      \* state_: what a guest may read
  skipper,    \* owner_: who asked for a skip
  identity,   \* identity_
  retired,    \* retired_
  generation, \* generation_
  sampleAge,  \* now - sampled_at_
  requestAge, \* now - requested_at_
  seen,       \* what each guest read last: the generation, and (history) the movie, if it could be skipped
  sampledOf,  \* history: the movie that state was sampled of
  wanted,     \* history: the movie that skipper asked to skip, having read that it could
  missed,     \* history: an observation at the top of the loop was lost since
  skipped     \* history: the movie skipped last

game      == <<movie, queried>>
service   == <<state, skipper, identity, retired, generation, sampleAge, requestAge>>
history   == <<sampledOf, wanted, missed, skipped>>
mediaVars == <<game, clocks, enabled, service, seen, history>>

Sites   == {"loop", "input"}
Nothing == [generation |-> 0, elapsed |-> 0, skippable |-> FALSE, name |-> "none"]
NoClock == [object |-> NoAddress, age |-> Throttle]

MediaInit ==
  /\ movie = [number |-> 0, address |-> NoAddress, name |-> "none", elapsed |-> 0, plays |-> FALSE]
  /\ queried = Sites
  /\ clocks = [s \in Sites |-> NoClock]
  /\ enabled = TRUE
  /\ state = Nothing /\ skipper = NoGuest /\ identity = NoAddress /\ retired = NoAddress
  /\ generation = 0
  /\ sampleAge = Freshness + 1 /\ requestAge = RequestLimit + 1
  /\ seen = [o \in Guests |-> [generation |-> 0, movie |-> 0]]
  /\ sampledOf = 0 /\ wanted = 0 /\ missed = FALSE /\ skipped = 0
-----------------------------------------------------------------------------
\* The game.
StartMovie(address, name) ==
  /\ ~movie.plays /\ movie.number < MaxMovies
  /\ movie' = [number |-> movie.number + 1, address |-> address, name |-> name, elapsed |-> 0,
               plays |-> TRUE]
  /\ queried' = {}
  /\ UNCHANGED <<clocks, enabled, service, seen, history>>

EndMovie ==
  /\ movie.plays
  /\ movie' = [movie EXCEPT !.plays = FALSE]
  /\ queried' = Sites
  /\ UNCHANGED <<clocks, enabled, service, seen, history>>

Older(age, limit) == IF age < limit THEN age + 1 ELSE age

\* While a movie plays the loop asks at both sites in every tick; the picture
\* may stall.
MediaTick ==
  /\ queried = Sites
  /\ \E stalls \in BOOLEAN :
       movie' = IF movie.plays /\ ~stalls
                THEN [movie EXCEPT !.elapsed = Older(@, SkipAfter + 1)] ELSE movie
  /\ queried' = IF movie.plays THEN {} ELSE Sites
  /\ clocks' = [s \in Sites |-> [clocks[s] EXCEPT !.age = Older(@, Throttle)]]
  /\ sampleAge' = Older(sampleAge, Freshness + 1)
  /\ requestAge' = Older(requestAge, RequestLimit + 1)
  /\ UNCHANGED <<enabled, state, skipper, identity, retired, generation, seen, history>>
-----------------------------------------------------------------------------
\* Service::observe_at, step by step, on a record of the service's fields.
Service ==
  [state |-> state, owner |-> skipper, identity |-> identity, retired |-> retired,
   generation |-> generation, sampleAge |-> sampleAge, skips |-> FALSE]

\* Nothing plays, or nothing is known of it.
Forgotten(s) == [s EXCEPT !.state = Nothing, !.owner = NoGuest, !.identity = NoAddress, !.retired = NoAddress]

\* Another playback: another object, a gap, or a clock that went back.  Slip:
\* the clock of the movie is not looked at.
SlipElapsedIgnored(s) ==
  movie.address # s.identity \/ s.state.generation = 0 \/ s.sampleAge > Freshness
Replaced(s) ==
  \/ movie.address # s.identity \/ s.state.generation = 0
  \/ s.sampleAge > Freshness \/ movie.elapsed < s.state.elapsed

\* A generation of its own for it.
Renewed(s) ==
  [s EXCEPT !.state = [Nothing EXCEPT !.generation = s.generation + 1], !.owner = NoGuest,
            !.retired = NoAddress, !.generation = s.generation + 1, !.identity = movie.address]

\* The resource was changed in place.
Renamed(s)    == s.state.name \notin {"none", movie.name}
Restarted(s)  == [s EXCEPT !.owner = NoGuest, !.generation = s.generation + 1, !.state.generation = s.generation + 1]

\* A sample is taken; a request that is too old goes, as does one that is younger than
\* the clock of the observation: the worker made it after that clock was read.
Sampled(s, early) ==
  [s EXCEPT !.state = [generation |-> s.state.generation, elapsed |-> movie.elapsed,
                       skippable |-> movie.elapsed > SkipAfter, name |-> movie.name],
            !.sampleAge = 0,
            !.owner = IF requestAge > RequestLimit \/ early THEN NoGuest ELSE s.owner]

Consumed(s, site) ==
  IF site = "loop" /\ s.owner # NoGuest /\ s.state.skippable
  THEN [s EXCEPT !.owner = NoGuest, !.retired = movie.address, !.state = Nothing, !.skips = TRUE]
  ELSE s

\* An observation of the movie that plays.
Observed(site, early) ==
  LET fresh == IF Replaced(Service) THEN Renewed(Service) ELSE Service
      named == IF Renamed(fresh) THEN Restarted(fresh) ELSE fresh
  IN  IF retired = movie.address THEN Service
      ELSE IF Replaced(Service) /\ generation = MaxGeneration
        THEN [Service EXCEPT !.state = Nothing, !.owner = NoGuest, !.retired = NoAddress]
      ELSE IF Renamed(fresh) /\ fresh.generation = MaxGeneration
        THEN [fresh EXCEPT !.state = Nothing, !.owner = NoGuest]
      ELSE Consumed(Sampled(named, early), site)

Becomes(s) ==
  /\ state' = s.state /\ skipper' = s.owner /\ identity' = s.identity /\ retired' = s.retired
  /\ generation' = s.generation /\ sampleAge' = s.sampleAge
  /\ UNCHANGED requestAge

\* route_at: one query of the game.  A sample that was taken is not repeated
\* within Throttle; the answer "no longer playing" always counts.  Slip: the
\* sites share one clock.
SlipSharedClock(site) ==
  \E s \in Sites : clocks[s].object = movie.address /\ clocks[s].age < Throttle
Throttled(site) == clocks[site].object = movie.address /\ clocks[site].age < Throttle

\* Something is asked of the service: readable, if the movie's name could be
\* read; locked, if the worker has the lock; early, if its clock was read before the
\* worker stamped a request.
QueryPlaying(site, readable, locked) ==
  /\ movie.plays /\ site \notin queried /\ enabled /\ ~Throttled(site)
  /\ queried' = queried \union {site}
  /\ clocks' = [clocks EXCEPT ![site] = [object |-> movie.address, age |-> 0]]
  /\ \E early \in {e \in BOOLEAN : e => requestAge = 0} :
     LET after == IF locked THEN Service
                  ELSE IF readable THEN Observed(site, early) ELSE Forgotten(Service)
     IN  /\ Becomes(after)
         /\ movie' = [movie EXCEPT !.plays = ~after.skips]
         /\ skipped' = IF after.skips THEN movie.number ELSE skipped
         /\ sampledOf' = IF after.state # Nothing /\ after.sampleAge = 0 /\ ~locked
                         THEN movie.number ELSE sampledOf
  /\ missed' = (missed \/ (locked /\ site = "loop"))
  /\ UNCHANGED <<enabled, seen, wanted>>

\* Nothing is asked: the sample is recent, or the service is off.
QueryPassed(site) ==
  /\ movie.plays /\ site \notin queried /\ (~enabled \/ Throttled(site))
  /\ queried' = queried \union {site}
  /\ UNCHANGED <<movie, clocks, enabled, service, seen, history>>

\* The last query of a movie that is over, if the game makes one.
QueryEnded(site, locked) ==
  /\ ~movie.plays /\ movie.number > 0 /\ enabled
  /\ clocks' = [clocks EXCEPT ![site] = [object |-> NoAddress, age |-> 0]]
  /\ Becomes(IF locked THEN Service ELSE Forgotten(Service))
  /\ UNCHANGED <<game, enabled, seen, history>>
-----------------------------------------------------------------------------
\* The worker.
Readable == enabled /\ state.generation # 0 /\ sampleAge <= Freshness

\* Service::read_at.
ReadMovie(o) ==
  /\ Readable
  /\ seen' = [seen EXCEPT ![o] = [generation |-> state.generation, 
                                movie |-> IF state.skippable THEN sampledOf ELSE 0]]
  /\ UNCHANGED <<game, clocks, enabled, service, history>>

Expired == requestAge > RequestLimit

\* Service::request_at.
Accepts(o) ==
  /\ seen[o].generation # 0 /\ seen[o].generation = state.generation
  /\ state.skippable /\ (skipper = NoGuest \/ Expired)

Request(o) ==
  /\ Readable /\ Accepts(o)
  /\ skipper' = o /\ requestAge' = 0
  /\ wanted' = seen[o].movie /\ missed' = FALSE
  /\ UNCHANGED <<game, clocks, enabled, state, identity, retired, generation, sampleAge, seen,
                 sampledOf, skipped>>

\* A refusal may still drop a request that expired.
RequestRefused(o) ==
  /\ Readable /\ ~Accepts(o) /\ skipper # NoGuest /\ Expired
  /\ skipper' = NoGuest
  /\ UNCHANGED <<game, clocks, enabled, state, identity, retired, generation, sampleAge, requestAge,
                 seen, history>>

\* Service::release waits for the lock.
ReleaseSkip(o) ==
  /\ skipper' = IF skipper = o THEN NoGuest ELSE skipper
  /\ wanted' = IF skipper = o THEN 0 ELSE wanted
  /\ seen' = [seen EXCEPT ![o] = [generation |-> 0, movie |-> 0]]
  /\ UNCHANGED <<game, clocks, enabled, state, identity, retired, generation, sampleAge, requestAge,
                 sampledOf, missed, skipped>>

\* Service::enable(false), when the adapter stops.
Disable ==
  /\ enabled
  /\ enabled' = FALSE
  /\ state' = Nothing /\ skipper' = NoGuest /\ identity' = NoAddress /\ retired' = NoAddress
  /\ UNCHANGED <<game, clocks, generation, sampleAge, requestAge, seen, history>>

MediaNext ==
  \/ \E address \in Addresses, name \in Names : StartMovie(address, name)
  \/ EndMovie \/ MediaTick \/ Disable
  \/ \E site \in Sites, locked \in BOOLEAN :
       QueryEnded(site, locked) \/ \E readable \in BOOLEAN : QueryPlaying(site, readable, locked)
  \/ \E site \in Sites : QueryPassed(site)
  \/ \E o \in Guests : ReadMovie(o) \/ Request(o) \/ RequestRefused(o) \/ ReleaseSkip(o)

MediaSpec == MediaInit /\ [][MediaNext]_mediaVars
-----------------------------------------------------------------------------
\* Properties.

MediaTypeOK ==
  /\ movie \in [number : 0..MaxMovies, address : Addresses \union {NoAddress},
                name : Names \union {"none"}, elapsed : 0..(SkipAfter + 1), plays : BOOLEAN]
  /\ queried \subseteq Sites
  /\ clocks \in [Sites -> [object : Addresses \union {NoAddress}, age : 0..Throttle]]
  /\ enabled \in BOOLEAN /\ missed \in BOOLEAN
  /\ state \in [generation : 0..MaxGeneration, elapsed : 0..(SkipAfter + 1), skippable : BOOLEAN,
                name : Names \union {"none"}]
  /\ skipper \in Guests \union {NoGuest}
  /\ {identity, retired} \subseteq Addresses \union {NoAddress}
  /\ generation \in 0..MaxGeneration
  /\ sampleAge \in 0..(Freshness + 1) /\ requestAge \in 0..(RequestLimit + 1)
  /\ seen \in [Guests -> [generation : 0..MaxGeneration, movie : 0..MaxMovies]]
  /\ {sampledOf, wanted, skipped} \subseteq 0..MaxMovies
  \* A request is for the state that can be read.
  /\ skipper # NoGuest => state.generation # 0

\* If the guest had read that a movie could be skipped when it asked, the movie
\* that is ended is that one, and not a later one at the same address and with
\* the same name (media_service.cpp:30).
SkipHitsItsMovie ==
  [][(skipped' # skipped /\ wanted # 0) => movie.number = wanted]_mediaVars

\* While the movie plays on, no request outlives a throttling period by more than
\* a tick unless the lock was missed: the site that only observes does not starve
\* the one that acts (media_hook.cpp:34).
SkipsPromptly ==
  (skipper # NoGuest /\ enabled /\ movie.plays /\ movie.number = wanted /\ requestAge > Throttle + 1)
    => missed

\* A skip ends the movie its guest saw, and no later one, and does not wait for longer
\* than the throttle of the site that acts.
SkipsItsMovie == [][SkipsPromptly']_mediaVars /\ SkipHitsItsMovie
=============================================================================
