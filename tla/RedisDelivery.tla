---------------------------- MODULE RedisDelivery ----------------------------
(***************************************************************************)
(* How locations travel between location-service and the instances of      *)
(* realtime-service over Redis, and which object of an instance they       *)
(* reach.  Every instance holds two objects of class RealtimeService: the  *)
(* gateways use the one provided as 'IRealtimeService', while messages go  *)
(* to the handler registered last.                                         *)
(*                                                                         *)
(* Redis (external) delivers to each connection in the order of            *)
(* publication, and nothing while there is none: what is published then,   *)
(* or is on its way when the connection is lost, is not repeated.  A       *)
(* connection subscribed to a channel and to a pattern that matches it     *)
(* receives two copies.  Subscribing is module RealtimeService's subject:  *)
(* here an instance listens to the channels of the drivers that its        *)
(* gateways' clients follow.                                               *)
(*                                                                         *)
(* What an instance publishes waits in the queue of its other connection   *)
(* until Redis has answered, and is sent again when that is lost.  Module  *)
(* LocationService has the queue of location-service, which here publishes *)
(* a location as it is stamped; module RealtimeService has the awaits of a *)
(* load, which here is one step.  A location is the rank of its timestamp, *)
(* 0 stands for none.                                                      *)
(***************************************************************************)
EXTENDS Naturals, Sequences, FiniteSets, SequencesExt

CONSTANTS
    Instances,  \* of realtime-service
    Drivers,
    General,    \* the driver that channel driver:location:updates is taken for
    MaxClock,   \* bound: reports in a behaviour
    MaxLosses   \* bound: connections lost and instances killed in a behaviour

ASSUME GeneralAssumption == General \notin Drivers
ASSUME BoundsAssumption == MaxClock \in Nat /\ MaxLosses \in Nat

VARIABLES
    clock,
    locationCache,  \* instance, object, driver -> location
    followed,       \* instance -> the drivers its clients follow
    inbox,          \* instance -> messages Redis has sent it
    unannounced,    \* locations location-service has not put on the general channel
    stored,         \* driver -> the last location that location-service has saved
    published,      \* driver -> the locations published on its channel, in order
    outbox,         \* instance -> its commands that are not answered
    executed,       \* instance -> how many of them Redis has executed
    resends,        \* location -> how often a lost answer had it sent again
    started,        \* the instances that have set up their message handlers
    listening,      \* the instances whose subscriptions Redis has
    since,          \* instance -> the last location before Redis had them
    losses

redis == <<inbox, published>>
publisher == <<outbox, executed, resends>>
connections == <<started, listening, since, losses>>
vars == <<clock, locationCache, followed, redis, publisher, unannounced, stored, connections>>

Locations == 0 .. MaxClock
Keys == Drivers \cup {General}

\* The two providers whose constructor registers a handler, in their order.
ProvidersReversed == <<"RealtimeService", "IRealtimeService">>
Providers == <<"IRealtimeService", "RealtimeService">>

Objects == {"IRealtimeService", "RealtimeService"}

\* RedisRealtimeMessaging keeps the handler registered last.
Handler == Last(Providers)

Init ==
    /\ clock = 0
    /\ locationCache = [i \in Instances |-> [o \in Objects |-> [d \in Keys |-> 0]]]
    /\ followed = [i \in Instances |-> {}]
    /\ inbox = [i \in Instances |-> <<>>]
    /\ unannounced = {}
    /\ stored = [d \in Drivers |-> 0]
    /\ published = [d \in Drivers |-> <<>>]
    /\ outbox = [i \in Instances |-> <<>>]
    /\ executed = [i \in Instances |-> 0]
    /\ resends = [l \in 1 .. MaxClock |-> 0]
    /\ started = {}
    /\ listening = {}
    /\ since = [i \in Instances |-> 0]
    /\ losses = 0

-----------------------------------------------------------------------------
(* Redis *)

\* Mutant: without the pattern, an instance gets what it subscribed to.
CopiesExact(i, d, l) ==
    LET m == [driver |-> d, location |-> l]
    IN  IF i \in listening /\ d \in followed[i] THEN <<m>> ELSE <<>>

\* What instance i receives of a message on the channel of driver d: one copy
\* for the pattern driver:*:location, one for the channel itself.
Copies(i, d, l) ==
    LET m == [driver |-> d, location |-> l]
    IN  CASE i \notin listening -> <<>>
          [] i \in listening /\ d \in followed[i] -> <<m, m>>
          [] OTHER -> <<m>>

\* To every instance, and in the history of the channel.
Publish(d, l) ==
    /\ inbox' = [i \in Instances |-> inbox[i] \o Copies(i, d, l)]
    /\ published' = [published EXCEPT ![d] = Append(@, l)]

\* handleDriverLocationUpdate of one object: only the one the gateways use has
\* clients, hence followers.
Handle(i, object, d, l) ==
    /\ locationCache' = [locationCache EXCEPT ![i][object][d] = l]
    /\ \/ /\ object = "IRealtimeService" /\ d \in followed[i]
          /\ outbox' = [outbox EXCEPT ![i] = Append(@, [driver |-> d, location |-> l])]
       \/ /\ ~(object = "IRealtimeService" /\ d \in followed[i])
          /\ UNCHANGED outbox
    /\ UNCHANGED <<executed, resends>>

-----------------------------------------------------------------------------
(* Steps *)

\* location-service saves a location and publishes it on the driver's channel.
ReportOverHttp(d) ==
    /\ clock < MaxClock
    /\ clock' = clock + 1
    /\ stored' = [stored EXCEPT ![d] = clock + 1]
    /\ unannounced' = unannounced \cup {clock + 1}
    /\ Publish(d, clock + 1)
    /\ UNCHANGED <<locationCache, followed, publisher, connections>>

\* Mutant: the channel's name is taken for the driver's.
AnnounceWhole(l) ==
    /\ l \in unannounced
    /\ unannounced' = unannounced \ {l}
    /\ inbox' = [i \in Instances |->
          IF i \in listening
          THEN Append(inbox[i], [driver |-> "driver:location:updates", location |-> l])
          ELSE inbox[i]]
    /\ UNCHANGED <<clock, locationCache, followed, published, publisher, stored, connections>>

\* Then on the general channel, whose name is taken apart like the others.
Announce(l) ==
    /\ l \in unannounced
    /\ unannounced' = unannounced \ {l}
    /\ inbox' = [i \in Instances |->
          IF i \in listening
          THEN Append(inbox[i], [driver |-> General, location |-> l])
          ELSE inbox[i]]
    /\ UNCHANGED <<clock, locationCache, followed, published, publisher, stored, connections>>

\* A driver connected to instance i reports over its socket.
ReportOverSocket(i, d) ==
    /\ i \in started
    /\ clock < MaxClock
    /\ clock' = clock + 1
    /\ Handle(i, "IRealtimeService", d, clock + 1)
    /\ UNCHANGED <<followed, redis, unannounced, stored, connections>>

\* What the gateways' object has nothing cached of, it asks location-service for: when
\* a client subscribes, and for each update until there is something.
Load(i, d) ==
    /\ d \in followed[i]
    /\ locationCache[i]["IRealtimeService"][d] = 0
    /\ stored[d] # 0
    /\ locationCache' = [locationCache EXCEPT ![i]["IRealtimeService"][d] = stored[d]]
    /\ UNCHANGED <<clock, followed, redis, publisher, unannounced, stored, connections>>

\* "message" and "pmessage" do the same.
Deliver(i) ==
    /\ inbox[i] # <<>>
    /\ Handle(i, Handler, Head(inbox[i]).driver, Head(inbox[i]).location)
    /\ inbox' = [inbox EXCEPT ![i] = Tail(@)]
    /\ UNCHANGED <<clock, followed, published, unannounced, stored, connections>>

\* Redis executes the next command of instance i.
RedisPublishes(i) ==
    LET command == outbox[i][executed[i] + 1]
    IN  /\ executed[i] < Len(outbox[i])
        /\ executed' = [executed EXCEPT ![i] = @ + 1]
        /\ Publish(command.driver, command.location)
        /\ UNCHANGED <<clock, locationCache, followed, outbox, resends, unannounced, stored,
                       connections>>

PublishAnswered(i) ==
    /\ executed[i] > 0
    /\ executed' = [executed EXCEPT ![i] = @ - 1]
    /\ outbox' = [outbox EXCEPT ![i] = Tail(@)]
    /\ UNCHANGED <<clock, locationCache, followed, redis, resends, unannounced, stored, connections>>

\* Without a connection the first follower of a driver waits; the second does not.
Follow(i, d) ==
    /\ i \in started
    /\ d \notin followed[i]
    /\ followed' = [followed EXCEPT ![i] = @ \cup {d}]
    /\ UNCHANGED <<clock, locationCache, redis, publisher, unannounced, stored, connections>>

Unfollow(i, d) ==
    /\ d \in followed[i]
    /\ followed' = [followed EXCEPT ![i] = @ \ {d}]
    /\ UNCHANGED <<clock, locationCache, redis, publisher, unannounced, stored, connections>>

\* Both pings are answered; then the instance listens to its clients.
Start(i) ==
    /\ i \notin started
    /\ started' = started \cup {i}
    /\ UNCHANGED <<clock, locationCache, followed, redis, publisher, unannounced, stored,
                   listening, since, losses>>

\* Redis has the subscriptions: the first ones, or those that ioredis repeats when
\* it has a connection again.
Connect(i) ==
    /\ i \in started \ listening
    /\ listening' = listening \cup {i}
    /\ since' = [since EXCEPT ![i] = clock]
    /\ UNCHANGED <<clock, locationCache, followed, redis, publisher, unannounced, stored,
                   started, losses>>

\* The subscriber's connection is lost, with the messages that were on their way.
Close(i) ==
    /\ i \in listening
    /\ losses < MaxLosses
    /\ losses' = losses + 1
    /\ listening' = listening \ {i}
    /\ \E n \in 0 .. Len(inbox[i]) : inbox' = [inbox EXCEPT ![i] = SubSeq(@, 1, n)]
    /\ UNCHANGED <<clock, locationCache, followed, published, publisher, unannounced, stored,
                   started, since>>

\* The publisher's connection is lost, with the answers that were on their way:
\* ioredis sends again what was not answered, when there is a connection again.
ClosePublisher(i) ==
    /\ outbox[i] # <<>>
    /\ losses < MaxLosses
    /\ losses' = losses + 1
    /\ executed' = [executed EXCEPT ![i] = 0]
    /\ resends' = [l \in 1 .. MaxClock |->
          IF \E n \in 1 .. executed[i] : outbox[i][n].location = l
          THEN resends[l] + 1 ELSE resends[l]]
    /\ UNCHANGED <<clock, locationCache, followed, redis, outbox, unannounced, stored,
                   started, listening, since>>

\* The process of instance i is killed.  All it knows is in memory.
Crash(i) ==
    /\ i \in started
    /\ losses < MaxLosses
    /\ losses' = losses + 1
    /\ started' = started \ {i}
    /\ listening' = listening \ {i}
    /\ locationCache' = [locationCache EXCEPT ![i] = [o \in Objects |-> [d \in Keys |-> 0]]]
    /\ followed' = [followed EXCEPT ![i] = {}]
    /\ inbox' = [inbox EXCEPT ![i] = <<>>]
    /\ outbox' = [outbox EXCEPT ![i] = <<>>]
    /\ executed' = [executed EXCEPT ![i] = 0]
    /\ UNCHANGED <<clock, published, resends, unannounced, stored, since>>

Next ==
    \/ \E d \in Drivers : ReportOverHttp(d)
    \/ \E l \in unannounced : Announce(l)
    \/ \E i \in Instances, d \in Drivers :
          ReportOverSocket(i, d) \/ Load(i, d) \/ Follow(i, d) \/ Unfollow(i, d)
    \/ \E i \in Instances :
          \/ Deliver(i) \/ RedisPublishes(i) \/ PublishAnswered(i)
          \/ Start(i) \/ Connect(i) \/ Close(i) \/ ClosePublisher(i) \/ Crash(i)

Spec == Init /\ [][Next]_vars

-----------------------------------------------------------------------------
(* Properties *)

Messages == [driver : Keys, location : 1 .. MaxClock]

\* Types of the state.
TypeOK ==
    /\ clock \in Locations
    /\ locationCache \in [Instances -> [Objects -> [Keys -> Locations]]]
    /\ followed \in [Instances -> SUBSET Drivers]
    /\ inbox \in [Instances -> Seq(Messages)]
    /\ unannounced \subseteq 1 .. MaxClock
    /\ stored \in [Drivers -> Locations]
    /\ published \in [Drivers -> Seq(1 .. MaxClock)]
    /\ outbox \in [Instances -> Seq([driver : Drivers, location : 1 .. MaxClock])]
    /\ \A i \in Instances : executed[i] \in 0 .. Len(outbox[i])
    /\ resends \in [1 .. MaxClock -> 0 .. MaxLosses]
    /\ listening \subseteq started /\ started \subseteq Instances
    /\ since \in [Instances -> Locations]
    /\ losses \in 0 .. MaxLosses

Publications(d, l) == {n \in 1 .. Len(published[d]) : published[d][n] = l}

\* No echo: a location is published on its driver's channel once, and once more for
\* every answer that was lost.  An instance receives its own publications, so this
\* rests on messages going to an object that has no followers: the handler does
\* publish what it is given.
PublishedOnce ==
    \A d \in Drivers, l \in 1 .. MaxClock :
        Cardinality(Publications(d, l)) <= 1 + resends[l]

LastPublished(d) == IF published[d] = <<>> THEN 0 ELSE Last(published[d])

\* What Redis had to tell instance i of driver d, it has told, and the instance
\* has handled it: the last publication came while Redis had its subscriptions.
Informed(i, d) ==
    /\ i \in listening
    /\ LastPublished(d) > since[i]
    /\ \A n \in 1 .. Len(inbox[i]) : inbox[i][n].driver # d

\* An instance that was sent the last publication about a driver, and has handled
\* it, has it in the handler's cache, whether or not it listens to the driver's own
\* channel, and whatever connections and processes were lost before.
HandlerCacheCurrent ==
    \A i \in Instances, d \in Drivers :
        Informed(i, d) => locationCache[i][Handler][d] = LastPublished(d)

Overtaken(d, l, other) ==
    \E n \in Publications(d, l), m \in Publications(d, other) : m < n

\* A location in the handler's cache is replaced by an older one only if Redis
\* published the older one (again) after it, or is forgotten with the process: the
\* two copies of a message, what is handled after a connection is lost and what
\* comes after the gap never take it back.  They would, if the handler were the
\* object that reports over the socket write to.
HandlerCacheAdvances ==
    [][\A i \in Instances, d \in Drivers :
          LET old == locationCache[i][Handler][d]
              new == locationCache'[i][Handler][d]
          IN  new >= old \/ Overtaken(d, new, old) \/ i \notin started']_vars

\* Once the gateways' object has a location of a driver who is followed, what it has
\* is at least as recent as the last one published, under the same conditions: it
\* does not ask location-service again (realtime.service.ts:60, "Configure handler
\* to receive location updates from other instances").
GatewayCacheCurrent ==
    \A i \in Instances, d \in Drivers :
        LET cached == locationCache[i]["IRealtimeService"][d]
        IN  d \in followed[i] /\ Informed(i, d) /\ cached # 0 => cached >= LastPublished(d)
=============================================================================
