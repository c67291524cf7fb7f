--------------------------- MODULE RealtimeService ---------------------------
(***************************************************************************)
(* The RealtimeService class of realtime-service: which client follows     *)
(* which driver, the Redis channels this instance listens to, and the      *)
(* caches of locations and profiles.                                       *)
(*                                                                         *)
(* Node runs one callback at a time, so an action is the code between two  *)
(* awaits.  A call that awaits is a member of Calls; its record says where *)
(* it waits.  Commands on the Redis subscriber connection are answered in  *)
(* the order in which they were sent; HTTP answers arrive in any order.    *)
(* A location is its age rank: the value of `clock` when its driver        *)
(* reported it, 0 standing for none.  Messages that Redis delivers do not  *)
(* reach this object (the module registers the handler of another one).    *)
(***************************************************************************)
EXTENDS Naturals, Sequences

CONSTANTS
    Clients,        \* socket ids
    Drivers,
    Calls,          \* the calls that may be in progress at the same time
    None,
    MaxClock,       \* bound: location reports in a behaviour
    SerialClients,  \* a client awaits the answer to a request before the next
    CommandsFail    \* Redis may reject a subscribe or an unsubscribe

ASSUME NoneAssumption == None \notin Clients \cup Drivers
ASSUME ClockAssumption == MaxClock \in Nat

VARIABLES
    clientSubscriptions, \* client -> the driver it follows, or None
    tracked,             \* the keys of driverSubscribers
    driverSubscribers,   \* driver -> its followers ({} when not a key)
    locationCache,       \* driver -> location, 0 when not a key
    profileCache,        \* the drivers whose profile is cached
    published,           \* driver -> the last location published to Redis
    subscriber,          \* the calls whose command awaits Redis' answer
    channels,            \* the driver channels Redis has us subscribed to
    call,                \* Calls -> where each call is
    stored,              \* driver -> what location-service answers now
    clock

registry == <<clientSubscriptions, tracked, driverSubscribers>>
redis == <<subscriber, channels, published>>
world == <<stored, clock>>
vars == <<registry, locationCache, profileCache, redis, call, world>>

Locations == 0 .. MaxClock

Phases == {"idle", "unsubscribing", "released", "subscribing", "profile",
           "location", "getLocation", "getProfile"}

\* driver: the one the call works on; next: the one to follow afterwards.
CallRecords ==
    [at : Phases, client : Clients \cup {None}, driver : Drivers \cup {None},
     next : Drivers \cup {None}, served : BOOLEAN, location : Locations,
     profile : BOOLEAN]

Waiting(at, c, d, next) ==
    [at |-> at, client |-> c, driver |-> d, next |-> next,
     served |-> FALSE, location |-> 0, profile |-> FALSE]

IdleCall == Waiting("idle", None, None, None)

Init ==
    /\ clientSubscriptions = [c \in Clients |-> None]
    /\ tracked = {}
    /\ driverSubscribers = [d \in Drivers |-> {}]
    /\ locationCache = [d \in Drivers |-> 0]
    /\ profileCache = {}
    /\ published = [d \in Drivers |-> 0]
    /\ subscriber = <<>>
    /\ channels = {}
    /\ call = [k \in Calls |-> IdleCall]
    /\ stored = [d \in Drivers |-> 0]
    /\ clock = 0

Goto(k, record) == call' = [call EXCEPT ![k] = record]

MayStart(k, c) ==
    /\ call[k].at = "idle"
    /\ SerialClients => \A other \in Calls : call[other].client # c

-----------------------------------------------------------------------------
(* The steps that requests are made of *)

\* What is left of subscribeToDriverUpdates once c is in d's set.
Loading(c, d, profiles) ==
    IF d \notin profiles THEN Waiting("profile", c, d, None)
    ELSE IF locationCache[d] = 0 THEN Waiting("location", c, d, None)
    ELSE IdleCall

Enroll(k, c, d) ==
    /\ driverSubscribers' = [driverSubscribers EXCEPT ![d] = @ \cup {c}]
    /\ Goto(k, Loading(c, d, profileCache))

\* Mutant: a second follower waits for a command it never sends.
FollowUnsent(k, c, d) ==
    /\ clientSubscriptions' = [clientSubscriptions EXCEPT ![c] = d]
    /\ tracked' = tracked \cup {d}
    /\ subscriber' = IF d \in tracked THEN subscriber ELSE Append(subscriber, k)
    /\ Goto(k, Waiting("subscribing", c, d, None))
    /\ UNCHANGED driverSubscribers

\* Mutant: the client joins the set before Redis has answered.
FollowEarly(k, c, d) ==
    /\ clientSubscriptions' = [clientSubscriptions EXCEPT ![c] = d]
    /\ tracked' = tracked \cup {d}
    /\ driverSubscribers' = [driverSubscribers EXCEPT ![d] = @ \cup {c}]
    /\ \/ d \in tracked /\ Goto(k, Loading(c, d, profileCache)) /\ UNCHANGED subscriber
       \/ /\ d \notin tracked
          /\ subscriber' = Append(subscriber, k)
          /\ Goto(k, Waiting("subscribing", c, d, None))

Follow(k, c, d) ==
    /\ clientSubscriptions' = [clientSubscriptions EXCEPT ![c] = d]
    /\ tracked' = tracked \cup {d}
    /\ \/ /\ d \in tracked
          /\ Enroll(k, c, d)
          /\ UNCHANGED subscriber
       \/ /\ d \notin tracked
          /\ subscriber' = Append(subscriber, k)
          /\ Goto(k, Waiting("subscribing", c, d, None))
          /\ UNCHANGED driverSubscribers

\* Mutant: goes on to subscribe when there is nothing to follow.
AfterReleaseAlways(c, next) == Waiting("released", c, next, None)

AfterRelease(c, next) ==
    IF next = None THEN IdleCall ELSE Waiting("released", c, next, None)

\* unsubscribeClientFromDriver, up to its await.
Release(k, c, d, next) ==
    /\ driverSubscribers' = [driverSubscribers EXCEPT ![d] = @ \ {c}]
    /\ \/ /\ d \in tracked
          /\ driverSubscribers[d] \subseteq {c}
          /\ subscriber' = Append(subscriber, k)
          /\ Goto(k, Waiting("unsubscribing", c, d, next))
          /\ UNCHANGED clientSubscriptions
       \/ /\ ~(d \in tracked /\ driverSubscribers[d] \subseteq {c})
          /\ clientSubscriptions' = [clientSubscriptions EXCEPT ![c] = None]
          /\ Goto(k, AfterRelease(c, next))
          /\ UNCHANGED subscriber
    /\ UNCHANGED tracked

-----------------------------------------------------------------------------
(* The operations of IRealtimeService *)

\* Mutant: does not leave the previous driver first.
SubscribeOnly(k, c, d) ==
    /\ MayStart(k, c)
    /\ Follow(k, c, d)
    /\ UNCHANGED <<locationCache, profileCache, published, channels, world>>

SubscribeToDriverUpdates(k, c, d) ==
    /\ MayStart(k, c)
    /\ \/ clientSubscriptions[c] # None /\ Release(k, c, clientSubscriptions[c], d)
       \/ clientSubscriptions[c] = None /\ Follow(k, c, d)
    /\ UNCHANGED <<locationCache, profileCache, published, channels, world>>

UnsubscribeFromDriverUpdates(k, c) ==
    /\ MayStart(k, c)
    /\ clientSubscriptions[c] # None
    /\ Release(k, c, clientSubscriptions[c], None)
    /\ UNCHANGED <<locationCache, profileCache, published, channels, world>>

\* Mutant: asks location-service whether or not the location is cached.
GetDriverLocationAndProfileFresh(k, d) ==
    /\ call[k].at = "idle"
    /\ Goto(k, [Waiting("getLocation", None, d, None) EXCEPT !.profile = d \in profileCache])
    /\ UNCHANGED <<registry, locationCache, profileCache, redis, world>>

\* Reads both caches before its first await.  An answer that is at hand at
\* once changes nothing.
GetDriverLocationAndProfile(k, d) ==
    LET Get(at) == [Waiting(at, None, d, None) EXCEPT
                      !.location = locationCache[d], !.profile = d \in profileCache]
    IN  /\ call[k].at = "idle"
        /\ \/ locationCache[d] = 0 /\ Goto(k, Get("getLocation"))
           \/ /\ locationCache[d] # 0
              /\ d \notin profileCache
              /\ Goto(k, Get("getProfile"))
        /\ UNCHANGED <<registry, locationCache, profileCache, redis, world>>

\* A driver connected to this instance reports a location, stamped by
\* DriverGateway as it arrives.
HandleDriverLocationUpdate(d) ==
    /\ clock < MaxClock
    /\ clock' = clock + 1
    /\ locationCache' = [locationCache EXCEPT ![d] = clock + 1]
    /\ \/ driverSubscribers[d] = {} /\ UNCHANGED published
       \/ /\ driverSubscribers[d] # {}
          /\ published' = [published EXCEPT ![d] = clock + 1]
    /\ UNCHANGED <<registry, profileCache, subscriber, channels, call, stored>>

-----------------------------------------------------------------------------
(* What the calls wait for *)

\* subscribeToDriverUpdates goes on after the await of the helper.
Resume(k) ==
    /\ call[k].at = "released"
    /\ Follow(k, call[k].client, call[k].driver)
    /\ UNCHANGED <<locationCache, profileCache, published, channels, world>>

\* Mutant: the entry of a driver nobody follows is kept.
UnsubscribeAnsweredEntryKept ==
    LET k == Head(subscriber)
    IN  /\ subscriber # <<>>
        /\ call[k].at = "unsubscribing"
        /\ subscriber' = Tail(subscriber)
        /\ channels' = channels \ {call[k].driver}
        /\ clientSubscriptions' = [clientSubscriptions EXCEPT ![call[k].client] = None]
        /\ Goto(k, AfterRelease(call[k].client, call[k].next))
        /\ UNCHANGED <<tracked, driverSubscribers, locationCache, profileCache,
                       published, world>>

UnsubscribeAnswered ==
    LET k == Head(subscriber)
        d == call[k].driver
    IN  /\ subscriber # <<>>
        /\ call[k].at = "unsubscribing"
        /\ subscriber' = Tail(subscriber)
        /\ channels' = channels \ {d}
        /\ tracked' = tracked \ {d}
        /\ driverSubscribers' = [driverSubscribers EXCEPT ![d] = {}]
        /\ clientSubscriptions' = [clientSubscriptions EXCEPT ![call[k].client] = None]
        /\ Goto(k, AfterRelease(call[k].client, call[k].next))
        /\ UNCHANGED <<locationCache, profileCache, published, world>>

\* The set may have been deleted since: `driverSubscribers.get(driverId).add`
\* then throws, and the request ends with an error.
SubscribeAnswered ==
    LET k == Head(subscriber)
        d == call[k].driver
    IN  /\ subscriber # <<>>
        /\ call[k].at = "subscribing"
        /\ subscriber' = Tail(subscriber)
        /\ channels' = channels \cup {d}
        /\ \/ d \in tracked /\ Enroll(k, call[k].client, d)
           \/ d \notin tracked /\ Goto(k, IdleCall) /\ UNCHANGED driverSubscribers
        /\ UNCHANGED <<clientSubscriptions, tracked, locationCache, profileCache,
                       published, world>>

\* A rejected command ends the request where it stands.
CommandRejected ==
    /\ CommandsFail
    /\ subscriber # <<>>
    /\ subscriber' = Tail(subscriber)
    /\ Goto(Head(subscriber), IdleCall)
    /\ UNCHANGED <<registry, locationCache, profileCache, channels, published, world>>

CachedProfiles(d, found) == IF found THEN profileCache \cup {d} ELSE profileCache

\* Mutant: loads the location whether or not it is cached.
ProfileFetchedReload(k, found) ==
    LET d == call[k].driver
    IN  /\ \/ /\ call[k].at = "profile"
              /\ Goto(k, Waiting("location", call[k].client, d, None))
           \/ call[k].at = "getProfile" /\ Goto(k, IdleCall)
        /\ profileCache' = CachedProfiles(d, found)
        /\ UNCHANGED <<registry, locationCache, redis, world>>

\* HttpDriverService turns every error into "not found".
ProfileFetched(k, found) ==
    LET d == call[k].driver
    IN  /\ \/ /\ call[k].at = "profile"
              /\ Goto(k, IF locationCache[d] = 0
                         THEN Waiting("location", call[k].client, d, None)
                         ELSE IdleCall)
           \/ call[k].at = "getProfile" /\ Goto(k, IdleCall)
        /\ profileCache' = CachedProfiles(d, found)
        /\ UNCHANGED <<registry, locationCache, redis, world>>

\* location-service reads its repository, or the HTTP request fails.
LocationServed(k, failed) ==
    /\ call[k].at \in {"location", "getLocation"}
    /\ ~call[k].served
    /\ Goto(k, [call[k] EXCEPT !.served = TRUE,
                  !.location = IF failed THEN 0 ELSE stored[call[k].driver]])
    /\ UNCHANGED <<registry, locationCache, profileCache, redis, world>>

LocationFetched(k) ==
    LET d == call[k].driver
        found == call[k].location # 0
    IN  /\ call[k].served
        /\ \/ found /\ locationCache' = [locationCache EXCEPT ![d] = call[k].location]
           \/ ~found /\ UNCHANGED locationCache
        /\ Goto(k, IF call[k].at = "getLocation" /\ found /\ ~call[k].profile
                   THEN [call[k] EXCEPT !.at = "getProfile", !.served = FALSE]
                   ELSE IdleCall)
        /\ UNCHANGED <<registry, profileCache, redis, world>>

\* A driver reports to location-service, over HTTP.
LocationReported(d) ==
    /\ clock < MaxClock
    /\ clock' = clock + 1
    /\ stored' = [stored EXCEPT ![d] = clock + 1]
    /\ UNCHANGED <<registry, locationCache, profileCache, redis, call>>

-----------------------------------------------------------------------------

Answered(k) ==
    \/ Resume(k)
    \/ \E found \in BOOLEAN : ProfileFetched(k, found)
    \/ \E failed \in BOOLEAN : LocationServed(k, failed)
    \/ LocationFetched(k)

CommandAnswered == UnsubscribeAnswered \/ SubscribeAnswered \/ CommandRejected

Next ==
    \/ \E k \in Calls, c \in Clients, d \in Drivers : SubscribeToDriverUpdates(k, c, d)
    \/ \E k \in Calls, c \in Clients : UnsubscribeFromDriverUpdates(k, c)
    \/ \E k \in Calls, d \in Drivers : GetDriverLocationAndProfile(k, d)
    \/ \E d \in Drivers : HandleDriverLocationUpdate(d) \/ LocationReported(d)
    \/ \E k \in Calls : Answered(k)
    \/ CommandAnswered

Spec == Init /\ [][Next]_vars

\* Redis answers every command, every HTTP request is answered or fails, and
\* the event loop runs every continuation.
Fairness == WF_vars(CommandAnswered) /\ \A k \in Calls : WF_vars(Answered(k))

FairSpec == Spec /\ Fairness

-----------------------------------------------------------------------------
(* Properties *)

\* Types of the state; a driver that is not a key of driverSubscribers has no
\* followers, and the connection's queue holds calls.
TypeOK ==
    /\ clientSubscriptions \in [Clients -> Drivers \cup {None}]
    /\ tracked \in SUBSET Drivers
    /\ driverSubscribers \in [Drivers -> SUBSET Clients]
    /\ locationCache \in [Drivers -> Locations]
    /\ profileCache \in SUBSET Drivers
    /\ published \in [Drivers -> Locations]
    /\ subscriber \in Seq(Calls)
    /\ channels \in SUBSET Drivers
    /\ call \in [Calls -> CallRecords]
    /\ stored \in [Drivers -> Locations]
    /\ clock \in Locations

\* The inverse map agrees with the map: a client in a driver's set follows that
\* driver, hence is in one set at most (realtime.service.ts:22-34), whatever
\* other clients do while a request waits and wherever a request fails.
SubscribersFollow ==
    \A d \in Drivers : \A c \in driverSubscribers[d] : clientSubscriptions[c] = d

\* Once a client's request is over it is in the set of the driver it follows.
\* This is what realtime.service.ts:30 says of the inverse map.
FollowersIndexed ==
    \A c \in Clients :
        (clientSubscriptions[c] # None /\ \A k \in Calls : call[k].client # c)
            => c \in driverSubscribers[clientSubscriptions[c]]

Commanding(d) ==
    \E k \in Calls : call[k].at \in {"subscribing", "unsubscribing"}
                     /\ call[k].driver = d

\* The first follower subscribes this instance, the last one to leave
\* unsubscribes it: with no command under way for a driver that has an entry,
\* somebody follows it and Redis sends us its channel.
RegistryMatchesRedis ==
    \A d \in tracked : Commanding(d) \/ (driverSubscribers[d] # {} /\ d \in channels)

LoadingLocation(d) ==
    \E k \in Calls : call[k].at \in {"location", "getLocation"} /\ call[k].driver = d

Settled(d) == locationCache[d] # 0 /\ ~LoadingLocation(d)

\* Once a location is cached and no load of it is under way, none is ever
\* started again, and the cached location only moves forward in time.
SettledCacheAdvances ==
    [][\A d \in Drivers :
          Settled(d) => Settled(d)' /\ locationCache[d] <= locationCache'[d]]_vars

\* The registry as module Following promises it.  A client has asked for the
\* driver its request under way is for, or else for the one it is recorded with.
Asked ==
    [c \in Clients |->
        IF \E k \in Calls : call[k].client = c
        THEN LET k == CHOOSE k \in Calls : call[k].client = c
             IN  IF call[k].at = "unsubscribing" THEN call[k].next ELSE call[k].driver
        ELSE clientSubscriptions[c]]

Follows ==
    [c \in Clients |->
        IF \E d \in Drivers : c \in driverSubscribers[d]
        THEN CHOOSE d \in Drivers : c \in driverSubscribers[d]
        ELSE None]

Contract == INSTANCE Following
                WITH asked <- Asked, follows <- Follows, listening <- channels

\* With one request at a time the class implements that contract: a client
\* leaves a driver on its own request only, and joins one that Redis sends us.
ImplementsFollowing == Contract!Spec

\* Every request ends, whatever it had to wait for.
CallsComplete == \A k \in Calls : call[k].at # "idle" ~> call[k].at = "idle"
=============================================================================
