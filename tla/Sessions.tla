------------------------------ MODULE Sessions ------------------------------
(***************************************************************************)
(* An instance of realtime-service as its clients see it: ClientGateway    *)
(* and RealtimeService together.  A handler or tick of the gateway and the *)
(* call of the service that it awaits have the same name in Calls: a step  *)
(* is a step of the service, of the gateway, or of both when one calls or  *)
(* answers the other.                                                      *)
(*                                                                         *)
(* The gateway never calls unsubscribeFromDriverUpdates, not even when a   *)
(* client disconnects.  No call of the service throws here (in module      *)
(* ClientGateway one may), and Redis rejects no command.                   *)
(***************************************************************************)
EXTENDS RealtimeService

CONSTANT TimerIds

VARIABLES
    connected, clientIntervals, timers, task, offline,      \* ClientGateway
    shown   \* the driver-update that a client got in the last step, or None (history)

G == INSTANCE ClientGateway WITH Tasks <- Calls

gateway == <<connected, clientIntervals, timers, task, offline>>
sessions == <<vars, gateway, shown>>

SessionsInit ==
    /\ Init
    /\ G!Init
    /\ shown = None

\* The step sends no driver-update.
Quiet == shown' = None

\* Nothing can go on without an answer from outside: Node takes the next timer or
\* socket message only then.
CallbacksDone ==
    \A k \in Calls : call[k].at # "released" /\ (call[k].at = "idle" => task[k] = None)

Updating(k) == G!Doing(k, "first") \/ G!Doing(k, "tick")

-----------------------------------------------------------------------------
(* handleSubscription and the ticks *)

HandleSubscription(k, c, d) ==
    /\ CallbacksDone
    /\ SerialClients => ~G!Subscribing(c)
    /\ G!HandleSubscription(k, c, d)
    /\ SubscribeToDriverUpdates(k, c, d)
    /\ Quiet

\* sendDriverUpdate asks for location and profile: both are at hand, or the
\* service has to load what is missing.
Ask(k, d) ==
    \/ GetDriverLocationAndProfile(k, d)
    \/ locationCache[d] # 0 /\ d \in profileCache /\ UNCHANGED vars

SubscriptionStored(k) ==
    /\ call[k].at = "idle"
    /\ G!SubscriptionStored(k)
    /\ Ask(k, task[k].driver)
    /\ Quiet

Tick(k, t) ==
    /\ CallbacksDone
    /\ G!Tick(k, t)
    /\ Ask(k, timers[t].driver)
    /\ Quiet

\* The answer, 0 if location or profile is missing, reaches sendDriverUpdate.
\* A location that is there may be more than ten minutes old.
Update(k, location) ==
    \E event \in G!Events :
        /\ event = "driver-update" => location # 0
        /\ G!FirstUpdateSent(k, event) \/ G!PeriodicUpdateSent(k, event)
        /\ shown' = IF event = "driver-update" /\ task[k].client \in connected
                    THEN [driver |-> task[k].driver, location |-> location]
                    ELSE None

UpdateAtHand(k) ==
    /\ Updating(k)
    /\ call[k].at = "idle"
    /\ Update(k, locationCache[task[k].driver])
    /\ UNCHANGED vars

\* The service goes on with what it has loaded, and answers when nothing else is
\* missing.
Load(k, found, location) ==
    /\ LocationFetched(k) \/ ProfileFetched(k, found)
    /\ \/ /\ Updating(k)
          /\ call'[k].at = "idle"
          /\ Update(k, location)
       \/ /\ ~(Updating(k) /\ call'[k].at = "idle")
          /\ UNCHANGED gateway
          /\ Quiet

\* The answer is the location read from the cache or loaded, with the profile
\* read before it was loaded or fetched now.
Loaded(k) ==
    \E found \in BOOLEAN :
        LET complete == IF call[k].at = "getLocation" THEN call[k].profile ELSE found
        IN  Load(k, found, IF complete THEN call[k].location ELSE 0)

ConfigureInterval(k) ==
    /\ G!ConfigureInterval(k)
    /\ UNCHANGED vars
    /\ Quiet

\* handleDisconnect does not unsubscribe: the client's entries stay.
HandleDisconnect(c) ==
    /\ CallbacksDone
    /\ G!HandleDisconnect(c)
    /\ Quiet
    /\ UNCHANGED vars

-----------------------------------------------------------------------------
(* The service alone: drivers report, Redis and location-service answer *)

ServiceStep ==
    /\ \/ CallbacksDone /\ \E d \in Drivers : HandleDriverLocationUpdate(d) \/ LocationReported(d)
       \/ UnsubscribeAnswered \/ SubscribeAnswered
       \/ \E k \in Calls : Resume(k) \/ \E failed \in BOOLEAN : LocationServed(k, failed)
    /\ UNCHANGED gateway
    /\ Quiet

SessionsNext ==
    \/ \E k \in Calls, c \in Clients, d \in Drivers : HandleSubscription(k, c, d)
    \/ \E k \in Calls : SubscriptionStored(k) \/ UpdateAtHand(k) \/ Loaded(k)
    \/ \E k \in Calls, t \in TimerIds : Tick(k, t)
    \/ \E k \in Calls : ConfigureInterval(k)
    \/ \E c \in Clients : HandleDisconnect(c)
    \/ ServiceStep

SessionsSpec == SessionsInit /\ [][SessionsNext]_sessions

Requesting(c) == G!Subscribing(c) \/ \E k \in Calls : call[k].client = c

\* The operation of IRealtimeService that no gateway calls.
Unsubscribe(k, c) ==
    /\ task[k] = None
    /\ \A other \in Clients : ~Requesting(other)
    /\ UnsubscribeFromDriverUpdates(k, c)
    /\ UNCHANGED gateway
    /\ Quiet

\* One request at a time; ticks, disconnects and reports go on.
OneRequester == \A c, other \in Clients : Requesting(c) /\ Requesting(other) => c = other

SequentialSessionsNext ==
    /\ SessionsNext \/ \E k \in Calls, c \in Clients : Unsubscribe(k, c)
    /\ OneRequester'

SequentialSessions == SessionsInit /\ [][SequentialSessionsNext]_sessions

-----------------------------------------------------------------------------
(* Properties *)

\* A client that has an interval, and no request under way, is in the set of the
\* driver it is recorded with, and Redis sends us that driver's channel.
ServedIsFollowed ==
    \A c \in Clients :
        LET d == clientSubscriptions[c]
        IN  (clientIntervals[c] # None /\ d # None /\ ~Requesting(c))
                => c \in driverSubscribers[d] /\ d \in channels

\* Location and profile are cached, and no load of either is under way.
Steady(d) ==
    /\ Settled(d)
    /\ d \in profileCache
    /\ \A k \in Calls : call[k].driver = d => call[k].at \notin {"profile", "getProfile"}

\* Once both are cached and the loads begun before have ended, nothing is loaded
\* again, and whatever a client is shown of the driver is what the cache holds:
\* not what was read before some await (realtime.service.ts:174).
ViewsFollowCache ==
    [][\A d \in Drivers :
          Steady(d) =>
              /\ Steady(d)'
              /\ shown' # None /\ shown'.driver = d => shown'.location = locationCache[d]]_sessions

\* Between its requests, a client's interval is about the driver it subscribed to:
\* the interval for the previous one is gone (client.gateway.ts:115, "Clear
\* previous interval if exists").
IntervalForSubscribedDriver ==
    \A c \in connected :
        clientIntervals[c] # None /\ ~G!Subscribing(c)
            => timers[clientIntervals[c]].driver = clientSubscriptions[c]
=============================================================================
