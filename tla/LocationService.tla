--------------------------- MODULE LocationService ---------------------------
(***************************************************************************)
(* location-service: the endpoint where drivers report their location over *)
(* HTTP, the repository that keeps the last locations of each driver, and  *)
(* the publication of every location to Redis.                             *)
(*                                                                         *)
(* An action is the code between two awaits; a request that awaits is a    *)
(* member of Requests.  A location is the rank of its timestamp.  The      *)
(* awaits of the repository resolve at once and in order, so that saving   *)
(* and sending to Redis are one step.  The Redis client (ioredis, external)*)
(* answers commands in the order sent; when the connection is lost it      *)
(* keeps those not answered and sends them again on the next connection.   *)
(***************************************************************************)
EXTENDS Naturals, Sequences

CONSTANTS
    Drivers,
    Requests,     \* the requests that may be in progress together
    MaxHistory,   \* locations kept of a driver: 100 in the code
    MaxClock,     \* bound: locations saved in a behaviour
    MaxLosses,    \* bound: times the connection is lost
    None

ASSUME HistoryAssumption == MaxHistory \in Nat \ {0}
ASSUME BoundsAssumption == MaxClock \in Nat /\ MaxLosses \in Nat

VARIABLES
    started,            \* the service has started to listen for requests
    clock,              \* timestamps given so far
    locationsByDriver,  \* driver -> the sequence of its locations
    saved,              \* driver -> every location ever saved (history variable)
    isConnected,
    commands,           \* sent to Redis and not answered: [request, channel, driver, location]
    executed,           \* how many of them Redis has executed on this connection
    delivered,          \* driver -> what Redis has sent out on the driver's channel
    announced,          \* what it has sent out on the general channel
    request,
    losses

store == <<clock, locationsByDriver, saved>>
outside == <<delivered, announced>>
vars == <<started, store, isConnected, commands, executed, outside, request, losses>>

Stamps == 1 .. MaxClock
Headers == {"<token>", "Bearer <token>"}
IdleRequest == [at |-> "idle", driver |-> None, header |-> None, location |-> 0]

Init ==
    /\ started = FALSE
    /\ clock = 0
    /\ locationsByDriver = [d \in Drivers |-> <<>>]
    /\ saved = [d \in Drivers |-> <<>>]
    /\ isConnected = FALSE
    /\ commands = <<>>
    /\ executed = 0
    /\ delivered = [d \in Drivers |-> <<>>]
    /\ announced = {}
    /\ request = [r \in Requests |-> IdleRequest]
    /\ losses = 0

-----------------------------------------------------------------------------
(* Helpers *)

Goto(r, record) == request' = [request EXCEPT ![r] = record]

\* Mutant: shifts when the history is full, not when it is too long.
KeepEarly(history, location) ==
    LET longer == Append(history, location)
    IN  IF Len(longer) >= MaxHistory THEN Tail(longer) ELSE longer

\* Mutant: never shifts.
KeepAll(history, location) == Append(history, location)

\* push, then shift when there are more than MaxHistory.
Keep(history, location) ==
    LET longer == Append(history, location)
    IN  IF Len(longer) > MaxHistory THEN Tail(longer) ELSE longer

GetLastLocation(d) ==
    IF locationsByDriver[d] = <<>> THEN 0
    ELSE locationsByDriver[d][Len(locationsByDriver[d])]

\* Array.filter, by the time of a location: a recursive function, which a proof can
\* reach, in place of SelectSeq.
Filtered(history, times) ==
    LET upTo[i \in 0 .. Len(history)] ==
            IF i = 0 THEN <<>>
            ELSE IF history[i] \in times THEN Append(upTo[i - 1], history[i])
            ELSE upTo[i - 1]
    IN  upTo[Len(history)]

\* Mutant: leaves out the start of the range.
GetLocationHistoryAfter(d, startTime, endTime) ==
    Filtered(locationsByDriver[d], startTime + 1 .. endTime)

GetLocationHistory(d, startTime, endTime) ==
    Filtered(locationsByDriver[d], startTime .. endTime)

\* Mutant: publishes on the driver's channel both times.
PublishOnDriverChannel(r, channel) ==
    [request |-> r, channel |-> "driver", driver |-> request[r].driver,
     location |-> request[r].location]

Publish(r, channel) ==
    [request |-> r, channel |-> channel, driver |-> request[r].driver,
     location |-> request[r].location]

-----------------------------------------------------------------------------
(* The endpoint *)

\* The token goes to auth-service as the Authorization header has it.
UpdateLocation(r, d, header) ==
    /\ started
    /\ request[r].at = "idle"
    /\ Goto(r, [at |-> "validating", driver |-> d, header |-> header, location |-> 0])
    /\ UNCHANGED <<started, store, isConnected, commands, executed, outside, losses>>

\* auth-service verifies what it was given: a word before the token spoils it.
\* A token may also have expired, or the request to auth-service fail.
TokenRefused(r, valid) ==
    /\ request[r].at = "validating"
    /\ ~valid \/ request[r].header # "<token>"
    /\ Goto(r, IdleRequest)
    /\ UNCHANGED <<started, store, isConnected, commands, executed, outside, losses>>

\* updateDriverLocation stamps the location, saves it, and publishes it if the
\* connection is up; if not, the location is not published at all.
UpdateDriverLocation(r) ==
    LET d == request[r].driver
        location == clock + 1
    IN  /\ request[r].at = "validating"
        /\ request[r].header = "<token>"
        /\ clock < MaxClock
        /\ clock' = location
        /\ locationsByDriver' = [locationsByDriver EXCEPT ![d] = Keep(@, location)]
        /\ saved' = [saved EXCEPT ![d] = Append(@, location)]
        /\ \/ /\ isConnected
              /\ Goto(r, [request[r] EXCEPT !.at = "publishing", !.location = location])
              /\ commands' = Append(commands,
                    [request |-> r, channel |-> "driver", driver |-> d,
                     location |-> location])
           \/ /\ ~isConnected
              /\ Goto(r, IdleRequest)
              /\ UNCHANGED commands
        /\ UNCHANGED <<started, isConnected, executed, outside, losses>>

\* Mutant: the request ends when the driver's channel has been served.
PublishAnsweredOnce ==
    /\ executed > 0
    /\ Goto(Head(commands).request, IdleRequest)
    /\ commands' = Tail(commands)
    /\ executed' = executed - 1
    /\ UNCHANGED <<started, store, isConnected, outside, losses>>

\* Redis' answer: after the driver's channel comes the general one, then the
\* request is answered.
PublishAnswered ==
    LET r == Head(commands).request
    IN  /\ executed > 0
        /\ \/ /\ request[r].at = "publishing"
              /\ commands' = Append(Tail(commands), Publish(r, "general"))
              /\ Goto(r, [request[r] EXCEPT !.at = "announcing"])
           \/ /\ request[r].at = "announcing"
              /\ commands' = Tail(commands)
              /\ Goto(r, IdleRequest)
        /\ executed' = executed - 1
        /\ UNCHANGED <<started, store, isConnected, outside, losses>>

-----------------------------------------------------------------------------
(* The connection *)

\* Redis executes the next command.
RedisPublishes ==
    LET c == commands[executed + 1]
    IN  /\ isConnected
        /\ executed < Len(commands)
        /\ executed' = executed + 1
        /\ \/ /\ c.channel = "driver"
              /\ delivered' = [delivered EXCEPT ![c.driver] = Append(@, c.location)]
              /\ UNCHANGED announced
           \/ /\ c.channel = "general"
              /\ announced' = announced \cup {c.location}
              /\ UNCHANGED delivered
        /\ UNCHANGED <<started, store, isConnected, commands, request, losses>>

\* Nest awaits onModuleInit, which awaits a ping, before it listens.  A ping
\* is kept until Redis answers it: it does not fail while Redis is out of reach.
Start ==
    /\ ~started
    /\ isConnected
    /\ started' = TRUE
    /\ UNCHANGED <<store, isConnected, commands, executed, outside, request, losses>>

\* "connect"; the answer to the ping sets the flag again.
Connect ==
    /\ ~isConnected
    /\ isConnected' = TRUE
    /\ UNCHANGED <<started, store, commands, executed, outside, request, losses>>

\* Mutant: what was not answered is sent again in the opposite order.
CloseReversed ==
    /\ isConnected
    /\ losses < MaxLosses
    /\ losses' = losses + 1
    /\ isConnected' = FALSE
    /\ executed' = 0
    /\ commands' = [i \in 1 .. Len(commands) |-> commands[Len(commands) + 1 - i]]
    /\ UNCHANGED <<started, store, outside, request>>

\* "close": answers on their way are lost with the connection.
Close ==
    /\ isConnected
    /\ losses < MaxLosses
    /\ losses' = losses + 1
    /\ isConnected' = FALSE
    /\ executed' = 0
    /\ UNCHANGED <<started, store, commands, outside, request>>

Next ==
    \/ \E r \in Requests, d \in Drivers, header \in Headers : UpdateLocation(r, d, header)
    \/ \E r \in Requests, valid \in BOOLEAN : TokenRefused(r, valid)
    \/ \E r \in Requests : UpdateDriverLocation(r)
    \/ PublishAnswered
    \/ RedisPublishes
    \/ Start
    \/ Connect
    \/ Close

Spec == Init /\ [][Next]_vars

\* ioredis reconnects for ever (retryStrategy always gives a delay) and Redis
\* executes and answers what it gets.
FairSpec ==
    /\ Spec
    /\ WF_vars(Start)
    /\ WF_vars(Connect) /\ WF_vars(RedisPublishes) /\ WF_vars(PublishAnswered)

-----------------------------------------------------------------------------
(* Properties *)

Commands ==
    [request : Requests, channel : {"driver", "general"}, driver : Drivers,
     location : Stamps]

\* Types of the state.
TypeOK ==
    /\ started \in BOOLEAN
    /\ clock \in 0 .. MaxClock
    /\ \A d \in Drivers :
          /\ locationsByDriver[d] \in Seq(Stamps) /\ Len(locationsByDriver[d]) <= MaxHistory
          /\ saved[d] \in Seq(Stamps)
          /\ delivered[d] \in Seq(Stamps)
    /\ isConnected \in BOOLEAN
    /\ commands \in Seq(Commands)
    /\ executed \in 0 .. Len(commands)
    /\ announced \subseteq Stamps
    /\ request \in [Requests ->
          [at : {"idle", "validating", "publishing", "announcing"},
           driver : Drivers \cup {None}, header : Headers \cup {None},
           location : 0 .. MaxClock]]
    /\ losses \in 0 .. MaxLosses

Latest(s, n) == SubSeq(s, IF Len(s) > n THEN Len(s) - n + 1 ELSE 1, Len(s))

\* The repository holds the last MaxHistory locations saved, all of them and in
\* the order of their timestamps, however requests overlap (repository:20, 42).
HistoryKeepsLatest ==
    \A d \in Drivers :
        /\ locationsByDriver[d] = Latest(saved[d], MaxHistory)
        /\ saved[d] # <<>> => GetLastLocation(d) = saved[d][Len(saved[d])]
        /\ \A i, j \in 1 .. Len(locationsByDriver[d]) :
              i < j => locationsByDriver[d][i] < locationsByDriver[d][j]

InSeq(l, s) == \E i \in 1 .. Len(s) : s[i] = l

\* A history query over a range of time that the repository still covers
\* returns every location saved in it, those at both of its ends included, and
\* no other, once each and in order.
HistoryQueryComplete ==
    \A d \in Drivers : \A from, to \in Stamps :
        LET answer == GetLocationHistory(d, from, to)
        IN  locationsByDriver[d] # <<>> /\ locationsByDriver[d][1] <= from =>
                /\ \A l \in Stamps :
                      InSeq(l, answer) <=> InSeq(l, saved[d]) /\ l \in from .. to
                /\ \A i, j \in 1 .. Len(answer) : i < j => answer[i] < answer[j]

\* updateLocation returns { success: true } in this step: the location has been saved
\* before, or is saved in it, and publishLocationUpdate has returned.
Succeeds(r) ==
    /\ request'[r].at = "idle"
    /\ \/ request[r].at \in {"publishing", "announcing"}
       \/ request[r].at = "validating" /\ saved' # saved

\* When a driver is told success, both channels have carried its location, even if
\* the connection was lost on the way.  The exception: a location that is saved while
\* the connection is down is answered with success at once, and is not published at
\* all (redis-location.messaging.ts:118; run DroppedLocation).
AnsweredIsPublished ==
    [][\A r \in Requests : Succeeds(r) =>
          \/ request[r].at = "validating" /\ ~isConnected
          \/ /\ InSeq(request[r].location, delivered[request[r].driver])
             /\ request[r].location \in announced]_vars

\* Without a loss of the connection, the channel of a driver carries its
\* locations once each and in the order of their timestamps.
DeliveredInOrder ==
    losses = 0 =>
        \A d \in Drivers : \A i, j \in 1 .. Len(delivered[d]) :
            i < j => delivered[d][i] < delivered[d][j]

\* Commands sent again after a loss may carry an older location a second time,
\* but a channel with nothing under way carried the newest of its locations last:
\* whoever listens ends up with it.
SettledChannelLatest ==
    \A d \in Drivers :
        (\A i \in 1 .. Len(commands) : commands[i].driver # d)
            => \A i \in 1 .. Len(delivered[d]) : delivered[d][i] <= delivered[d][Len(delivered[d])]

\* A location saved while Redis is reachable is published, losses or not.
AcceptedIsPublished ==
    \A r \in Requests, d \in Drivers, l \in Stamps :
        request[r].at = "publishing" /\ request[r].driver = d /\ request[r].location = l
            ~> InSeq(l, delivered[d]) /\ l \in announced

\* Every location saved is published sooner or later
\* (redis-location.messaging.ts:120, "storing message to publish later").
SavedIsPublished ==
    \A d \in Drivers, l \in Stamps : InSeq(l, saved[d]) ~> InSeq(l, delivered[d])
=============================================================================
