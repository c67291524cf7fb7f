--------------------------- MODULE RegistryProofs ---------------------------
(***************************************************************************)
(* What follows for RealtimeService, for every set of clients, drivers and *)
(* calls, from the types and the agreement of its maps: the registry       *)
(* matches what Redis sends (RegistryMatchesRedis), a settled location     *)
(* moves forward (SettledCacheAdvances), and requests that come one at a   *)
(* time are treated as module Following says (ImplementsFollowing).        *)
(***************************************************************************)
EXTENDS RealtimeServiceProofs

\* The properties of the state as properties of its parts.
CommandingIn(calls, d) ==
    \E k \in Calls : calls[k].at \in {"subscribing", "unsubscribing"} /\ calls[k].driver = d

Matched(keys, subscribers, received, calls) ==
    \A d \in keys : CommandingIn(calls, d) \/ (subscribers[d] # {} /\ d \in received)

LEMMA RegistryIsMatched ==
    RegistryMatchesRedis <=> Matched(tracked, driverSubscribers, channels, call)
  BY DEF RegistryMatchesRedis, Matched, Commanding, CommandingIn

-----------------------------------------------------------------------------
(* Loads *)

\* Only a load has an answer, and no location is newer than the clock.
LoadRecord(r, now) ==
    /\ r.served => r.at \in {"location", "getLocation"}
    /\ r.location <= now

Loads ==
    /\ \A k \in Calls : LoadRecord(call[k], clock)
    /\ \A d \in Drivers : stored[d] <= clock /\ locationCache[d] <= clock

LEMMA WaitingLoads ==
    ASSUME NEW at, NEW c, NEW d, NEW next, NEW now \in Nat
    PROVE  LoadRecord(Waiting(at, c, d, next), now)
  BY DEF LoadRecord, Waiting

\* A call goes on and the clock, the caches and location-service stand still.
LEMMA GotoLoads ==
    ASSUME Typed, Loads, NEW k \in Calls, NEW record, Goto(k, record),
           LoadRecord(record, clock), UNCHANGED <<clock, stored>>,
           \A d \in Drivers : locationCache'[d] <= clock
    PROVE  Loads'
  <1>1. /\ call'[k] = record
        /\ \A other \in Calls \ {k} : call'[other] = call[other]
    BY GotoMoves DEF Typed
  <1>2. \A other \in Calls : LoadRecord(call'[other], clock')
    <2>1. \A other \in Calls : call'[other] = record \/ call'[other] = call[other]
      BY <1>1
    <2>2. QED
      BY <2>1 DEF Loads
  <1>3. QED
    BY <1>2 DEF Loads

\* So it is with a call that goes on to wait for something, or ends.
LEMMA WaitsLoads ==
    ASSUME Typed, Loads, NEW k \in Calls, NEW record, Goto(k, record),
           record = IdleCall \/ \E at, c, d, next : record = Waiting(at, c, d, next),
           UNCHANGED <<clock, stored, locationCache>>
    PROVE  Loads'
  <1>1. clock \in Nat
    BY ClockAssumption DEF Typed, TypeOK, Locations
  <1>2. LoadRecord(record, clock)
    BY <1>1, WaitingLoads DEF IdleCall
  <1>3. QED
    BY <1>2, GotoLoads DEF Loads

LEMMA FollowLoads ==
    ASSUME Typed, Loads, NEW k \in Calls, NEW c, NEW d, Follow(k, c, d),
           UNCHANGED <<clock, stored, locationCache>>
    PROVE  Loads'
  <1>1. PICK record :
            /\ Goto(k, record)
            /\ record = IdleCall \/ \E at, x, e, next : record = Waiting(at, x, e, next)
    BY DEF Follow, Enroll, Loading
  <1>2. QED
    BY <1>1, WaitsLoads

LEMMA ReleaseLoads ==
    ASSUME Typed, Loads, NEW k \in Calls, NEW c, NEW d, NEW next, Release(k, c, d, next),
           UNCHANGED <<clock, stored, locationCache>>
    PROVE  Loads'
  <1>1. PICK record :
            /\ Goto(k, record)
            /\ record = IdleCall \/ \E at, x, e, n : record = Waiting(at, x, e, n)
    BY DEF Release, AfterRelease
  <1>2. QED
    BY <1>1, WaitsLoads

\* What GetDriverLocationAndProfile knows when it starts to wait.
LEMMA GetStarts ==
    ASSUME Typed, NEW k \in Calls, NEW d \in Drivers, GetDriverLocationAndProfile(k, d)
    PROVE  \E record :
              /\ Goto(k, record) /\ record.client = None /\ record.driver = d
              /\ ~record.served /\ record.location = locationCache[d]
              /\ \/ record.at = "getLocation" /\ locationCache[d] = 0
                 \/ record.at = "getProfile"
  <1> DEFINE Get(at) == [Waiting(at, None, d, None) EXCEPT
                  !.location = locationCache[d], !.profile = d \in profileCache]
  <1>1. ASSUME NEW at
        PROVE  /\ Get(at).client = None /\ Get(at).driver = d /\ ~Get(at).served
               /\ Get(at).location = locationCache[d] /\ Get(at).at = at
    BY DEF Waiting
  <1>2. \/ locationCache[d] = 0 /\ Goto(k, Get("getLocation"))
        \/ Goto(k, Get("getProfile"))
    BY DEF GetDriverLocationAndProfile
  <1> HIDE DEF Get
  <1>3. CASE locationCache[d] = 0 /\ Goto(k, Get("getLocation"))
    BY <1>1, <1>3
  <1>4. CASE Goto(k, Get("getProfile"))
    BY <1>1, <1>4
  <1>5. QED
    BY <1>2, <1>3, <1>4

\* What a load knows when it is answered, and when it has gone on.
LEMMA ServedRecord ==
    ASSUME Typed, NEW k \in Calls, NEW failed \in BOOLEAN, LocationServed(k, failed)
    PROVE  \E record :
              /\ Goto(k, record) /\ call[k].driver \in Drivers
              /\ record.client = call[k].client /\ record.driver = call[k].driver
              /\ record.at = call[k].at /\ record.next = call[k].next
              /\ call[k].at \in {"location", "getLocation"}
              /\ record.location \in {0, stored[call[k].driver]}
  <1> DEFINE l == IF failed THEN 0 ELSE stored[call[k].driver]
             record == [call[k] EXCEPT !.served = TRUE, !.location = l]
  <1>1. call[k] \in CallRecords /\ Goto(k, record)
    BY DEF Typed, TypeOK, LocationServed
  <1>2. /\ record.client = call[k].client /\ record.driver = call[k].driver
        /\ record.at = call[k].at /\ record.next = call[k].next /\ record.location = l
    BY <1>1 DEF CallRecords
  <1>3. l \in {0, stored[call[k].driver]}
    OBVIOUS
  <1>4. call[k].at \in {"location", "getLocation"} /\ call[k].driver \in Drivers
    BY DEF LocationServed, Typed, ValidRecords
  <1> HIDE DEF record, l
  <1>5. QED
    BY <1>1, <1>2, <1>3, <1>4

LEMMA FetchedRecord ==
    ASSUME Typed, NEW k \in Calls, LocationFetched(k)
    PROVE  \E record :
              /\ Goto(k, record) /\ call[k].served /\ call[k].driver \in Drivers
              /\ \/ record = IdleCall
                 \/ /\ call[k].at = "getLocation" /\ record.at = "getProfile"
                    /\ ~record.served /\ record.location = call[k].location
                    /\ record.client = call[k].client /\ record.driver = call[k].driver
              /\ \/ /\ call[k].location # 0
                    /\ locationCache' =
                          [locationCache EXCEPT ![call[k].driver] = call[k].location]
                 \/ locationCache' = locationCache
  <1> DEFINE more == [call[k] EXCEPT !.at = "getProfile", !.served = FALSE]
  <1>1. call[k] \in CallRecords
    BY DEF Typed, TypeOK
  <1>2. /\ more.at = "getProfile" /\ ~more.served /\ more.location = call[k].location
        /\ more.client = call[k].client /\ more.driver = call[k].driver
    BY <1>1 DEF CallRecords
  <1>3. \/ Goto(k, more) /\ call[k].at = "getLocation"
        \/ Goto(k, IdleCall)
    BY DEF LocationFetched
  <1>4. /\ call[k].served
        /\ \/ /\ call[k].location # 0
              /\ locationCache' = [locationCache EXCEPT ![call[k].driver] = call[k].location]
           \/ locationCache' = locationCache
    BY DEF LocationFetched
  <1>5. call[k].driver \in Drivers
    BY <1>4 DEF Typed, ValidRecords
  <1> HIDE DEF more
  <1>6. CASE Goto(k, more) /\ call[k].at = "getLocation"
    BY <1>2, <1>4, <1>5, <1>6
  <1>7. CASE Goto(k, IdleCall)
    BY <1>4, <1>5, <1>7
  <1>8. QED
    BY <1>3, <1>6, <1>7

\* The clock moves on and something is stamped with it.
LEMMA StampLoads ==
    ASSUME Typed, Loads, UNCHANGED call, clock' = clock + 1,
           NEW d \in Drivers,
           locationCache' \in {locationCache, [locationCache EXCEPT ![d] = clock + 1]},
           stored' \in {stored, [stored EXCEPT ![d] = clock + 1]}
    PROVE  Loads'
  <1>1. clock \in Nat /\ \A k \in Calls : call[k].location \in Nat
    BY ClockAssumption DEF Typed, TypeOK, Locations, CallRecords
  <1>2. \A k \in Calls : LoadRecord(call'[k], clock')
    BY <1>1 DEF Loads, LoadRecord
  <1>3. ASSUME NEW e \in Drivers
        PROVE  stored'[e] <= clock' /\ locationCache'[e] <= clock'
    <2>1. stored[e] \in Nat /\ locationCache[e] \in Nat
      BY ClockAssumption DEF Typed, TypeOK, Locations
    <2>2. stored[e] <= clock /\ locationCache[e] <= clock
      BY DEF Loads
    <2>3. stored'[e] \in {stored[e], clock + 1}
      BY DEF Typed, TypeOK
    <2>4. locationCache'[e] \in {locationCache[e], clock + 1}
      BY DEF Typed, TypeOK
    <2>5. QED
      BY <1>1, <2>1, <2>2, <2>3, <2>4
  <1>4. QED
    BY <1>2, <1>3 DEF Loads

LEMMA LoadsInductive ==
    /\ Init => Loads
    /\ Typed /\ Loads /\ [Next]_vars => Loads'
  <1>1. Init => Loads
    <2>1. LoadRecord(IdleCall, 0)
      BY WaitingLoads DEF IdleCall
    <2>2. QED
      BY <2>1 DEF Init, Loads
  <1>2. ASSUME Typed, Loads, [Next]_vars PROVE Loads'
    <2>1. clock \in Nat
      BY <1>2, ClockAssumption DEF Typed, TypeOK, Locations
    <2>2. ASSUME NEW k \in Calls, NEW c \in Clients, NEW d \in Drivers,
                 SubscribeToDriverUpdates(k, c, d)
          PROVE  Loads'
      <3>1. UNCHANGED <<clock, stored, locationCache>>
        BY <2>2 DEF SubscribeToDriverUpdates, world
      <3>2. QED
        BY <1>2, <2>2, <3>1, FollowLoads, ReleaseLoads DEF SubscribeToDriverUpdates
    <2>3. ASSUME NEW k \in Calls, NEW c \in Clients, UnsubscribeFromDriverUpdates(k, c)
          PROVE  Loads'
      <3>1. UNCHANGED <<clock, stored, locationCache>>
        BY <2>3 DEF UnsubscribeFromDriverUpdates, world
      <3>2. QED
        BY <1>2, <2>3, <3>1, ReleaseLoads DEF UnsubscribeFromDriverUpdates
    <2>4. ASSUME NEW k \in Calls, NEW d \in Drivers, GetDriverLocationAndProfile(k, d)
          PROVE  Loads'
      <3>1. PICK record : /\ Goto(k, record) /\ ~record.served
                          /\ record.location = locationCache[d]
        BY <1>2, <2>4, GetStarts
      <3>2. LoadRecord(record, clock)
        BY <1>2, <3>1 DEF Loads, LoadRecord
      <3>3. UNCHANGED <<clock, stored, locationCache>>
        BY <2>4 DEF GetDriverLocationAndProfile, world
      <3>4. QED
        BY <1>2, <3>1, <3>2, <3>3, GotoLoads DEF Loads
    <2>5. ASSUME NEW d \in Drivers, HandleDriverLocationUpdate(d)
          PROVE  Loads'
      BY <1>2, <2>5, StampLoads DEF HandleDriverLocationUpdate
    <2>6. ASSUME NEW d \in Drivers, LocationReported(d)
          PROVE  Loads'
      BY <1>2, <2>6, StampLoads DEF LocationReported
    <2>7. ASSUME NEW k \in Calls, Resume(k)
          PROVE  Loads'
      BY <1>2, <2>7, FollowLoads DEF Resume, world
    <2>8. CASE UnsubscribeAnswered \/ SubscribeAnswered \/ CommandRejected
      <3>1. Head(subscriber) \in Calls
        BY <1>2, <2>8, QueueHead
           DEF UnsubscribeAnswered, SubscribeAnswered, CommandRejected, Typed, TypeOK
      <3>2. PICK record :
                /\ Goto(Head(subscriber), record)
                /\ record = IdleCall \/ \E at, x, e, n : record = Waiting(at, x, e, n)
        <4>1. CASE UnsubscribeAnswered
          BY <4>1 DEF UnsubscribeAnswered, AfterRelease
        <4>2. CASE SubscribeAnswered
          BY <4>2 DEF SubscribeAnswered, Enroll, Loading
        <4>3. CASE CommandRejected
          BY <4>3 DEF CommandRejected
        <4>4. QED
          BY <2>8, <4>1, <4>2, <4>3
      <3>3. UNCHANGED <<clock, stored, locationCache>>
        BY <2>8 DEF UnsubscribeAnswered, SubscribeAnswered, CommandRejected, world
      <3>4. QED
        BY <1>2, <3>1, <3>2, <3>3, WaitsLoads
    <2>9. ASSUME NEW k \in Calls, NEW found \in BOOLEAN, ProfileFetched(k, found)
          PROVE  Loads'
      <3>1. PICK record :
                /\ Goto(k, record)
                /\ record = IdleCall \/ \E at, x, e, n : record = Waiting(at, x, e, n)
        BY <2>9 DEF ProfileFetched
      <3>2. QED
        BY <1>2, <2>9, <3>1, WaitsLoads DEF ProfileFetched, world
    <2>10. ASSUME NEW k \in Calls, NEW failed \in BOOLEAN, LocationServed(k, failed)
           PROVE  Loads'
      <3>1. PICK record :
                /\ Goto(k, record) /\ call[k].driver \in Drivers
                /\ record.at = call[k].at /\ call[k].at \in {"location", "getLocation"}
                /\ record.location \in {0, stored[call[k].driver]}
        BY <1>2, <2>10, ServedRecord
      <3>2. LoadRecord(record, clock)
        BY <1>2, <2>1, <3>1 DEF Loads, LoadRecord
      <3>3. UNCHANGED <<clock, stored, locationCache>>
        BY <2>10 DEF LocationServed, world
      <3>4. QED
        BY <1>2, <3>1, <3>2, <3>3, GotoLoads DEF Loads
    <2>11. ASSUME NEW k \in Calls, LocationFetched(k)
           PROVE  Loads'
      <3>1. PICK record :
                /\ Goto(k, record) /\ call[k].driver \in Drivers
                /\ record = IdleCall \/ (~record.served /\ record.location = call[k].location)
                /\ \/ locationCache' =
                          [locationCache EXCEPT ![call[k].driver] = call[k].location]
                   \/ locationCache' = locationCache
        BY <1>2, <2>11, FetchedRecord
      <3>2. call[k].location <= clock
        BY <1>2 DEF Loads, LoadRecord
      <3>3. LoadRecord(record, clock)
        BY <2>1, <3>1, <3>2, WaitingLoads DEF IdleCall, LoadRecord
      <3>4. \A d \in Drivers : locationCache'[d] <= clock
        BY <1>2, <3>1, <3>2 DEF Loads, Typed, TypeOK
      <3>5. UNCHANGED <<clock, stored>>
        BY <2>11 DEF LocationFetched, world
      <3>6. QED
        BY <1>2, <3>1, <3>3, <3>4, <3>5, GotoLoads
    <2>12. CASE UNCHANGED vars
      BY <1>2, <2>12 DEF vars, world, Loads
    <2>13. QED
      BY <1>2, <2>2, <2>3, <2>4, <2>5, <2>6, <2>7, <2>8, <2>9, <2>10, <2>11, <2>12
         DEF Next, Answered, CommandAnswered
  <1>3. QED
    BY <1>1, <1>2

-----------------------------------------------------------------------------
(* The registry matches Redis *)

\* A call that waits for no command leaves the commands of the others alone.
LEMMA CommandsStay ==
    ASSUME Typed, NEW k \in Calls, NEW record, Goto(k, record),
           call[k].at \notin {"subscribing", "unsubscribing"}
    PROVE  \A d : CommandingIn(call, d) => CommandingIn(call', d)
  <1>1. \A other \in Calls \ {k} : call'[other] = call[other]
    BY GotoMoves DEF Typed
  <1>2. QED
    BY <1>1 DEF CommandingIn

\* A call whose command is answered was the only one to speak for its driver, at most.
LEMMA CommandEnds ==
    ASSUME Typed, NEW k \in Calls, NEW record, Goto(k, record)
    PROVE  \A d : d # call[k].driver /\ CommandingIn(call, d) => CommandingIn(call', d)
  <1>1. \A other \in Calls \ {k} : call'[other] = call[other]
    BY GotoMoves DEF Typed
  <1>2. QED
    BY <1>1 DEF CommandingIn

LEMMA FollowMatched ==
    ASSUME Typed, Matched(tracked, driverSubscribers, channels, call),
           NEW k \in Calls, NEW c \in Clients, NEW d \in Drivers, Follow(k, c, d),
           call[k].at \notin {"subscribing", "unsubscribing"}
    PROVE  Matched(tracked', driverSubscribers', channels, call')
  <1>1. tracked' = tracked \cup {d} /\ driverSubscribers \in [Drivers -> SUBSET Clients]
        /\ tracked \subseteq Drivers
    BY DEF Follow, Typed, TypeOK
  <1>2. CASE d \in tracked /\ Enroll(k, c, d)
    <2>1. Goto(k, Loading(c, d, profileCache))
      BY <1>2 DEF Enroll
    <2>2. \A e : CommandingIn(call, e) => CommandingIn(call', e)
      BY <2>1, CommandsStay
    <2>3. \A e \in Drivers : driverSubscribers[e] \subseteq driverSubscribers'[e]
      BY <1>1, <1>2 DEF Enroll
    <2>4. QED
      BY <1>1, <1>2, <2>2, <2>3 DEF Matched
  <1>3. CASE /\ d \notin tracked
             /\ Goto(k, Waiting("subscribing", c, d, None))
             /\ UNCHANGED driverSubscribers
    <2>1. \A e : CommandingIn(call, e) => CommandingIn(call', e)
      BY <1>3, CommandsStay
    <2>2. call'[k] = Waiting("subscribing", c, d, None)
      BY <1>3, GotoMoves DEF Typed
    <2>3. CommandingIn(call', d)
      BY <2>2 DEF CommandingIn, Waiting
    <2>4. QED
      BY <1>1, <1>3, <2>1, <2>3 DEF Matched
  <1>4. QED
    BY <1>2, <1>3 DEF Follow

LEMMA ReleaseMatched ==
    ASSUME Typed, Matched(tracked, driverSubscribers, channels, call),
           NEW k \in Calls, NEW c \in Clients, NEW d \in Drivers, NEW next,
           Release(k, c, d, next), call[k].at \notin {"subscribing", "unsubscribing"}
    PROVE  Matched(tracked', driverSubscribers', channels, call')
  <1>1. /\ tracked' = tracked /\ tracked \subseteq Drivers
        /\ driverSubscribers \in [Drivers -> SUBSET Clients]
        /\ driverSubscribers' = [driverSubscribers EXCEPT ![d] = driverSubscribers[d] \ {c}]
    BY DEF Release, Typed, TypeOK
  <1>2. CASE Goto(k, Waiting("unsubscribing", c, d, next))
    <2>1. \A e : CommandingIn(call, e) => CommandingIn(call', e)
      BY <1>2, CommandsStay
    <2>2. call'[k] = Waiting("unsubscribing", c, d, next)
      BY <1>2, GotoMoves DEF Typed
    <2>3. CommandingIn(call', d)
      BY <2>2 DEF CommandingIn, Waiting
    <2>4. \A e \in Drivers \ {d} : driverSubscribers'[e] = driverSubscribers[e]
      BY <1>1
    <2>5. QED
      BY <1>1, <2>1, <2>3, <2>4 DEF Matched
  <1>3. CASE /\ ~(d \in tracked /\ driverSubscribers[d] \subseteq {c})
             /\ Goto(k, AfterRelease(c, next))
    <2>1. \A e : CommandingIn(call, e) => CommandingIn(call', e)
      BY <1>3, CommandsStay
    <2>2. \A e \in tracked : driverSubscribers[e] # {} => driverSubscribers'[e] # {}
      BY <1>1, <1>3
    <2>3. QED
      BY <1>1, <2>1, <2>2 DEF Matched
  <1>4. QED
    BY <1>2, <1>3 DEF Release

\* Every step keeps the registry matched, if Redis rejects no command.
LEMMA MatchedInductive ==
    ASSUME ~CommandsFail
    PROVE  /\ Init => RegistryMatchesRedis
           /\ Typed /\ Loads /\ RegistryMatchesRedis /\ [Next]_vars
                 => RegistryMatchesRedis'
  <1>1. Init => RegistryMatchesRedis
    BY DEF Init, RegistryMatchesRedis
  <1>2. ASSUME Typed, Loads, RegistryMatchesRedis, [Next]_vars
        PROVE  Matched(tracked', driverSubscribers', channels', call')
    <2> DEFINE Goal == Matched(tracked', driverSubscribers', channels', call')
    <2>1. Matched(tracked, driverSubscribers, channels, call)
      BY <1>2, RegistryIsMatched
    <2> HIDE DEF Goal
    <2>2. ASSUME NEW k \in Calls, NEW record, Goto(k, record),
                 call[k].at \notin {"subscribing", "unsubscribing"},
                 UNCHANGED <<tracked, driverSubscribers, channels>>
          PROVE  Goal
      <3>1. \A d : CommandingIn(call, d) => CommandingIn(call', d)
        BY <1>2, <2>2, CommandsStay
      <3>2. QED
        BY <2>1, <2>2, <3>1 DEF Goal, Matched
    <2>3. ASSUME UNCHANGED <<registry, channels, call>>
          PROVE  Goal
      BY <2>1, <2>3 DEF Goal, registry
    <2>4. ASSUME NEW k \in Calls, NEW c \in Clients, NEW d \in Drivers,
                 SubscribeToDriverUpdates(k, c, d)
          PROVE  Goal
      <3>1. call[k].at = "idle" /\ channels' = channels
        BY <2>4 DEF SubscribeToDriverUpdates, MayStart
      <3>2. CASE clientSubscriptions[c] # None /\ Release(k, c, clientSubscriptions[c], d)
        <4>1. clientSubscriptions[c] \in Drivers
          BY <1>2, <3>2 DEF Typed, TypeOK
        <4>2. QED
          BY <1>2, <2>1, <3>1, <3>2, <4>1, ReleaseMatched DEF Goal
      <3>3. CASE Follow(k, c, d)
        BY <1>2, <2>1, <3>1, <3>3, FollowMatched DEF Goal
      <3>4. QED
        BY <2>4, <3>2, <3>3 DEF SubscribeToDriverUpdates
    <2>5. ASSUME NEW k \in Calls, NEW c \in Clients, UnsubscribeFromDriverUpdates(k, c)
          PROVE  Goal
      <3>1. call[k].at = "idle" /\ channels' = channels
        BY <2>5 DEF UnsubscribeFromDriverUpdates, MayStart
      <3>2. clientSubscriptions[c] \in Drivers /\ Release(k, c, clientSubscriptions[c], None)
        BY <1>2, <2>5 DEF UnsubscribeFromDriverUpdates, Typed, TypeOK
      <3>3. QED
        BY <1>2, <2>1, <3>1, <3>2, ReleaseMatched DEF Goal
    <2>6. ASSUME NEW k \in Calls, NEW d \in Drivers, GetDriverLocationAndProfile(k, d)
          PROVE  Goal
      <3>1. PICK record : Goto(k, record)
        BY <2>6 DEF GetDriverLocationAndProfile
      <3>2. QED
        BY <2>2, <2>6, <3>1 DEF GetDriverLocationAndProfile, registry, redis
    <2>7. ASSUME NEW d \in Drivers, HandleDriverLocationUpdate(d) \/ LocationReported(d)
          PROVE  Goal
      BY <2>3, <2>7 DEF HandleDriverLocationUpdate, LocationReported, redis
    <2>8. ASSUME NEW k \in Calls, Resume(k)
          PROVE  Goal
      <3>1. call[k].client \in Clients /\ call[k].driver \in Drivers
        BY <1>2, <2>8 DEF Resume, Typed, ValidRecords
      <3>2. QED
        BY <1>2, <2>1, <2>8, <3>1, FollowMatched DEF Resume, Goal
    <2>9. CASE UnsubscribeAnswered
      <3> DEFINE k == Head(subscriber)
                 d == call[k].driver
      <3>1. k \in Calls
        BY <1>2, <2>9, QueueHead DEF UnsubscribeAnswered, Typed, TypeOK
      <3>2. /\ Goto(k, AfterRelease(call[k].client, call[k].next))
            /\ tracked' = tracked \ {d} /\ channels' = channels \ {d}
            /\ driverSubscribers' = [driverSubscribers EXCEPT ![d] = {}]
        BY <2>9 DEF UnsubscribeAnswered
      <3>3. \A e : e # d /\ CommandingIn(call, e) => CommandingIn(call', e)
        BY <1>2, <3>1, <3>2, CommandEnds
      <3> HIDE DEF k, d
      <3>4. \A e \in tracked \ {d} : driverSubscribers'[e] = driverSubscribers[e]
        BY <1>2, <3>2 DEF Typed, TypeOK
      <3>5. QED
        BY <2>1, <3>2, <3>3, <3>4 DEF Goal, Matched
    <2>10. CASE SubscribeAnswered
      <3> DEFINE k == Head(subscriber)
                 c == call[k].client
                 d == call[k].driver
      <3>1. k \in Calls /\ call[k].at = "subscribing"
        BY <1>2, <2>10, QueueHead DEF SubscribeAnswered, Typed, TypeOK
      <3>2. c \in Clients /\ d \in Drivers
        BY <1>2, <3>1 DEF Typed, ValidRecords
      <3>3. /\ tracked' = tracked /\ channels' = channels \cup {d}
            /\ \/ d \in tracked /\ Enroll(k, c, d)
               \/ d \notin tracked /\ Goto(k, IdleCall) /\ UNCHANGED driverSubscribers
        BY <2>10 DEF SubscribeAnswered
      <3>4. \A e : e # d /\ CommandingIn(call, e) => CommandingIn(call', e)
        BY <1>2, <3>1, <3>3, CommandEnds DEF Enroll
      <3> HIDE DEF k, c, d
      <3>5. \A e \in tracked : /\ driverSubscribers[e] \subseteq driverSubscribers'[e]
                               /\ e = d => driverSubscribers'[e] # {}
        BY <1>2, <3>2, <3>3 DEF Enroll, Typed, TypeOK
      <3>6. QED
        BY <2>1, <3>3, <3>4, <3>5 DEF Goal, Matched
    <2>11. CASE CommandRejected
      BY <2>11 DEF CommandRejected
    <2>12. ASSUME NEW k \in Calls, NEW found \in BOOLEAN, ProfileFetched(k, found)
           PROVE  Goal
      <3>1. PICK record : Goto(k, record)
        BY <2>12 DEF ProfileFetched
      <3>2. QED
        BY <2>2, <2>12, <3>1 DEF ProfileFetched, registry, redis
    <2>13. ASSUME NEW k \in Calls, NEW failed \in BOOLEAN, LocationServed(k, failed)
           PROVE  Goal
      <3>1. PICK record : Goto(k, record)
        BY <2>13 DEF LocationServed
      <3>2. QED
        BY <2>2, <2>13, <3>1 DEF LocationServed, registry, redis
    <2>14. ASSUME NEW k \in Calls, LocationFetched(k)
           PROVE  Goal
      <3>1. PICK record : Goto(k, record)
        BY <2>14 DEF LocationFetched
      <3>2. call[k].at \notin {"subscribing", "unsubscribing"}
        BY <1>2, <2>14 DEF LocationFetched, Loads, LoadRecord
      <3>3. QED
        BY <2>2, <2>14, <3>1, <3>2 DEF LocationFetched, registry, redis
    <2>15. CASE UNCHANGED vars
      BY <2>3, <2>15 DEF vars, redis, registry, Goal
    <2>16. QED
      BY <1>2, <2>4, <2>5, <2>6, <2>7, <2>8, <2>9, <2>10, <2>11, <2>12, <2>13, <2>14,
         <2>15 DEF Next, Answered, CommandAnswered, Goal
  <1>3. Matched(tracked', driverSubscribers', channels', call') => RegistryMatchesRedis'
    BY DEF RegistryMatchesRedis, Matched, Commanding, CommandingIn
  <1>4. QED
    BY <1>1, <1>2, <1>3

\* If Redis answers every command, a driver that has an entry is followed by
\* somebody and received from Redis, but while a command about it is under way: for
\* any number of clients and calls, also when a client's requests overlap.
THEOREM RegistryMatched ==
    ASSUME ~CommandsFail
    PROVE  Spec => []RegistryMatchesRedis
  <1>1. Init => Typed /\ Loads /\ RegistryMatchesRedis
    BY TypedInductive, LoadsInductive, MatchedInductive
  <1>2. Typed /\ Loads /\ RegistryMatchesRedis /\ [Next]_vars
            => (Typed /\ Loads /\ RegistryMatchesRedis)'
    BY TypedInductive, LoadsInductive, MatchedInductive
  <1>3. QED
    BY <1>1, <1>2, PTL DEF Spec

-----------------------------------------------------------------------------
(* A settled location *)

LoadingIn(calls, d) ==
    \E k \in Calls : calls[k].at \in {"location", "getLocation"} /\ calls[k].driver = d

SettledIn(calls, cached, d) == cached[d] # 0 /\ ~LoadingIn(calls, d)

LEMMA SettledIsSettledIn ==
    ASSUME NEW d
    PROVE  Settled(d) <=> SettledIn(call, locationCache, d)
  BY DEF Settled, SettledIn, LoadingLocation, LoadingIn

\* A call that does not start a load of d's location.
LEMMA StaysSettled ==
    ASSUME Typed, NEW d \in Drivers, SettledIn(call, locationCache, d),
           NEW k \in Calls, NEW record, Goto(k, record),
           record.at \in {"location", "getLocation"} => record.driver # d,
           locationCache'[d] = locationCache[d]
    PROVE  SettledIn(call', locationCache', d) /\ locationCache[d] <= locationCache'[d]
  <1>1. /\ call'[k] = record
        /\ \A other \in Calls \ {k} : call'[other] = call[other]
    BY GotoMoves DEF Typed
  <1>2. ~LoadingIn(call', d)
    BY <1>1 DEF SettledIn, LoadingIn
  <1>3. locationCache[d] \in Nat
    BY ClockAssumption DEF Typed, TypeOK, Locations
  <1>4. QED
    BY <1>2, <1>3 DEF SettledIn

LEMMA FollowSettled ==
    ASSUME Typed, NEW d \in Drivers, SettledIn(call, locationCache, d),
           NEW k \in Calls, NEW c, NEW e, Follow(k, c, e), UNCHANGED locationCache
    PROVE  SettledIn(call', locationCache', d) /\ locationCache[d] <= locationCache'[d]
  <1>1. PICK record :
            /\ Goto(k, record)
            /\ record.at \in {"location", "getLocation"}
                  => record.driver = e /\ locationCache[e] = 0
    BY DEF Follow, Enroll, Loading, Waiting, IdleCall
  <1>2. record.at \in {"location", "getLocation"} => record.driver # d
    BY <1>1 DEF SettledIn
  <1>3. QED
    BY <1>1, <1>2, StaysSettled

LEMMA ReleaseSettled ==
    ASSUME Typed, NEW d \in Drivers, SettledIn(call, locationCache, d),
           NEW k \in Calls, NEW c, NEW e, NEW next, Release(k, c, e, next),
           UNCHANGED locationCache
    PROVE  SettledIn(call', locationCache', d) /\ locationCache[d] <= locationCache'[d]
  <1>1. PICK record :
            Goto(k, record) /\ record.at \notin {"location", "getLocation"}
    BY DEF Release, AfterRelease, Waiting, IdleCall
  <1>2. QED
    BY <1>1, StaysSettled

LEMMA SettledStep ==
    ASSUME Typed, Loads, [Next]_vars, NEW d \in Drivers, SettledIn(call, locationCache, d)
    PROVE  SettledIn(call', locationCache', d) /\ locationCache[d] <= locationCache'[d]
  <1> DEFINE Goal == /\ SettledIn(call', locationCache', d)
                     /\ locationCache[d] <= locationCache'[d]
  <1> HIDE DEF Goal
  <1>1. ASSUME NEW k \in Calls, NEW c \in Clients, NEW e \in Drivers,
               SubscribeToDriverUpdates(k, c, e)
        PROVE  Goal
    BY <1>1, FollowSettled, ReleaseSettled DEF SubscribeToDriverUpdates, Goal
  <1>2. ASSUME NEW k \in Calls, NEW c \in Clients, UnsubscribeFromDriverUpdates(k, c)
        PROVE  Goal
    BY <1>2, ReleaseSettled DEF UnsubscribeFromDriverUpdates, Goal
  <1>3. ASSUME NEW k \in Calls, NEW e \in Drivers, GetDriverLocationAndProfile(k, e)
        PROVE  Goal
    <2>1. PICK record :
              /\ Goto(k, record) /\ record.driver = e
              /\ \/ record.at = "getLocation" /\ locationCache[e] = 0
                 \/ record.at = "getProfile"
      BY <1>3, GetStarts
    <2>2. record.at \in {"location", "getLocation"} => record.driver # d
      BY <2>1 DEF SettledIn
    <2>3. locationCache' = locationCache
      BY <1>3 DEF GetDriverLocationAndProfile
    <2>4. QED
      BY <2>1, <2>2, <2>3, StaysSettled DEF Goal
  <1>4. ASSUME UNCHANGED call, locationCache'[d] = locationCache[d]
        PROVE  Goal
    <2>1. locationCache[d] \in Nat
      BY ClockAssumption DEF Typed, TypeOK, Locations
    <2>2. QED
      BY <1>4, <2>1 DEF SettledIn, LoadingIn, Goal
  <1>5. ASSUME NEW e \in Drivers, HandleDriverLocationUpdate(e)
        PROVE  Goal
    <2>1. CASE e # d
      BY <1>4, <1>5, <2>1 DEF HandleDriverLocationUpdate, Typed, TypeOK
    <2>2. CASE e = d
      <3>1. UNCHANGED call /\ locationCache'[d] = clock + 1
        BY <1>5, <2>2 DEF HandleDriverLocationUpdate, Typed, TypeOK
      <3>2. locationCache[d] \in Nat /\ clock \in Nat /\ locationCache[d] <= clock
        BY ClockAssumption DEF Typed, TypeOK, Locations, Loads
      <3>3. locationCache'[d] # 0 /\ locationCache[d] <= locationCache'[d]
        BY <3>1, <3>2
      <3>4. QED
        BY <3>1, <3>3 DEF SettledIn, LoadingIn, Goal
    <2>3. QED
      BY <2>1, <2>2
  <1>6. ASSUME NEW e \in Drivers, LocationReported(e)
        PROVE  Goal
    BY <1>4, <1>6 DEF LocationReported
  <1>7. ASSUME NEW k \in Calls, Resume(k)
        PROVE  Goal
    BY <1>7, FollowSettled DEF Resume, Goal
  <1>8. CASE UnsubscribeAnswered \/ SubscribeAnswered \/ CommandRejected
    <2>1. Head(subscriber) \in Calls /\ locationCache' = locationCache
      BY <1>8, QueueHead
         DEF UnsubscribeAnswered, SubscribeAnswered, CommandRejected, Typed, TypeOK
    <2>2. PICK record :
              /\ Goto(Head(subscriber), record)
              /\ record.at \in {"location", "getLocation"} => locationCache[record.driver] = 0
      <3>1. CASE UnsubscribeAnswered
        BY <3>1 DEF UnsubscribeAnswered, AfterRelease, Waiting, IdleCall
      <3>2. CASE SubscribeAnswered
        BY <3>2 DEF SubscribeAnswered, Enroll, Loading, Waiting, IdleCall
      <3>3. CASE CommandRejected
        BY <3>3 DEF CommandRejected, Waiting, IdleCall
      <3>4. QED
        BY <1>8, <3>1, <3>2, <3>3
    <2>3. record.at \in {"location", "getLocation"} => record.driver # d
      BY <2>2 DEF SettledIn
    <2>4. QED
      BY <2>1, <2>2, <2>3, StaysSettled DEF Goal
  <1>9. ASSUME NEW k \in Calls, NEW found \in BOOLEAN, ProfileFetched(k, found)
        PROVE  Goal
    <2>1. PICK record :
              /\ Goto(k, record)
              /\ record.at \in {"location", "getLocation"} => locationCache[record.driver] = 0
      BY <1>9 DEF ProfileFetched, Waiting, IdleCall
    <2>2. record.at \in {"location", "getLocation"} => record.driver # d
      BY <2>1 DEF SettledIn
    <2>3. locationCache' = locationCache
      BY <1>9 DEF ProfileFetched
    <2>4. QED
      BY <2>1, <2>2, <2>3, StaysSettled DEF Goal
  <1>10. ASSUME NEW k \in Calls, NEW failed \in BOOLEAN, LocationServed(k, failed)
         PROVE  Goal
    <2>1. PICK record :
              /\ Goto(k, record) /\ record.driver = call[k].driver
              /\ record.at = call[k].at /\ call[k].at \in {"location", "getLocation"}
      BY <1>10, ServedRecord
    <2>2. record.driver # d
      BY <2>1 DEF SettledIn, LoadingIn
    <2>3. locationCache' = locationCache
      BY <1>10 DEF LocationServed
    <2>4. QED
      BY <2>1, <2>2, <2>3, StaysSettled DEF Goal
  <1>11. ASSUME NEW k \in Calls, LocationFetched(k)
         PROVE  Goal
    <2>1. PICK record :
              /\ Goto(k, record) /\ call[k].served /\ call[k].driver \in Drivers
              /\ record = IdleCall \/ record.at = "getProfile"
              /\ \/ locationCache' =
                        [locationCache EXCEPT ![call[k].driver] = call[k].location]
                 \/ locationCache' = locationCache
      BY <1>11, FetchedRecord
    <2>2. call[k].at \in {"location", "getLocation"}
      BY <2>1 DEF Loads, LoadRecord
    <2>3. call[k].driver # d
      BY <2>2 DEF SettledIn, LoadingIn
    <2>4. locationCache'[d] = locationCache[d]
      BY <2>1, <2>3 DEF Typed, TypeOK
    <2>5. record.at \notin {"location", "getLocation"}
      BY <2>1 DEF IdleCall, Waiting
    <2>6. QED
      BY <2>1, <2>4, <2>5, StaysSettled DEF Goal
  <1>12. CASE UNCHANGED vars
    BY <1>4, <1>12 DEF vars, Goal
  <1>13. QED
    BY <1>1, <1>2, <1>3, <1>5, <1>6, <1>7, <1>8, <1>9, <1>10, <1>11, <1>12
       DEF Next, Answered, CommandAnswered, Goal

\* Once a location is cached and no load of it is under way, no request, load or
\* message starts one, and the cached location never goes back, for any number of
\* overlapping requests, of one client as well, and with commands that fail.
THEOREM SettledAdvances == Spec => SettledCacheAdvances
  <1> DEFINE Advances(d) ==
        Settled(d) => Settled(d)' /\ locationCache[d] <= locationCache'[d]
  <1>1. Typed /\ Loads /\ [Next]_vars => \A d \in Drivers : Advances(d)
    <2> SUFFICES ASSUME Typed, Loads, [Next]_vars, NEW d \in Drivers, Settled(d)
                 PROVE  Settled(d)' /\ locationCache[d] <= locationCache'[d]
      OBVIOUS
    <2>1. SettledIn(call, locationCache, d)
      BY SettledIsSettledIn
    <2>2. SettledIn(call', locationCache', d) /\ locationCache[d] <= locationCache'[d]
      BY <2>1, SettledStep
    <2>3. Settled(d)'
      BY <2>2 DEF Settled, SettledIn, LoadingLocation, LoadingIn
    <2>4. QED
      BY <2>2, <2>3
  <1>2. Init => Typed /\ Loads
    BY TypedInductive, LoadsInductive
  <1>3. Typed /\ Loads /\ [Next]_vars => (Typed /\ Loads)'
    BY TypedInductive, LoadsInductive
  <1>4. QED
    BY <1>1, <1>2, <1>3, PTL DEF Spec, SettledCacheAdvances

-----------------------------------------------------------------------------
(* One request at a time *)

\* A request starts when no other is under way; loads for the gateway's ticks,
\* reports and answers come at any time.
Idle == \A k \in Calls : call[k].client = None

OtherSteps ==
    \/ \E k \in Calls, d \in Drivers : GetDriverLocationAndProfile(k, d)
    \/ \E d \in Drivers : HandleDriverLocationUpdate(d) \/ LocationReported(d)
    \/ \E k \in Calls : Answered(k)
    \/ CommandAnswered

SequentialNext ==
    \/ /\ Idle
       /\ \E k \in Calls, c \in Clients :
             \/ \E d \in Drivers : SubscribeToDriverUpdates(k, c, d)
             \/ UnsubscribeFromDriverUpdates(k, c)
    \/ OtherSteps

SequentialSpec == Init /\ [][SequentialNext]_vars

\* One call at most works for a client.
Single(calls) ==
    \A k1, k2 \in Calls : k1 # k2 /\ calls[k1].client # None => calls[k2].client = None

\* What a call knows of the registry, while no other request changes it.
Knows(r, recorded, keys, subscribers) ==
    /\ r.at \in {"idle", "getLocation", "getProfile"} => r.client = None
    /\ r.at \in {"subscribing", "profile", "location"} /\ r.client # None
          => recorded[r.client] = r.driver
    /\ r.at = "subscribing" => r.driver \in keys
    /\ r.at = "unsubscribing" => subscribers[r.driver] = {}

OneRequest ==
    /\ Single(call)
    /\ \A k \in Calls : Knows(call[k], clientSubscriptions, tracked, driverSubscribers)

\* The invariant of the sequential service.
Served == Typed /\ Loads /\ Agreement /\ RegistryMatchesRedis /\ OneRequest

\* The driver that the client of a call has asked for.
Wants(r) == IF r.at = "unsubscribing" THEN r.next ELSE r.driver

\* The other calls work for no client.
Only(k) == \A other \in Calls \ {k} : call[other].client = None

-----------------------------------------------------------------------------
(* OneRequest is kept *)

\* The only call with a client goes on, or starts.
LEMMA MovesOnly ==
    ASSUME Typed, OneRequest, NEW k \in Calls, NEW record, Goto(k, record), Only(k),
           Knows(record, clientSubscriptions', tracked', driverSubscribers')
    PROVE  OneRequest'
  <1>1. /\ call'[k] = record
        /\ \A other \in Calls \ {k} : call'[other] = call[other]
    BY GotoMoves DEF Typed
  <1>2. Single(call')
    BY <1>1 DEF Single, Only
  <1>3. ASSUME NEW other \in Calls \ {k}
        PROVE  Knows(call'[other], clientSubscriptions', tracked', driverSubscribers')
    <2>1. call'[other] = call[other] /\ call[other].client = None
      BY <1>1 DEF Only
    <2>2. call[other].at \notin {"subscribing", "unsubscribing"}
      BY <2>1, NoneAssumption DEF Typed, ValidRecords
    <2>3. QED
      BY <2>1, <2>2 DEF Knows
  <1>4. QED
    BY <1>1, <1>2, <1>3 DEF OneRequest

\* A call goes on, for the same client or none, and the registry stands still.
LEMMA MovesQuietly ==
    ASSUME Typed, OneRequest, NEW k \in Calls, NEW record, Goto(k, record),
           UNCHANGED registry, record.client \in {call[k].client, None},
           Knows(record, clientSubscriptions, tracked, driverSubscribers)
    PROVE  OneRequest'
  <1>1. /\ call'[k] = record
        /\ \A other \in Calls \ {k} : call'[other] = call[other]
    BY GotoMoves DEF Typed
  <1>2. Single(call')
    BY <1>1 DEF OneRequest, Single
  <1>3. QED
    BY <1>1, <1>2 DEF OneRequest, registry

LEMMA IdleKnows ==
    ASSUME NEW recorded, NEW keys, NEW subscribers
    PROVE  Knows(IdleCall, recorded, keys, subscribers)
  BY DEF Knows, IdleCall, Waiting

\* A call that has a client is the only one.
LEMMA OnlyOne ==
    ASSUME Typed, OneRequest, NEW k \in Calls, call[k].client \in Clients
    PROVE  Only(k)
  BY NoneAssumption DEF OneRequest, Single, Only

\* The record of a call that follows a driver.
LEMMA FollowRecord ==
    ASSUME Typed, NEW k \in Calls, NEW c \in Clients, NEW d \in Drivers, Follow(k, c, d)
    PROVE  \E record :
              /\ Goto(k, record)
              /\ Knows(record, clientSubscriptions', tracked', driverSubscribers')
              /\ \/ record.client = c /\ Wants(record) = d
                 \/ record.client = None
              /\ record.at = "subscribing" => d \notin tracked
              /\ record.at # "subscribing" => d \in tracked
  <1>1. /\ clientSubscriptions'[c] = d /\ d \in tracked'
    BY DEF Follow, Typed, TypeOK
  <1>2. CASE d \in tracked /\ Enroll(k, c, d)
    <2> DEFINE record == Loading(c, d, profileCache)
    <2>1. Goto(k, record)
      BY <1>2 DEF Enroll
    <2>2. /\ record.at \in {"profile", "location", "idle"}
          /\ record.at = "idle" => record.client = None
          /\ record.at # "idle" => record.client = c /\ record.driver = d
      BY DEF Loading, Waiting, IdleCall
    <2> HIDE DEF record
    <2>3. Knows(record, clientSubscriptions', tracked', driverSubscribers')
      BY <1>1, <2>2 DEF Knows
    <2>4. QED
      BY <1>2, <2>1, <2>2, <2>3 DEF Wants
  <1>3. CASE d \notin tracked /\ Goto(k, Waiting("subscribing", c, d, None))
    <2> DEFINE record == Waiting("subscribing", c, d, None)
    <2>1. record.at = "subscribing" /\ record.client = c /\ record.driver = d
      BY DEF Waiting
    <2>2. Goto(k, record)
      BY <1>3
    <2> HIDE DEF record
    <2>3. Knows(record, clientSubscriptions', tracked', driverSubscribers')
      BY <1>1, <2>1 DEF Knows
    <2>4. QED
      BY <1>3, <2>1, <2>2, <2>3 DEF Wants
  <1>4. QED
    BY <1>2, <1>3 DEF Follow

\* The record of a call that releases one.
LEMMA ReleaseRecord ==
    ASSUME Typed, NEW k \in Calls, NEW c \in Clients, NEW d \in Drivers,
           NEW next \in Drivers \cup {None}, Release(k, c, d, next)
    PROVE  \E record :
              /\ Goto(k, record)
              /\ Knows(record, clientSubscriptions', tracked', driverSubscribers')
              /\ \/ record.client = c /\ Wants(record) = next
                 \/ record.client = None /\ clientSubscriptions'[c] = None /\ next = None
  <1>1. /\ clientSubscriptions \in [Clients -> Drivers \cup {None}]
        /\ driverSubscribers \in [Drivers -> SUBSET Clients]
        /\ driverSubscribers' = [driverSubscribers EXCEPT ![d] = driverSubscribers[d] \ {c}]
    BY DEF Release, Typed, TypeOK
  <1>2. CASE /\ driverSubscribers[d] \subseteq {c}
             /\ Goto(k, Waiting("unsubscribing", c, d, next))
    <2> DEFINE record == Waiting("unsubscribing", c, d, next)
    <2>1. /\ record.at = "unsubscribing" /\ record.client = c /\ record.driver = d
          /\ record.next = next
      BY DEF Waiting
    <2>2. Goto(k, record)
      BY <1>2
    <2> HIDE DEF record
    <2>3. driverSubscribers'[d] = {}
      BY <1>1, <1>2
    <2>4. Knows(record, clientSubscriptions', tracked', driverSubscribers')
      BY <2>1, <2>3 DEF Knows
    <2>5. QED
      BY <2>1, <2>2, <2>4 DEF Wants
  <1>3. CASE /\ clientSubscriptions' = [clientSubscriptions EXCEPT ![c] = None]
             /\ Goto(k, AfterRelease(c, next))
    <2> DEFINE record == AfterRelease(c, next)
    <2>1. \/ record.at = "released" /\ record.client = c /\ record.driver = next
          \/ record.at = "idle" /\ record.client = None /\ next = None
      BY DEF AfterRelease, Waiting, IdleCall
    <2>2. Goto(k, record) /\ clientSubscriptions'[c] = None
      BY <1>1, <1>3
    <2> HIDE DEF record
    <2>3. Knows(record, clientSubscriptions', tracked', driverSubscribers')
      BY <2>1 DEF Knows
    <2>4. QED
      BY <2>1, <2>2, <2>3 DEF Wants
  <1>4. QED
    BY <1>2, <1>3 DEF Release

-----------------------------------------------------------------------------
(* The contract *)

AskedOf(calls, recorded) ==
    [c \in Clients |->
        IF \E k \in Calls : calls[k].client = c
        THEN LET k == CHOOSE k \in Calls : calls[k].client = c
             IN  IF calls[k].at = "unsubscribing" THEN calls[k].next ELSE calls[k].driver
        ELSE recorded[c]]

FollowsOf(subscribers) ==
    [c \in Clients |->
        IF \E d \in Drivers : c \in subscribers[d]
        THEN CHOOSE d \in Drivers : c \in subscribers[d]
        ELSE None]

LEMMA AskedFacts ==
    ASSUME NEW calls, NEW recorded, Single(calls), NEW c \in Clients
    PROVE  /\ \A k \in Calls : calls[k].client = c => AskedOf(calls, recorded)[c] = Wants(calls[k])
           /\ (\A k \in Calls : calls[k].client # c) => AskedOf(calls, recorded)[c] = recorded[c]
  <1>1. ASSUME NEW k \in Calls, calls[k].client = c
        PROVE  AskedOf(calls, recorded)[c] = Wants(calls[k])
    <2> DEFINE q == CHOOSE q \in Calls : calls[q].client = c
    <2>1. q \in Calls /\ calls[q].client = c
      BY <1>1
    <2>2. AskedOf(calls, recorded)[c] =
              IF calls[q].at = "unsubscribing" THEN calls[q].next ELSE calls[q].driver
      BY <1>1 DEF AskedOf
    <2> HIDE DEF q
    <2>3. q = k
      BY <1>1, <2>1, NoneAssumption DEF Single
    <2>4. QED
      BY <2>2, <2>3 DEF Wants
  <1>2. ASSUME \A k \in Calls : calls[k].client # c
        PROVE  AskedOf(calls, recorded)[c] = recorded[c]
    BY <1>2 DEF AskedOf
  <1>3. QED
    BY <1>1, <1>2

LEMMA FollowsFacts ==
    ASSUME NEW subscribers, NEW c \in Clients,
           \A d, e \in Drivers : c \in subscribers[d] /\ c \in subscribers[e] => d = e
    PROVE  /\ \A d \in Drivers : c \in subscribers[d] => FollowsOf(subscribers)[c] = d
           /\ (\A d \in Drivers : c \notin subscribers[d]) => FollowsOf(subscribers)[c] = None
  <1>1. ASSUME NEW d \in Drivers, c \in subscribers[d]
        PROVE  FollowsOf(subscribers)[c] = d
    <2> DEFINE e == CHOOSE e \in Drivers : c \in subscribers[e]
    <2>1. e \in Drivers /\ c \in subscribers[e]
      BY <1>1
    <2>2. FollowsOf(subscribers)[c] = e
      BY <1>1 DEF FollowsOf
    <2> HIDE DEF e
    <2>3. QED
      BY <1>1, <2>1, <2>2
  <1>2. ASSUME \A d \in Drivers : c \notin subscribers[d]
        PROVE  FollowsOf(subscribers)[c] = None
    BY <1>2 DEF FollowsOf
  <1>3. QED
    BY <1>1, <1>2

\* The mapped variables before and after a step.
LEMMA Mapped ==
    /\ Asked = AskedOf(call, clientSubscriptions) /\ Follows = FollowsOf(driverSubscribers)
    /\ Asked' = AskedOf(call', clientSubscriptions')
    /\ Follows' = FollowsOf(driverSubscribers')
    /\ Asked = [c \in Clients |-> Asked[c]] /\ Asked' = [c \in Clients |-> Asked'[c]]
    /\ Follows = [c \in Clients |-> Follows[c]] /\ Follows' = [c \in Clients |-> Follows'[c]]
  <1>1. /\ Asked = AskedOf(call, clientSubscriptions)
        /\ Asked' = AskedOf(call', clientSubscriptions')
    BY DEF Asked, AskedOf
  <1>2. Follows = FollowsOf(driverSubscribers) /\ Follows' = FollowsOf(driverSubscribers')
    BY DEF Follows, FollowsOf
  <1>3. Asked = [c \in Clients |-> Asked[c]] /\ Asked' = [c \in Clients |-> Asked'[c]]
    BY DEF Asked
  <1>4. Follows = [c \in Clients |-> Follows[c]] /\ Follows' = [c \in Clients |-> Follows'[c]]
    BY DEF Follows
  <1>5. QED
    BY <1>1, <1>2, <1>3, <1>4

\* A step changes what one client has asked for, and follows.
LEMMA OneChanges ==
    ASSUME NEW c \in Clients,
           \A x \in Clients \ {c} : Asked'[x] = Asked[x] /\ Follows'[x] = Follows[x]
    PROVE  /\ Asked' = [Asked EXCEPT ![c] = Asked'[c]]
           /\ Follows' = [Follows EXCEPT ![c] = Follows'[c]]
           /\ Asked'[c] = Asked[c] => Asked' = Asked
           /\ Follows'[c] = Follows[c] => Follows' = Follows
  <1>1. ASSUME NEW f, NEW g, f = [x \in Clients |-> f[x]], g = [x \in Clients |-> g[x]],
               \A x \in Clients \ {c} : g[x] = f[x]
        PROVE  g = [f EXCEPT ![c] = g[c]] /\ (g[c] = f[c] => g = f)
    <2>1. g = [f EXCEPT ![c] = g[c]]
      BY <1>1
    <2>2. g[c] = f[c] => g = f
      <3>1. g[c] = f[c] => \A x \in Clients : g[x] = f[x]
        BY <1>1
      <3>2. QED
        BY <1>1, <3>1
    <2>3. QED
      BY <2>1, <2>2
  <1>2. Asked' = [Asked EXCEPT ![c] = Asked'[c]] /\ (Asked'[c] = Asked[c] => Asked' = Asked)
    BY <1>1, Mapped
  <1>3. /\ Follows' = [Follows EXCEPT ![c] = Follows'[c]]
        /\ Follows'[c] = Follows[c] => Follows' = Follows
    BY <1>1, Mapped
  <1>4. QED
    BY <1>2, <1>3

\* What the clients other than c have asked for, and follow, is left alone by a step
\* of the only call that works for a client, which works for c.
LEMMA OthersAsk ==
    ASSUME Served, Served', NEW k \in Calls, NEW record, Goto(k, record), Only(k),
           NEW c \in Clients, call[k].client \in {c, None}, record.client \in {c, None},
           \A x \in Clients \ {c} :
              /\ clientSubscriptions'[x] = clientSubscriptions[x]
              /\ \A d \in Drivers : x \in driverSubscribers'[d] <=> x \in driverSubscribers[d]
    PROVE  \A x \in Clients \ {c} : Asked'[x] = Asked[x] /\ Follows'[x] = Follows[x]
  <1> TAKE x \in Clients \ {c}
  <1>1. /\ call'[k] = record
        /\ \A other \in Calls \ {k} : call'[other] = call[other]
    BY GotoMoves DEF Served, Typed
  <1>2. \A q \in Calls : call[q].client # x /\ call'[q].client # x
    BY <1>1, NoneAssumption DEF Only
  <1>3. Single(call) /\ Single(call')
    BY DEF Served, OneRequest
  <1>4. Asked'[x] = Asked[x]
    <2>1. AskedOf(call, clientSubscriptions)[x] = clientSubscriptions[x]
      BY <1>2, <1>3, AskedFacts
    <2>2. AskedOf(call', clientSubscriptions')[x] = clientSubscriptions'[x]
      BY <1>2, <1>3, AskedFacts
    <2>3. QED
      BY <2>1, <2>2, Mapped
  <1>5. Follows'[x] = Follows[x]
    BY DEF Follows
  <1>6. QED
    BY <1>4, <1>5

\* What client c itself has asked for.
LEMMA Asks ==
    ASSUME Served, Served', NEW c \in Clients
    PROVE  /\ \A k \in Calls : call[k].client = c => Asked[c] = Wants(call[k])
           /\ \A k \in Calls : call'[k].client = c => Asked'[c] = Wants(call'[k])
           /\ (\A k \in Calls : call[k].client # c) => Asked[c] = clientSubscriptions[c]
           /\ (\A k \in Calls : call'[k].client # c) => Asked'[c] = clientSubscriptions'[c]
  <1>1. Single(call) /\ Single(call')
    BY DEF Served, OneRequest
  <1>2. QED
    BY <1>1, AskedFacts, Mapped

\* What it follows.
LEMMA FollowsWhom ==
    ASSUME Served, Served', NEW c \in Clients
    PROVE  /\ \A d \in Drivers : c \in driverSubscribers[d] => Follows[c] = d
           /\ \A d \in Drivers : c \in driverSubscribers'[d] => Follows'[c] = d
           /\ (\A d \in Drivers : c \notin driverSubscribers[d]) => Follows[c] = None
           /\ (\A d \in Drivers : c \notin driverSubscribers'[d]) => Follows'[c] = None
  <1>1. \A d, e \in Drivers :
            c \in driverSubscribers[d] /\ c \in driverSubscribers[e] => d = e
    BY DEF Served, Agreement, SubscribersFollow
  <1>2. \A d, e \in Drivers :
            c \in driverSubscribers'[d] /\ c \in driverSubscribers'[e] => d = e
    BY DEF Served, Agreement, SubscribersFollow
  <1>3. /\ \A d \in Drivers : c \in driverSubscribers[d] => FollowsOf(driverSubscribers)[c] = d
        /\ (\A d \in Drivers : c \notin driverSubscribers[d])
              => FollowsOf(driverSubscribers)[c] = None
    BY <1>1, FollowsFacts
  <1>4. /\ \A d \in Drivers : c \in driverSubscribers'[d] => FollowsOf(driverSubscribers')[c] = d
        /\ (\A d \in Drivers : c \notin driverSubscribers'[d])
              => FollowsOf(driverSubscribers')[c] = None
    BY <1>2, FollowsFacts
  <1>5. Follows = FollowsOf(driverSubscribers) /\ Follows' = FollowsOf(driverSubscribers')
    BY Mapped
  <1>6. QED
    BY <1>3, <1>4, <1>5

-----------------------------------------------------------------------------
(* OneRequest is inductive *)

LEMMA IdleOnly ==
    ASSUME Idle, NEW k \in Calls
    PROVE  Only(k)
  BY DEF Idle, Only

LEMMA FollowsAlone ==
    ASSUME Typed, OneRequest, NEW k \in Calls, Only(k),
           NEW c \in Clients, NEW d \in Drivers, Follow(k, c, d)
    PROVE  OneRequest'
  <1>1. PICK record :
            /\ Goto(k, record)
            /\ Knows(record, clientSubscriptions', tracked', driverSubscribers')
    BY FollowRecord
  <1>2. QED
    BY <1>1, MovesOnly

LEMMA ReleasesAlone ==
    ASSUME Typed, OneRequest, NEW k \in Calls, Only(k), NEW c \in Clients,
           NEW d \in Drivers, NEW next \in Drivers \cup {None}, Release(k, c, d, next)
    PROVE  OneRequest'
  <1>1. PICK record :
            /\ Goto(k, record)
            /\ Knows(record, clientSubscriptions', tracked', driverSubscribers')
    BY ReleaseRecord
  <1>2. QED
    BY <1>1, MovesOnly

\* The answer to the command of the only request.
LEMMA AnsweredFacts ==
    ASSUME Typed, Agreement, OneRequest,
           NEW k, k = Head(subscriber), subscriber # <<>>,
           call[k].at \in {"unsubscribing", "subscribing"}
    PROVE  /\ k \in Calls /\ call[k].client \in Clients /\ call[k].driver \in Drivers
           /\ Only(k)
           /\ call[k].at = "subscribing" =>
                 /\ call[k].driver \in tracked
                 /\ clientSubscriptions[call[k].client] = call[k].driver
           /\ call[k].at = "unsubscribing" =>
                 /\ driverSubscribers[call[k].driver] = {}
                 /\ call[k].next \in Drivers \cup {None}
  <1>1. k \in Calls
    BY QueueHead DEF Typed, TypeOK
  <1>2. call[k].client \in Clients /\ call[k].driver \in Drivers
    BY <1>1 DEF Typed, ValidRecords
  <1>3. Only(k)
    BY <1>1, <1>2, OnlyOne
  <1>4. call[k].at = "subscribing" => clientSubscriptions[call[k].client] = call[k].driver
    BY <1>1 DEF Agreement, WaitsAgree
  <1>5. /\ call[k].at = "subscribing" => call[k].driver \in tracked
        /\ call[k].at = "unsubscribing" => driverSubscribers[call[k].driver] = {}
    BY <1>1 DEF OneRequest, Knows
  <1>6. call[k].next \in Drivers \cup {None}
    BY <1>1 DEF Typed, TypeOK, CallRecords
  <1>7. QED
    BY <1>1, <1>2, <1>3, <1>4, <1>5, <1>6

\* What a call for the client goes on with when its answer has come.
LEMMA LoadingKnows ==
    ASSUME NEW c, NEW d, NEW profiles, NEW recorded, NEW keys, NEW subscribers,
           recorded[c] = d
    PROVE  Knows(Loading(c, d, profiles), recorded, keys, subscribers)
  <1> DEFINE record == Loading(c, d, profiles)
  <1>1. /\ record.at \in {"profile", "location", "idle"}
        /\ record.at = "idle" => record.client = None
        /\ record.at # "idle" => record.client = c /\ record.driver = d
    BY DEF Loading, Waiting, IdleCall
  <1> HIDE DEF record
  <1>2. Knows(record, recorded, keys, subscribers)
    BY <1>1 DEF Knows
  <1>3. QED
    BY <1>2 DEF record

LEMMA AfterReleaseKnows ==
    ASSUME NEW c, NEW next, NEW recorded, NEW keys, NEW subscribers
    PROVE  Knows(AfterRelease(c, next), recorded, keys, subscribers)
  <1> DEFINE record == AfterRelease(c, next)
  <1>1. record.at = "released" \/ (record.at = "idle" /\ record.client = None)
    BY DEF AfterRelease, Waiting, IdleCall
  <1> HIDE DEF record
  <1>2. Knows(record, recorded, keys, subscribers)
    BY <1>1 DEF Knows
  <1>3. QED
    BY <1>2 DEF record

\* What a load goes on with.
LEMMA ProfileRecord ==
    ASSUME Typed, OneRequest, NEW k \in Calls, NEW found, ProfileFetched(k, found)
    PROVE  \E record :
              /\ Goto(k, record) /\ record.client \in {call[k].client, None}
              /\ Knows(record, clientSubscriptions, tracked, driverSubscribers)
              /\ record.at \in {"location", "idle"}
              /\ record.client = None \/ record.driver = call[k].driver
              /\ call[k].at \in {"profile", "getProfile"}
  <1> DEFINE more == Waiting("location", call[k].client, call[k].driver, None)
  <1>1. \/ Goto(k, more) /\ call[k].at = "profile"
        \/ Goto(k, IdleCall)
    BY DEF ProfileFetched
  <1>2. more.at = "location" /\ more.client = call[k].client /\ more.driver = call[k].driver
    BY DEF Waiting
  <1>3. IdleCall.at = "idle" /\ IdleCall.client = None
    BY DEF IdleCall, Waiting
  <1>4. call[k].at \in {"profile", "getProfile"}
    BY DEF ProfileFetched
  <1> HIDE DEF more
  <1>5. CASE Goto(k, more) /\ call[k].at = "profile"
    <2>1. Knows(more, clientSubscriptions, tracked, driverSubscribers)
      BY <1>2, <1>5 DEF OneRequest, Knows
    <2>2. QED
      BY <1>2, <1>4, <1>5, <2>1
  <1>6. CASE Goto(k, IdleCall)
    BY <1>3, <1>4, <1>6, IdleKnows
  <1>7. QED
    BY <1>1, <1>5, <1>6

LEMMA OneRequestInductive ==
    ASSUME ~CommandsFail
    PROVE  /\ Init => OneRequest
           /\ Typed /\ Agreement /\ Loads /\ OneRequest /\ [SequentialNext]_vars => OneRequest'
  <1>1. Init => OneRequest
    <2>1. IdleCall.client = None
      BY DEF IdleCall, Waiting
    <2>2. ASSUME Init PROVE \A k \in Calls : call[k] = IdleCall
      BY <2>2 DEF Init
    <2>3. QED
      BY <2>1, <2>2, IdleKnows DEF OneRequest, Single
  <1>2. ASSUME Typed, Agreement, Loads, OneRequest, SequentialNext
        PROVE  OneRequest'
    <2>1. ASSUME NEW k \in Calls, NEW c \in Clients, NEW d \in Drivers,
                 Idle, SubscribeToDriverUpdates(k, c, d)
          PROVE  OneRequest'
      <3>1. Only(k)
        BY <2>1, IdleOnly
      <3>2. CASE clientSubscriptions[c] # None /\ Release(k, c, clientSubscriptions[c], d)
        <4>1. clientSubscriptions[c] \in Drivers
          BY <1>2, <3>2 DEF Typed, TypeOK
        <4>2. QED
          BY <1>2, <3>1, <3>2, <4>1, ReleasesAlone
      <3>3. CASE Follow(k, c, d)
        BY <1>2, <3>1, <3>3, FollowsAlone
      <3>4. QED
        BY <2>1, <3>2, <3>3 DEF SubscribeToDriverUpdates
    <2>2. ASSUME NEW k \in Calls, NEW c \in Clients,
                 Idle, UnsubscribeFromDriverUpdates(k, c)
          PROVE  OneRequest'
      <3>1. Only(k)
        BY <2>2, IdleOnly
      <3>2. clientSubscriptions[c] \in Drivers /\ Release(k, c, clientSubscriptions[c], None)
        BY <1>2, <2>2 DEF UnsubscribeFromDriverUpdates, Typed, TypeOK
      <3>3. QED
        BY <1>2, <3>1, <3>2, ReleasesAlone
    <2>3. ASSUME NEW k \in Calls, NEW d \in Drivers, GetDriverLocationAndProfile(k, d)
          PROVE  OneRequest'
      <3>1. PICK record : /\ Goto(k, record) /\ record.client = None
                          /\ record.at \in {"getLocation", "getProfile"}
        BY <1>2, <2>3, GetStarts
      <3>2. Knows(record, clientSubscriptions, tracked, driverSubscribers)
        BY <3>1 DEF Knows
      <3>3. UNCHANGED registry
        BY <2>3 DEF GetDriverLocationAndProfile
      <3>4. QED
        BY <1>2, <3>1, <3>2, <3>3, MovesQuietly
    <2>4. ASSUME UNCHANGED <<registry, call>>
          PROVE  OneRequest'
      BY <1>2, <2>4 DEF OneRequest, registry
    <2>5. ASSUME NEW d \in Drivers, HandleDriverLocationUpdate(d) \/ LocationReported(d)
          PROVE  OneRequest'
      BY <2>4, <2>5 DEF HandleDriverLocationUpdate, LocationReported
    <2>6. ASSUME NEW k \in Calls, Resume(k)
          PROVE  OneRequest'
      <3>1. call[k].client \in Clients /\ call[k].driver \in Drivers
        BY <1>2, <2>6 DEF Resume, Typed, ValidRecords
      <3>2. Only(k)
        BY <1>2, <3>1, OnlyOne
      <3>3. QED
        BY <1>2, <2>6, <3>1, <3>2, FollowsAlone DEF Resume
    <2>7. CASE UnsubscribeAnswered
      <3> DEFINE k == Head(subscriber)
                 record == AfterRelease(call[k].client, call[k].next)
      <3>1. k = Head(subscriber) /\ subscriber # <<>> /\ call[k].at = "unsubscribing"
            /\ Goto(k, record)
        BY <2>7 DEF UnsubscribeAnswered
      <3>2. k \in Calls /\ Only(k)
        BY <1>2, <3>1, AnsweredFacts
      <3>3. Knows(record, clientSubscriptions', tracked', driverSubscribers')
        BY AfterReleaseKnows
      <3> HIDE DEF k, record
      <3>4. QED
        BY <1>2, <3>1, <3>2, <3>3, MovesOnly
    <2>8. CASE SubscribeAnswered
      <3> DEFINE k == Head(subscriber)
                 record == Loading(call[k].client, call[k].driver, profileCache)
      <3>1. k = Head(subscriber) /\ subscriber # <<>> /\ call[k].at = "subscribing"
        BY <2>8 DEF SubscribeAnswered
      <3>2. /\ k \in Calls /\ Only(k) /\ call[k].driver \in tracked
            /\ clientSubscriptions[call[k].client] = call[k].driver
        BY <1>2, <3>1, AnsweredFacts
      <3>3. Goto(k, record) /\ clientSubscriptions' = clientSubscriptions
        BY <2>8, <3>2 DEF SubscribeAnswered, Enroll
      <3>4. Knows(record, clientSubscriptions', tracked', driverSubscribers')
        BY <3>2, <3>3, LoadingKnows
      <3> HIDE DEF k, record
      <3>5. QED
        BY <1>2, <3>2, <3>3, <3>4, MovesOnly
    <2>9. ASSUME NEW k \in Calls, NEW found \in BOOLEAN, ProfileFetched(k, found)
          PROVE  OneRequest'
      <3>1. PICK record :
                /\ Goto(k, record) /\ record.client \in {call[k].client, None}
                /\ Knows(record, clientSubscriptions, tracked, driverSubscribers)
        BY <1>2, <2>9, ProfileRecord
      <3>2. UNCHANGED registry
        BY <2>9 DEF ProfileFetched
      <3>3. QED
        BY <1>2, <3>1, <3>2, MovesQuietly
    <2>10. ASSUME NEW k \in Calls, NEW failed \in BOOLEAN, LocationServed(k, failed)
           PROVE  OneRequest'
      <3>1. PICK record :
                /\ Goto(k, record)
                /\ record.client = call[k].client /\ record.driver = call[k].driver
                /\ record.at = call[k].at
        BY <1>2, <2>10, ServedRecord
      <3>2. Knows(record, clientSubscriptions, tracked, driverSubscribers)
        BY <1>2, <3>1 DEF OneRequest, Knows
      <3>3. UNCHANGED registry
        BY <2>10 DEF LocationServed
      <3>4. QED
        BY <1>2, <3>1, <3>2, <3>3, MovesQuietly
    <2>11. ASSUME NEW k \in Calls, LocationFetched(k)
           PROVE  OneRequest'
      <3>1. PICK record :
                /\ Goto(k, record)
                /\ \/ record = IdleCall
                   \/ /\ call[k].at = "getLocation" /\ record.at = "getProfile"
                      /\ record.client = call[k].client
        BY <1>2, <2>11, FetchedRecord
      <3>2. /\ record.client \in {call[k].client, None}
            /\ Knows(record, clientSubscriptions, tracked, driverSubscribers)
        <4>1. CASE record = IdleCall
          BY <4>1, IdleKnows DEF IdleCall, Waiting
        <4>2. CASE /\ call[k].at = "getLocation" /\ record.at = "getProfile"
                   /\ record.client = call[k].client
          BY <1>2, <4>2 DEF OneRequest, Knows
        <4>3. QED
          BY <3>1, <4>1, <4>2
      <3>3. UNCHANGED registry
        BY <2>11 DEF LocationFetched
      <3>4. QED
        BY <1>2, <3>1, <3>2, <3>3, MovesQuietly
    <2>12. ~CommandRejected
      BY DEF CommandRejected
    <2>13. QED
      BY <1>2, <2>1, <2>2, <2>3, <2>5, <2>6, <2>7, <2>8, <2>9, <2>10, <2>11, <2>12
         DEF SequentialNext, OtherSteps, Answered, CommandAnswered
  <1>3. ASSUME OneRequest, UNCHANGED vars
        PROVE  OneRequest'
    BY <1>3 DEF OneRequest, vars, registry
  <1>4. QED
    BY <1>1, <1>2, <1>3

-----------------------------------------------------------------------------
(* Every step keeps the contract *)

ContractStep == [Contract!Next]_(Contract!vars)

\* A step of the only call that works for a client, which works for c, changes what
\* c has asked for and follows, at most.
LEMMA ClientStep ==
    ASSUME Served, Served', NEW k \in Calls, NEW record, Goto(k, record), Only(k),
           NEW c \in Clients, call[k].client \in {c, None}, record.client \in {c, None},
           \A x \in Clients \ {c} : clientSubscriptions'[x] = clientSubscriptions[x],
           \A x \in Clients \ {c} :
              \A d \in Drivers : x \in driverSubscribers'[d] <=> x \in driverSubscribers[d]
    PROVE  /\ Asked' = [Asked EXCEPT ![c] = Asked'[c]]
           /\ Follows' = [Follows EXCEPT ![c] = Follows'[c]]
           /\ Asked'[c] = Asked[c] => Asked' = Asked
           /\ Follows'[c] = Follows[c] => Follows' = Follows
           /\ call'[k] = record
           /\ record.client # c => \A q \in Calls : call'[q].client # c
  <1>1. \A x \in Clients \ {c} : Asked'[x] = Asked[x] /\ Follows'[x] = Follows[x]
    BY OthersAsk
  <1>2. /\ call'[k] = record
        /\ \A other \in Calls \ {k} : call'[other] = call[other]
    BY GotoMoves DEF Served, Typed
  <1>3. record.client # c => \A q \in Calls : call'[q].client # c
    BY <1>2, NoneAssumption DEF Only
  <1>4. QED
    BY <1>1, <1>2, <1>3, OneChanges

\* What the maps know of c when it is not followed by anybody's request.
LEMMA FollowsNothing ==
    ASSUME Served, NEW c \in Clients, clientSubscriptions[c] = None
    PROVE  \A d \in Drivers : c \notin driverSubscribers[d]
  BY NoneAssumption DEF Served, Agreement, SubscribersFollow

\* While a request waits for no command, every entry is one that Redis sends.
LEMMA EntriesReceived ==
    ASSUME Served, NEW k \in Calls, Only(k),
           call[k].at \notin {"subscribing", "unsubscribing"}, NEW d \in tracked
    PROVE  d \in channels
  <1>1. \A q \in Calls : call[q].at \in {"subscribing", "unsubscribing"}
                            => call[q].client \in Clients
    BY DEF Served, Typed, ValidRecords
  <1>2. ~Commanding(d)
    BY <1>1, NoneAssumption DEF Commanding, Only
  <1>3. QED
    BY <1>2 DEF Served, RegistryMatchesRedis

\* A client that is released has asked for the next driver and follows none.
LEMMA ReleaseContract ==
    ASSUME Served, Served', NEW k \in Calls, Only(k), call[k].client = None,
           NEW c \in Clients, clientSubscriptions[c] # None,
           NEW next \in Drivers \cup {None},
           Release(k, c, clientSubscriptions[c], next), UNCHANGED channels
    PROVE  Contract!Request(c, next)
  <1> DEFINE d == clientSubscriptions[c]
  <1>1. d \in Drivers /\ Typed /\ Release(k, c, d, next)
    BY DEF Served, Typed, TypeOK
  <1>2. PICK record :
            /\ Goto(k, record)
            /\ \/ record.client = c /\ Wants(record) = next
               \/ record.client = None /\ clientSubscriptions'[c] = None /\ next = None
    BY <1>1, ReleaseRecord
  <1>3. /\ driverSubscribers' = [driverSubscribers EXCEPT ![d] = driverSubscribers[d] \ {c}]
        /\ driverSubscribers \in [Drivers -> SUBSET Clients]
    BY <1>1 DEF Release, Typed, TypeOK
  <1>4. \A x \in Clients \ {c} : clientSubscriptions'[x] = clientSubscriptions[x]
    BY <1>1 DEF Release, Typed, TypeOK
  <1>5. \A x \in Clients \ {c} :
            \A e \in Drivers : x \in driverSubscribers'[e] <=> x \in driverSubscribers[e]
    BY <1>1, <1>3
  <1>6. \A e \in Drivers \ {d} : c \notin driverSubscribers[e]
    BY DEF Served, Agreement, SubscribersFollow
  <1>7. \A e \in Drivers : c \notin driverSubscribers'[e]
    BY <1>1, <1>3, <1>6
  <1> HIDE DEF d
  <1>8. /\ Asked' = [Asked EXCEPT ![c] = Asked'[c]]
        /\ Follows' = [Follows EXCEPT ![c] = Follows'[c]]
        /\ call'[k] = record
        /\ record.client # c => \A q \in Calls : call'[q].client # c
    BY <1>2, <1>4, <1>5, ClientStep
  <1>9. Follows'[c] = None
    BY <1>7, FollowsWhom
  <1>10. Asked'[c] = next
    <2>1. CASE record.client = c /\ Wants(record) = next
      BY <1>8, <2>1, Asks
    <2>2. CASE record.client = None /\ clientSubscriptions'[c] = None /\ next = None
      BY <1>8, <2>2, NoneAssumption, Asks
    <2>3. QED
      BY <1>2, <2>1, <2>2
  <1>11. QED
    BY <1>8, <1>9, <1>10 DEF Contract!Request

\* A client that follows nobody comes to follow a driver that is received already,
\* or follows nobody until Redis has answered.
LEMMA FollowContract ==
    ASSUME Served, Served', NEW k \in Calls, Only(k), NEW c \in Clients,
           call[k].client \in {c, None}, NEW d \in Drivers, Follow(k, c, d),
           \A e \in Drivers : c \notin driverSubscribers[e]
    PROVE  /\ Asked' = [Asked EXCEPT ![c] = d]
           /\ Asked[c] = d => Asked' = Asked
           /\ \/ d \in tracked /\ Follows' = [Follows EXCEPT ![c] = d]
              \/ Follows' = Follows /\ Follows' = [Follows EXCEPT ![c] = None]
  <1>1. Typed
    BY DEF Served
  <1>2. PICK record :
            /\ Goto(k, record)
            /\ \/ record.client = c /\ Wants(record) = d
               \/ record.client = None
    BY <1>1, FollowRecord
  <1>3. /\ clientSubscriptions'[c] = d
        /\ \A x \in Clients \ {c} : clientSubscriptions'[x] = clientSubscriptions[x]
    BY <1>1 DEF Follow, Typed, TypeOK
  <1>4. \/ d \in tracked /\ driverSubscribers' = [driverSubscribers EXCEPT ![d] = @ \cup {c}]
        \/ driverSubscribers' = driverSubscribers
    BY DEF Follow, Enroll
  <1>5. driverSubscribers \in [Drivers -> SUBSET Clients]
    BY <1>1 DEF Typed, TypeOK
  <1>6. \A x \in Clients \ {c} :
            \A e \in Drivers : x \in driverSubscribers'[e] <=> x \in driverSubscribers[e]
    BY <1>4, <1>5
  <1>7. /\ Asked' = [Asked EXCEPT ![c] = Asked'[c]]
        /\ Follows' = [Follows EXCEPT ![c] = Follows'[c]]
        /\ Asked'[c] = Asked[c] => Asked' = Asked
        /\ Follows'[c] = Follows[c] => Follows' = Follows
        /\ call'[k] = record
        /\ record.client # c => \A q \in Calls : call'[q].client # c
    BY <1>2, <1>3, <1>6, ClientStep
  <1>8. Asked'[c] = d
    <2>1. CASE record.client = c /\ Wants(record) = d
      BY <1>7, <2>1, Asks
    <2>2. CASE record.client = None
      BY <1>3, <1>7, <2>2, NoneAssumption, Asks
    <2>3. QED
      BY <1>2, <2>1, <2>2
  <1>9. \/ d \in tracked /\ Follows'[c] = d
        \/ Follows'[c] = None /\ Follows[c] = None
    <2>1. CASE d \in tracked /\ driverSubscribers' = [driverSubscribers EXCEPT ![d] = @ \cup {c}]
      <3>1. c \in driverSubscribers'[d]
        BY <1>5, <2>1
      <3>2. QED
        BY <2>1, <3>1, FollowsWhom
    <2>2. CASE driverSubscribers' = driverSubscribers
      BY <2>2, FollowsWhom
    <2>3. QED
      BY <1>4, <2>1, <2>2
  <1>10. QED
    BY <1>7, <1>8, <1>9

\* A step of the caches changes nothing that the contract speaks of.
LEMMA QuietContract ==
    ASSUME Served, Served', NEW k \in Calls, NEW record, Goto(k, record),
           UNCHANGED <<registry, channels>>, record.client \in {call[k].client, None},
           call[k].client # None => call[k].at \in {"profile", "location"},
           record.client # None => /\ record.driver = call[k].driver
                                   /\ record.at # "unsubscribing"
    PROVE  ContractStep
  <1>1. /\ call'[k] = record
        /\ \A other \in Calls \ {k} : call'[other] = call[other]
    BY GotoMoves DEF Served, Typed
  <1>2. Follows' = Follows
    BY DEF Follows, registry
  <1>3. ASSUME NEW x \in Clients
        PROVE  Asked'[x] = Asked[x]
    <2>1. CASE call[k].client = x
      <3>1. Asked[x] = call[k].driver /\ clientSubscriptions[x] = call[k].driver
        BY <2>1, NoneAssumption, Asks DEF Wants, Served, OneRequest, Knows
      <3>2. CASE record.client = x
        BY <1>1, <2>1, <3>1, <3>2, NoneAssumption, Asks DEF Wants
      <3>3. CASE record.client # x
        <4>1. \A q \in Calls : call'[q].client # x
          BY <1>1, <2>1, <3>3, NoneAssumption DEF Served, OneRequest, Single
        <4>2. QED
          BY <3>1, <4>1, Asks DEF registry
      <3>4. QED
        BY <3>2, <3>3
    <2>2. CASE call[k].client # x
      <3>1. \A q \in Calls : call'[q].client = x <=> call[q].client = x
        BY <1>1, <2>2, NoneAssumption
      <3>2. \A q \in Calls : call[q].client = x => call'[q] = call[q]
        BY <1>1, <2>2
      <3>3. CASE \E q \in Calls : call[q].client = x
        <4>1. PICK q \in Calls : call[q].client = x
          BY <3>3
        <4>2. Asked[x] = Wants(call[q]) /\ Asked'[x] = Wants(call'[q]) /\ call'[q] = call[q]
          BY <3>1, <3>2, <4>1, Asks
        <4>3. QED
          BY <4>2
      <3>4. CASE ~\E q \in Calls : call[q].client = x
        BY <3>1, <3>4, Asks DEF registry
      <3>5. QED
        BY <3>3, <3>4
    <2>3. QED
      BY <2>1, <2>2
  <1>4. Asked' = Asked
    <2>1. ASSUME NEW f, NEW g, f = [x \in Clients |-> f[x]], g = [x \in Clients |-> g[x]],
                 \A x \in Clients : g[x] = f[x]
          PROVE  g = f
      BY <2>1
    <2>2. QED
      BY <1>3, <2>1, Mapped
  <1>5. QED
    BY <1>2, <1>4 DEF ContractStep, Contract!vars

LEMMA ContractInit == Init => Contract!Init
  <1> SUFFICES ASSUME Init PROVE Contract!Init
    OBVIOUS
  <1>1. \A k \in Calls : call[k].client = None
    BY DEF Init, IdleCall, Waiting
  <1>2. Asked = [c \in Clients |-> None]
    BY <1>1, NoneAssumption DEF Init, Asked
  <1>3. Follows = [c \in Clients |-> None]
    BY DEF Init, Follows
  <1>4. QED
    BY <1>2, <1>3 DEF Init, Contract!Init

\* A call that is idle works for nobody, and so do all when a request starts.
LEMMA StartFacts ==
    ASSUME Served, Idle, NEW k \in Calls
    PROVE  call[k].client = None /\ Only(k)
  BY DEF Idle, Only

\* One step of the service for each step of the contract, or none.
LEMMA ContractKept ==
    ASSUME ~CommandsFail, Served, Served', [SequentialNext]_vars
    PROVE  ContractStep
  <1>1. ASSUME NEW c \in Clients, NEW d \in Drivers \cup {None}, Contract!Request(c, d)
        PROVE  ContractStep
    BY <1>1 DEF ContractStep, Contract!Next
  <1>2. ASSUME NEW k \in Calls, NEW c \in Clients, NEW d \in Drivers,
               Idle, SubscribeToDriverUpdates(k, c, d)
        PROVE  ContractStep
    <2>1. call[k].client = None /\ Only(k) /\ channels' = channels
      BY <1>2, StartFacts DEF SubscribeToDriverUpdates
    <2>2. CASE clientSubscriptions[c] # None /\ Release(k, c, clientSubscriptions[c], d)
      BY <1>1, <2>1, <2>2, ReleaseContract
    <2>3. CASE clientSubscriptions[c] = None /\ Follow(k, c, d)
      <3>1. \A e \in Drivers : c \notin driverSubscribers[e]
        BY <2>3, FollowsNothing
      <3>2. /\ Asked' = [Asked EXCEPT ![c] = d]
            /\ \/ d \in tracked /\ Follows' = [Follows EXCEPT ![c] = d]
               \/ Follows' = [Follows EXCEPT ![c] = None]
        BY <2>1, <2>3, <3>1, FollowContract
      <3>3. d \in tracked => d \in channels
        <4>1. call[k].at \notin {"subscribing", "unsubscribing"}
          BY <1>2 DEF SubscribeToDriverUpdates, MayStart
        <4>2. QED
          BY <2>1, <4>1, EntriesReceived
      <3>4. Contract!Request(c, d)
        BY <2>1, <3>2, <3>3 DEF Contract!Request
      <3>5. QED
        BY <1>1, <3>4
    <2>4. QED
      BY <1>2, <2>2, <2>3 DEF SubscribeToDriverUpdates
  <1>3. ASSUME NEW k \in Calls, NEW c \in Clients, Idle,
               UnsubscribeFromDriverUpdates(k, c)
        PROVE  ContractStep
    <2>1. call[k].client = None /\ Only(k) /\ channels' = channels
      BY <1>3, StartFacts DEF UnsubscribeFromDriverUpdates
    <2>2. /\ clientSubscriptions[c] # None
          /\ Release(k, c, clientSubscriptions[c], None)
      BY <1>3 DEF UnsubscribeFromDriverUpdates
    <2>3. QED
      BY <1>1, <2>1, <2>2, ReleaseContract
  <1>4. ASSUME NEW k \in Calls, NEW d \in Drivers, GetDriverLocationAndProfile(k, d)
        PROVE  ContractStep
    <2>1. PICK record : Goto(k, record) /\ record.client = None
      BY <1>4, GetStarts DEF Served
    <2>2. call[k].client = None
      BY <1>4 DEF GetDriverLocationAndProfile, Served, OneRequest, Knows
    <2>3. UNCHANGED <<registry, channels>>
      BY <1>4 DEF GetDriverLocationAndProfile, redis
    <2>4. QED
      BY <2>1, <2>2, <2>3, QuietContract
  <1>5. ASSUME UNCHANGED <<registry, channels, call>>
        PROVE  ContractStep
    BY <1>5 DEF ContractStep, Contract!vars, Asked, Follows, registry
  <1>6. ASSUME NEW d \in Drivers, HandleDriverLocationUpdate(d) \/ LocationReported(d)
        PROVE  ContractStep
    BY <1>5, <1>6 DEF HandleDriverLocationUpdate, LocationReported, redis
  <1>7. ASSUME NEW k \in Calls, Resume(k)
        PROVE  ContractStep
    <2> DEFINE c == call[k].client
               d == call[k].driver
    <2>1. call[k].at = "released" /\ Follow(k, c, d) /\ channels' = channels
      BY <1>7 DEF Resume
    <2>2. c \in Clients /\ d \in Drivers /\ Only(k)
      BY <2>1, OnlyOne DEF Served, Typed, ValidRecords
    <2>3. Asked[c] = d
      BY <2>1, <2>2, Asks DEF Wants
    <2>4. \A e \in Drivers : c \notin driverSubscribers[e]
      BY <2>1 DEF Served, Agreement, WaitsAgree
    <2>5. /\ Asked[c] = d => Asked' = Asked
          /\ \/ d \in tracked /\ Follows' = [Follows EXCEPT ![c] = d]
             \/ Follows' = Follows
      BY <2>1, <2>2, <2>4, FollowContract
    <2>6. CASE d \in tracked /\ Follows' = [Follows EXCEPT ![c] = d]
      <3>1. d \in channels
        BY <2>1, <2>2, <2>6, EntriesReceived
      <3>2. channels' = channels \cup {d}
        BY <2>1, <3>1
      <3>3. Contract!Serve(c)
        BY <2>2, <2>3, <2>5, <2>6, <3>2, NoneAssumption DEF Contract!Serve
      <3>4. QED
        BY <2>2, <3>3 DEF ContractStep, Contract!Next
    <2>7. CASE Follows' = Follows
      BY <2>1, <2>3, <2>5, <2>7 DEF ContractStep, Contract!vars
    <2>8. QED
      BY <2>5, <2>6, <2>7
  <1>8. CASE UnsubscribeAnswered
    <2> DEFINE k == Head(subscriber)
               c == call[k].client
               d == call[k].driver
               record == AfterRelease(c, call[k].next)
    <2>1. k = Head(subscriber) /\ subscriber # <<>> /\ call[k].at = "unsubscribing"
      BY <1>8 DEF UnsubscribeAnswered
    <2>2. /\ k \in Calls /\ c \in Clients /\ d \in Drivers /\ Only(k)
          /\ driverSubscribers[d] = {} /\ call[k].next \in Drivers \cup {None}
      BY <2>1, AnsweredFacts DEF Served
    <2>3. /\ Goto(k, record) /\ channels' = channels \ {d}
          /\ driverSubscribers' = [driverSubscribers EXCEPT ![d] = {}]
          /\ clientSubscriptions' = [clientSubscriptions EXCEPT ![c] = None]
      BY <1>8 DEF UnsubscribeAnswered
    <2>4. \/ record.at = "released" /\ record.client = c /\ record.driver = call[k].next
          \/ record.client = None /\ call[k].next = None
      BY DEF AfterRelease, Waiting, IdleCall
    <2> HIDE DEF k, c, d, record
    <2>5. driverSubscribers' = driverSubscribers
      BY <2>2, <2>3 DEF Served, Typed, TypeOK
    <2>6. /\ clientSubscriptions'[c] = None
          /\ \A x \in Clients \ {c} : clientSubscriptions'[x] = clientSubscriptions[x]
      BY <2>2, <2>3 DEF Served, Typed, TypeOK
    <2>7. /\ Asked'[c] = Asked[c] => Asked' = Asked
          /\ call'[k] = record
          /\ record.client # c => \A q \in Calls : call'[q].client # c
      <3>1. call[k].client \in {c, None}
        BY DEF c
      <3>2. record.client \in {c, None}
        BY <2>4
      <3>3. QED
        BY <2>2, <2>3, <2>5, <2>6, <3>1, <3>2, ClientStep
    <2>8. Asked[c] = call[k].next
      BY <2>1, <2>2, Asks DEF Wants, c
    <2>9. Asked'[c] = call[k].next
      <3>1. CASE record.at = "released" /\ record.client = c /\ record.driver = call[k].next
        BY <2>2, <2>7, <3>1, Asks DEF Wants
      <3>2. CASE record.client = None /\ call[k].next = None
        BY <2>2, <2>6, <2>7, <3>2, NoneAssumption, Asks
      <3>3. QED
        BY <2>4, <3>1, <3>2
    <2>10. Asked' = Asked /\ Follows' = Follows
      BY <2>5, <2>7, <2>8, <2>9 DEF Follows
    <2>11. ASSUME NEW x \in Clients
           PROVE  Follows[x] # d
      <3>1. CASE \E e \in Drivers : x \in driverSubscribers[e]
        BY <2>2, <3>1, FollowsWhom
      <3>2. CASE \A e \in Drivers : x \notin driverSubscribers[e]
        BY <2>2, <3>2, FollowsWhom, NoneAssumption
      <3>3. QED
        BY <3>1, <3>2
    <2>12. Contract!Silence(d)
      BY <2>3, <2>10, <2>11 DEF Contract!Silence
    <2>13. QED
      BY <2>2, <2>12 DEF ContractStep, Contract!Next
  <1>9. CASE SubscribeAnswered
    <2> DEFINE k == Head(subscriber)
               c == call[k].client
               d == call[k].driver
               record == Loading(c, d, profileCache)
    <2>1. k = Head(subscriber) /\ subscriber # <<>> /\ call[k].at = "subscribing"
      BY <1>9 DEF SubscribeAnswered
    <2>2. /\ k \in Calls /\ c \in Clients /\ d \in Drivers /\ Only(k)
          /\ d \in tracked /\ clientSubscriptions[c] = d
      BY <2>1, AnsweredFacts DEF Served
    <2>3. Enroll(k, c, d) /\ channels' = channels \cup {d} /\ UNCHANGED clientSubscriptions
      BY <1>9, <2>2 DEF SubscribeAnswered
    <2>4. /\ Goto(k, record)
          /\ driverSubscribers' = [driverSubscribers EXCEPT ![d] = @ \cup {c}]
      BY <2>3 DEF Enroll
    <2>5. \/ record.at \in {"profile", "location"} /\ record.client = c /\ record.driver = d
          \/ record.client = None
      BY DEF Loading, Waiting, IdleCall
    <2> HIDE DEF k, c, d, record
    <2>6. driverSubscribers \in [Drivers -> SUBSET Clients]
      BY DEF Served, Typed, TypeOK
    <2>7. /\ \A x \in Clients \ {c} :
               \A e \in Drivers : x \in driverSubscribers'[e] <=> x \in driverSubscribers[e]
          /\ c \in driverSubscribers'[d]
      BY <2>2, <2>4, <2>6
    <2>8. /\ Asked'[c] = Asked[c] => Asked' = Asked
          /\ Follows' = [Follows EXCEPT ![c] = Follows'[c]]
          /\ call'[k] = record
          /\ record.client # c => \A q \in Calls : call'[q].client # c
      <3>1. call[k].client \in {c, None}
        BY DEF c
      <3>2. record.client \in {c, None}
        BY <2>5
      <3>3. QED
        BY <2>2, <2>3, <2>4, <2>7, <3>1, <3>2, ClientStep
    <2>9. Asked[c] = d
      BY <2>1, <2>2, Asks DEF Wants, c, d
    <2>10. Asked'[c] = d
      <3>1. CASE record.at \in {"profile", "location"} /\ record.client = c /\ record.driver = d
        BY <2>2, <2>8, <3>1, Asks DEF Wants
      <3>2. CASE record.client = None
        BY <2>2, <2>3, <2>8, <3>2, NoneAssumption, Asks
      <3>3. QED
        BY <2>5, <3>1, <3>2
    <2>11. Follows'[c] = d
      BY <2>2, <2>7, FollowsWhom
    <2>12. Contract!Serve(c)
      BY <2>2, <2>3, <2>8, <2>9, <2>10, <2>11, NoneAssumption DEF Contract!Serve
    <2>13. QED
      BY <2>2, <2>12 DEF ContractStep, Contract!Next
  <1>10. ASSUME NEW k \in Calls, NEW found \in BOOLEAN, ProfileFetched(k, found)
         PROVE  ContractStep
    <2>1. PICK record :
              /\ Goto(k, record) /\ record.client \in {call[k].client, None}
              /\ record.at \in {"location", "idle"}
              /\ record.client = None \/ record.driver = call[k].driver
              /\ call[k].at \in {"profile", "getProfile"}
      BY <1>10, ProfileRecord DEF Served
    <2>2. call[k].client # None => call[k].at \in {"profile", "location"}
      BY <2>1 DEF Served, OneRequest, Knows
    <2>3. UNCHANGED <<registry, channels>>
      BY <1>10 DEF ProfileFetched, redis
    <2>4. QED
      BY <2>1, <2>2, <2>3, QuietContract
  <1>11. ASSUME NEW k \in Calls, NEW failed \in BOOLEAN, LocationServed(k, failed)
         PROVE  ContractStep
    <2>1. PICK record :
              /\ Goto(k, record)
              /\ record.client = call[k].client /\ record.driver = call[k].driver
              /\ record.at = call[k].at /\ call[k].at \in {"location", "getLocation"}
      BY <1>11, ServedRecord DEF Served
    <2>2. call[k].client # None => call[k].at \in {"profile", "location"}
      BY <2>1 DEF Served, OneRequest, Knows
    <2>3. UNCHANGED <<registry, channels>>
      BY <1>11 DEF LocationServed, redis
    <2>4. QED
      BY <2>1, <2>2, <2>3, QuietContract
  <1>12. ASSUME NEW k \in Calls, LocationFetched(k)
         PROVE  ContractStep
    <2>1. PICK record :
              /\ Goto(k, record) /\ call[k].served
              /\ \/ record = IdleCall
                 \/ /\ call[k].at = "getLocation" /\ record.at = "getProfile"
                    /\ record.client = call[k].client /\ record.driver = call[k].driver
      BY <1>12, FetchedRecord DEF Served
    <2>2. call[k].at \in {"location", "getLocation"}
      BY <2>1 DEF Served, Loads, LoadRecord
    <2>3. call[k].client # None => call[k].at \in {"profile", "location"}
      BY <2>2 DEF Served, OneRequest, Knows
    <2>4. /\ record.client \in {call[k].client, None}
          /\ record.client # None => /\ record.driver = call[k].driver
                                     /\ record.at # "unsubscribing"
      BY <2>1 DEF IdleCall, Waiting
    <2>5. UNCHANGED <<registry, channels>>
      BY <1>12 DEF LocationFetched, redis
    <2>6. QED
      BY <2>1, <2>3, <2>4, <2>5, QuietContract
  <1>13. CASE UNCHANGED vars
    BY <1>5, <1>13 DEF vars, redis
  <1>14. ~CommandRejected
    BY DEF CommandRejected
  <1>15. CASE SequentialNext
    BY <1>2, <1>3, <1>4, <1>6, <1>7, <1>8, <1>9, <1>10, <1>11, <1>12, <1>14, <1>15
       DEF SequentialNext, OtherSteps, Answered, CommandAnswered
  <1>16. QED
    BY <1>13, <1>15

\* What every state of the sequential service satisfies.
LEMMA ServedInductive ==
    ASSUME SerialClients, ~CommandsFail
    PROVE  /\ Init => Served
           /\ Served /\ [SequentialNext]_vars => Served'
  <1>1. [SequentialNext]_vars => [Next]_vars
    BY DEF SequentialNext, OtherSteps, Next
  <1>2. QED
    BY <1>1, TypedInductive, LoadsInductive, AgreementInductive, MatchedInductive,
       OneRequestInductive DEF Served

\* With one request at a time and a Redis that answers, the class keeps the contract
\* of module Following, for any number of clients, drivers and overlapping calls of
\* the gateway's ticks: a client leaves a driver on its own request only, joins one
\* that Redis already sends us, and a channel is given up when nobody follows.
THEOREM FollowingImplemented ==
    ASSUME SerialClients, ~CommandsFail
    PROVE  SequentialSpec => ImplementsFollowing
  <1>1. Init => Served /\ Contract!Init
    BY ServedInductive, ContractInit
  <1>2. Served /\ [SequentialNext]_vars => Served'
    BY ServedInductive
  <1>3. Served /\ Served' /\ [SequentialNext]_vars => [Contract!Next]_(Contract!vars)
    BY ContractKept DEF ContractStep
  <1>4. QED
    BY <1>1, <1>2, <1>3, PTL DEF SequentialSpec, ImplementsFollowing, Contract!Spec

-----------------------------------------------------------------------------
(* Followers are indexed *)

\* A driver that is not a key has no followers; nor has one whose channel a call is
\* still waiting for; and a client that is recorded with a driver is among its
\* followers, unless a command sent for that client awaits its answer.
Enrolled(recorded, keys, subscribers, calls) ==
    /\ \A d \in Drivers \ keys : subscribers[d] = {}
    /\ \A k \in Calls : calls[k].at = "subscribing" => subscribers[calls[k].driver] = {}
    /\ \A c \in Clients :
          recorded[c] # None =>
              \/ c \in subscribers[recorded[c]]
              \/ \E k \in Calls : /\ calls[k].client = c
                                  /\ calls[k].at \in {"subscribing", "unsubscribing"}

\* The only call with a client goes on.
LEMMA EnrolledMoves ==
    ASSUME Typed, NEW k \in Calls, NEW record, Goto(k, record), Only(k),
           \A d \in Drivers \ tracked' : driverSubscribers'[d] = {},
           record.at = "subscribing" => driverSubscribers'[record.driver] = {},
           \A c \in Clients :
              clientSubscriptions'[c] # None =>
                 \/ c \in driverSubscribers'[clientSubscriptions'[c]]
                 \/ record.client = c /\ record.at \in {"subscribing", "unsubscribing"}
    PROVE  Enrolled(clientSubscriptions', tracked', driverSubscribers', call')
  <1>1. /\ call'[k] = record
        /\ \A other \in Calls \ {k} : call'[other] = call[other]
    BY GotoMoves DEF Typed
  <1>2. \A other \in Calls \ {k} : call'[other].at # "subscribing"
    BY <1>1, NoneAssumption DEF Typed, ValidRecords, Only
  <1>3. \A q \in Calls : call'[q].at = "subscribing" => driverSubscribers'[call'[q].driver] = {}
    BY <1>1, <1>2
  <1>4. ASSUME NEW c \in Clients, clientSubscriptions'[c] # None
        PROVE  \/ c \in driverSubscribers'[clientSubscriptions'[c]]
               \/ \E q \in Calls : /\ call'[q].client = c
                                   /\ call'[q].at \in {"subscribing", "unsubscribing"}
    BY <1>1, <1>4
  <1>5. QED
    BY <1>3, <1>4 DEF Enrolled

\* A call that neither awaits a command nor sends one.
LEMMA EnrolledQuietly ==
    ASSUME Typed, NEW k \in Calls, NEW record, Goto(k, record), UNCHANGED registry,
           call[k].at \notin {"subscribing", "unsubscribing"}, record.at # "subscribing",
           Enrolled(clientSubscriptions, tracked, driverSubscribers, call)
    PROVE  Enrolled(clientSubscriptions', tracked', driverSubscribers', call')
  <1>1. /\ call'[k] = record
        /\ \A other \in Calls \ {k} : call'[other] = call[other]
    BY GotoMoves DEF Typed
  <1>2. UNCHANGED <<clientSubscriptions, tracked, driverSubscribers>>
    BY DEF registry
  <1>3. \A q \in Calls : call[q].at \in {"subscribing", "unsubscribing"} => call'[q] = call[q]
    BY <1>1
  <1>4. \A q \in Calls : call'[q].at = "subscribing" => call'[q] = call[q]
    BY <1>1
  <1>5. \A q \in Calls : call'[q].at = "subscribing" => driverSubscribers[call'[q].driver] = {}
    BY <1>4 DEF Enrolled
  <1>6. ASSUME NEW c \in Clients, clientSubscriptions[c] # None
        PROVE  \/ c \in driverSubscribers[clientSubscriptions[c]]
               \/ \E q \in Calls : /\ call'[q].client = c
                                   /\ call'[q].at \in {"subscribing", "unsubscribing"}
    BY <1>3, <1>6 DEF Enrolled
  <1>7. QED
    BY <1>2, <1>5, <1>6 DEF Enrolled

\* When only k works for a client and waits for no command, no command is awaited.
LEMMA AllEnrolled ==
    ASSUME Typed, NEW k \in Calls, Only(k),
           call[k].at \notin {"subscribing", "unsubscribing"},
           Enrolled(clientSubscriptions, tracked, driverSubscribers, call)
    PROVE  \A c \in Clients :
              clientSubscriptions[c] # None => c \in driverSubscribers[clientSubscriptions[c]]
  <1>1. \A q \in Calls : call[q].at \in {"subscribing", "unsubscribing"}
                            => call[q].client \in Clients
    BY DEF Typed, ValidRecords
  <1>2. \A q \in Calls : call[q].at \notin {"subscribing", "unsubscribing"}
    BY <1>1, NoneAssumption DEF Only
  <1>3. QED
    BY <1>2 DEF Enrolled

LEMMA ReleaseEnrolled ==
    ASSUME Typed, NEW k \in Calls, Only(k), NEW c \in Clients, clientSubscriptions[c] # None,
           NEW next \in Drivers \cup {None}, Release(k, c, clientSubscriptions[c], next),
           call[k].at \notin {"subscribing", "unsubscribing"},
           Enrolled(clientSubscriptions, tracked, driverSubscribers, call)
    PROVE  Enrolled(clientSubscriptions', tracked', driverSubscribers', call')
  <1> DEFINE d == clientSubscriptions[c]
  <1>1. /\ d \in Drivers /\ tracked' = tracked /\ tracked \subseteq Drivers
        /\ driverSubscribers \in [Drivers -> SUBSET Clients]
        /\ clientSubscriptions \in [Clients -> Drivers \cup {None}]
        /\ driverSubscribers' = [driverSubscribers EXCEPT ![d] = driverSubscribers[d] \ {c}]
    BY DEF Release, Typed, TypeOK
  <1>2. /\ \/ Goto(k, Waiting("unsubscribing", c, d, next)) /\ UNCHANGED clientSubscriptions
           \/ /\ clientSubscriptions' = [clientSubscriptions EXCEPT ![c] = None]
              /\ Goto(k, AfterRelease(c, next))
    BY DEF Release
  <1>3. \A x \in Clients :
            clientSubscriptions[x] # None => x \in driverSubscribers[clientSubscriptions[x]]
    BY AllEnrolled
  <1>4. \A e \in Drivers \ tracked' : driverSubscribers'[e] = {}
    BY <1>1 DEF Enrolled
  <1> HIDE DEF d
  <1>5. \A x \in Clients \ {c} :
            clientSubscriptions[x] # None => x \in driverSubscribers'[clientSubscriptions[x]]
    BY <1>1, <1>3
  <1>6. CASE Goto(k, Waiting("unsubscribing", c, d, next)) /\ UNCHANGED clientSubscriptions
    <2> DEFINE record == Waiting("unsubscribing", c, d, next)
    <2>1. Goto(k, record) /\ record.at = "unsubscribing" /\ record.client = c
      BY <1>6 DEF Waiting
    <2> HIDE DEF record
    <2>2. QED
      BY <1>4, <1>5, <1>6, <2>1, EnrolledMoves
  <1>7. CASE /\ clientSubscriptions' = [clientSubscriptions EXCEPT ![c] = None]
             /\ Goto(k, AfterRelease(c, next))
    <2> DEFINE record == AfterRelease(c, next)
    <2>1. Goto(k, record) /\ record.at # "subscribing"
      BY <1>7 DEF AfterRelease, Waiting, IdleCall
    <2>2. /\ clientSubscriptions'[c] = None
          /\ \A x \in Clients \ {c} : clientSubscriptions'[x] = clientSubscriptions[x]
      BY <1>1, <1>7
    <2> HIDE DEF record
    <2>3. QED
      BY <1>4, <1>5, <2>1, <2>2, EnrolledMoves
  <1>8. QED
    BY <1>2, <1>6, <1>7

LEMMA FollowEnrolled ==
    ASSUME Typed, NEW k \in Calls, Only(k), NEW c \in Clients, NEW d \in Drivers,
           Follow(k, c, d), call[k].at \notin {"subscribing", "unsubscribing"},
           Enrolled(clientSubscriptions, tracked, driverSubscribers, call)
    PROVE  Enrolled(clientSubscriptions', tracked', driverSubscribers', call')
  <1>1. /\ tracked' = tracked \cup {d} /\ clientSubscriptions'[c] = d
        /\ \A x \in Clients \ {c} : clientSubscriptions'[x] = clientSubscriptions[x]
        /\ driverSubscribers \in [Drivers -> SUBSET Clients]
        /\ clientSubscriptions \in [Clients -> Drivers \cup {None}]
    BY DEF Follow, Typed, TypeOK
  <1>2. \A x \in Clients :
            clientSubscriptions[x] # None => x \in driverSubscribers[clientSubscriptions[x]]
    BY AllEnrolled
  <1>3. CASE d \in tracked /\ Enroll(k, c, d)
    <2> DEFINE record == Loading(c, d, profileCache)
    <2>1. Goto(k, record) /\ record.at # "subscribing"
      BY <1>3 DEF Enroll, Loading, Waiting, IdleCall
    <2>2. driverSubscribers' = [driverSubscribers EXCEPT ![d] = @ \cup {c}]
      BY <1>3 DEF Enroll
    <2>3. \A e \in Drivers \ tracked' : driverSubscribers'[e] = {}
      BY <1>1, <1>3, <2>2 DEF Enrolled
    <2>4. \A x \in Clients : clientSubscriptions'[x] # None
                                => x \in driverSubscribers'[clientSubscriptions'[x]]
      <3>1. c \in driverSubscribers'[d]
        BY <1>1, <2>2
      <3>2. \A e \in Drivers : driverSubscribers[e] \subseteq driverSubscribers'[e]
        BY <1>1, <2>2
      <3>3. QED
        BY <1>1, <1>2, <3>1, <3>2
    <2> HIDE DEF record
    <2>5. QED
      BY <2>1, <2>3, <2>4, EnrolledMoves
  <1>4. CASE /\ d \notin tracked
             /\ Goto(k, Waiting("subscribing", c, d, None))
             /\ UNCHANGED driverSubscribers
    <2> DEFINE record == Waiting("subscribing", c, d, None)
    <2>1. /\ Goto(k, record) /\ record.at = "subscribing" /\ record.client = c
          /\ record.driver = d
      BY <1>4 DEF Waiting
    <2>2. driverSubscribers'[d] = {} /\ \A e \in Drivers \ tracked' : driverSubscribers'[e] = {}
      BY <1>1, <1>4 DEF Enrolled
    <2> HIDE DEF record
    <2>3. record.at = "subscribing" => driverSubscribers'[record.driver] = {}
      BY <2>1, <2>2
    <2>4. ASSUME NEW x \in Clients, clientSubscriptions'[x] # None
          PROVE  \/ x \in driverSubscribers'[clientSubscriptions'[x]]
                 \/ record.client = x /\ record.at \in {"subscribing", "unsubscribing"}
      <3>1. CASE x = c
        BY <2>1, <3>1
      <3>2. CASE x # c
        BY <1>1, <1>2, <1>4, <2>4, <3>2
      <3>3. QED
        BY <3>1, <3>2
    <2>5. QED
      BY <2>1, <2>2, <2>3, <2>4, EnrolledMoves
  <1>5. QED
    BY <1>3, <1>4 DEF Follow

AllIndexed == Enrolled(clientSubscriptions, tracked, driverSubscribers, call)

LEMMA EnrolledInductive ==
    ASSUME ~CommandsFail
    PROVE  /\ Init => AllIndexed
           /\ Served /\ AllIndexed /\ [SequentialNext]_vars => AllIndexed'
  <1>1. ASSUME Init PROVE AllIndexed
    <2>1. \A k \in Calls : call[k].at = "idle"
      BY <1>1 DEF Init, IdleCall, Waiting
    <2>2. QED
      BY <1>1, <2>1 DEF Init, AllIndexed, Enrolled
  <1> DEFINE Goal == Enrolled(clientSubscriptions', tracked', driverSubscribers', call')
  <1>2. ASSUME Served, AllIndexed, SequentialNext
        PROVE  Goal
    <2>1. Typed /\ Agreement /\ OneRequest
          /\ Enrolled(clientSubscriptions, tracked, driverSubscribers, call)
      BY <1>2 DEF Served, AllIndexed
    <2> HIDE DEF Goal
    <2>2. ASSUME NEW k \in Calls, NEW c \in Clients, NEW d \in Drivers,
                 Idle, SubscribeToDriverUpdates(k, c, d)
          PROVE  Goal
      <3>1. Only(k) /\ call[k].at = "idle"
        BY <1>2, <2>2, StartFacts DEF SubscribeToDriverUpdates, MayStart
      <3>2. CASE clientSubscriptions[c] # None /\ Release(k, c, clientSubscriptions[c], d)
        BY <2>1, <3>1, <3>2, ReleaseEnrolled DEF Goal
      <3>3. CASE Follow(k, c, d)
        BY <2>1, <3>1, <3>3, FollowEnrolled DEF Goal
      <3>4. QED
        BY <2>2, <3>2, <3>3 DEF SubscribeToDriverUpdates
    <2>3. ASSUME NEW k \in Calls, NEW c \in Clients,
                 Idle, UnsubscribeFromDriverUpdates(k, c)
          PROVE  Goal
      <3>1. Only(k) /\ call[k].at = "idle"
        BY <1>2, <2>3, StartFacts DEF UnsubscribeFromDriverUpdates, MayStart
      <3>2. clientSubscriptions[c] # None /\ Release(k, c, clientSubscriptions[c], None)
        BY <2>3 DEF UnsubscribeFromDriverUpdates
      <3>3. QED
        BY <2>1, <3>1, <3>2, ReleaseEnrolled DEF Goal
    <2>4. ASSUME NEW k \in Calls, NEW d \in Drivers, GetDriverLocationAndProfile(k, d)
          PROVE  Goal
      <3>1. PICK record : Goto(k, record) /\ record.at \in {"getLocation", "getProfile"}
        BY <2>1, <2>4, GetStarts
      <3>2. call[k].at = "idle" /\ UNCHANGED registry
        BY <2>4 DEF GetDriverLocationAndProfile
      <3>3. QED
        BY <2>1, <3>1, <3>2, EnrolledQuietly DEF Goal
    <2>5. ASSUME UNCHANGED <<registry, call>>
          PROVE  Goal
      BY <2>1, <2>5 DEF registry, Goal
    <2>6. ASSUME NEW d \in Drivers, HandleDriverLocationUpdate(d) \/ LocationReported(d)
          PROVE  Goal
      BY <2>5, <2>6 DEF HandleDriverLocationUpdate, LocationReported
    <2>7. ASSUME NEW k \in Calls, Resume(k)
          PROVE  Goal
      <3>1. call[k].at = "released" /\ Follow(k, call[k].client, call[k].driver)
        BY <2>7 DEF Resume
      <3>2. call[k].client \in Clients /\ call[k].driver \in Drivers
        BY <2>1, <3>1 DEF Typed, ValidRecords
      <3>3. Only(k)
        BY <2>1, <3>2, OnlyOne
      <3>4. QED
        BY <2>1, <3>1, <3>2, <3>3, FollowEnrolled DEF Goal
    <2>8. CASE UnsubscribeAnswered
      <3> DEFINE k == Head(subscriber)
                 c == call[k].client
                 d == call[k].driver
                 record == AfterRelease(c, call[k].next)
      <3>1. k = Head(subscriber) /\ subscriber # <<>> /\ call[k].at = "unsubscribing"
        BY <2>8 DEF UnsubscribeAnswered
      <3>2. /\ k \in Calls /\ c \in Clients /\ d \in Drivers /\ Only(k)
            /\ driverSubscribers[d] = {}
        BY <2>1, <3>1, AnsweredFacts
      <3>3. /\ Goto(k, record) /\ tracked' = tracked \ {d}
            /\ driverSubscribers' = [driverSubscribers EXCEPT ![d] = {}]
            /\ clientSubscriptions' = [clientSubscriptions EXCEPT ![c] = None]
        BY <2>8 DEF UnsubscribeAnswered
      <3>4. record.at # "subscribing"
        BY DEF AfterRelease, Waiting, IdleCall
      <3>5. \A x \in Clients \ {c} :
                clientSubscriptions[x] # None => x \in driverSubscribers[clientSubscriptions[x]]
        BY <2>1, <3>2, NoneAssumption DEF Enrolled, Only
      <3> HIDE DEF k, c, d, record
      <3>6. driverSubscribers' = driverSubscribers
        BY <2>1, <3>2, <3>3 DEF Typed, TypeOK
      <3>7. /\ clientSubscriptions'[c] = None
            /\ \A x \in Clients \ {c} : clientSubscriptions'[x] = clientSubscriptions[x]
        BY <2>1, <3>2, <3>3 DEF Typed, TypeOK
      <3>8. \A e \in Drivers \ tracked' : driverSubscribers'[e] = {}
        BY <2>1, <3>2, <3>3, <3>6 DEF Enrolled
      <3>9. QED
        BY <2>1, <3>2, <3>3, <3>4, <3>5, <3>6, <3>7, <3>8, EnrolledMoves DEF Goal
    <2>9. CASE SubscribeAnswered
      <3> DEFINE k == Head(subscriber)
                 c == call[k].client
                 d == call[k].driver
                 record == Loading(c, d, profileCache)
      <3>1. k = Head(subscriber) /\ subscriber # <<>> /\ call[k].at = "subscribing"
        BY <2>9 DEF SubscribeAnswered
      <3>2. /\ k \in Calls /\ c \in Clients /\ d \in Drivers /\ Only(k)
            /\ d \in tracked /\ clientSubscriptions[c] = d
        BY <2>1, <3>1, AnsweredFacts
      <3>3. /\ Goto(k, record) /\ UNCHANGED <<tracked, clientSubscriptions>>
            /\ driverSubscribers' = [driverSubscribers EXCEPT ![d] = @ \cup {c}]
        BY <2>9, <3>2 DEF SubscribeAnswered, Enroll
      <3>4. record.at # "subscribing"
        BY DEF Loading, Waiting, IdleCall
      <3>5. \A x \in Clients \ {c} :
                clientSubscriptions[x] # None => x \in driverSubscribers[clientSubscriptions[x]]
        BY <2>1, <3>2, NoneAssumption DEF Enrolled, Only
      <3> HIDE DEF k, c, d, record
      <3>6. /\ clientSubscriptions \in [Clients -> Drivers \cup {None}]
            /\ driverSubscribers \in [Drivers -> SUBSET Clients]
        BY <2>1 DEF Typed, TypeOK
      <3>7. \A e \in Drivers \ tracked' : driverSubscribers'[e] = {}
        BY <2>1, <3>2, <3>3, <3>6 DEF Enrolled
      <3>8. \A x \in Clients : clientSubscriptions'[x] # None
                                  => x \in driverSubscribers'[clientSubscriptions'[x]]
        <4>1. c \in driverSubscribers'[d]
          BY <3>2, <3>3, <3>6
        <4>2. \A e \in Drivers : driverSubscribers[e] \subseteq driverSubscribers'[e]
          BY <3>3, <3>6
        <4>3. QED
          BY <3>2, <3>3, <3>5, <3>6, <4>1, <4>2
      <3>9. QED
        BY <2>1, <3>2, <3>3, <3>4, <3>7, <3>8, EnrolledMoves DEF Goal
    <2>10. ASSUME NEW k \in Calls, NEW found \in BOOLEAN, ProfileFetched(k, found)
           PROVE  Goal
      <3>1. PICK record : /\ Goto(k, record) /\ record.at \in {"location", "idle"}
                          /\ call[k].at \in {"profile", "getProfile"}
        BY <2>1, <2>10, ProfileRecord
      <3>2. UNCHANGED registry
        BY <2>10 DEF ProfileFetched
      <3>3. QED
        BY <2>1, <3>1, <3>2, EnrolledQuietly DEF Goal
    <2>11. ASSUME NEW k \in Calls, NEW failed \in BOOLEAN, LocationServed(k, failed)
           PROVE  Goal
      <3>1. PICK record : /\ Goto(k, record) /\ record.at = call[k].at
                          /\ call[k].at \in {"location", "getLocation"}
        BY <2>1, <2>11, ServedRecord
      <3>2. UNCHANGED registry
        BY <2>11 DEF LocationServed
      <3>3. QED
        BY <2>1, <3>1, <3>2, EnrolledQuietly DEF Goal
    <2>12. ASSUME NEW k \in Calls, LocationFetched(k)
           PROVE  Goal
      <3>1. PICK record : /\ Goto(k, record) /\ call[k].served
                          /\ record = IdleCall \/ record.at = "getProfile"
        BY <2>1, <2>12, FetchedRecord
      <3>2. call[k].at \in {"location", "getLocation"} /\ record.at # "subscribing"
        BY <1>2, <3>1 DEF Served, Loads, LoadRecord, IdleCall, Waiting
      <3>3. UNCHANGED registry
        BY <2>12 DEF LocationFetched
      <3>4. QED
        BY <2>1, <3>1, <3>2, <3>3, EnrolledQuietly DEF Goal
    <2>13. ~CommandRejected
      BY DEF CommandRejected
    <2>14. QED
      BY <1>2, <2>2, <2>3, <2>4, <2>6, <2>7, <2>8, <2>9, <2>10, <2>11, <2>12, <2>13
         DEF SequentialNext, OtherSteps, Answered, CommandAnswered
  <1>3. ASSUME AllIndexed, UNCHANGED vars
        PROVE  AllIndexed'
    BY <1>3 DEF AllIndexed, vars, registry
  <1>4. QED
    BY <1>1, <1>2, <1>3 DEF AllIndexed

\* Between its requests a client is in the set of its driver, whom Redis sends us.
LEMMA EverybodyServed ==
    ASSUME Served, AllIndexed, NEW c \in Clients, clientSubscriptions[c] # None,
           \A k \in Calls : call[k].client # c
    PROVE  /\ c \in driverSubscribers[clientSubscriptions[c]]
           /\ clientSubscriptions[c] \in channels
  <1> DEFINE d == clientSubscriptions[c]
  <1>1. c \in driverSubscribers[d]
    BY DEF AllIndexed, Enrolled
  <1>2. d \in Drivers
    BY DEF Served, Typed, TypeOK
  <1>3. d \in tracked
    BY <1>1, <1>2 DEF AllIndexed, Enrolled
  <1> HIDE DEF d
  <1>4. ~Commanding(d)
    BY <1>1 DEF Commanding, AllIndexed, Enrolled, Served, OneRequest, Knows
  <1>5. d \in channels
    BY <1>3, <1>4 DEF Served, RegistryMatchesRedis
  <1>6. QED
    BY <1>1, <1>5 DEF d

\* One request at a time loses no follower (run LostFollower: two at a time may).
THEOREM FollowersStayIndexed ==
    ASSUME SerialClients, ~CommandsFail
    PROVE  SequentialSpec => []FollowersIndexed
  <1>1. Init => Served /\ AllIndexed
    BY ServedInductive, EnrolledInductive
  <1>2. Served /\ AllIndexed /\ [SequentialNext]_vars => (Served /\ AllIndexed)'
    BY ServedInductive, EnrolledInductive
  <1>3. Served /\ AllIndexed => FollowersIndexed
    BY EverybodyServed DEF FollowersIndexed
  <1>4. QED
    BY <1>1, <1>2, <1>3, PTL DEF SequentialSpec
=============================================================================
