------------------------ MODULE RealtimeServiceProofs ------------------------
(***************************************************************************)
(* TypeOK and SubscribersFollow, for every set of clients, drivers and     *)
(* calls.  Neither is inductive: a call that waits uses, when it goes on,  *)
(* what it knew before the wait.  The strengthenings say what that is.     *)
(***************************************************************************)
EXTENDS RealtimeService, TLAPS, SequenceTheorems

\* The records of calls that know whom and what they work for.
ValidRecords ==
    {r \in CallRecords :
        /\ r.at \in {"unsubscribing", "released", "subscribing"} => r.client \in Clients
        /\ r.at # "idle" \/ r.served => r.driver \in Drivers}

Typed == TypeOK /\ call \in [Calls -> ValidRecords]

\* The part of the state that the registry's steps write.
RegistryTyped ==
    /\ clientSubscriptions \in [Clients -> Drivers \cup {None}]
    /\ tracked \in SUBSET Drivers
    /\ driverSubscribers \in [Drivers -> SUBSET Clients]
    /\ subscriber \in Seq(Calls)
    /\ call \in [Calls -> ValidRecords]

-----------------------------------------------------------------------------
(* Types *)

\* A call that waits for a client and a driver is in a valid record.
LEMMA WaitingType ==
    ASSUME NEW at \in Phases, NEW c \in Clients, NEW d \in Drivers,
           NEW next \in Drivers \cup {None}
    PROVE  Waiting(at, c, d, next) \in ValidRecords
  <1>1. 0 \in Locations
    BY ClockAssumption DEF Locations
  <1>2. Waiting(at, c, d, next) \in CallRecords
    BY <1>1 DEF Waiting, CallRecords
  <1>3. QED
    BY <1>2 DEF Waiting, ValidRecords

\* So is a call that needs no client.
LEMMA FetchingType ==
    ASSUME NEW at \in {"location", "getLocation", "getProfile"},
           NEW c \in Clients \cup {None}, NEW d \in Drivers
    PROVE  Waiting(at, c, d, None) \in ValidRecords
  <1>1. 0 \in Locations
    BY ClockAssumption DEF Locations
  <1>2. Waiting(at, c, d, None) \in CallRecords
    BY <1>1 DEF Waiting, CallRecords, Phases
  <1>3. QED
    BY <1>2 DEF Waiting, ValidRecords

LEMMA IdleType == IdleCall \in ValidRecords
  <1>1. 0 \in Locations
    BY ClockAssumption DEF Locations
  <1>2. IdleCall \in CallRecords
    BY <1>1 DEF IdleCall, Waiting, CallRecords, Phases
  <1>3. QED
    BY <1>2 DEF IdleCall, Waiting, ValidRecords

\* Moving one call to a valid record keeps all records valid.
LEMMA GotoType ==
    ASSUME call \in [Calls -> ValidRecords],
           NEW k \in Calls, NEW record \in ValidRecords, Goto(k, record)
    PROVE  call' \in [Calls -> ValidRecords]
  BY DEF Goto

\* Updates of a record that keep it valid.
LEMMA GetRecordType ==
    ASSUME NEW r \in ValidRecords, NEW l \in Locations, NEW p \in BOOLEAN
    PROVE  [r EXCEPT !.location = l, !.profile = p] \in ValidRecords
  BY DEF ValidRecords, CallRecords

LEMMA ServedRecordType ==
    ASSUME NEW r \in ValidRecords, r.driver \in Drivers, NEW l \in Locations
    PROVE  [r EXCEPT !.served = TRUE, !.location = l] \in ValidRecords
  BY DEF ValidRecords, CallRecords

LEMMA ProfileNextType ==
    ASSUME NEW r \in ValidRecords, r.driver \in Drivers
    PROVE  [r EXCEPT !.at = "getProfile", !.served = FALSE] \in ValidRecords
  BY DEF ValidRecords, CallRecords, Phases

LEMMA LoadingType ==
    ASSUME NEW c \in Clients, NEW d \in Drivers, NEW profiles
    PROVE  Loading(c, d, profiles) \in ValidRecords
  BY WaitingType, IdleType DEF Loading, Phases

LEMMA AfterReleaseType ==
    ASSUME NEW c \in Clients, NEW next \in Drivers \cup {None}
    PROVE  AfterRelease(c, next) \in ValidRecords
  BY WaitingType, IdleType DEF AfterRelease, Phases

LEMMA EnrollType ==
    ASSUME RegistryTyped, NEW k \in Calls, NEW c \in Clients, NEW d \in Drivers,
           Enroll(k, c, d)
    PROVE  /\ driverSubscribers' \in [Drivers -> SUBSET Clients]
           /\ call' \in [Calls -> ValidRecords]
  BY LoadingType, GotoType DEF Enroll, RegistryTyped

LEMMA FollowType ==
    ASSUME RegistryTyped, NEW k \in Calls, NEW c \in Clients, NEW d \in Drivers,
           Follow(k, c, d)
    PROVE  RegistryTyped'
  <1>1. /\ clientSubscriptions' \in [Clients -> Drivers \cup {None}]
        /\ tracked' \in SUBSET Drivers
    BY DEF Follow, RegistryTyped
  <1>2. CASE Enroll(k, c, d) /\ UNCHANGED subscriber
    BY <1>1, <1>2, EnrollType DEF RegistryTyped
  <1>3. CASE /\ subscriber' = Append(subscriber, k)
             /\ Goto(k, Waiting("subscribing", c, d, None))
             /\ UNCHANGED driverSubscribers
    <2>1. Waiting("subscribing", c, d, None) \in ValidRecords
      BY WaitingType DEF Phases
    <2>2. QED
      BY <1>1, <1>3, <2>1, GotoType DEF RegistryTyped
  <1>4. QED
    BY <1>2, <1>3 DEF Follow

LEMMA ReleaseType ==
    ASSUME RegistryTyped, NEW k \in Calls, NEW c \in Clients, NEW d \in Drivers,
           NEW next \in Drivers \cup {None}, Release(k, c, d, next)
    PROVE  RegistryTyped'
  <1>1. driverSubscribers' \in [Drivers -> SUBSET Clients] /\ tracked' = tracked
    BY DEF Release, RegistryTyped
  <1>2. CASE /\ subscriber' = Append(subscriber, k)
             /\ Goto(k, Waiting("unsubscribing", c, d, next))
             /\ UNCHANGED clientSubscriptions
    <2>1. Waiting("unsubscribing", c, d, next) \in ValidRecords
      BY WaitingType DEF Phases
    <2>2. QED
      BY <1>1, <1>2, <2>1, GotoType DEF RegistryTyped
  <1>3. CASE /\ clientSubscriptions' = [clientSubscriptions EXCEPT ![c] = None]
             /\ Goto(k, AfterRelease(c, next))
             /\ UNCHANGED subscriber
    BY <1>1, <1>3, AfterReleaseType, GotoType DEF RegistryTyped
  <1>4. QED
    BY <1>2, <1>3 DEF Release

LEMMA QueueHead ==
    ASSUME subscriber \in Seq(Calls), subscriber # <<>>
    PROVE  Head(subscriber) \in Calls /\ Tail(subscriber) \in Seq(Calls)
  BY HeadTailProperties

\* The types hold initially and every step keeps them.
LEMMA TypedInductive ==
    /\ Init => Typed
    /\ Typed /\ [Next]_vars => Typed'
  <1>1. Init => Typed
    <2>1. 0 \in Locations
      BY ClockAssumption DEF Locations
    <2>2. ValidRecords \subseteq CallRecords
      BY DEF ValidRecords
    <2>3. QED
      BY <2>1, <2>2, IdleType DEF Init, Typed, TypeOK
  <1>2. ASSUME Typed, [Next]_vars PROVE Typed'
    <2> USE DEF Typed, TypeOK
    <2>1. RegistryTyped /\ ValidRecords \subseteq CallRecords
      BY <1>2 DEF RegistryTyped, ValidRecords
    <2>2. ASSUME RegistryTyped',
                 UNCHANGED <<locationCache, profileCache, published, channels, world>>
          PROVE  Typed'
      BY <1>2, <2>1, <2>2 DEF RegistryTyped, world
    <2>3. ASSUME NEW k \in Calls, NEW c \in Clients, NEW d \in Drivers,
                 SubscribeToDriverUpdates(k, c, d)
          PROVE  Typed'
      <3>1. CASE Release(k, c, clientSubscriptions[c], d) /\ clientSubscriptions[c] # None
        <4>1. clientSubscriptions[c] \in Drivers
          BY <1>2, <3>1
        <4>2. QED
          BY <2>1, <2>2, <2>3, <3>1, <4>1, ReleaseType DEF SubscribeToDriverUpdates
      <3>2. CASE Follow(k, c, d)
        BY <2>1, <2>2, <2>3, <3>2, FollowType DEF SubscribeToDriverUpdates
      <3>3. QED
        BY <2>3, <3>1, <3>2 DEF SubscribeToDriverUpdates
    <2>4. ASSUME NEW k \in Calls, NEW c \in Clients, UnsubscribeFromDriverUpdates(k, c)
          PROVE  Typed'
      <3>1. clientSubscriptions[c] \in Drivers
        BY <1>2, <2>4 DEF UnsubscribeFromDriverUpdates
      <3>2. QED
        BY <2>1, <2>2, <2>4, <3>1, ReleaseType DEF UnsubscribeFromDriverUpdates
    <2>5. ASSUME NEW k \in Calls, NEW d \in Drivers, GetDriverLocationAndProfile(k, d)
          PROVE  Typed'
      <3> DEFINE Get(at) == [Waiting(at, None, d, None) EXCEPT
                      !.location = locationCache[d], !.profile = d \in profileCache]
      <3>1. ASSUME NEW at \in {"getLocation", "getProfile"}
            PROVE  Get(at) \in ValidRecords
        <4>1. (d \in profileCache) \in BOOLEAN /\ locationCache[d] \in Locations
          BY <1>2
        <4>2. Waiting(at, None, d, None) \in ValidRecords
          BY FetchingType
        <4>3. QED
          BY <4>1, <4>2, GetRecordType
      <3>2. Get("getLocation") \in ValidRecords /\ Get("getProfile") \in ValidRecords
        BY <3>1
      <3>3. Goto(k, Get("getLocation")) \/ Goto(k, Get("getProfile"))
        BY <2>5 DEF GetDriverLocationAndProfile
      <3> HIDE DEF Get
      <3>4. call' \in [Calls -> ValidRecords]
        BY <1>2, <3>2, <3>3, GotoType
      <3>5. QED
        BY <1>2, <2>1, <2>5, <3>4 DEF GetDriverLocationAndProfile, registry, redis, world
    <2>6. ASSUME NEW d \in Drivers, HandleDriverLocationUpdate(d)
          PROVE  Typed'
      <3>1. clock + 1 \in Locations
        BY <1>2, <2>6, ClockAssumption DEF HandleDriverLocationUpdate, Locations
      <3>2. /\ clock' \in Locations
            /\ locationCache' \in [Drivers -> Locations]
            /\ published' \in [Drivers -> Locations]
        BY <1>2, <2>6, <3>1 DEF HandleDriverLocationUpdate
      <3>3. QED
        BY <1>2, <2>6, <3>2 DEF HandleDriverLocationUpdate, registry
    <2>7. ASSUME NEW d \in Drivers, LocationReported(d)
          PROVE  Typed'
      <3>1. clock + 1 \in Locations
        BY <1>2, <2>7, ClockAssumption DEF LocationReported, Locations
      <3>2. clock' \in Locations /\ stored' \in [Drivers -> Locations]
        BY <1>2, <2>7, <3>1 DEF LocationReported
      <3>3. QED
        BY <1>2, <2>7, <3>2 DEF LocationReported, registry, redis
    <2>8. ASSUME NEW k \in Calls, Resume(k)
          PROVE  Typed'
      <3>1. call[k].client \in Clients /\ call[k].driver \in Drivers
        BY <1>2, <2>8 DEF Resume, ValidRecords
      <3>2. QED
        BY <2>1, <2>2, <2>8, <3>1, FollowType DEF Resume
    <2>9. CASE UnsubscribeAnswered
      <3> DEFINE k == Head(subscriber)
      <3>1. k \in Calls /\ subscriber' \in Seq(Calls)
        BY <1>2, <2>9, QueueHead DEF UnsubscribeAnswered
      <3>2. /\ call[k].client \in Clients
            /\ call[k].driver \in Drivers
            /\ call[k].next \in Drivers \cup {None}
        BY <1>2, <2>9, <3>1 DEF UnsubscribeAnswered, ValidRecords, CallRecords
      <3>3. Goto(k, AfterRelease(call[k].client, call[k].next))
        BY <2>9 DEF UnsubscribeAnswered
      <3>4. call' \in [Calls -> ValidRecords]
        BY <1>2, <3>1, <3>2, <3>3, AfterReleaseType, GotoType
      <3>5. /\ clientSubscriptions' \in [Clients -> Drivers \cup {None}]
            /\ tracked' \in SUBSET Drivers
            /\ driverSubscribers' \in [Drivers -> SUBSET Clients]
            /\ channels' \in SUBSET Drivers
        BY <1>2, <2>9 DEF UnsubscribeAnswered
      <3>6. QED
        BY <1>2, <2>1, <2>9, <3>1, <3>4, <3>5 DEF UnsubscribeAnswered, world
    <2>10. CASE SubscribeAnswered
      <3> DEFINE k == Head(subscriber)
      <3>1. k \in Calls /\ subscriber' \in Seq(Calls)
        BY <1>2, <2>10, QueueHead DEF SubscribeAnswered
      <3>2. call[k].client \in Clients /\ call[k].driver \in Drivers
        BY <1>2, <2>10, <3>1 DEF SubscribeAnswered, ValidRecords, CallRecords
      <3>3. /\ driverSubscribers' \in [Drivers -> SUBSET Clients]
            /\ call' \in [Calls -> ValidRecords]
        <4>1. CASE Enroll(k, call[k].client, call[k].driver)
          BY <2>1, <3>1, <3>2, <4>1, EnrollType
        <4>2. CASE Goto(k, IdleCall) /\ UNCHANGED driverSubscribers
          BY <1>2, <3>1, <4>2, IdleType, GotoType
        <4>3. QED
          BY <2>10, <4>1, <4>2 DEF SubscribeAnswered
      <3>4. channels' \in SUBSET Drivers
        BY <1>2, <2>10, <3>2 DEF SubscribeAnswered
      <3>5. QED
        BY <1>2, <2>1, <2>10, <3>1, <3>3, <3>4 DEF SubscribeAnswered, world
    <2>11. CASE CommandRejected
      <3>1. Head(subscriber) \in Calls /\ subscriber' \in Seq(Calls)
        BY <1>2, <2>11, QueueHead DEF CommandRejected
      <3>2. call' \in [Calls -> ValidRecords]
        BY <1>2, <2>11, <3>1, IdleType, GotoType DEF CommandRejected
      <3>3. QED
        BY <1>2, <2>1, <2>11, <3>1, <3>2 DEF CommandRejected, registry, world
    <2>12. ASSUME NEW k \in Calls, NEW found \in BOOLEAN, ProfileFetched(k, found)
           PROVE  Typed'
      <3>1. call[k].driver \in Drivers /\ call[k].client \in Clients \cup {None}
        BY <1>2, <2>12 DEF ProfileFetched, ValidRecords, CallRecords
      <3>2. Waiting("location", call[k].client, call[k].driver, None) \in ValidRecords
        BY <3>1, FetchingType
      <3>3. \/ Goto(k, Waiting("location", call[k].client, call[k].driver, None))
            \/ Goto(k, IdleCall)
        BY <2>12 DEF ProfileFetched
      <3>4. call' \in [Calls -> ValidRecords]
        BY <1>2, <3>2, <3>3, IdleType, GotoType
      <3>5. profileCache' \in SUBSET Drivers
        BY <1>2, <2>12, <3>1 DEF ProfileFetched, CachedProfiles
      <3>6. QED
        BY <1>2, <2>1, <2>12, <3>4, <3>5 DEF ProfileFetched, registry, redis, world
    <2>13. ASSUME NEW k \in Calls, NEW failed \in BOOLEAN, LocationServed(k, failed)
           PROVE  Typed'
      <3> DEFINE l == IF failed THEN 0 ELSE stored[call[k].driver]
      <3>1. call[k] \in ValidRecords /\ call[k].driver \in Drivers
        BY <1>2, <2>13 DEF LocationServed, ValidRecords
      <3>2. l \in Locations
        BY <1>2, <3>1, ClockAssumption DEF Locations
      <3>3. Goto(k, [call[k] EXCEPT !.served = TRUE, !.location = l])
        BY <2>13 DEF LocationServed
      <3> HIDE DEF l
      <3>4. [call[k] EXCEPT !.served = TRUE, !.location = l] \in ValidRecords
        BY <3>1, <3>2, ServedRecordType
      <3>5. call' \in [Calls -> ValidRecords]
        BY <1>2, <3>3, <3>4, GotoType
      <3>6. QED
        BY <1>2, <2>1, <2>13, <3>5 DEF LocationServed, registry, redis, world
    <2>14. ASSUME NEW k \in Calls, LocationFetched(k)
           PROVE  Typed'
      <3>1. call[k] \in ValidRecords /\ call[k].driver \in Drivers
        BY <1>2, <2>14 DEF LocationFetched, ValidRecords
      <3>2. [call[k] EXCEPT !.at = "getProfile", !.served = FALSE] \in ValidRecords
        BY <3>1, ProfileNextType
      <3>3. \/ Goto(k, [call[k] EXCEPT !.at = "getProfile", !.served = FALSE])
            \/ Goto(k, IdleCall)
        BY <2>14 DEF LocationFetched
      <3>4. call' \in [Calls -> ValidRecords]
        BY <1>2, <3>2, <3>3, IdleType, GotoType
      <3>5. locationCache' \in [Drivers -> Locations]
        BY <1>2, <2>14, <3>1 DEF LocationFetched, ValidRecords, CallRecords
      <3>6. QED
        BY <1>2, <2>1, <2>14, <3>4, <3>5 DEF LocationFetched, registry, redis, world
    <2>15. CASE UNCHANGED vars
      BY <1>2, <2>15 DEF vars, registry, redis, world
    <2>16. QED
      BY <1>2, <2>3, <2>4, <2>5, <2>6, <2>7, <2>8, <2>9, <2>10, <2>11, <2>12, <2>13,
         <2>14, <2>15 DEF Next, Answered, CommandAnswered
  <1>3. QED
    BY <1>1, <1>2

\* Every reachable state has the types TypeOK gives its parts.
THEOREM TypeCorrect == Spec => []TypeOK
  <1>1. Typed => TypeOK
    BY DEF Typed
  <1>2. QED
    BY <1>1, TypedInductive, PTL DEF Spec

-----------------------------------------------------------------------------
(* The two maps agree *)

\* A client has at most one request under way.
OneCallPerClient ==
    \A k1, k2 \in Calls :
        k1 # k2 /\ call[k1].client # None => call[k1].client # call[k2].client

\* A client that is between two drivers is in nobody's set; a client that waits
\* to be put in a set is recorded with that driver.
WaitsAgree ==
    \A k \in Calls :
        /\ call[k].at \in {"unsubscribing", "released"} =>
              \A d \in Drivers : call[k].client \notin driverSubscribers[d]
        /\ call[k].at = "subscribing" =>
              clientSubscriptions[call[k].client] = call[k].driver

Agreement == SubscribersFollow /\ OneCallPerClient /\ WaitsAgree

\* No request of client c is under way but k.
Alone(k, c) == \A other \in Calls \ {k} : call[other].client # c

\* Goto changes one call.
LEMMA GotoMoves ==
    ASSUME call \in [Calls -> ValidRecords], NEW k \in Calls, NEW record, Goto(k, record)
    PROVE  /\ call'[k] = record
           /\ \A other \in Calls \ {k} : call'[other] = call[other]
  BY DEF Goto

\* A step that leaves both maps alone and ends a wait keeps the agreement.
LEMMA QuietStep ==
    ASSUME Typed, Agreement, UNCHANGED <<clientSubscriptions, driverSubscribers>>,
           NEW k \in Calls, NEW record, Goto(k, record),
           record.client \in {call[k].client, None},
           record.at \notin {"unsubscribing", "released", "subscribing"}
    PROVE  Agreement'
  <1>1. /\ call'[k] = record
        /\ \A other \in Calls \ {k} : call'[other] = call[other]
    BY GotoMoves DEF Typed
  <1>2. SubscribersFollow'
    BY DEF Agreement, SubscribersFollow
  <1>3. OneCallPerClient'
    BY <1>1 DEF Agreement, OneCallPerClient
  <1>4. WaitsAgree'
    BY <1>1 DEF Agreement, WaitsAgree
  <1>5. QED
    BY <1>2, <1>3, <1>4 DEF Agreement

\* Only call k may work for a client that is alone with it.
LEMMA MovesAlone ==
    ASSUME Typed, Agreement, NEW k \in Calls, NEW c \in Clients, Alone(k, c),
           NEW record, record.client \in {c, None}, Goto(k, record)
    PROVE  OneCallPerClient'
  <1>1. /\ call'[k] = record
        /\ \A other \in Calls \ {k} : call'[other] = call[other]
    BY GotoMoves DEF Typed
  <1>2. QED
    BY <1>1 DEF Agreement, OneCallPerClient, Alone

\* The waits of other clients' calls survive a change of c's entries.
LEMMA OthersAgree ==
    ASSUME Typed, Agreement, NEW k \in Calls, NEW c \in Clients, Alone(k, c),
           NEW record, Goto(k, record),
           \A x \in Clients \ {c} : clientSubscriptions'[x] = clientSubscriptions[x],
           \A x \in Clients \ {c}, d \in Drivers :
              x \in driverSubscribers'[d] => x \in driverSubscribers[d]
    PROVE  \A other \in Calls \ {k} :
              /\ call'[other].at \in {"unsubscribing", "released"} =>
                    \A d \in Drivers : call'[other].client \notin driverSubscribers'[d]
              /\ call'[other].at = "subscribing" =>
                    clientSubscriptions'[call'[other].client] = call'[other].driver
  <1> TAKE other \in Calls \ {k}
  <1>1. call'[other] = call[other]
    BY GotoMoves DEF Typed
  <1>2. call[other].client # c
    BY DEF Alone
  <1>3. call[other].at \in {"unsubscribing", "released", "subscribing"}
            => call[other].client \in Clients \ {c}
    BY <1>2 DEF Typed, ValidRecords
  <1>4. QED
    BY <1>1, <1>3 DEF Agreement, WaitsAgree

LEMMA LoadingFacts ==
    ASSUME NEW c, NEW d, NEW profiles
    PROVE  /\ Loading(c, d, profiles).client \in {c, None}
           /\ Loading(c, d, profiles).at \notin {"unsubscribing", "released", "subscribing"}
  BY DEF Loading, Waiting, IdleCall

\* Putting c in the set of the driver it is recorded with.
LEMMA EnrollAgrees ==
    ASSUME Typed, Agreement, NEW k \in Calls, NEW c \in Clients, Alone(k, c),
           NEW d \in Drivers, Enroll(k, c, d),
           \A x \in Clients \ {c} : clientSubscriptions'[x] = clientSubscriptions[x],
           clientSubscriptions'[c] = d,
           \A e \in Drivers \ {d} : c \notin driverSubscribers[e]
    PROVE  Agreement'
  <1> DEFINE record == Loading(c, d, profileCache)
  <1>1. Goto(k, record) /\ driverSubscribers' = [driverSubscribers EXCEPT ![d] = @ \cup {c}]
    BY DEF Enroll
  <1>2. /\ record.client \in {c, None}
        /\ record.at \notin {"unsubscribing", "released", "subscribing"}
    BY LoadingFacts
  <1> HIDE DEF record
  <1>3. SubscribersFollow'
    BY <1>1 DEF Agreement, SubscribersFollow, Typed, TypeOK
  <1>4. OneCallPerClient'
    BY <1>1, <1>2, MovesAlone
  <1>5. WaitsAgree'
    <2>1. \A x \in Clients \ {c}, e \in Drivers :
              x \in driverSubscribers'[e] => x \in driverSubscribers[e]
      BY <1>1 DEF Typed, TypeOK
    <2>2. call'[k] = record
      BY <1>1, GotoMoves DEF Typed
    <2>3. QED
      BY <1>1, <1>2, <2>1, <2>2, OthersAgree DEF WaitsAgree
  <1>6. QED
    BY <1>3, <1>4, <1>5 DEF Agreement

\* A client in nobody's set follows d.
LEMMA FollowAgrees ==
    ASSUME Typed, Agreement, NEW k \in Calls, NEW c \in Clients, Alone(k, c),
           NEW d \in Drivers, Follow(k, c, d),
           \A e \in Drivers : c \notin driverSubscribers[e]
    PROVE  Agreement'
  <1>1. /\ \A x \in Clients \ {c} : clientSubscriptions'[x] = clientSubscriptions[x]
        /\ clientSubscriptions'[c] = d
    BY DEF Follow, Typed, TypeOK
  <1>2. CASE Enroll(k, c, d)
    BY <1>1, <1>2, EnrollAgrees
  <1>3. CASE Goto(k, Waiting("subscribing", c, d, None)) /\ UNCHANGED driverSubscribers
    <2> DEFINE record == Waiting("subscribing", c, d, None)
    <2>1. record.client = c /\ record.driver = d /\ record.at = "subscribing"
      BY DEF Waiting
    <2> HIDE DEF record
    <2>2. Goto(k, record)
      BY <1>3 DEF record
    <2>3. SubscribersFollow'
      BY <1>1, <1>3 DEF Agreement, SubscribersFollow, Typed, TypeOK
    <2>4. OneCallPerClient'
      BY <2>1, <2>2, MovesAlone
    <2>5. WaitsAgree'
      <3>1. call'[k] = record
        BY <2>2, GotoMoves DEF Typed
      <3>2. QED
        BY <1>1, <1>3, <2>1, <2>2, <3>1, OthersAgree DEF WaitsAgree
    <2>6. QED
      BY <2>3, <2>4, <2>5 DEF Agreement
  <1>4. QED
    BY <1>2, <1>3 DEF Follow

\* A client leaves the driver it is recorded with.
LEMMA ReleaseAgrees ==
    ASSUME Typed, Agreement, NEW k \in Calls, NEW c \in Clients, Alone(k, c),
           NEW next \in Drivers \cup {None}, clientSubscriptions[c] # None,
           Release(k, c, clientSubscriptions[c], next)
    PROVE  Agreement'
  <1>1. clientSubscriptions[c] \in Drivers
    BY DEF Typed, TypeOK
  <1>2. /\ \A x \in Clients \ {c} : clientSubscriptions'[x] = clientSubscriptions[x]
        /\ \A x \in Clients \ {c}, d \in Drivers :
              x \in driverSubscribers'[d] <=> x \in driverSubscribers[d]
    BY <1>1 DEF Release, Typed, TypeOK
  <1>3. \A d \in Drivers : c \notin driverSubscribers'[d]
    BY <1>1 DEF Release, Agreement, SubscribersFollow, Typed, TypeOK
  <1>4. driverSubscribers' \in [Drivers -> SUBSET Clients]
    BY <1>1 DEF Release, Typed, TypeOK
  <1>5. SubscribersFollow'
    <2>1. SUFFICES ASSUME NEW d \in Drivers, NEW x \in driverSubscribers'[d]
                   PROVE  clientSubscriptions'[x] = d
      BY DEF SubscribersFollow
    <2>2. x \in Clients \ {c}
      BY <1>3, <1>4, <2>1
    <2>3. QED
      BY <1>2, <2>1, <2>2 DEF Agreement, SubscribersFollow
  <1>6. PICK record :
            /\ Goto(k, record)
            /\ record.client \in {c, None}
            /\ record.at \in {"unsubscribing", "released", "idle"}
            /\ record.at \in {"unsubscribing", "released"} => record.client = c
    BY DEF Release, AfterRelease, Waiting, IdleCall
  <1>7. OneCallPerClient'
    BY <1>6, MovesAlone
  <1>8. WaitsAgree'
    <2>1. call'[k] = record
      BY <1>6, GotoMoves DEF Typed
    <2>2. QED
      BY <1>2, <1>3, <1>6, <2>1, OthersAgree DEF WaitsAgree
  <1>9. QED
    BY <1>5, <1>7, <1>8 DEF Agreement

\* The agreement of the maps holds initially and every step keeps it.
LEMMA AgreementInductive ==
    ASSUME SerialClients
    PROVE  /\ Init => Agreement
           /\ Typed /\ Agreement /\ [Next]_vars => Agreement'
  <1>1. Init => Agreement
    BY DEF Init, IdleCall, Waiting, Agreement, SubscribersFollow, OneCallPerClient,
           WaitsAgree
  <1>2. ASSUME Typed, Agreement, [Next]_vars PROVE Agreement'
    <2>1. ASSUME NEW k \in Calls, NEW c \in Clients, MayStart(k, c)
          PROVE  Alone(k, c)
      BY <2>1 DEF MayStart, Alone
    <2>2. ASSUME NEW k \in Calls, NEW c \in Clients, call[k].client = c
          PROVE  Alone(k, c)
      BY <1>2, <2>2, NoneAssumption DEF Agreement, OneCallPerClient, Alone
    <2>3. ASSUME NEW k \in Calls, NEW c \in Clients, NEW d \in Drivers,
                 SubscribeToDriverUpdates(k, c, d)
          PROVE  Agreement'
      <3>1. Alone(k, c)
        BY <2>1, <2>3 DEF SubscribeToDriverUpdates
      <3>2. CASE clientSubscriptions[c] # None /\ Release(k, c, clientSubscriptions[c], d)
        BY <1>2, <3>1, <3>2, ReleaseAgrees
      <3>3. CASE clientSubscriptions[c] = None /\ Follow(k, c, d)
        <4>1. \A e \in Drivers : c \notin driverSubscribers[e]
          BY <1>2, <3>3, NoneAssumption DEF Agreement, SubscribersFollow
        <4>2. QED
          BY <1>2, <3>1, <3>3, <4>1, FollowAgrees
      <3>4. QED
        BY <2>3, <3>2, <3>3 DEF SubscribeToDriverUpdates
    <2>4. ASSUME NEW k \in Calls, NEW c \in Clients, UnsubscribeFromDriverUpdates(k, c)
          PROVE  Agreement'
      BY <1>2, <2>1, <2>4, ReleaseAgrees DEF UnsubscribeFromDriverUpdates
    <2>5. ASSUME NEW k \in Calls, NEW d \in Drivers, GetDriverLocationAndProfile(k, d)
          PROVE  Agreement'
      <3> DEFINE Get(at) == [Waiting(at, None, d, None) EXCEPT
                      !.location = locationCache[d], !.profile = d \in profileCache]
      <3>1. \A at \in Phases : Get(at).client = None /\ Get(at).at = at
        BY DEF Waiting
      <3>2. Goto(k, Get("getLocation")) \/ Goto(k, Get("getProfile"))
        BY <2>5 DEF GetDriverLocationAndProfile
      <3> HIDE DEF Get
      <3>3. /\ Get("getLocation").client = None /\ Get("getLocation").at = "getLocation"
            /\ Get("getProfile").client = None /\ Get("getProfile").at = "getProfile"
        BY <3>1 DEF Phases
      <3>4. UNCHANGED <<clientSubscriptions, driverSubscribers>>
        BY <2>5 DEF GetDriverLocationAndProfile, registry
      <3>5. CASE Goto(k, Get("getLocation"))
        BY <1>2, <3>3, <3>4, <3>5, QuietStep
      <3>6. CASE Goto(k, Get("getProfile"))
        BY <1>2, <3>3, <3>4, <3>6, QuietStep
      <3>7. QED
        BY <3>2, <3>5, <3>6
    <2>6. ASSUME UNCHANGED <<registry, call>>
          PROVE  Agreement'
      BY <1>2, <2>6 DEF registry, Agreement, SubscribersFollow, OneCallPerClient,
                        WaitsAgree
    <2>7. ASSUME NEW d \in Drivers, HandleDriverLocationUpdate(d) \/ LocationReported(d)
          PROVE  Agreement'
      BY <2>6, <2>7 DEF HandleDriverLocationUpdate, LocationReported
    <2>8. ASSUME NEW k \in Calls, Resume(k)
          PROVE  Agreement'
      <3>1. call[k].client \in Clients /\ call[k].driver \in Drivers
        BY <1>2, <2>8 DEF Resume, Typed, ValidRecords
      <3>2. \A e \in Drivers : call[k].client \notin driverSubscribers[e]
        BY <1>2, <2>8 DEF Resume, Agreement, WaitsAgree
      <3>3. QED
        BY <1>2, <2>2, <2>8, <3>1, <3>2, FollowAgrees DEF Resume
    <2>9. CASE UnsubscribeAnswered
      <3> DEFINE k == Head(subscriber)
                 c == call[k].client
                 record == AfterRelease(c, call[k].next)
      <3>1. k \in Calls /\ call[k].at = "unsubscribing"
        BY <1>2, <2>9, QueueHead DEF UnsubscribeAnswered, Typed, TypeOK
      <3>2. c \in Clients /\ Alone(k, c)
        BY <1>2, <2>2, <3>1 DEF Typed, ValidRecords
      <3>3. \A e \in Drivers : c \notin driverSubscribers[e]
        BY <1>2, <3>1 DEF Agreement, WaitsAgree
      <3>4. /\ Goto(k, record)
            /\ record.client \in {c, None}
            /\ record.at \in {"released", "idle"}
            /\ record.at = "released" => record.client = c
        BY <2>9 DEF UnsubscribeAnswered, AfterRelease, Waiting, IdleCall
      <3>5. /\ clientSubscriptions' = [clientSubscriptions EXCEPT ![c] = None]
            /\ driverSubscribers' = [driverSubscribers EXCEPT ![call[k].driver] = {}]
        BY <2>9 DEF UnsubscribeAnswered
      <3> HIDE DEF k, c, record
      <3>6. \A e \in Drivers : driverSubscribers'[e] \subseteq driverSubscribers[e]
        BY <1>2, <3>5 DEF Typed, TypeOK
      <3>7. \A x \in Clients \ {c} : clientSubscriptions'[x] = clientSubscriptions[x]
        BY <1>2, <3>5 DEF Typed, TypeOK
      <3>8. SubscribersFollow'
        BY <1>2, <3>3, <3>6, <3>7 DEF Agreement, SubscribersFollow, Typed, TypeOK
      <3>9. OneCallPerClient'
        BY <1>2, <3>1, <3>2, <3>4, MovesAlone
      <3>10. WaitsAgree'
        <4>1. call'[k] = record
          BY <1>2, <3>1, <3>4, GotoMoves DEF Typed
        <4>2. QED
          BY <1>2, <3>1, <3>2, <3>3, <3>4, <3>6, <3>7, <4>1, OthersAgree DEF WaitsAgree
      <3>11. QED
        BY <3>8, <3>9, <3>10 DEF Agreement
    <2>10. CASE SubscribeAnswered
      <3> DEFINE k == Head(subscriber)
                 c == call[k].client
                 d == call[k].driver
      <3>1. k \in Calls /\ call[k].at = "subscribing"
        BY <1>2, <2>10, QueueHead DEF SubscribeAnswered, Typed, TypeOK
      <3>2. c \in Clients /\ d \in Drivers /\ Alone(k, c)
        BY <1>2, <2>2, <3>1 DEF Typed, ValidRecords
      <3>3. clientSubscriptions' = clientSubscriptions /\ clientSubscriptions[c] = d
        BY <1>2, <2>10, <3>1 DEF SubscribeAnswered, Agreement, WaitsAgree
      <3>4. \A e \in Drivers \ {d} : c \notin driverSubscribers[e]
        BY <1>2, <3>3 DEF Agreement, SubscribersFollow
      <3>5. CASE Enroll(k, c, d)
        BY <1>2, <3>1, <3>2, <3>3, <3>4, <3>5, EnrollAgrees
      <3>6. CASE Goto(k, IdleCall) /\ UNCHANGED driverSubscribers
        BY <1>2, <3>1, <3>3, <3>6, QuietStep DEF IdleCall, Waiting
      <3>7. QED
        BY <2>10, <3>5, <3>6 DEF SubscribeAnswered
    <2>11. CASE CommandRejected
      <3>1. Head(subscriber) \in Calls
        BY <1>2, <2>11, QueueHead DEF CommandRejected, Typed, TypeOK
      <3>2. QED
        BY <1>2, <2>11, <3>1, QuietStep DEF CommandRejected, registry, IdleCall, Waiting
    <2>12. ASSUME NEW k \in Calls, NEW found \in BOOLEAN, ProfileFetched(k, found)
           PROVE  Agreement'
      <3>1. PICK record :
                /\ Goto(k, record)
                /\ record.client \in {call[k].client, None}
                /\ record.at \in {"location", "idle"}
        BY <2>12 DEF ProfileFetched, IdleCall, Waiting
      <3>2. QED
        BY <1>2, <2>12, <3>1, QuietStep DEF ProfileFetched, registry
    <2>13. ASSUME NEW k \in Calls, NEW failed \in BOOLEAN, LocationServed(k, failed)
           PROVE  Agreement'
      <3> DEFINE l == IF failed THEN 0 ELSE stored[call[k].driver]
                 record == [call[k] EXCEPT !.served = TRUE, !.location = l]
      <3>1. call[k] \in CallRecords
        BY <1>2 DEF Typed, TypeOK
      <3>2. record.client = call[k].client /\ record.at = call[k].at
        BY <3>1 DEF CallRecords
      <3>3. Goto(k, record) /\ call[k].at \in {"location", "getLocation"}
        BY <2>13 DEF LocationServed
      <3> HIDE DEF record
      <3>4. QED
        BY <1>2, <2>13, <3>2, <3>3, QuietStep DEF LocationServed, registry
    <2>14. ASSUME NEW k \in Calls, LocationFetched(k)
           PROVE  Agreement'
      <3>1. call[k] \in CallRecords
        BY <1>2 DEF Typed, TypeOK
      <3> DEFINE record == [call[k] EXCEPT !.at = "getProfile", !.served = FALSE]
      <3>2. record.client = call[k].client /\ record.at = "getProfile"
        BY <3>1 DEF CallRecords
      <3>3. Goto(k, record) \/ Goto(k, IdleCall)
        BY <2>14 DEF LocationFetched
      <3>4. UNCHANGED <<clientSubscriptions, driverSubscribers>>
        BY <2>14 DEF LocationFetched, registry
      <3> HIDE DEF record
      <3>5. CASE Goto(k, record)
        BY <1>2, <3>2, <3>4, <3>5, QuietStep
      <3>6. CASE Goto(k, IdleCall)
        BY <1>2, <3>4, <3>6, QuietStep DEF IdleCall, Waiting
      <3>7. QED
        BY <3>3, <3>5, <3>6
    <2>15. CASE UNCHANGED vars
      BY <2>6, <2>15 DEF vars
    <2>16. QED
      BY <1>2, <2>3, <2>4, <2>5, <2>7, <2>8, <2>9, <2>10, <2>11, <2>12, <2>13,
         <2>14, <2>15 DEF Next, Answered, CommandAnswered
  <1>3. QED
    BY <1>1, <1>2

\* If a client awaits the answer to each request, the inverse map never lists a
\* client under a driver other than the one the client is recorded with, for any
\* number of clients, drivers and calls, and even when Redis rejects commands.
THEOREM SubscribersAgree ==
    ASSUME SerialClients
    PROVE  Spec => []SubscribersFollow
  <1>1. Init => Typed /\ Agreement
    BY TypedInductive, AgreementInductive
  <1>2. Typed /\ Agreement /\ [Next]_vars => (Typed /\ Agreement)'
    BY TypedInductive, AgreementInductive
  <1>3. Typed /\ Agreement => SubscribersFollow
    BY DEF Agreement
  <1>4. QED
    BY <1>1, <1>2, <1>3, PTL DEF Spec
=============================================================================
