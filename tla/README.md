# Verification of the driver location system

TLA+ models of the four services of this repository (`auth-service`,
`location-service`, `realtime-service`, `gateway-service-bff`), model-checked with
TLC, with theorems about seven of its modules checked by TLAPS: every safety and action
property that a passing run checks is proved for all values of the constants.

## The system

| Component | State | Operations | Talks to |
|---|---|---|---|
| `RealtimeService` (realtime-service) | `clientSubscriptions`, `driverSubscribers`, `locationCache`, `profileCache` | subscribe, unsubscribe, handle a location, get location and profile, `isDriverOnline` | Redis through the messaging port; auth-service and location-service over HTTP |
| `ClientGateway` (realtime-service) | one interval per client | `subscribe-driver`, disconnect, the interval's tick | `RealtimeService`, the client's socket |
| `DriverGateway` (realtime-service) | the driver a socket speaks for, one validation interval per socket | `authenticate`, `update-location`, disconnect, the interval's tick | auth-service, `RealtimeService` |
| `RedisRealtimeMessaging` and `RealtimeModule` | two connections, one handler | subscribe, unsubscribe, publish, deliver | Redis |
| location-service | the last 100 locations of each driver, `isConnected` | report a location, read the last one, query the history | auth-service, Redis |
| auth-service | a fixed list of drivers; tokens carry their own state | login, validate a token, read a profile | - |
| gateway-service-bff | none | proxies, one of which reports locations; the dashboard, gathered from three calls | the other three |

A driver reports its location either over HTTP (BFF, location-service, Redis) or over a
socket (`DriverGateway`, `RealtimeService`, Redis). A client subscribes to a driver at
`ClientGateway`; it is then served by an interval that asks `RealtimeService`, which
answers from its caches and fills them over HTTP.

### What is hard about it

- **Awaits.** Node runs one callback at a time, but every handler awaits Redis or HTTP,
  and everything may change meanwhile. The maps of `RealtimeService` are written before
  and after awaits; the intervals of the gateways are replaced after awaits.
- **Callbacks that outlive their timer.** `clearInterval` does not stop a tick that is
  waiting for an answer.
- **Order.** Locations reach a cache from the socket, from HTTP and from Redis.
- **Failure.** Redis may reject a command or lose the connection, so that commands are
  sent again; an HTTP call may fail, and an error is mostly turned into "not found",
  "not valid". A call that is given up after 5000 ms goes on at the service that has it.
- **Several instances** of realtime-service receive what the others, and they themselves,
  publish.

What makes each component correct: the two maps of `RealtimeService` agree with each
other and with the channels Redis sends, and cached locations do not go back in time; a
client has one live interval at most, about its own driver, and it lives as long as the
client; a socket speaks for a driver only while a token of that driver is validated for
it; the history holds the last locations saved, and what is accepted while Redis is
reachable is published; every instance gets every location once it matters and nothing is
published in a circle; a driver is told of its report what happened to it; a dashboard is
served whole, to the holder of the driver's own token, and shows what was accepted. The hazards, each at its line, are listed in `PROJECT.json`.

## Modules

| Module | Models | State and actions |
|---|---|---|
| `RealtimeService` | `realtime.service.ts`, with the answers of `http-driver.service.ts` and of the Redis subscriber connection | The maps have the names of the code; `driverSubscribers` is split into its keys (`tracked`) and its sets. A call in progress is a member of `Calls`, whose record says at which await it stands. One action is the code between two awaits. `subscriber` is the queue of commands Redis has not answered, in order. |
| `Following` | nothing in the code: the contract of the subscription half | What a client asked for last, which driver's set it is in, what the instance listens to. |
| `ClientGateway` | `client.gateway.ts` | `timers` is what the runtime keeps for each interval, `clientIntervals` what the gateway remembers. `RealtimeService` answers in any way its interface allows. `offline` is a history variable: what a client was last shown. |
| `Sessions` | an instance of realtime-service: `ClientGateway` over `RealtimeService` | Extends the service and instantiates the gateway. A handler or tick of the gateway and the call it awaits have the same name, and a step belongs to one of them, or to both when one calls or answers the other. Node handles a timer or a socket message only when no callback can go on (`CallbacksDone`). `shown` is a history variable: what the last step sent to a client. |
| `DriverGateway` | `driver.gateway.ts`, `validateDriverToken` | As `ClientGateway`, for validation intervals; auth-service judges a token when it receives it and the verdict arrives later. `accepted` is a history variable: the tokens a socket has authenticated with. |
| `LocationService` | `location.controller.ts`, `location.service.ts`, the repository, `redis-location.messaging.ts` | `commands` are publications sent and not answered, `executed` how many of them Redis has executed on the present connection; `Close` loses the answers, and the rest is sent again. `saved` is a history variable. |
| `RedisDelivery` | `redis-realtime.messaging.ts` and `realtime.module.ts` in several instances, over Redis | The cache of both objects of the class in each instance, one inbox per instance for the subscriber's connection, one queue of commands (`outbox`, with `executed` as in `LocationService`) for the publisher's. `Start`, `Connect`, `Close`, `ClosePublisher` and `Crash` are the pings at the start, the (repeated) subscriptions, the loss of the subscriber's connection with any part of what was on its way, the loss of the publisher's with its answers, and a killed process; `since`, `published` and `resends` are history variables. `Load` is what the gateways' object asks location-service for while it has nothing cached. Subscriptions and loads are atomic here; their steps are `RealtimeService`'s subject. |
| `AuthService` | `auth.service.ts` and its repository | Tokens, which only the drivers keep, and time. Login and the passage of a minute are the actions, validation is an operator. |
| `Reporting` | the report of a location over HTTP: `location.controller.ts` and `location.service.ts` of the BFF, `location.controller.ts` and `location.service.ts` of location-service | Extends `AuthService`. A report is where location-service is with it (`at`) and what the BFF has answered (`told`); the two go on separately once the BFF has given up. Reports of a driver may overlap; the field `before` is history: the reports that had been answered when this one was sent. |
| `Dashboard` | `dashboard.service.ts` of the BFF | Extends `Reporting`. A request gathers its three parts in any order while tokens expire and drivers report. The field `told` is history: the reports already answered with success when the request came. |

`MC*` modules hold symmetry sets and constants for TLC; `*Proofs` modules hold the
theorems. Definitions that start with "Mutant:" in their comment are variants of the
definition after them with a plausible mistake; no specification uses them. Each
property is violated when the mutant listed for it takes the place of the original.

## Checks

Passing runs (constants as in the `.cfg` of the same name):

| Run | Shows | Bounds and why they are enough |
|---|---|---|
| `Registry` | `SubscribersFollow`: a driver's set holds only clients that are recorded with that driver, even with rejected commands; `CallsComplete`: every call ends | clients that wait for each answer; 2 clients and 2 drivers allow changing drivers, being last and being first at once |
| `Overlapping` | `RegistryMatchesRedis`: with no command under way, a driver with an entry is followed and received; `SettledCacheAdvances`: with no load under way a cached location only moves forward, and stays | overlapping requests, of one client as well; two reports, so that a load can be overtaken by a newer location; Redis answers every command |
| `Sequential` | Module `Sessions`, one request at a time: `ImplementsFollowing`, gateway and service refine module `Following`; `ServedIsFollowed`: a client with an interval is in the set of its driver, and the driver is received; `ViewsFollowCache`: once location and profile are cached and their loads have ended, nothing is loaded again and clients are shown what the cache holds | 2 clients, 2 drivers, 3 timers; 2 calls, so that a tick overlaps a request; 2 reports, of one driver (`OneReporter`), the first of which location-service may have (`FirstStored`): a load can be overtaken by a newer location |
| `Intervals` | `OneTimerPerClient`: live intervals are exactly the registered ones, one per client; `SlowOnlyWhenOffline`: a client is served slowly only about a driver it was last shown offline; `GoneStaysGone`: late ticks do not bring an interval back; `ServedForEver`: an interval keeps being renewed | 2 clients, 2 drivers; two tasks, so that a tick overlaps a disconnect and another handler; one timer more than clients, for the new one is set while the old ones live |
| `DriverSockets` | `SocketsWatched`: a socket speaks for a driver exactly while a live interval validates a token of that driver; `EvictedForCause`: the gateway closes a socket only upon a verdict on a token that socket had authenticated with; `ExpiredTokenLeaves`: no socket goes on with an expired token | 2 sockets, 2 drivers, so that a socket may change its driver; 2 tasks |
| `Locations` | `HistoryKeepsLatest`, `HistoryQueryComplete`; `DeliveredInOrder`, `SettledChannelLatest`, `AcceptedIsPublished`: what was handed to Redis is published, in order, losses of the connection or not; `AnsweredIsPublished`: when a driver is told success both channels have carried the location, unless the connection was down when it was saved | history of 2 in place of 100 and 4 locations: the cut is reached and passed; 2 losses, so that what is sent again is lost again |
| `Redis` | `PublishedOnce`: once, and once more for each answer that was lost; `HandlerCacheCurrent`: the object that Redis feeds has what was published since the instance last subscribed; `HandlerCacheAdvances`: it goes back only if Redis published the older location (again) after the newer | 2 instances, 1 driver, 2 reports, 1 loss: an echo between two instances needs one report; a message lost in a gap and one after it, or one sent again after a newer one, need two |
| `Dashboards` | `AnswersAreTrue`: a report answered with success is saved, once, one answered as unauthorized never is; `ServedToHolder`; `ServedWhole`; `ShownNotOlder`: no older location than the driver had been told was accepted, unless it sent the newer report without an answer to the older one; `EveryRequestAnswered` | 2 drivers, one of which reports (the other's token is somebody else's), 2 reports, under way together or one after the other, so that the older is saved after the newer; 1 request, as requests share nothing they write; tokens of one minute and one minute, so that a token expires between verdict and use |

Each run also checks the type invariant of its module, except `Overlapping`, which uses
the module of `Registry`, and `Sequential`, which composes those of `Registry` and
`Intervals`.

Two runs identify states that no property tells apart (`Seen` in `MCSessions` and
`MCRedisDelivery`): the first leaves out which object an interval is, for by
`OneTimerPerClient`, proved below, the registered ones are all there are, and histories
that no guard reads; the second leaves out the cache of the gateways' object and what it may load, which no
property of `Redis` is about. `Unsubscribe` of `Sessions` stands for the operation of
`IRealtimeService` that no gateway calls, and that the contract has. `Sequential` checks
`BoundedSpec`, which is `SequentialSessions` with `FirstStored` and `OneReporter`; the
theorems are about `SequentialSessions`.

Runs that end in a violation show where the code does not do what a comment or a message
of the repository says; the quotations are under `findings` in `PROJECT.json`.

| Run | Shows |
|---|---|
| `LostFollower` | `FollowersIndexed`: a follower that joins while the last one leaves is deleted with the set. The passing `SubscribersFollow` is the converse: nobody is wrongly in a set. |
| `HijackedInterval` | `IntervalForSubscribedDriver`: a late tick puts a client back on its previous driver, for ever, even if the client waits for each answer |
| `DroppedLocation` | `SavedIsPublished`: locations saved while Redis is away are never published |
| `OrphanCache` | `GatewayCacheCurrent`: Redis feeds an object that the gateways do not use, and what these have once cached they do not load again |

### Known gaps

Behaviours of the code that the models contain and that a reader of the comments would
not expect. No property excludes them, and no run is about them.

- A client that sends a second `subscribe-driver` before the first is answered ends up in
  two sets of followers (`realtime.service.ts:76`): hence `SerialClients` in `Registry`.
- A rejected subscribe command leaves the driver's entry behind, and no later follower
  subscribes (`realtime.service.ts:86`): hence `CommandsFail = FALSE` in `Overlapping`.
- A load that was under way replaces a newer location in the cache (line 108), and
  `getDriverLocationAndProfile` answers what it read before its await (line 174): hence
  `Settled` in `SettledCacheAdvances` and `Steady` in `ViewsFollowCache`.
- A client or a driver that disconnects during the awaits of `handleSubscription` or
  `handleAuthentication` gets an interval, and the driver an entry, afterwards. The
  client's stays for ever; the driver's goes with the token (`ExpiredTokenLeaves`).
- A client that disconnects stays in both maps, and the instance stays subscribed to its
  driver: `handleDisconnect` does not unsubscribe it. `ServedIsFollowed` is therefore an
  implication in one direction.
- After a subscription to an offline driver the period is the online one
  (`client.gateway.ts:121`), until the first tick: `SlowOnlyWhenOffline` excludes the
  converse.
- The late verdict on a driver's previous token, and any error of auth-service, close a
  socket whose token is valid (`driver.gateway.ts:205`): `EvictedForCause` says that a
  token this socket had authenticated with is always behind it, and nothing more.
- Nothing orders the reports of a driver. Two that are under way together may be saved in
  the opposite order and both be answered with success, and one that the BFF has given up
  may be saved after newer ones; the older location is then the last one. Hence the
  exception in `ShownNotOlder`: the driver had no answer to the older report when it sent
  the newer.
- While the connection to Redis is down, location-service saves a location, publishes
  nothing and answers `success: true` (`redis-location.messaging.ts:118`): hence the
  exception in `AnsweredIsPublished`. That it is not published later either is run
  `DroppedLocation`.
- A command of realtime-service that is sent again reaches the other instances after newer
  locations, and takes their caches back: hence `Overtaken` in `HandlerCacheAdvances`.
- `location.controller.ts:60` and the BFF pass the whole `Authorization` header on as the
  token: with the word `Bearer` in front a valid token is refused (`Headers` of `LocationService`).
- Both services that use Redis await a ping before they listen, and the ping waits for
  Redis for as long as it takes (`redis-location.messaging.ts:99`,
  `redis-realtime.messaging.ts:154`): the `catch` after it is not reached.
- The general channel is cached under the driver id `location`; every instance receives
  every driver's messages through the pattern; a report is published only if the very
  instance that got it has followers of the driver, so that followers at another instance
  may never be shown it (`realtime.service.ts:151`).
- There is no dashboard before the first location: location-service's 404 rejects it.

Deadlock is checked except for the two gateways and their composition (`Intervals`,
`DriverSockets`, `Sequential`, `HijackedInterval`): there sockets only close, and with all
of them closed and nothing in progress there is nothing left to do.

### Fairness

- Weak fairness of Redis' answers (`Registry`, `Locations`, `DroppedLocation`): ioredis reconnects for ever
  (`retryStrategy` always gives a delay, `maxRetriesPerRequest` is null) and sends again
  what was not answered.
- Weak fairness of every HTTP answer: `HttpModule` gives up after 5000 ms, and an error
  is an answer. `Dashboards` assumes it of the BFF's own calls only: what location-service
  does with a report may take for ever.
- Strong fairness of the interval of a client or a socket: `setInterval` fires again and
  again; only the bound on `Tasks`, which the code does not have, disables a tick.

No fairness is assumed of what clients and drivers do.

## Proofs

For every value of the constants, under the assumptions named in the modules (`None` is
not one of the other values; bounds are natural numbers; `DriverOf` is a function). The
theorems keep the restrictions of the runs that the code does not lift by itself:
`SerialClients` where a client must wait for an answer, `~CommandsFail` where a rejected
command leaves the property false (Known gaps).

**RealtimeService** (`RealtimeServiceProofs`, `RegistryProofs`)

- `TypeCorrect`; `SubscribersAgree` (`SubscribersFollow`), assuming `SerialClients`. The
  property is not inductive: a call that has released its client writes the map later, and
  a call that waits for Redis enters its client in a set later. The invariant `Agreement`
  adds that one call at most works for a client (`OneCallPerClient`), that a client between
  two drivers is in no set, and that one that waits for its subscription is recorded with
  that driver (`WaitsAgree`).
- `RegistryMatched` (`RegistryMatchesRedis`), assuming `~CommandsFail` and nothing of the
  clients: with the types it is inductive. The two steps that could break it are the answer
  to an `unsubscribe`, which deletes the entry, and the removal of a set's last client,
  which puts a command under way.
- `SettledAdvances` (`SettledCacheAdvances`), with overlapping requests and commands that
  fail. The invariant `Loads` says that no location is newer than the clock and that only a
  load of a location carries an answer; a step then starts no load of a driver whose
  location is cached, so that only a report changes it.
- `FollowingImplemented`: with one request at a time (`SequentialSpec` of
  `RegistryProofs`) the module implements `Following` under the mapping of `Contract`.
  The invariant `Served` joins the three above with `OneRequest`: one call at most has a
  client, and what a call remembers of the registry across its awaits (`Knows`) is still
  so. `ContractKept` maps each step: the first step of a request to `Request` (with
  `Serve` if the channel is received and nothing has to be released), the one that
  enters the client in the set to `Serve`, the answer to an `unsubscribe` to `Silence`,
  all others to a stutter.
- `FollowersStayIndexed`: one request at a time loses no follower. It is the other half of
  `LostFollower`, which needs two. The invariant `AllIndexed` says that a recorded client is
  in its driver's set unless a command of its own request is under way.

**ClientGateway** (`ClientGatewayProofs`): `TypeCorrect`, `OneTimer` (`OneTimerPerClient`)
and `NoResurrection` (`GoneStaysGone`). `OneTimerPerClient` is inductive with the types; the
action property follows from it step by step: only the tasks of a subscription set an
interval for a client without one. `SlowIsTruthful` (`SlowOnlyWhenOffline`) is inductive with
`OneTimerPerClient`: a slow interval is set in the step that shows the driver offline, and
an interval set later takes the place of the client's only one.

**Sessions** (`SessionsProofs`, which extends `Sessions` and `RegistryProofs`)

- `ComponentsImplemented`: the composition implements the specifications of `RealtimeService`
  and of `ClientGateway`. The open answers of the gateway's model are thereby filled by
  the service, and what is proved of either alone holds of the two together.
- `CompositionFollows` (`ImplementsFollowing`) and `ServedAreFollowed` (`ServedIsFollowed`).
  `SequentialSteps` shows that one request at a time at the gateway is one at a time at the
  service, whatever ticks do; the rest is `FollowingImplemented` and `EverybodyServed`.
- `ShownFromCache` (`ViewsFollowCache`), with overlapping requests as well. The invariant
  `Linked` ties the two halves: a call that loads works for the task of the same name and
  for that task's driver. An answer that was read before an await is therefore about a
  driver that was loading, which `Steady` excludes, and `SteadyStep` shows that nothing
  begins to load once location and profile are cached.
- The assumption `Distinct` is the part of `ClientGateway`'s `NoneAssumption` that is needed;
  the assumptions of an instance are not visible to the prover.

**LocationService** (`LocationServiceProofs`), for any number of requests and losses

- `TypeCorrect`, `HistoryIsLatest` (`HistoryKeepsLatest`) and `QueryComplete`
  (`HistoryQueryComplete`). `Histories` says that what was saved is in the order of the clock
  and that the history is its end. What `Array.filter` chooses, a recursive function
  (`Filtered`), is characterised by `FilteredFacts`: induction over the elements, from the
  least element of a set (`WFMin` of the library, which takes no operator parameter).
- `ChannelInOrder` (`DeliveredInOrder`), `NewestComesLast` (`SettledChannelLatest`) and
  `SuccessIsPublished` (`AnsweredIsPublished`, with its exception). The invariant is about the commands that
  wait for an answer: each belongs to one request (`Owned`), those of a driver are in the
  order of their timestamps (`Sorted`), those executed have been sent out, and the general
  one comes after the driver's (`Told`); a channel that has carried a location will carry
  one as new or newer, or ends with the newest (`Settling`), which is what survives a loss
  after which older commands are sent again.

**DriverGateway** (`DriverGatewayProofs`): `TypeCorrect` and `AlwaysWatched`
(`SocketsWatched`), inductive with the types; `ClosedForCause` (`EvictedForCause`), for
which the invariant says that every token under validation, in an interval or in a tick, is
one the socket was accepted with.

**Dashboard, Reporting, AuthService** (`DashboardProofs`): `TypeCorrect`, `AnswersTrue`
(`AnswersAreTrue`), `HolderServed` (`ServedToHolder`), `WholeServed` (`ServedWhole`) and
`NotOlderShown` (`ShownNotOlder`). The invariant relates the stage of each report to the
number of its locations in the history (none before it is saved, one after), its holder to
its token, and the order of the history to what had been answered when each report was sent: a
report that was answered before the next was sent has been saved before it, or never is.
Then it relates each stage of a dashboard to what was known when it came.

**RedisDelivery** (`RedisDeliveryProofs`): `TypeCorrect`, `NoEcho` (`PublishedOnce`),
`HandlerCurrent` (`HandlerCacheCurrent`) and `HandlerAdvances` (`HandlerCacheAdvances`), for
any number of instances. `Queues` says that a location waits in one place at most, and has
been published as often as its answer was lost, at most, while it waits to be executed.
`Arrivals` says that what an inbox holds of a driver is in the order of publication, begins
not before the cached location, and ends with the last one published if that is later than
`since`. Lemmas about sequences carry it over a publication, a delivery and a truncated
inbox.

Model-checked only, because liveness under fairness is out of the prover's reach:
`CallsComplete`, `ServedForEver`, `ExpiredTokenLeaves`, `AcceptedIsPublished` and
`EveryRequestAnswered`.

## Bounds

`MaxClock` and `MaxReports` (reports), `Reporters` (who reports), `MaxLosses` (lost
connections, killed processes), `MaxTime` (minutes) and the sets `Calls`, `Tasks`, `Requests` (what is in progress at once) and `TimerIds` bound the
models; the code has no such bounds. `MaxHistory` is the code's 100, `Lifetime` its 300
seconds.

## Not modelled

- What locations, profiles and events contain, Swagger, CORS, validation of DTOs,
  passwords and their hashes, logging.
- The proxies of the BFF but for the report of a location: they forward one request,
  change nothing and answer what they get. `isDriverOnline` of both services reads only,
  and nothing calls it.
- `onModuleDestroy`, which never runs: no service enables shutdown hooks. In
  `RealtimeService` and `Sessions` the subscriber's connection only rejects commands or is
  slow; its loss is `RedisDelivery`'s subject.
- `realtime.e2e-spec.ts:252` sends `unsubscribe-driver` and expects no event after it, but
  no gateway handles it: a client is served until it disconnects (`ServedForEver`).
- Time: that ticks are 5 or 60 seconds apart, and when a location becomes older than ten
  minutes, is a nondeterministic choice.

## Plan

In this order; all are done.

1. `RealtimeService` with its contract `Following`, then its proofs: the core.
2. `ClientGateway` and its proofs.
3. `DriverGateway` and its proofs.
4. `LocationService`.
5. `RedisDelivery`, several instances, with the connections of realtime-service, and its
   proofs.
6. `AuthService`, `Reporting` and `Dashboard`, and their proofs.
7. `Sessions`, which composes `ClientGateway` and `RealtimeService`.
8. What a driver is told of a report that is given up.
9. Theorems about everything that the passing runs check, but for liveness: the publication
   and the history of `LocationService`; `RegistryMatchesRedis`, `SettledCacheAdvances` and
   the refinement of `Following` by the sequential service; the same of `Sessions`.
