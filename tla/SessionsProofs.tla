--------------------------- MODULE SessionsProofs ---------------------------
(***************************************************************************)
(* What holds of ClientGateway and RealtimeService together, for every set *)
(* of clients, drivers, calls and intervals: each step of the composition  *)
(* is a step of the service or leaves it alone, so what is proved of the   *)
(* service holds of the composition; and what a call loads is what the     *)
(* handler or tick of the same name awaits.                                *)
(*                                                                         *)
(* Redis rejects no command in module Sessions: what is taken from         *)
(* RegistryProofs is taken for ~CommandsFail.                              *)
(***************************************************************************)
EXTENDS Sessions, RegistryProofs

-----------------------------------------------------------------------------
(* The steps of the composition *)

\* What the steps of the service need to know of the gateway.
GatewayTyped ==
    /\ task \in [Calls -> G!TaskRecords \cup {None}]
    /\ timers \in [TimerIds -> G!Intervals \cup {None}]

\* What ClientGateway assumes of None, as far as it matters here.
Distinct == None \notin G!TaskRecords

\* Any number of requests at a time, also by a caller that is not the gateway.
Steps == SessionsNext \/ \E k \in Calls, c \in Clients : Unsubscribe(k, c)

LEMMA TaskType ==
    ASSUME GatewayTyped, NEW k \in Calls, task[k] # None
    PROVE  /\ task[k] = [at |-> task[k].at, client |-> task[k].client,
                         driver |-> task[k].driver]
           /\ task[k].at \in {"subscribing", "first", "arming", "tick"}
           /\ task[k].client \in Clients /\ task[k].driver \in Drivers
  BY DEF GatewayTyped, G!TaskRecords

LEMMA TimerType ==
    ASSUME GatewayTyped, NEW t \in TimerIds, timers[t] # None
    PROVE  timers[t].client \in Clients /\ timers[t].driver \in Drivers
  BY DEF GatewayTyped, G!Intervals

LEMMA AskSteps ==
    ASSUME NEW k \in Calls, NEW d \in Drivers, Ask(k, d)
    PROVE  OtherSteps \/ UNCHANGED vars
  BY DEF Ask, OtherSteps

LEMMA LoadSteps ==
    ASSUME NEW k \in Calls, NEW found \in BOOLEAN, NEW location, Load(k, found, location)
    PROVE  OtherSteps
  BY DEF Load, OtherSteps, Answered

LEMMA ServiceSteps ==
    ASSUME ServiceStep
    PROVE  OtherSteps
  <1>1. ASSUME NEW d \in Drivers, HandleDriverLocationUpdate(d) \/ LocationReported(d)
        PROVE  OtherSteps
    BY <1>1 DEF OtherSteps
  <1>2. CASE UnsubscribeAnswered \/ SubscribeAnswered
    BY <1>2 DEF CommandAnswered, OtherSteps
  <1>3. ASSUME NEW k \in Calls, Resume(k) \/ \E failed \in BOOLEAN : LocationServed(k, failed)
        PROVE  OtherSteps
    BY <1>3 DEF OtherSteps, Answered
  <1>4. QED
    BY <1>1, <1>2, <1>3 DEF ServiceStep

\* Every step is a request of the service, another step of it, or leaves it alone.
LEMMA StepsOfService ==
    ASSUME GatewayTyped, Steps
    PROVE  \/ \E k \in Calls, c \in Clients, d \in Drivers :
                 HandleSubscription(k, c, d) /\ SubscribeToDriverUpdates(k, c, d)
           \/ \E k \in Calls, c \in Clients :
                 Unsubscribe(k, c) /\ UnsubscribeFromDriverUpdates(k, c)
           \/ OtherSteps
           \/ UNCHANGED vars
  <1> DEFINE Subscribes == \E k \in Calls, c \in Clients, d \in Drivers :
                 HandleSubscription(k, c, d) /\ SubscribeToDriverUpdates(k, c, d)
             Unsubscribes == \E k \in Calls, c \in Clients :
                 Unsubscribe(k, c) /\ UnsubscribeFromDriverUpdates(k, c)
             Goal == Subscribes \/ Unsubscribes \/ OtherSteps \/ UNCHANGED vars
  <1>1. ASSUME NEW k \in Calls, NEW c \in Clients, NEW d \in Drivers,
               HandleSubscription(k, c, d)
        PROVE  Subscribes
    BY <1>1 DEF HandleSubscription
  <1>2. ASSUME NEW k \in Calls, NEW c \in Clients, Unsubscribe(k, c)
        PROVE  Unsubscribes
    BY <1>2 DEF Unsubscribe
  <1> HIDE DEF Subscribes, Unsubscribes
  <1>3. ASSUME NEW k \in Calls, SubscriptionStored(k)
        PROVE  Goal
    <2>1. task[k].driver \in Drivers /\ Ask(k, task[k].driver)
      BY <1>3, TaskType DEF SubscriptionStored, G!SubscriptionStored, G!Doing
    <2>2. QED
      BY <2>1, AskSteps
  <1>4. ASSUME NEW k \in Calls, UpdateAtHand(k) \/ ConfigureInterval(k)
        PROVE  Goal
    BY <1>4 DEF UpdateAtHand, ConfigureInterval
  <1>5. ASSUME NEW k \in Calls, Loaded(k)
        PROVE  Goal
    BY <1>5, LoadSteps DEF Loaded
  <1>6. ASSUME NEW k \in Calls, NEW t \in TimerIds, Tick(k, t)
        PROVE  Goal
    <2>1. timers[t].driver \in Drivers /\ Ask(k, timers[t].driver)
      BY <1>6, TimerType DEF Tick, G!Tick
    <2>2. QED
      BY <2>1, AskSteps
  <1>7. ASSUME NEW c \in Clients, HandleDisconnect(c)
        PROVE  Goal
    BY <1>7 DEF HandleDisconnect
  <1>8. CASE ServiceStep
    BY <1>8, ServiceSteps
  <1>9. Goal
    BY <1>1, <1>2, <1>3, <1>4, <1>5, <1>6, <1>7, <1>8 DEF Steps, SessionsNext
  <1>10. QED
    BY <1>9 DEF Subscribes, Unsubscribes

LEMMA StepsOfNext ==
    ASSUME GatewayTyped, Steps
    PROVE  [Next]_vars
  BY StepsOfService DEF OtherSteps, Next

-----------------------------------------------------------------------------
(* The gateway's types *)

LEMMA TaskGoto ==
    ASSUME GatewayTyped, NEW k \in Calls, NEW u, G!Goto(k, u)
    PROVE  /\ task'[k] = u
           /\ \A other \in Calls \ {k} : task'[other] = task[other]
           /\ u \in G!TaskRecords \cup {None}
                 => task' \in [Calls -> G!TaskRecords \cup {None}]
  BY DEF GatewayTyped, G!Goto

LEMMA ScheduleType ==
    ASSUME GatewayTyped, NEW c \in Clients, NEW d \in Drivers, NEW period \in G!Periods,
           G!Schedule(c, d, period)
    PROVE  timers' \in [TimerIds -> G!Intervals \cup {None}]
  <1> DEFINE interval == [client |-> c, driver |-> d, period |-> period]
  <1>1. interval \in G!Intervals
    BY DEF G!Intervals
  <1>2. G!Cleared(c) \in [TimerIds -> G!Intervals \cup {None}]
    BY DEF GatewayTyped, G!Cleared
  <1>3. PICK t \in TimerIds : timers' = [G!Cleared(c) EXCEPT ![t] = interval]
    BY DEF G!Schedule
  <1> HIDE DEF interval
  <1>4. QED
    BY <1>1, <1>2, <1>3

\* An update sent moves its task to the end, or to where the interval is set.
LEMMA UpdateFacts ==
    ASSUME GatewayTyped, NEW k \in Calls, NEW location, Update(k, location)
    PROVE  /\ task[k] # None /\ task[k].at \in {"first", "tick"}
           /\ \E u \in G!TaskRecords \cup {None} : G!Goto(k, u)
           /\ GatewayTyped'
           /\ shown' # None => /\ shown'.driver = task[k].driver
                               /\ shown'.location = location
  <1>1. PICK event \in G!Events :
            /\ G!FirstUpdateSent(k, event) \/ G!PeriodicUpdateSent(k, event)
            /\ shown' = IF event = "driver-update" /\ task[k].client \in connected
                        THEN [driver |-> task[k].driver, location |-> location]
                        ELSE None
    BY DEF Update
  <1>2. task[k] # None /\ task[k].at \in {"first", "tick"}
    BY <1>1 DEF G!FirstUpdateSent, G!PeriodicUpdateSent, G!Doing
  <1>3. task[k].client \in Clients /\ task[k].driver \in Drivers
    BY <1>2, TaskType
  <1>4. [task[k] EXCEPT !.at = "arming"] \in G!TaskRecords
    <2>1. task[k] \in G!TaskRecords
      BY <1>2 DEF GatewayTyped
    <2>2. QED
      BY <2>1 DEF G!TaskRecords
  <1>5. PICK u \in G!TaskRecords \cup {None} : G!Goto(k, u)
    BY <1>1, <1>4 DEF G!FirstUpdateSent, G!PeriodicUpdateSent
  <1>6. G!SendDriverUpdate(task[k].client, task[k].driver, event)
    BY <1>1 DEF G!FirstUpdateSent, G!PeriodicUpdateSent
  <1>7. timers' \in [TimerIds -> G!Intervals \cup {None}]
    <2>1. G!PeriodFor(event) \in G!Periods
      BY DEF G!PeriodFor, G!Periods
    <2>2. CASE G!Schedule(task[k].client, task[k].driver, G!PeriodFor(event))
      BY <1>3, <2>1, <2>2, ScheduleType
    <2>3. CASE UNCHANGED timers
      BY <2>3 DEF GatewayTyped
    <2>4. QED
      BY <1>6, <2>2, <2>3 DEF G!SendDriverUpdate
  <1>8. task' \in [Calls -> G!TaskRecords \cup {None}]
    BY <1>5, TaskGoto
  <1>9. shown' # None => shown'.driver = task[k].driver /\ shown'.location = location
    BY <1>1
  <1>10. QED
    BY <1>2, <1>5, <1>7, <1>8, <1>9 DEF GatewayTyped

\* What each step of the gateway does to its tasks.
LEMMA SubscriptionTask ==
    ASSUME GatewayTyped, Distinct, NEW k \in Calls, NEW c \in Clients, NEW d \in Drivers,
           G!HandleSubscription(k, c, d)
    PROVE  /\ GatewayTyped'
           /\ \A other \in Calls \ {k} : task'[other] = task[other]
           /\ task'[k] # None /\ task'[k].at = "subscribing" /\ task'[k].client = c
  <1> DEFINE u == [at |-> "subscribing", client |-> c, driver |-> d]
  <1>1. u \in G!TaskRecords /\ u.at = "subscribing" /\ u.client = c
    BY DEF G!TaskRecords
  <1>2. G!Goto(k, u) /\ UNCHANGED timers
    BY DEF G!HandleSubscription
  <1>3. u # None
    BY <1>1 DEF Distinct
  <1> HIDE DEF u
  <1>4. QED
    BY <1>1, <1>2, <1>3, TaskGoto DEF GatewayTyped

LEMMA StoredTask ==
    ASSUME GatewayTyped, Distinct, NEW k \in Calls, G!SubscriptionStored(k)
    PROVE  /\ GatewayTyped'
           /\ \A other \in Calls \ {k} : task'[other] = task[other]
           /\ task'[k] # None /\ task'[k].at = "first"
           /\ task'[k].driver = task[k].driver
  <1> DEFINE u == [task[k] EXCEPT !.at = "first"]
  <1>1. task[k] \in G!TaskRecords
    BY DEF G!SubscriptionStored, G!Doing, GatewayTyped
  <1>2. u \in G!TaskRecords /\ u.at = "first" /\ u.driver = task[k].driver
    BY <1>1 DEF G!TaskRecords
  <1>3. G!Goto(k, u) /\ UNCHANGED timers
    BY DEF G!SubscriptionStored
  <1> HIDE DEF u
  <1>4. u # None
    BY <1>2 DEF Distinct
  <1>5. QED
    BY <1>2, <1>3, <1>4, TaskGoto DEF GatewayTyped

LEMMA TickTask ==
    ASSUME GatewayTyped, Distinct, NEW k \in Calls, NEW t \in TimerIds, G!Tick(k, t)
    PROVE  /\ GatewayTyped' /\ timers[t].driver \in Drivers
           /\ \A other \in Calls \ {k} : task'[other] = task[other]
           /\ task[k] = None
           /\ task'[k] # None /\ task'[k].at = "tick"
           /\ task'[k].driver = timers[t].driver
  <1> DEFINE u == [at |-> "tick", client |-> timers[t].client, driver |-> timers[t].driver]
  <1>1. timers[t].client \in Clients /\ timers[t].driver \in Drivers
    BY TimerType DEF G!Tick
  <1>2. u \in G!TaskRecords /\ u.at = "tick" /\ u.driver = timers[t].driver
    BY <1>1 DEF G!TaskRecords
  <1>3. G!Goto(k, u) /\ UNCHANGED timers /\ task[k] = None
    BY DEF G!Tick
  <1> HIDE DEF u
  <1>4. u # None
    BY <1>2 DEF Distinct
  <1>5. QED
    BY <1>1, <1>2, <1>3, <1>4, TaskGoto DEF GatewayTyped

LEMMA ConfigureTask ==
    ASSUME GatewayTyped, NEW k \in Calls, G!ConfigureInterval(k)
    PROVE  /\ GatewayTyped'
           /\ \A other \in Calls \ {k} : task'[other] = task[other]
           /\ task[k] # None /\ task[k].at = "arming" /\ task'[k] = None
  <1>1. task[k] # None /\ task[k].at = "arming"
    BY DEF G!ConfigureInterval, G!Doing
  <1>2. task[k].client \in Clients /\ task[k].driver \in Drivers
    BY <1>1, TaskType
  <1>3. timers' \in [TimerIds -> G!Intervals \cup {None}]
    BY <1>2, ScheduleType DEF G!ConfigureInterval, G!Periods
  <1>4. G!Goto(k, None)
    BY DEF G!ConfigureInterval
  <1>5. QED
    BY <1>1, <1>3, <1>4, TaskGoto DEF GatewayTyped

LEMMA DisconnectTask ==
    ASSUME GatewayTyped, NEW c \in Clients, G!HandleDisconnect(c)
    PROVE  GatewayTyped' /\ task' = task
  <1>1. timers' \in [TimerIds -> G!Intervals \cup {None}]
    BY DEF GatewayTyped, G!HandleDisconnect, G!Cleared
  <1>2. task' = task
    BY DEF G!HandleDisconnect
  <1>3. QED
    BY <1>1, <1>2 DEF GatewayTyped

-----------------------------------------------------------------------------
(* A call loads what the task of its name awaits *)

\* A handler that subscribes awaits a request; a first update or a tick awaits a load
\* of its own driver; nothing else is awaited, but for a request from elsewhere to
\* follow nobody.
LinkedRecords(r, u) ==
    \/ u # None /\ u.at = "subscribing"
    \/ r.at = "idle"
    \/ r.at = "unsubscribing" /\ r.next = None
    \/ /\ r.at \in {"getLocation", "getProfile"}
       /\ u # None /\ u.at \in {"first", "tick"} /\ r.driver = u.driver

Linked == \A k \in Calls : LinkedRecords(call[k], task[k])

Composed == GatewayTyped /\ Linked

LEMMA LinkedMoves ==
    ASSUME Typed, Linked, NEW k \in Calls, NEW record, Goto(k, record),
           \A other \in Calls \ {k} : task'[other] = task[other],
           LinkedRecords(record, task'[k])
    PROVE  Linked'
  <1>1. /\ call'[k] = record
        /\ \A other \in Calls \ {k} : call'[other] = call[other]
    BY GotoMoves DEF Typed
  <1>2. \A q \in Calls : LinkedRecords(call'[q], task'[q])
    BY <1>1 DEF Linked
  <1>3. QED
    BY <1>2 DEF Linked

LEMMA LinkedStays ==
    ASSUME Linked, UNCHANGED call, NEW k \in Calls,
           \A other \in Calls \ {k} : task'[other] = task[other],
           LinkedRecords(call[k], task'[k])
    PROVE  Linked'
  <1>1. \A q \in Calls : LinkedRecords(call'[q], task'[q])
    BY DEF Linked
  <1>2. QED
    BY <1>1 DEF Linked

\* The call that sendDriverUpdate makes.
LEMMA AskLinks ==
    ASSUME Typed, Linked, NEW k \in Calls, NEW d \in Drivers, Ask(k, d),
           \A other \in Calls \ {k} : task'[other] = task[other],
           task'[k] # None, task'[k].at \in {"first", "tick"}, task'[k].driver = d,
           \/ call[k].at = "idle"
           \/ call[k].at = "unsubscribing" /\ call[k].next = None
    PROVE  Linked'
  <1>1. CASE GetDriverLocationAndProfile(k, d)
    <2>1. PICK record : /\ Goto(k, record) /\ record.driver = d
                        /\ record.at \in {"getLocation", "getProfile"}
      BY <1>1, GetStarts
    <2>2. LinkedRecords(record, task'[k])
      BY <2>1 DEF LinkedRecords
    <2>3. QED
      BY <2>1, <2>2, LinkedMoves
  <1>2. CASE UNCHANGED vars
    <2>1. LinkedRecords(call[k], task'[k])
      BY DEF LinkedRecords
    <2>2. UNCHANGED call
      BY <1>2 DEF vars
    <2>3. QED
      BY <2>1, <2>2, LinkedStays
  <1>3. QED
    BY <1>1, <1>2 DEF Ask

\* What it goes on with when something is loaded.
LEMMA LoadRecordLinks ==
    ASSUME Typed, Linked, NEW k \in Calls, NEW found \in BOOLEAN,
           LocationFetched(k) \/ ProfileFetched(k, found)
    PROVE  \E record : Goto(k, record) /\ LinkedRecords(record, task[k])
  <1>1. LinkedRecords(call[k], task[k])
    BY DEF Linked
  <1>2. ASSUME Goto(k, IdleCall)
        PROVE  \E record : Goto(k, record) /\ LinkedRecords(record, task[k])
    BY <1>2 DEF LinkedRecords, IdleCall, Waiting
  <1>3. CASE LocationFetched(k)
    <2>1. PICK record :
              /\ Goto(k, record)
              /\ \/ record = IdleCall
                 \/ /\ call[k].at = "getLocation" /\ record.at = "getProfile"
                    /\ record.driver = call[k].driver
      BY <1>3, FetchedRecord
    <2>2. CASE record = IdleCall
      BY <1>2, <2>1, <2>2
    <2>3. CASE /\ call[k].at = "getLocation" /\ record.at = "getProfile"
               /\ record.driver = call[k].driver
      BY <1>1, <2>1, <2>3 DEF LinkedRecords
    <2>4. QED
      BY <2>1, <2>2, <2>3
  <1>4. CASE ProfileFetched(k, found)
    <2> DEFINE more == Waiting("location", call[k].client, call[k].driver, None)
    <2>1. \/ Goto(k, more) /\ call[k].at = "profile"
          \/ Goto(k, IdleCall)
      BY <1>4 DEF ProfileFetched
    <2> HIDE DEF more
    <2>2. CASE Goto(k, more) /\ call[k].at = "profile"
      BY <1>1, <2>2 DEF LinkedRecords
    <2>3. QED
      BY <1>2, <2>1, <2>2
  <1>5. QED
    BY <1>3, <1>4

LEMMA LoadLinks ==
    ASSUME Typed, Composed, NEW k \in Calls, NEW found \in BOOLEAN, NEW location,
           Load(k, found, location)
    PROVE  Composed'
  <1>1. LocationFetched(k) \/ ProfileFetched(k, found)
    BY DEF Load
  <1>2. PICK record : Goto(k, record) /\ LinkedRecords(record, task[k])
    BY <1>1, LoadRecordLinks DEF Composed
  <1>3. call'[k] = record
    BY <1>2, GotoMoves DEF Typed
  <1>4. CASE call'[k].at = "idle" /\ Update(k, location)
    <2>1. PICK u \in G!TaskRecords \cup {None} : G!Goto(k, u)
      BY <1>4, UpdateFacts DEF Composed
    <2>2. GatewayTyped' /\ \A other \in Calls \ {k} : task'[other] = task[other]
      BY <1>4, <2>1, UpdateFacts, TaskGoto DEF Composed
    <2>3. LinkedRecords(record, task'[k])
      BY <1>3, <1>4 DEF LinkedRecords
    <2>4. QED
      BY <1>2, <2>2, <2>3, LinkedMoves DEF Composed
  <1>5. CASE UNCHANGED gateway
    <2>1. UNCHANGED <<task, timers>>
      BY <1>5 DEF gateway
    <2>2. LinkedRecords(record, task'[k])
      BY <1>2, <2>1
    <2>3. GatewayTyped'
      BY <2>1 DEF Composed, GatewayTyped
    <2>4. \A other \in Calls \ {k} : task'[other] = task[other]
      BY <2>1
    <2>5. Linked'
      BY <1>2, <2>2, <2>4, LinkedMoves DEF Composed
    <2>6. QED
      BY <2>3, <2>5 DEF Composed
  <1>6. QED
    BY <1>4, <1>5 DEF Load

\* The service goes on by itself.
LEMMA ServiceLinks ==
    ASSUME Typed, Composed, ServiceStep
    PROVE  Composed'
  <1>1. UNCHANGED <<task, timers>>
    BY DEF ServiceStep, gateway
  <1>2. GatewayTyped'
    BY <1>1 DEF Composed, GatewayTyped
  <1>3. ASSUME NEW k \in Calls, NEW record, Goto(k, record), LinkedRecords(record, task[k])
        PROVE  Composed'
    <2>1. LinkedRecords(record, task'[k]) /\ \A other \in Calls \ {k} : task'[other] = task[other]
      BY <1>1, <1>3
    <2>2. QED
      BY <1>2, <1>3, <2>1, LinkedMoves DEF Composed
  <1>4. ASSUME NEW d \in Drivers, HandleDriverLocationUpdate(d) \/ LocationReported(d)
        PROVE  Composed'
    <2>1. call' = call
      BY <1>4 DEF HandleDriverLocationUpdate, LocationReported
    <2>2. Linked'
      BY <1>1, <2>1 DEF Composed, Linked
    <2>3. QED
      BY <1>2, <2>2 DEF Composed
  <1>5. CASE UnsubscribeAnswered
    <2> DEFINE k == Head(subscriber)
               record == AfterRelease(call[k].client, call[k].next)
    <2>1. k \in Calls /\ call[k].at = "unsubscribing" /\ Goto(k, record)
      BY <1>5, QueueHead DEF UnsubscribeAnswered, Typed, TypeOK
    <2>2. LinkedRecords(call[k], task[k])
      BY <2>1 DEF Composed, Linked
    <2>3. call[k].next = None => record.at = "idle"
      BY DEF AfterRelease, IdleCall, Waiting
    <2> HIDE DEF k, record
    <2>4. LinkedRecords(record, task[k])
      BY <2>1, <2>2, <2>3 DEF LinkedRecords
    <2>5. QED
      BY <1>3, <2>1, <2>4
  <1>6. CASE SubscribeAnswered
    <2> DEFINE k == Head(subscriber)
    <2>1. k \in Calls /\ call[k].at = "subscribing"
      BY <1>6, QueueHead DEF SubscribeAnswered, Typed, TypeOK
    <2>2. LinkedRecords(call[k], task[k])
      BY <2>1 DEF Composed, Linked
    <2>3. PICK record : Goto(k, record)
      BY <1>6 DEF SubscribeAnswered, Enroll
    <2> HIDE DEF k
    <2>4. LinkedRecords(record, task[k])
      BY <2>1, <2>2 DEF LinkedRecords
    <2>5. QED
      BY <1>3, <2>1, <2>3, <2>4
  <1>7. ASSUME NEW k \in Calls, Resume(k)
        PROVE  Composed'
    <2>1. call[k].at = "released" /\ LinkedRecords(call[k], task[k])
      BY <1>7 DEF Resume, Composed, Linked
    <2>2. PICK record : Goto(k, record)
      BY <1>7 DEF Resume, Follow, Enroll
    <2>3. LinkedRecords(record, task[k])
      BY <2>1 DEF LinkedRecords
    <2>4. QED
      BY <1>3, <2>2, <2>3
  <1>8. ASSUME NEW k \in Calls, NEW failed \in BOOLEAN, LocationServed(k, failed)
        PROVE  Composed'
    <2>1. LinkedRecords(call[k], task[k])
      BY DEF Composed, Linked
    <2>2. PICK record :
              /\ Goto(k, record) /\ record.driver = call[k].driver
              /\ record.at = call[k].at /\ record.next = call[k].next
      BY <1>8, ServedRecord
    <2>3. LinkedRecords(record, task[k])
      BY <2>1, <2>2 DEF LinkedRecords
    <2>4. QED
      BY <1>3, <2>2, <2>3
  <1>9. \/ \E d \in Drivers : HandleDriverLocationUpdate(d) \/ LocationReported(d)
        \/ UnsubscribeAnswered \/ SubscribeAnswered
        \/ \E k \in Calls : Resume(k) \/ \E failed \in BOOLEAN : LocationServed(k, failed)
    BY DEF ServiceStep, CommandAnswered
  <1>10. QED
    BY <1>4, <1>5, <1>6, <1>7, <1>8, <1>9

LEMMA ComposedInductive ==
    ASSUME Distinct
    PROVE  /\ SessionsInit => Composed
           /\ Typed /\ Composed /\ (Steps \/ UNCHANGED sessions) => Composed'
  <1>1. ASSUME SessionsInit PROVE Composed
    <2>1. \A k \in Calls : call[k].at = "idle"
      BY <1>1 DEF SessionsInit, Init, IdleCall, Waiting
    <2>2. GatewayTyped
      BY <1>1 DEF SessionsInit, G!Init, GatewayTyped
    <2>3. QED
      BY <2>1, <2>2 DEF Composed, Linked, LinkedRecords
  <1>2. ASSUME Typed, Composed, UNCHANGED sessions
        PROVE  Composed'
    <2>1. UNCHANGED <<call, task, timers>>
      BY <1>2 DEF sessions, vars, gateway
    <2>2. GatewayTyped' /\ Linked'
      BY <1>2, <2>1 DEF Composed, GatewayTyped, Linked
    <2>3. QED
      BY <2>2 DEF Composed
  <1>3. ASSUME Typed, Composed, Steps
        PROVE  Composed'
    <2>1. GatewayTyped /\ Linked /\ \A k \in Calls : LinkedRecords(call[k], task[k])
      BY <1>3 DEF Composed, Linked
    <2>2. ASSUME NEW k \in Calls, NEW c \in Clients, NEW d \in Drivers,
                 HandleSubscription(k, c, d)
          PROVE  Composed'
      <3>1. /\ GatewayTyped'
            /\ \A other \in Calls \ {k} : task'[other] = task[other]
            /\ task'[k] # None /\ task'[k].at = "subscribing"
        BY <2>1, <2>2, SubscriptionTask DEF HandleSubscription
      <3>2. PICK record : Goto(k, record)
        BY <2>2
           DEF HandleSubscription, SubscribeToDriverUpdates, Release, Follow, Enroll
      <3>3. LinkedRecords(record, task'[k])
        BY <3>1 DEF LinkedRecords
      <3>4. QED
        BY <1>3, <2>1, <3>1, <3>2, <3>3, LinkedMoves DEF Composed
    <2>3. ASSUME NEW k \in Calls, NEW c \in Clients, Unsubscribe(k, c)
          PROVE  Composed'
      <3>1. UNCHANGED <<task, timers>>
        BY <2>3 DEF Unsubscribe, gateway
      <3>2. Release(k, c, clientSubscriptions[c], None)
        BY <2>3 DEF Unsubscribe, UnsubscribeFromDriverUpdates
      <3>3. PICK record :
                /\ Goto(k, record)
                /\ \/ record.at = "unsubscribing" /\ record.next = None
                   \/ record.at = "idle"
        BY <3>2 DEF Release, AfterRelease, Waiting, IdleCall
      <3>4. LinkedRecords(record, task'[k])
        BY <3>3 DEF LinkedRecords
      <3>5. GatewayTyped' /\ \A other \in Calls \ {k} : task'[other] = task[other]
        BY <2>1, <3>1 DEF GatewayTyped
      <3>6. QED
        BY <1>3, <2>1, <3>3, <3>4, <3>5, LinkedMoves DEF Composed
    <2>4. ASSUME NEW k \in Calls, SubscriptionStored(k)
          PROVE  Composed'
      <3>1. /\ GatewayTyped'
            /\ \A other \in Calls \ {k} : task'[other] = task[other]
            /\ task'[k] # None /\ task'[k].at = "first"
            /\ task'[k].driver = task[k].driver
        BY <2>1, <2>4, StoredTask DEF SubscriptionStored
      <3>2. /\ call[k].at = "idle" /\ Ask(k, task[k].driver)
            /\ task[k].driver \in Drivers
        BY <2>1, <2>4, TaskType DEF SubscriptionStored, G!SubscriptionStored, G!Doing
      <3>3. QED
        BY <1>3, <2>1, <3>1, <3>2, AskLinks DEF Composed
    <2>5. ASSUME NEW k \in Calls, NEW t \in TimerIds, Tick(k, t)
          PROVE  Composed'
      <3>1. /\ GatewayTyped' /\ timers[t].driver \in Drivers
            /\ \A other \in Calls \ {k} : task'[other] = task[other]
            /\ task[k] = None /\ task'[k] # None /\ task'[k].at = "tick"
            /\ task'[k].driver = timers[t].driver
        BY <2>1, <2>5, TickTask DEF Tick
      <3>2. \/ call[k].at = "idle"
            \/ call[k].at = "unsubscribing" /\ call[k].next = None
        BY <2>1, <3>1 DEF LinkedRecords
      <3>3. Ask(k, timers[t].driver)
        BY <2>5 DEF Tick
      <3>4. QED
        BY <1>3, <2>1, <3>1, <3>2, <3>3, AskLinks DEF Composed
    <2>6. ASSUME NEW k \in Calls, UpdateAtHand(k)
          PROVE  Composed'
      <3>1. PICK location : Update(k, location)
        BY <2>6 DEF UpdateAtHand
      <3>2. call[k].at = "idle" /\ UNCHANGED call
        BY <2>6 DEF UpdateAtHand, vars
      <3>3. PICK u \in G!TaskRecords \cup {None} : G!Goto(k, u)
        BY <2>1, <3>1, UpdateFacts
      <3>4. GatewayTyped' /\ \A other \in Calls \ {k} : task'[other] = task[other]
        BY <2>1, <3>1, <3>3, UpdateFacts, TaskGoto
      <3>5. LinkedRecords(call[k], task'[k])
        BY <3>2 DEF LinkedRecords
      <3>6. QED
        BY <2>1, <3>2, <3>4, <3>5, LinkedStays DEF Composed
    <2>7. ASSUME NEW k \in Calls, Loaded(k)
          PROVE  Composed'
      BY <1>3, <2>7, LoadLinks DEF Loaded
    <2>8. ASSUME NEW k \in Calls, ConfigureInterval(k)
          PROVE  Composed'
      <3>1. /\ GatewayTyped'
            /\ \A other \in Calls \ {k} : task'[other] = task[other]
            /\ task[k] # None /\ task[k].at = "arming" /\ task'[k] = None
        BY <2>1, <2>8, ConfigureTask DEF ConfigureInterval
      <3>2. UNCHANGED call
        BY <2>8 DEF ConfigureInterval, vars
      <3>3. LinkedRecords(call[k], task'[k])
        BY <2>1, <3>1 DEF LinkedRecords
      <3>4. QED
        BY <2>1, <3>1, <3>2, <3>3, LinkedStays DEF Composed
    <2>9. ASSUME NEW c \in Clients, HandleDisconnect(c)
          PROVE  Composed'
      <3>1. GatewayTyped' /\ task' = task
        BY <2>1, <2>9, DisconnectTask DEF HandleDisconnect
      <3>2. UNCHANGED call
        BY <2>9 DEF HandleDisconnect, vars
      <3>3. Linked'
        BY <2>1, <3>1, <3>2 DEF Linked
      <3>4. QED
        BY <3>1, <3>3 DEF Composed
    <2>10. CASE ServiceStep
      BY <1>3, <2>10, ServiceLinks
    <2>11. QED
      BY <1>3, <2>2, <2>3, <2>4, <2>5, <2>6, <2>7, <2>8, <2>9, <2>10 DEF Steps, SessionsNext
  <1>4. QED
    BY <1>1, <1>2, <1>3

-----------------------------------------------------------------------------
(* One request at a time *)

\* Client c's subscription, or a request made for it elsewhere, is under way.
RequestingIn(tasks, calls, c) ==
    \/ \E k \in Calls : tasks[k] # None /\ tasks[k].client = c /\ tasks[k].at # "tick"
    \/ \E k \in Calls : calls[k].client = c

LEMMA OneRequestAfter ==
    ASSUME OneRequester', NEW c \in Clients, NEW other \in Clients,
           RequestingIn(task', call', c), RequestingIn(task', call', other)
    PROVE  c = other
  BY DEF OneRequester, Requesting, G!Subscribing, RequestingIn

\* When one request at a time is made of the gateway and of the service, one starts
\* only when no call works for a client.
LEMMA RequestsAlone ==
    ASSUME SerialClients, Served, GatewayTyped, Distinct, OneRequester',
           NEW k \in Calls, NEW c \in Clients, NEW d \in Drivers,
           HandleSubscription(k, c, d)
    PROVE  Idle
  <1>1. task'[k] # None /\ task'[k].at = "subscribing" /\ task'[k].client = c
    BY SubscriptionTask DEF HandleSubscription
  <1>2. RequestingIn(task', call', c)
    BY <1>1 DEF RequestingIn
  <1>3. SubscribeToDriverUpdates(k, c, d)
    BY DEF HandleSubscription
  <1>4. call[k].at = "idle" /\ \A other \in Calls : call[other].client # c
    BY <1>3 DEF SubscribeToDriverUpdates, MayStart
  <1>5. PICK record : Goto(k, record)
    BY <1>3 DEF SubscribeToDriverUpdates, Release, Follow, Enroll
  <1>6. call[k].client = None
    BY <1>4 DEF Served, OneRequest, Knows
  <1>7. ASSUME NEW other \in Calls \ {k}, call[other].client # None
        PROVE  FALSE
    <2>1. call'[other] = call[other]
      BY <1>5, GotoMoves DEF Served, Typed
    <2>2. call[other].client \in Clients
      BY <1>7 DEF Served, Typed, TypeOK, CallRecords
    <2>3. RequestingIn(task', call', call[other].client)
      BY <2>1 DEF RequestingIn
    <2>4. call[other].client = c
      BY <1>2, <2>2, <2>3, OneRequestAfter
    <2>5. QED
      BY <1>4, <2>4
  <1>8. QED
    BY <1>6, <1>7 DEF Idle

LEMMA UnsubscribesAlone ==
    ASSUME Served, NEW k \in Calls, NEW c \in Clients, Unsubscribe(k, c)
    PROVE  Idle
  <1>1. \A other \in Clients : \A q \in Calls : call[q].client # other
    BY DEF Unsubscribe, Requesting
  <1>2. \A q \in Calls : call[q].client \in Clients \cup {None}
    BY DEF Served, Typed, TypeOK, CallRecords
  <1>3. QED
    BY <1>1, <1>2 DEF Idle

\* Each step is one that the service takes when its requests come one at a time.
LEMMA SequentialSteps ==
    ASSUME SerialClients, Served, GatewayTyped, Distinct, [SequentialSessionsNext]_sessions
    PROVE  [SequentialNext]_vars
  <1>1. CASE UNCHANGED sessions
    BY <1>1 DEF sessions, vars, registry, redis, world
  <1>2. CASE SequentialSessionsNext
    <2>1. Steps /\ OneRequester'
      BY <1>2 DEF SequentialSessionsNext, Steps
    <2>2. ASSUME NEW k \in Calls, NEW c \in Clients, NEW d \in Drivers,
                 HandleSubscription(k, c, d), SubscribeToDriverUpdates(k, c, d)
          PROVE  SequentialNext
      BY <2>1, <2>2, RequestsAlone DEF SequentialNext
    <2>3. ASSUME NEW k \in Calls, NEW c \in Clients,
                 Unsubscribe(k, c), UnsubscribeFromDriverUpdates(k, c)
          PROVE  SequentialNext
      BY <2>3, UnsubscribesAlone DEF SequentialNext
    <2>4. OtherSteps => SequentialNext
      BY DEF SequentialNext
    <2>5. QED
      BY <2>1, <2>2, <2>3, <2>4, StepsOfService
  <1>3. QED
    BY <1>1, <1>2

\* The invariant of the sequential composition.
Orderly == Served /\ AllIndexed /\ Composed

LEMMA OrderlyInductive ==
    ASSUME SerialClients, ~CommandsFail, Distinct
    PROVE  /\ SessionsInit => Orderly
           /\ Orderly /\ [SequentialSessionsNext]_sessions => Orderly'
  <1>1. SessionsInit => Orderly
    BY ServedInductive, EnrolledInductive, ComposedInductive DEF SessionsInit, Orderly
  <1>2. ASSUME Orderly, [SequentialSessionsNext]_sessions
        PROVE  Orderly'
    <2>1. Typed /\ Served /\ Composed /\ AllIndexed /\ GatewayTyped
      BY <1>2 DEF Orderly, Served, Composed
    <2>2. [SequentialNext]_vars
      BY <1>2, <2>1, SequentialSteps
    <2>3. Served' /\ AllIndexed'
      BY <2>1, <2>2, ServedInductive, EnrolledInductive
    <2>4. Steps \/ UNCHANGED sessions
      BY <1>2 DEF SequentialSessionsNext, Steps
    <2>5. Composed'
      BY <2>1, <2>4, ComposedInductive
    <2>6. QED
      BY <2>3, <2>5 DEF Orderly
  <1>3. QED
    BY <1>1, <1>2

\* ClientGateway and RealtimeService together keep the contract of module Following
\* when requests are made one at a time, for every number of clients, drivers,
\* intervals and calls, whatever ticks, loads, disconnects and reports overlap.
THEOREM CompositionFollows ==
    ASSUME SerialClients, ~CommandsFail, Distinct
    PROVE  SequentialSessions => ImplementsFollowing
  <1>1. SessionsInit => Orderly
    BY OrderlyInductive
  <1>2. Orderly /\ [SequentialSessionsNext]_sessions => Orderly'
    BY OrderlyInductive
  <1>3. SessionsInit => Contract!Init
    BY ContractInit DEF SessionsInit
  <1>4. ASSUME Orderly, Orderly', [SequentialSessionsNext]_sessions
        PROVE  [Contract!Next]_(Contract!vars)
    <2>1. Served /\ GatewayTyped
      BY <1>4 DEF Orderly, Composed
    <2>2. Served'
      BY <1>4 DEF Orderly
    <2>3. [SequentialNext]_vars
      BY <1>4, <2>1, SequentialSteps
    <2>4. ContractStep
      BY <2>1, <2>2, <2>3, ContractKept
    <2>5. QED
      BY <2>4 DEF ContractStep
  <1>5. QED
    BY <1>1, <1>2, <1>3, <1>4, PTL
       DEF SequentialSessions, ImplementsFollowing, Contract!Spec

\* A client that has an interval, and no request under way, is in the set of its
\* driver and the driver's channel is received: the interval never stands in for a
\* subscription that was lost, however many ticks overlap.
THEOREM ServedAreFollowed ==
    ASSUME SerialClients, ~CommandsFail, Distinct
    PROVE  SequentialSessions => []ServedIsFollowed
  <1>1. SessionsInit => Orderly
    BY OrderlyInductive
  <1>2. Orderly /\ [SequentialSessionsNext]_sessions => Orderly'
    BY OrderlyInductive
  <1>3. ASSUME Orderly PROVE ServedIsFollowed
    <2> SUFFICES ASSUME NEW c \in Clients, clientSubscriptions[c] # None, ~Requesting(c)
                 PROVE  /\ c \in driverSubscribers[clientSubscriptions[c]]
                        /\ clientSubscriptions[c] \in channels
      BY DEF ServedIsFollowed
    <2>1. \A k \in Calls : call[k].client # c
      BY DEF Requesting
    <2>2. QED
      BY <1>3, <2>1, EverybodyServed DEF Orderly
  <1>4. QED
    BY <1>1, <1>2, <1>3, PTL DEF SequentialSessions

-----------------------------------------------------------------------------
(* What clients are shown *)

ProfileLoadingIn(calls, d) ==
    \E k \in Calls : calls[k].at \in {"profile", "getProfile"} /\ calls[k].driver = d

SteadyIn(calls, cached, profiles, d) ==
    SettledIn(calls, cached, d) /\ d \in profiles /\ ~ProfileLoadingIn(calls, d)

LEMMA SteadyIsSteadyIn ==
    ASSUME NEW d
    PROVE  Steady(d) <=> SteadyIn(call, locationCache, profileCache, d)
  BY DEF Steady, Settled, LoadingLocation, SteadyIn, SettledIn, LoadingIn,
         ProfileLoadingIn

\* A call that does not start a load of d's profile.
LEMMA NoProfileLoad ==
    ASSUME Typed, NEW d \in Drivers, ~ProfileLoadingIn(call, d),
           NEW k \in Calls, NEW record, Goto(k, record),
           record.at \in {"profile", "getProfile"} => record.driver # d
    PROVE  ~ProfileLoadingIn(call', d)
  <1>1. /\ call'[k] = record
        /\ \A other \in Calls \ {k} : call'[other] = call[other]
    BY GotoMoves DEF Typed
  <1>2. QED
    BY <1>1 DEF ProfileLoadingIn

\* A profile that is cached is not loaded again.
LEMMA ProfilesStay ==
    ASSUME Typed, Loads, [Next]_vars, NEW d \in Drivers,
           SteadyIn(call, locationCache, profileCache, d)
    PROVE  d \in profileCache' /\ ~ProfileLoadingIn(call', d)
  <1>1. d \in profileCache /\ ~ProfileLoadingIn(call, d) /\ SettledIn(call, locationCache, d)
    BY DEF SteadyIn
  <1>2. d \in profileCache'
    <2>1. UNCHANGED profileCache \/ \E k \in Calls, found \in BOOLEAN : ProfileFetched(k, found)
      BY DEF Next, Answered, CommandAnswered, SubscribeToDriverUpdates,
             UnsubscribeFromDriverUpdates, GetDriverLocationAndProfile,
             HandleDriverLocationUpdate, LocationReported, Resume, LocationServed,
             LocationFetched, UnsubscribeAnswered, SubscribeAnswered, CommandRejected, vars
    <2>2. QED
      BY <1>1, <2>1 DEF ProfileFetched, CachedProfiles
  <1> DEFINE Goal == ~ProfileLoadingIn(call', d)
             Harmless(record) == record.at \in {"profile", "getProfile"} => record.driver # d
  <1>3. ASSUME NEW k \in Calls, NEW record, Goto(k, record), Harmless(record)
        PROVE  Goal
    BY <1>1, <1>3, NoProfileLoad
  <1>4. ASSUME UNCHANGED call
        PROVE  Goal
    BY <1>1, <1>4 DEF ProfileLoadingIn
  <1>5. Harmless(IdleCall)
    BY DEF IdleCall, Waiting
  <1>6. ASSUME NEW c, NEW e
        PROVE  Harmless(Loading(c, e, profileCache))
    BY <1>1 DEF Loading, IdleCall, Waiting
  <1>7. ASSUME NEW c, NEW next
        PROVE  Harmless(AfterRelease(c, next))
    BY DEF AfterRelease, IdleCall, Waiting
  <1>8. ASSUME NEW at, NEW c, NEW e, NEW next, at \notin {"profile", "getProfile"}
        PROVE  Harmless(Waiting(at, c, e, next))
    BY <1>8 DEF Waiting
  <1> HIDE DEF Goal, Harmless
  <1>9. ASSUME NEW k \in Calls, NEW c, NEW e, Follow(k, c, e)
        PROVE  Goal
    <2>1. \/ Goto(k, Loading(c, e, profileCache))
          \/ Goto(k, Waiting("subscribing", c, e, None))
      BY <1>9 DEF Follow, Enroll
    <2>2. QED
      BY <1>3, <1>6, <1>8, <2>1
  <1>10. ASSUME NEW k \in Calls, NEW c, NEW e, NEW next, Release(k, c, e, next)
         PROVE  Goal
    <2>1. \/ Goto(k, Waiting("unsubscribing", c, e, next))
          \/ Goto(k, AfterRelease(c, next))
      BY <1>10 DEF Release
    <2>2. QED
      BY <1>3, <1>7, <1>8, <2>1
  <1>11. ASSUME NEW k \in Calls, NEW e \in Drivers, GetDriverLocationAndProfile(k, e)
         PROVE  Goal
    <2> DEFINE Get(at) == [Waiting(at, None, e, None) EXCEPT
                    !.location = locationCache[e], !.profile = e \in profileCache]
    <2>1. \/ Goto(k, Get("getLocation"))
          \/ e \notin profileCache /\ Goto(k, Get("getProfile"))
      BY <1>11 DEF GetDriverLocationAndProfile
    <2>2. \A at : Get(at).at = at /\ Get(at).driver = e
      BY DEF Waiting
    <2>3. Harmless(Get("getLocation"))
      BY <2>2 DEF Harmless
    <2>4. e \notin profileCache => Harmless(Get("getProfile"))
      BY <1>1, <2>2 DEF Harmless
    <2> HIDE DEF Get
    <2>5. QED
      BY <1>3, <2>1, <2>3, <2>4
  <1>12. ASSUME UnsubscribeAnswered \/ SubscribeAnswered \/ CommandRejected
         PROVE  Goal
    <2>1. Head(subscriber) \in Calls
      BY <1>12, QueueHead
         DEF UnsubscribeAnswered, SubscribeAnswered, CommandRejected, Typed, TypeOK
    <2>2. PICK record : Goto(Head(subscriber), record) /\ Harmless(record)
      BY <1>5, <1>6, <1>7, <1>12
         DEF UnsubscribeAnswered, SubscribeAnswered, CommandRejected, Enroll
    <2>3. QED
      BY <1>3, <2>1, <2>2
  <1>13. ASSUME NEW k \in Calls, NEW found \in BOOLEAN, ProfileFetched(k, found)
         PROVE  Goal
    <2>1. \/ Goto(k, Waiting("location", call[k].client, call[k].driver, None))
          \/ Goto(k, IdleCall)
      BY <1>13 DEF ProfileFetched
    <2>2. QED
      BY <1>3, <1>5, <1>8, <2>1
  <1>14. ASSUME NEW k \in Calls, NEW failed \in BOOLEAN, LocationServed(k, failed)
         PROVE  Goal
    <2>1. PICK record :
              /\ Goto(k, record)
              /\ record.at = call[k].at /\ call[k].at \in {"location", "getLocation"}
      BY <1>14, ServedRecord
    <2>2. Harmless(record)
      BY <2>1 DEF Harmless
    <2>3. QED
      BY <1>3, <2>1, <2>2
  <1>15. ASSUME NEW k \in Calls, LocationFetched(k)
         PROVE  Goal
    <2>1. PICK record :
              /\ Goto(k, record)
              /\ \/ record = IdleCall
                 \/ call[k].at = "getLocation" /\ record.driver = call[k].driver
      BY <1>15, FetchedRecord
    <2>2. CASE record = IdleCall
      BY <1>3, <1>5, <2>1, <2>2
    <2>3. CASE call[k].at = "getLocation" /\ record.driver = call[k].driver
      <3>1. record.driver # d
        BY <1>1, <2>3 DEF SettledIn, LoadingIn
      <3>2. Harmless(record)
        BY <3>1 DEF Harmless
      <3>3. QED
        BY <1>3, <2>1, <3>2
    <2>4. QED
      BY <2>1, <2>2, <2>3
  <1>16. UNCHANGED vars => Goal
    BY <1>4 DEF vars
  <1>17. ASSUME NEW k \in Calls, NEW c \in Clients, NEW e \in Drivers,
                SubscribeToDriverUpdates(k, c, e)
         PROVE  Goal
    BY <1>9, <1>10, <1>17 DEF SubscribeToDriverUpdates
  <1>18. ASSUME NEW k \in Calls, NEW c \in Clients, UnsubscribeFromDriverUpdates(k, c)
         PROVE  Goal
    BY <1>10, <1>18 DEF UnsubscribeFromDriverUpdates
  <1>19. ASSUME NEW e \in Drivers, HandleDriverLocationUpdate(e) \/ LocationReported(e)
         PROVE  Goal
    BY <1>4, <1>19 DEF HandleDriverLocationUpdate, LocationReported
  <1>20. ASSUME NEW k \in Calls, Resume(k)
         PROVE  Goal
    BY <1>9, <1>20 DEF Resume
  <1>21. Goal
    BY <1>11, <1>12, <1>13, <1>14, <1>15, <1>16, <1>17, <1>18, <1>19, <1>20
       DEF Next, Answered, CommandAnswered
  <1>22. QED
    BY <1>2, <1>21 DEF Goal

LEMMA SteadyStep ==
    ASSUME Typed, Loads, [Next]_vars, NEW d \in Drivers,
           SteadyIn(call, locationCache, profileCache, d)
    PROVE  SteadyIn(call', locationCache', profileCache', d)
  <1>1. SettledIn(call, locationCache, d)
    BY DEF SteadyIn
  <1>2. SettledIn(call', locationCache', d)
    BY <1>1, SettledStep
  <1>3. d \in profileCache' /\ ~ProfileLoadingIn(call', d)
    BY ProfilesStay
  <1>4. QED
    BY <1>2, <1>3 DEF SteadyIn

\* What a client is shown when a load has ended is about a driver that was loading.
LEMMA LoadShows ==
    ASSUME Loads, Composed, NEW k \in Calls, Loaded(k), shown' # None
    PROVE  \/ LoadingIn(call, shown'.driver)
           \/ ProfileLoadingIn(call, shown'.driver)
  <1>1. PICK found, location : found \in BOOLEAN /\ Load(k, found, location)
    BY DEF Loaded
  <1>2. LocationFetched(k) \/ ProfileFetched(k, found)
    BY <1>1 DEF Load
  <1>3. Update(k, location)
    BY <1>1 DEF Load, Quiet
  <1>4. /\ task[k] # None /\ task[k].at \in {"first", "tick"}
        /\ shown'.driver = task[k].driver
    BY <1>3, UpdateFacts DEF Composed
  <1>5. call[k].at \in {"location", "getLocation", "profile", "getProfile"}
    BY <1>2 DEF LocationFetched, ProfileFetched, Loads, LoadRecord
  <1>6. call[k].at \in {"getLocation", "getProfile"} /\ call[k].driver = task[k].driver
    BY <1>4, <1>5 DEF Composed, Linked, LinkedRecords
  <1>7. QED
    BY <1>4, <1>6 DEF LoadingIn, ProfileLoadingIn

LEMMA ShownIsCached ==
    ASSUME Loads, Composed, Steps, NEW d \in Drivers,
           SteadyIn(call, locationCache, profileCache, d),
           shown' # None, shown'.driver = d
    PROVE  shown'.location = locationCache[d]
  <1>1. ~LoadingIn(call, d) /\ ~ProfileLoadingIn(call, d)
    BY DEF SteadyIn, SettledIn
  <1>2. ASSUME NEW k \in Calls, UpdateAtHand(k)
        PROVE  shown'.location = locationCache[d]
    <2>1. Update(k, locationCache[task[k].driver])
      BY <1>2 DEF UpdateAtHand
    <2>2. shown'.driver = task[k].driver /\ shown'.location = locationCache[task[k].driver]
      BY <2>1, UpdateFacts DEF Composed
    <2>3. QED
      BY <2>2
  <1>3. ASSUME NEW k \in Calls, Loaded(k)
        PROVE  shown'.location = locationCache[d]
    BY <1>1, <1>3, LoadShows
  <1>4. Quiet => FALSE
    BY DEF Quiet
  <1>5. \E k \in Calls : UpdateAtHand(k) \/ Loaded(k)
    BY <1>4
       DEF Steps, SessionsNext, HandleSubscription, SubscriptionStored, Tick,
           ConfigureInterval, HandleDisconnect, ServiceStep, Unsubscribe
  <1>6. QED
    BY <1>2, <1>3, <1>5

\* Once a driver's location and profile are cached and the loads begun before have
\* ended, nobody is shown anything of the driver but what the cache holds at that
\* moment, and nothing is loaded again: for any number of overlapping requests and
\* ticks, of one client as well, and with requests from elsewhere.
THEOREM ShownFromCache ==
    ASSUME Distinct
    PROVE  /\ SessionsSpec => ViewsFollowCache
           /\ SequentialSessions => ViewsFollowCache
  <1> DEFINE State == Typed /\ Loads /\ Composed
             View(d) == Steady(d) =>
                           /\ Steady(d)'
                           /\ shown' # None /\ shown'.driver = d
                                 => shown'.location = locationCache[d]
  <1>1. SessionsInit => State
    BY TypedInductive, LoadsInductive, ComposedInductive DEF SessionsInit
  <1>2. UNCHANGED sessions => UNCHANGED vars
    BY DEF sessions
  <1>3. State /\ [Steps]_sessions => State'
    <2> SUFFICES ASSUME Typed, Loads, Composed, Steps \/ UNCHANGED sessions
                 PROVE  Typed' /\ Loads' /\ Composed'
      OBVIOUS
    <2>1. [Next]_vars
      BY <1>2, StepsOfNext DEF Composed
    <2>2. QED
      BY <2>1, TypedInductive, LoadsInductive, ComposedInductive
  <1>4. State /\ [Steps]_sessions => [\A d \in Drivers : View(d)]_sessions
    <2> SUFFICES ASSUME Typed, Loads, Composed, Steps, NEW d \in Drivers, Steady(d)
                 PROVE  /\ Steady(d)'
                        /\ shown' # None /\ shown'.driver = d
                              => shown'.location = locationCache[d]
      OBVIOUS
    <2>1. SteadyIn(call, locationCache, profileCache, d)
      BY SteadyIsSteadyIn
    <2>2. [Next]_vars
      BY StepsOfNext DEF Composed
    <2>3. SteadyIn(call', locationCache', profileCache', d)
      BY <2>1, <2>2, SteadyStep
    <2>4. Steady(d)'
      BY <2>3 DEF Steady, Settled, LoadingLocation, SteadyIn, SettledIn,
                  LoadingIn, ProfileLoadingIn
    <2>5. QED
      BY <2>1, <2>4, ShownIsCached
  <1>5. [SessionsNext]_sessions => [Steps]_sessions
    BY DEF Steps
  <1>6. [SequentialSessionsNext]_sessions => [Steps]_sessions
    BY DEF Steps, SequentialSessionsNext
  <1>7. QED
    BY <1>1, <1>3, <1>4, <1>5, <1>6, PTL DEF SessionsSpec, SequentialSessions, ViewsFollowCache

-----------------------------------------------------------------------------
(* The composition implements its components *)

LEMMA GatewayMoves ==
    ASSUME Steps
    PROVE  [G!Next]_(G!vars)
  <1>1. UNCHANGED gateway => UNCHANGED G!vars
    BY DEF gateway, G!vars
  <1>2. ASSUME NEW k \in Calls, NEW location, Update(k, location)
        PROVE  G!Next
    BY <1>2 DEF Update, G!Next, G!Progress
  <1>3. ASSUME NEW k \in Calls, Loaded(k)
        PROVE  [G!Next]_(G!vars)
    BY <1>1, <1>2, <1>3 DEF Loaded, Load
  <1>4. ASSUME NEW k \in Calls, UpdateAtHand(k)
        PROVE  G!Next
    BY <1>2, <1>4 DEF UpdateAtHand
  <1>5. ASSUME NEW k \in Calls, NEW c \in Clients, NEW d \in Drivers,
               HandleSubscription(k, c, d)
        PROVE  G!Next
    BY <1>5 DEF HandleSubscription, G!Next
  <1>6. ASSUME NEW k \in Calls, SubscriptionStored(k) \/ ConfigureInterval(k)
        PROVE  G!Next
    BY <1>6 DEF SubscriptionStored, ConfigureInterval, G!Next, G!Progress
  <1>7. ASSUME NEW k \in Calls, NEW t \in TimerIds, Tick(k, t)
        PROVE  G!Next
    BY <1>7 DEF Tick, G!Next
  <1>8. ASSUME NEW c \in Clients, HandleDisconnect(c)
        PROVE  G!Next
    BY <1>8 DEF HandleDisconnect, G!Next
  <1>9. ServiceStep => UNCHANGED G!vars
    BY <1>1 DEF ServiceStep
  <1>10. ASSUME NEW k \in Calls, NEW c \in Clients, Unsubscribe(k, c)
         PROVE  UNCHANGED G!vars
    BY <1>1, <1>10 DEF Unsubscribe
  <1>11. QED
    BY <1>3, <1>4, <1>5, <1>6, <1>7, <1>8, <1>9, <1>10 DEF Steps, SessionsNext

\* What ClientGateway does while it is served, and what RealtimeService does when it is
\* called by the gateway, is what modules ClientGateway and RealtimeService say of each
\* alone: every property proved of one of them holds of the two together.
THEOREM ComponentsImplemented ==
    ASSUME Distinct
    PROVE  /\ SessionsSpec => Spec /\ G!Spec
           /\ SequentialSessions => Spec /\ G!Spec
  <1> DEFINE State == Typed /\ Composed
  <1>1. SessionsInit => State /\ Init /\ G!Init
    BY TypedInductive, ComposedInductive DEF SessionsInit
  <1>2. UNCHANGED sessions => UNCHANGED vars /\ UNCHANGED G!vars
    BY DEF sessions, gateway, G!vars
  <1>3. State /\ [Steps]_sessions => State'
    <2> SUFFICES ASSUME Typed, Composed, Steps \/ UNCHANGED sessions
                 PROVE  Typed' /\ Composed'
      OBVIOUS
    <2>1. [Next]_vars
      BY <1>2, StepsOfNext DEF Composed
    <2>2. QED
      BY <2>1, TypedInductive, ComposedInductive
  <1>4. State /\ [Steps]_sessions => [Next]_vars /\ [G!Next]_(G!vars)
    BY <1>2, StepsOfNext, GatewayMoves DEF Composed
  <1>5. [SessionsNext]_sessions => [Steps]_sessions
    BY DEF Steps
  <1>6. [SequentialSessionsNext]_sessions => [Steps]_sessions
    BY DEF Steps, SequentialSessionsNext
  <1>7. QED
    BY <1>1, <1>3, <1>4, <1>5, <1>6, PTL
       DEF SessionsSpec, SequentialSessions, Spec, G!Spec
=============================================================================
