------------------------- MODULE ClientGatewayProofs -------------------------
(***************************************************************************)
(* OneTimerPerClient and what follows from it, for every set of clients,   *)
(* drivers, timers and tasks.  With TypeOK it is inductive: every handler  *)
(* that sets an interval clears the one the map holds and writes the new   *)
(* one in the same step, and the map holds every live interval.            *)
(***************************************************************************)
EXTENDS ClientGateway, TLAPS

\* The timers' part of TypeOK.
TimersTyped ==
    /\ clientIntervals \in [Clients -> TimerIds \cup {None}]
    /\ timers \in [TimerIds -> Intervals \cup {None}]

\* A client is no timer's entry by accident: None is neither a timer nor an interval.
LEMMA NoneFacts ==
    None \notin Clients /\ None \notin Drivers /\ None \notin TimerIds
        /\ None \notin Intervals /\ None \notin TaskRecords
  BY NoneAssumption

\* Clearing the client's interval leaves the other clients' alone.
LEMMA ClearedFacts ==
    ASSUME TimersTyped, OneTimerPerClient, NEW c \in Clients
    PROVE  /\ Cleared(c) \in [TimerIds -> Intervals \cup {None}]
           /\ \A t \in TimerIds : Cleared(c)[t] # None =>
                 Cleared(c)[t] = timers[t] /\ timers[t].client # c
           /\ \A t \in TimerIds :
                 timers[t] # None /\ timers[t].client # c => Cleared(c)[t] = timers[t]
  BY NoneFacts DEF Cleared, TimersTyped, OneTimerPerClient

LEMMA ScheduleType ==
    ASSUME TimersTyped, OneTimerPerClient, NEW c \in Clients, NEW d \in Drivers,
           NEW period \in Periods, Schedule(c, d, period)
    PROVE  TimersTyped'
  <1> DEFINE interval == [client |-> c, driver |-> d, period |-> period]
  <1>1. interval \in Intervals
    BY DEF Intervals
  <1>2. PICK t \in TimerIds :
            /\ timers' = [Cleared(c) EXCEPT ![t] = interval]
            /\ clientIntervals' = [clientIntervals EXCEPT ![c] = t]
    BY DEF Schedule
  <1> HIDE DEF interval
  <1>3. QED
    BY <1>1, <1>2, ClearedFacts DEF TimersTyped

\* Replacing a client's interval keeps map and timers in step.
LEMMA ScheduleKeeps ==
    ASSUME TimersTyped, OneTimerPerClient, NEW c \in Clients, NEW d \in Drivers,
           NEW period \in Periods, Schedule(c, d, period)
    PROVE  OneTimerPerClient'
  <1> DEFINE interval == [client |-> c, driver |-> d, period |-> period]
  <1>1. interval.client = c /\ interval # None
    BY NoneFacts DEF Intervals
  <1>2. PICK t \in TimerIds :
            /\ timers[t] = None
            /\ timers' = [Cleared(c) EXCEPT ![t] = interval]
            /\ clientIntervals' = [clientIntervals EXCEPT ![c] = t]
    BY DEF Schedule
  <1> HIDE DEF interval
  <1>3. /\ clientIntervals'[c] = t /\ timers'[t] = interval
        /\ \A x \in Clients \ {c} : clientIntervals'[x] = clientIntervals[x]
        /\ \A u \in TimerIds \ {t} : timers'[u] = Cleared(c)[u]
    BY <1>2, ClearedFacts DEF TimersTyped
  <1>4. ASSUME NEW u \in TimerIds, timers'[u] # None
        PROVE  clientIntervals'[timers'[u].client] = u
    <2>1. CASE u = t
      BY <1>1, <1>3, <2>1
    <2>2. CASE u # t
      <3>1. timers'[u] = timers[u] /\ timers[u] # None /\ timers[u].client # c
        BY <1>3, <1>4, <2>2, ClearedFacts
      <3>2. timers[u].client \in Clients
        BY <3>1 DEF TimersTyped, Intervals
      <3>3. QED
        BY <1>3, <3>1, <3>2 DEF OneTimerPerClient
    <2>3. QED
      BY <2>1, <2>2
  <1>5. ASSUME NEW x \in Clients, clientIntervals'[x] # None
        PROVE  /\ timers'[clientIntervals'[x]] # None
               /\ timers'[clientIntervals'[x]].client = x
    <2>1. CASE x = c
      BY <1>1, <1>3, <2>1
    <2>2. CASE x # c
      <3>1. /\ clientIntervals'[x] = clientIntervals[x]
            /\ timers[clientIntervals[x]] # None
            /\ timers[clientIntervals[x]].client = x
        BY <1>3, <1>5, <2>2 DEF OneTimerPerClient
      <3>2. clientIntervals[x] \in TimerIds \ {t}
        BY <1>2, <1>5, <3>1 DEF TimersTyped
      <3>3. QED
        BY <1>3, <2>2, <3>1, <3>2, ClearedFacts
    <2>3. QED
      BY <2>1, <2>2
  <1>6. QED
    BY <1>4, <1>5 DEF OneTimerPerClient

\* sendDriverUpdate keeps both.
LEMMA SendKeeps ==
    ASSUME TimersTyped, OneTimerPerClient, NEW c \in Clients, NEW d \in Drivers,
           NEW event \in Events, SendDriverUpdate(c, d, event)
    PROVE  /\ TimersTyped' /\ OneTimerPerClient'
           /\ offline \in [Clients -> Drivers \cup {None}]
                => offline' \in [Clients -> Drivers \cup {None}]
  <1>1. PeriodFor(event) \in Periods
    BY DEF PeriodFor, Periods
  <1>2. ASSUME Schedule(c, d, PeriodFor(event))
        PROVE  TimersTyped' /\ OneTimerPerClient'
    BY <1>1, <1>2, ScheduleType, ScheduleKeeps
  <1>3. ASSUME UNCHANGED <<clientIntervals, timers>>
        PROVE  TimersTyped' /\ OneTimerPerClient'
    BY <1>3 DEF TimersTyped, OneTimerPerClient
  <1>4. TimersTyped' /\ OneTimerPerClient'
    BY <1>2, <1>3 DEF SendDriverUpdate
  <1>5. ASSUME offline \in [Clients -> Drivers \cup {None}]
        PROVE  offline' \in [Clients -> Drivers \cup {None}]
    BY <1>5 DEF SendDriverUpdate, Emit
  <1>6. QED
    BY <1>4, <1>5

\* What a task that is doing something knows.
LEMMA DoingFacts ==
    ASSUME TypeOK, NEW k \in Tasks, NEW at, Doing(k, at)
    PROVE  /\ task[k] \in TaskRecords
           /\ task[k].client \in Clients /\ task[k].driver \in Drivers
  BY DEF Doing, TypeOK, TaskRecords

\* Updates of a task's record.
LEMMA TaskStep ==
    ASSUME TypeOK, NEW k \in Tasks, NEW record \in TaskRecords \cup {None},
           Goto(k, record)
    PROVE  task' \in [Tasks -> TaskRecords \cup {None}]
  BY DEF Goto, TypeOK

LEMMA TaskMoves ==
    ASSUME NEW r \in TaskRecords, NEW at \in {"first", "arming"}
    PROVE  [r EXCEPT !.at = at] \in TaskRecords
  BY DEF TaskRecords

-----------------------------------------------------------------------------

Inductive == TypeOK /\ OneTimerPerClient

LEMMA InductiveStep ==
    /\ Init => Inductive
    /\ Inductive /\ [Next]_vars => Inductive'
  <1>1. Init => Inductive
    BY NoneFacts DEF Init, Inductive, TypeOK, OneTimerPerClient
  <1>2. ASSUME Inductive, [Next]_vars PROVE Inductive'
    <2>1. TypeOK /\ OneTimerPerClient /\ TimersTyped
      BY <1>2 DEF Inductive, TypeOK, TimersTyped
    <2>2. ASSUME UNCHANGED <<connected, clientIntervals, timers>>,
                 task' \in [Tasks -> TaskRecords \cup {None}],
                 offline' = offline
          PROVE  Inductive'
      BY <2>1, <2>2 DEF Inductive, TypeOK, OneTimerPerClient
    <2>3. ASSUME NEW k \in Tasks, NEW c \in Clients, NEW d \in Drivers,
                 HandleSubscription(k, c, d)
          PROVE  Inductive'
      <3>1. [at |-> "subscribing", client |-> c, driver |-> d] \in TaskRecords
        BY DEF TaskRecords
      <3>2. QED
        BY <2>1, <2>2, <2>3, <3>1, TaskStep DEF HandleSubscription, TypeOK
    <2>4. ASSUME NEW k \in Tasks, SubscriptionStored(k)
          PROVE  Inductive'
      <3>1. /\ task[k] \in TaskRecords
            /\ task[k].client \in Clients /\ task[k].driver \in Drivers
        BY <2>1, <2>4, DoingFacts DEF SubscriptionStored
      <3>2. [task[k] EXCEPT !.at = "first"] \in TaskRecords
        BY <3>1, TaskMoves
      <3>3. task' \in [Tasks -> TaskRecords \cup {None}]
        BY <2>1, <2>4, <3>2, TaskStep DEF SubscriptionStored
      <3>4. QED
        BY <2>2, <2>4, <3>3 DEF SubscriptionStored
    <2>5. ASSUME NEW k \in Tasks, SubscriptionFailed(k)
          PROVE  Inductive'
      BY <2>1, <2>2, <2>5, TaskStep DEF SubscriptionFailed, TypeOK
    <2>6. ASSUME NEW k \in Tasks, NEW event \in Events, NEW record \in TaskRecords \cup {None},
                 task[k] \in TaskRecords,
                 SendDriverUpdate(task[k].client, task[k].driver, event),
                 Goto(k, record), UNCHANGED connected
          PROVE  Inductive'
      <3>1. task[k].client \in Clients /\ task[k].driver \in Drivers
        BY <2>6 DEF TaskRecords
      <3>2. /\ TimersTyped' /\ OneTimerPerClient'
            /\ offline' \in [Clients -> Drivers \cup {None}]
        BY <2>1, <2>6, <3>1, SendKeeps DEF TypeOK
      <3>3. task' \in [Tasks -> TaskRecords \cup {None}]
        BY <2>1, <2>6, TaskStep
      <3>4. QED
        BY <2>1, <2>6, <3>2, <3>3 DEF Inductive, TypeOK, TimersTyped
    <2>7. ASSUME NEW k \in Tasks, NEW event \in Events, FirstUpdateSent(k, event)
          PROVE  Inductive'
      <3>1. task[k] \in TaskRecords
        BY <2>1, <2>7, DoingFacts DEF FirstUpdateSent
      <3>2. [task[k] EXCEPT !.at = "arming"] \in TaskRecords
        BY <3>1, TaskMoves
      <3>3. QED
        BY <2>6, <2>7, <3>1, <3>2 DEF FirstUpdateSent
    <2>8. ASSUME NEW k \in Tasks, NEW event \in Events, PeriodicUpdateSent(k, event)
          PROVE  Inductive'
      <3>1. task[k] \in TaskRecords
        BY <2>1, <2>8, DoingFacts DEF PeriodicUpdateSent
      <3>2. QED
        BY <2>6, <2>8, <3>1 DEF PeriodicUpdateSent
    <2>9. ASSUME NEW k \in Tasks, ConfigureInterval(k)
          PROVE  Inductive'
      <3>1. task[k].client \in Clients /\ task[k].driver \in Drivers
        BY <2>1, <2>9, DoingFacts DEF ConfigureInterval
      <3>2. TimersTyped' /\ OneTimerPerClient'
        BY <2>1, <2>9, <3>1, ScheduleType, ScheduleKeeps DEF ConfigureInterval, Periods
      <3>3. task' \in [Tasks -> TaskRecords \cup {None}]
        BY <2>1, <2>9, TaskStep DEF ConfigureInterval
      <3>4. QED
        BY <2>1, <2>9, <3>2, <3>3 DEF ConfigureInterval, Inductive, TypeOK, TimersTyped
    <2>10. ASSUME NEW k \in Tasks, NEW t \in TimerIds, Tick(k, t)
           PROVE  Inductive'
      <3>1. [at |-> "tick", client |-> timers[t].client, driver |-> timers[t].driver]
                \in TaskRecords
        BY <2>1, <2>10 DEF Tick, TimersTyped, Intervals, TaskRecords
      <3>2. QED
        BY <2>1, <2>2, <2>10, <3>1, TaskStep DEF Tick, TypeOK
    <2>11. ASSUME NEW k \in Tasks, UpdateFailed(k)
           PROVE  Inductive'
      <3>1. CASE Doing(k, "first") /\ Goto(k, [task[k] EXCEPT !.at = "arming"])
        <4>1. [task[k] EXCEPT !.at = "arming"] \in TaskRecords
          BY <2>1, <3>1, DoingFacts, TaskMoves
        <4>2. QED
          BY <2>1, <2>2, <2>11, <3>1, <4>1, TaskStep DEF UpdateFailed, TypeOK
      <3>2. CASE Doing(k, "tick") /\ Goto(k, None)
        BY <2>1, <2>2, <2>11, <3>2, TaskStep DEF UpdateFailed, TypeOK
      <3>3. QED
        BY <2>11, <3>1, <3>2 DEF UpdateFailed
    <2>12. ASSUME NEW c \in Clients, HandleDisconnect(c)
           PROVE  Inductive'
      <3>1. /\ timers' = Cleared(c)
            /\ clientIntervals' = [clientIntervals EXCEPT ![c] = None]
        BY <2>12 DEF HandleDisconnect
      <3>2. TimersTyped'
        BY <2>1, <3>1, ClearedFacts DEF TimersTyped
      <3>3. /\ clientIntervals'[c] = None
            /\ \A x \in Clients \ {c} : clientIntervals'[x] = clientIntervals[x]
        BY <2>1, <3>1 DEF TimersTyped
      <3>4. ASSUME NEW u \in TimerIds, timers'[u] # None
            PROVE  clientIntervals'[timers'[u].client] = u
        <4>1. timers'[u] = timers[u] /\ timers[u] # None /\ timers[u].client # c
          BY <2>1, <3>1, <3>4, ClearedFacts
        <4>2. timers[u].client \in Clients
          BY <2>1, <4>1 DEF TimersTyped, Intervals
        <4>3. QED
          BY <2>1, <3>3, <4>1, <4>2 DEF OneTimerPerClient
      <3>5. ASSUME NEW x \in Clients, clientIntervals'[x] # None
            PROVE  /\ timers'[clientIntervals'[x]] # None
                   /\ timers'[clientIntervals'[x]].client = x
        <4>1. /\ x # c /\ clientIntervals'[x] = clientIntervals[x]
              /\ timers[clientIntervals[x]] # None
              /\ timers[clientIntervals[x]].client = x
          BY <2>1, <3>3, <3>5 DEF OneTimerPerClient
        <4>2. clientIntervals[x] \in TimerIds
          BY <2>1, <3>5, <4>1 DEF TimersTyped
        <4>3. QED
          BY <2>1, <3>1, <4>1, <4>2, ClearedFacts
      <3>6. OneTimerPerClient'
        BY <3>4, <3>5 DEF OneTimerPerClient
      <3>7. QED
        BY <2>1, <2>12, <3>2, <3>6 DEF HandleDisconnect, Inductive, TypeOK, TimersTyped
    <2>13. CASE UNCHANGED vars
      BY <2>1, <2>2, <2>13 DEF vars, TypeOK
    <2>14. QED
      BY <1>2, <2>3, <2>4, <2>5, <2>7, <2>8, <2>9, <2>10, <2>11, <2>12, <2>13
         DEF Next, Progress
  <1>3. QED
    BY <1>1, <1>2

\* Every reachable state has the types TypeOK gives its parts.
THEOREM TypeCorrect == Spec => []TypeOK
  <1>1. Inductive => TypeOK
    BY DEF Inductive
  <1>2. QED
    BY <1>1, InductiveStep, PTL DEF Spec

\* However subscriptions, ticks and disconnects overlap, clientIntervals holds
\* exactly the live intervals, at most one for each client.
THEOREM OneTimer == Spec => []OneTimerPerClient
  <1>1. Inductive => OneTimerPerClient
    BY DEF Inductive
  <1>2. QED
    BY <1>1, InductiveStep, PTL DEF Spec

-----------------------------------------------------------------------------
(* The period of an interval *)

\* The conjunct of SlowOnlyWhenOffline about one interval.
Truthful(t) ==
    (/\ timers[t] # None
     /\ timers[t].client \in connected
     /\ timers[t].period = "OFFLINE_UPDATE_INTERVAL")
        => offline[timers[t].client] = timers[t].driver

\* An interval the step leaves as it is remains truthful, if its client is told
\* nothing and does not connect.
LEMMA TruthfulKept ==
    ASSUME NEW t \in TimerIds, Truthful(t), timers'[t] = timers[t],
           connected' \subseteq connected,
           timers[t] # None => offline'[timers[t].client] = offline[timers[t].client]
    PROVE  Truthful(t)'
  BY DEF Truthful

\* What setting the client's interval makes of each interval.
LEMMA ScheduleEach ==
    ASSUME TimersTyped, OneTimerPerClient, NEW c \in Clients, NEW d \in Drivers,
           NEW period \in Periods, Schedule(c, d, period), NEW u \in TimerIds
    PROVE  \/ timers'[u] = [client |-> c, driver |-> d, period |-> period]
           \/ timers'[u] = None
           \/ timers'[u] = timers[u] /\ timers[u].client # c
  <1>1. PICK t \in TimerIds :
            timers' = [Cleared(c) EXCEPT ![t] = [client |-> c, driver |-> d, period |-> period]]
    BY DEF Schedule
  <1>2. CASE u = t
    BY <1>1, <1>2, ClearedFacts
  <1>3. CASE u # t
    BY <1>1, <1>3, ClearedFacts
  <1>4. QED
    BY <1>2, <1>3

\* sendDriverUpdate sets a slow interval only when it has told its client so.
LEMMA SendTruthful ==
    ASSUME Inductive, SlowOnlyWhenOffline, NEW c \in Clients, NEW d \in Drivers,
           NEW event \in Events, SendDriverUpdate(c, d, event), UNCHANGED connected,
           NEW u \in TimerIds
    PROVE  Truthful(u)'
  <1>1. /\ TimersTyped /\ OneTimerPerClient /\ Truthful(u)
        /\ offline \in [Clients -> Drivers \cup {None}]
    BY DEF Inductive, TypeOK, TimersTyped, SlowOnlyWhenOffline, Truthful
  <1>2. /\ \A x \in Clients \ {c} : offline'[x] = offline[x]
        /\ c \in connected /\ event = "driver-offline" => offline'[c] = d
    BY <1>1 DEF SendDriverUpdate, Emit
  <1>3. timers[u] # None => timers[u].client \in Clients
    BY <1>1 DEF TimersTyped, Intervals
  <1>4. ASSUME timers'[u] = timers[u], timers[u] # None => timers[u].client # c
        PROVE  Truthful(u)'
    BY <1>1, <1>2, <1>3, <1>4, TruthfulKept
  <1>5. ASSUME timers'[u] = None
        PROVE  Truthful(u)'
    BY <1>5 DEF Truthful
  <1>6. CASE clientIntervals[c] # None /\ Schedule(c, d, PeriodFor(event))
    <2>1. PeriodFor(event) \in Periods
      BY DEF PeriodFor, Periods
    <2>2. CASE timers'[u] = [client |-> c, driver |-> d, period |-> PeriodFor(event)]
      <3>1. timers'[u].period = "OFFLINE_UPDATE_INTERVAL" => event = "driver-offline"
        BY <2>2 DEF PeriodFor, Events
      <3>2. timers'[u].client = c /\ timers'[u].driver = d
        BY <2>2
      <3>3. QED
        BY <1>2, <3>1, <3>2 DEF Truthful
    <2>3. QED
      BY <1>1, <1>4, <1>5, <1>6, <2>1, <2>2, ScheduleEach
  <1>7. CASE clientIntervals[c] = None /\ UNCHANGED <<clientIntervals, timers>>
    BY <1>1, <1>4, <1>7, NoneFacts DEF OneTimerPerClient
  <1>8. QED
    BY <1>6, <1>7 DEF SendDriverUpdate

\* However updates, subscriptions and disconnects overlap, a slow interval belongs
\* to a client that was last told that the interval's driver is offline.
THEOREM SlowIsTruthful == Spec => []SlowOnlyWhenOffline
  <1>1. Init => SlowOnlyWhenOffline
    BY DEF Init, SlowOnlyWhenOffline
  <1>2. Inductive /\ SlowOnlyWhenOffline /\ [Next]_vars => SlowOnlyWhenOffline'
    <2> SUFFICES ASSUME Inductive, SlowOnlyWhenOffline, [Next]_vars, NEW u \in TimerIds
                 PROVE  Truthful(u)'
      BY DEF SlowOnlyWhenOffline, Truthful
    <2>1. /\ TypeOK /\ TimersTyped /\ OneTimerPerClient /\ Truthful(u)
          /\ offline \in [Clients -> Drivers \cup {None}]
      BY DEF Inductive, TypeOK, TimersTyped, SlowOnlyWhenOffline, Truthful
    <2>2. ASSUME UNCHANGED <<connected, timers, offline>>
          PROVE  Truthful(u)'
      BY <2>1, <2>2, TruthfulKept
    <2>3. ASSUME NEW k \in Tasks, NEW c \in Clients, NEW d \in Drivers,
                 HandleSubscription(k, c, d)
          PROVE  Truthful(u)'
      BY <2>2, <2>3 DEF HandleSubscription
    <2>4. ASSUME NEW k \in Tasks,
                 SubscriptionStored(k) \/ SubscriptionFailed(k) \/ UpdateFailed(k)
          PROVE  Truthful(u)'
      BY <2>2, <2>4 DEF SubscriptionStored, SubscriptionFailed, UpdateFailed
    <2>5. ASSUME NEW k \in Tasks, NEW event \in Events,
                 FirstUpdateSent(k, event) \/ PeriodicUpdateSent(k, event)
          PROVE  Truthful(u)'
      <3>1. task[k].client \in Clients /\ task[k].driver \in Drivers
        BY <2>1, <2>5, DoingFacts DEF FirstUpdateSent, PeriodicUpdateSent
      <3>2. QED
        BY <2>5, <3>1, SendTruthful DEF FirstUpdateSent, PeriodicUpdateSent
    <2>6. ASSUME NEW k \in Tasks, ConfigureInterval(k)
          PROVE  Truthful(u)'
      <3>1. task[k].client \in Clients /\ task[k].driver \in Drivers
        BY <2>1, <2>6, DoingFacts DEF ConfigureInterval
      <3>2. \/ timers'[u] = [client |-> task[k].client, driver |-> task[k].driver,
                             period |-> "ONLINE_UPDATE_INTERVAL"]
            \/ timers'[u] = None
            \/ timers'[u] = timers[u]
        BY <2>1, <2>6, <3>1, ScheduleEach DEF ConfigureInterval, Periods
      <3>3. timers'[u] = timers[u] => Truthful(u)'
        BY <2>1, <2>6, TruthfulKept DEF ConfigureInterval
      <3>4. QED
        BY <3>2, <3>3 DEF Truthful
    <2>7. ASSUME NEW k \in Tasks, NEW t \in TimerIds, Tick(k, t)
          PROVE  Truthful(u)'
      BY <2>2, <2>7 DEF Tick
    <2>8. ASSUME NEW c \in Clients, HandleDisconnect(c)
          PROVE  Truthful(u)'
      <3>1. timers'[u] = None \/ (timers'[u] = timers[u] /\ timers[u].client # c)
        BY <2>1, <2>8, ClearedFacts DEF HandleDisconnect
      <3>2. \A x \in Clients \ {c} : offline'[x] = offline[x]
        BY <2>1, <2>8 DEF HandleDisconnect
      <3>3. timers[u] # None => timers[u].client \in Clients
        BY <2>1 DEF TimersTyped, Intervals
      <3>4. connected' \subseteq connected
        BY <2>8 DEF HandleDisconnect
      <3>5. CASE timers'[u] = None
        BY <3>5 DEF Truthful
      <3>6. CASE timers'[u] = timers[u] /\ timers[u].client # c
        BY <2>1, <3>2, <3>3, <3>4, <3>6, TruthfulKept
      <3>7. QED
        BY <3>1, <3>5, <3>6
    <2>9. CASE UNCHANGED vars
      BY <2>2, <2>9 DEF vars
    <2>10. QED
      BY <2>3, <2>4, <2>5, <2>6, <2>7, <2>8, <2>9 DEF Next, Progress
  <1>3. QED
    BY <1>1, <1>2, InductiveStep, PTL DEF Spec

-----------------------------------------------------------------------------
(* A client that is gone *)

\* A step that gives no interval and no subscription to c leaves it gone.
LEMMA GoneKept ==
    ASSUME TypeOK, NEW c \in Clients, Gone(c), NEW k \in Tasks,
           NEW record, Goto(k, record),
           record = None \/ record.client # c \/ record.at = "tick",
           connected' \subseteq connected,
           clientIntervals'[c] = None
    PROVE  Gone(c)'
  <1>1. \A other \in Tasks \ {k} : task'[other] = task[other]
    BY DEF Goto, TypeOK
  <1>2. task'[k] = record
    BY DEF Goto, TypeOK
  <1>3. QED
    BY <1>1, <1>2 DEF Gone, Subscribing

\* Setting an interval for another client.
LEMMA ScheduleOther ==
    ASSUME TypeOK, NEW c \in Clients, NEW x \in Clients \ {c}, NEW d, NEW period,
           Schedule(x, d, period)
    PROVE  clientIntervals'[c] = clientIntervals[c]
  BY DEF Schedule, TypeOK

\* sendDriverUpdate gives no interval to a client that has none.
LEMMA SendGone ==
    ASSUME TypeOK, NEW c \in Clients, Gone(c), NEW x \in Clients, NEW d, NEW event,
           SendDriverUpdate(x, d, event)
    PROVE  clientIntervals'[c] = None
  BY ScheduleOther DEF SendDriverUpdate, Gone

\* Only a subscription under way at the disconnect can bring the interval of a
\* client back: a client that is gone stays gone, whatever ticks are in flight.
THEOREM NoResurrection == Spec => GoneStaysGone
  <1>1. TypeOK /\ [Next]_vars => [\A c \in Clients : Gone(c) => Gone(c)']_vars
    <2> SUFFICES ASSUME TypeOK, [Next]_vars, NEW c \in Clients, Gone(c)
                 PROVE  Gone(c)' \/ UNCHANGED vars
      OBVIOUS
    <2>1. ASSUME NEW k \in Tasks, task[k] # None, task[k].client = c
          PROVE  task[k].at = "tick"
      BY <2>1 DEF Gone, Subscribing
    <2>2. clientIntervals[c] = None /\ c \notin connected
      BY DEF Gone
    <2>3. ASSUME NEW k \in Tasks, NEW x \in Clients, NEW d \in Drivers,
                 HandleSubscription(k, x, d)
          PROVE  Gone(c)'
      BY <2>2, <2>3, GoneKept DEF HandleSubscription
    <2>4. ASSUME NEW k \in Tasks, NEW record, Goto(k, record),
                 record = None \/ record.client = task[k].client,
                 task[k] # None, task[k].at # "tick", connected' = connected,
                 clientIntervals'[c] = None
          PROVE  Gone(c)'
      BY <2>1, <2>4, GoneKept
    <2>5. ASSUME NEW k \in Tasks, NEW at, Doing(k, at), NEW next \in {"first", "arming"}
          PROVE  [task[k] EXCEPT !.at = next].client = task[k].client
      BY <2>5, DoingFacts DEF TaskRecords
    <2>6. ASSUME NEW k \in Tasks, SubscriptionStored(k) \/ SubscriptionFailed(k)
          PROVE  Gone(c)'
      <3>1. Doing(k, "subscribing")
        BY <2>6 DEF SubscriptionStored, SubscriptionFailed
      <3> DEFINE record == [task[k] EXCEPT !.at = "first"]
      <3>2. record.client = task[k].client
        BY <2>5, <3>1
      <3>3. Goto(k, record) \/ Goto(k, None)
        BY <2>6 DEF SubscriptionStored, SubscriptionFailed
      <3> HIDE DEF record
      <3>4. QED
        BY <2>2, <2>4, <2>6, <3>1, <3>2, <3>3
           DEF SubscriptionStored, SubscriptionFailed, Doing
    <2>7. ASSUME NEW k \in Tasks, NEW event \in Events, FirstUpdateSent(k, event)
          PROVE  Gone(c)'
      <3> DEFINE record == [task[k] EXCEPT !.at = "arming"]
      <3>1. Doing(k, "first") /\ Goto(k, record)
        BY <2>7 DEF FirstUpdateSent
      <3>2. record.client = task[k].client
        BY <2>5, <3>1
      <3>3. clientIntervals'[c] = None
        BY <2>7, <3>1, DoingFacts, SendGone DEF FirstUpdateSent
      <3> HIDE DEF record
      <3>4. QED
        BY <2>4, <2>7, <3>1, <3>2, <3>3 DEF FirstUpdateSent, Doing
    <2>8. ASSUME NEW k \in Tasks, NEW event \in Events, PeriodicUpdateSent(k, event)
          PROVE  Gone(c)'
      <3>1. clientIntervals'[c] = None
        BY <2>8, DoingFacts, SendGone DEF PeriodicUpdateSent
      <3>2. QED
        BY <2>8, <3>1, GoneKept DEF PeriodicUpdateSent
    <2>9. ASSUME NEW k \in Tasks, ConfigureInterval(k)
          PROVE  Gone(c)'
      <3>1. Doing(k, "arming") /\ task[k].client \in Clients
        BY <2>9, DoingFacts DEF ConfigureInterval
      <3>2. task[k].client # c
        BY <2>1, <3>1 DEF Doing
      <3>3. clientIntervals'[c] = None
        BY <2>2, <2>9, <3>1, <3>2, ScheduleOther DEF ConfigureInterval
      <3>4. QED
        BY <2>9, <3>3, GoneKept DEF ConfigureInterval
    <2>10. ASSUME NEW k \in Tasks, NEW t \in TimerIds, Tick(k, t)
           PROVE  Gone(c)'
      BY <2>2, <2>10, GoneKept DEF Tick
    <2>11. ASSUME NEW k \in Tasks, UpdateFailed(k)
           PROVE  Gone(c)'
      <3> DEFINE record == [task[k] EXCEPT !.at = "arming"]
      <3>1. CASE Doing(k, "first") /\ Goto(k, record)
        <4>1. record.client = task[k].client
          BY <2>5, <3>1
        <4> HIDE DEF record
        <4>2. QED
          BY <2>2, <2>4, <2>11, <3>1, <4>1 DEF UpdateFailed, Doing
      <3>2. CASE Goto(k, None)
        BY <2>2, <2>11, <3>2, GoneKept DEF UpdateFailed
      <3>3. QED
        BY <2>11, <3>1, <3>2 DEF UpdateFailed
    <2>12. ASSUME NEW x \in Clients, HandleDisconnect(x)
           PROVE  Gone(c)'
      BY <2>2, <2>12 DEF HandleDisconnect, Gone, Subscribing, TypeOK
    <2>13. QED
      BY <2>3, <2>6, <2>7, <2>8, <2>9, <2>10, <2>11, <2>12 DEF Next, Progress
  <1>2. QED
    BY <1>1, TypeCorrect, PTL DEF Spec, GoneStaysGone
=============================================================================
