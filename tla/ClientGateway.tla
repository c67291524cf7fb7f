---------------------------- MODULE ClientGateway ----------------------------
(***************************************************************************)
(* The ClientGateway class of realtime-service: the sockets of clients,    *)
(* and the interval that sends each of them the state of the driver it     *)
(* follows.  Every update sent replaces the client's interval by one whose *)
(* period fits the answer.                                                 *)
(*                                                                         *)
(* An action is the code between two awaits; a call of handleSubscription  *)
(* or a tick that awaits is a member of Tasks.  What RealtimeService       *)
(* answers is any of the outcomes its interface allows.  Socket ids are    *)
(* not used twice.  Time is left out: a live interval may fire.            *)
(***************************************************************************)
CONSTANTS
    Clients,    \* socket ids
    Drivers,
    TimerIds,   \* the objects setInterval returns
    Tasks,      \* the handlers and ticks that may be in progress together
    None

VARIABLES
    connected,       \* the sockets that are open
    clientIntervals, \* client -> its registered interval, or None
    timers,          \* the intervals that are set and not cleared
    task,            \* Tasks -> what each one is doing
    offline          \* client -> the driver that the last update it got said is
                     \* offline, or None (history variable)

vars == <<connected, clientIntervals, timers, task, offline>>

Periods == {"ONLINE_UPDATE_INTERVAL", "OFFLINE_UPDATE_INTERVAL"}
Events == {"driver-update", "driver-offline"}
Intervals == [client : Clients, driver : Drivers, period : Periods]
TaskRecords ==
    [at : {"subscribing", "first", "arming", "tick"},
     client : Clients, driver : Drivers]

ASSUME NoneAssumption ==
    None \notin Clients \cup Drivers \cup TimerIds \cup Intervals \cup TaskRecords

Init ==
    /\ connected = Clients
    /\ clientIntervals = [c \in Clients |-> None]
    /\ timers = [t \in TimerIds |-> None]
    /\ task = [k \in Tasks |-> None]
    /\ offline = [c \in Clients |-> None]

-----------------------------------------------------------------------------
(* Helpers *)

Doing(k, at) == task[k] # None /\ task[k].at = at

\* Which of the idle tasks a handler becomes does not matter.
Idle == CHOOSE k \in Tasks : task[k] = None

Goto(k, record) == task' = [task EXCEPT ![k] = record]

\* clearInterval of the client's interval, if it has one.
Cleared(c) == [t \in TimerIds |-> IF t = clientIntervals[c] THEN None ELSE timers[t]]

\* What setInterval returns: which unused object it is does not matter.
Unused == CHOOSE t \in TimerIds : timers[t] = None

\* Mutant: the previous interval is forgotten, not cleared.
ScheduleUncleared(c, d, period) ==
    \E t \in TimerIds :
        /\ t = Unused /\ timers[t] = None
        /\ timers' = [timers EXCEPT ![t] = [client |-> c, driver |-> d, period |-> period]]
        /\ clientIntervals' = [clientIntervals EXCEPT ![c] = t]

\* Mutant: the previous interval is cleared, the new one is not set.
ScheduleCleared(c, d, period) ==
    \/ clientIntervals[c] = None /\ ScheduleUncleared(c, d, period)
    \/ /\ clientIntervals[c] # None
       /\ timers' = Cleared(c)
       /\ UNCHANGED clientIntervals

\* clearInterval, setInterval, and the new interval in the map.
Schedule(c, d, period) ==
    \E t \in TimerIds :
        /\ t = Unused /\ timers[t] = None
        /\ timers' = [Cleared(c) EXCEPT ![t] =
                        [client |-> c, driver |-> d, period |-> period]]
        /\ clientIntervals' = [clientIntervals EXCEPT ![c] = t]

\* Mutant: the period of an offline driver is kept when it is back.
PeriodForOffline(event) == "OFFLINE_UPDATE_INTERVAL"

PeriodFor(event) ==
    IF event = "driver-update" THEN "ONLINE_UPDATE_INTERVAL" ELSE "OFFLINE_UPDATE_INTERVAL"

\* What is sent to a socket that has closed gets nowhere.
Emit(c, d, event) ==
    offline' = IF c \in connected
               THEN [offline EXCEPT ![c] = IF event = "driver-offline" THEN d ELSE None]
               ELSE offline

\* Mutant: schedules whether or not the client has an interval.
SendDriverUpdateAlways(c, d, event) ==
    /\ Emit(c, d, event)
    /\ Schedule(c, d, PeriodFor(event))

\* sendDriverUpdate, after its await: no location or profile, or a location more
\* than ten minutes old, makes the driver offline.
SendDriverUpdate(c, d, event) ==
    /\ Emit(c, d, event)
    /\ \/ clientIntervals[c] # None /\ Schedule(c, d, PeriodFor(event))
       \/ clientIntervals[c] = None /\ UNCHANGED <<clientIntervals, timers>>

-----------------------------------------------------------------------------
(* The handlers *)

\* Mutant: the arguments are swapped.
HandleSubscriptionSwapped(k, c, d) ==
    /\ c \in connected
    /\ task[k] = None /\ k = Idle
    /\ Goto(k, [at |-> "subscribing", client |-> d, driver |-> c])
    /\ UNCHANGED <<connected, clientIntervals, timers, offline>>

HandleSubscription(k, c, d) ==
    /\ c \in connected
    /\ task[k] = None /\ k = Idle
    /\ Goto(k, [at |-> "subscribing", client |-> c, driver |-> d])
    /\ UNCHANGED <<connected, clientIntervals, timers, offline>>

\* subscribeToDriverUpdates is done; sendDriverUpdate asks for the data.
SubscriptionStored(k) ==
    /\ Doing(k, "subscribing")
    /\ Goto(k, [task[k] EXCEPT !.at = "first"])
    /\ UNCHANGED <<connected, clientIntervals, timers, offline>>

\* subscribeToDriverUpdates threw: the client is told, its interval goes on.
SubscriptionFailed(k) ==
    /\ Doing(k, "subscribing")
    /\ Goto(k, None)
    /\ UNCHANGED <<connected, clientIntervals, timers, offline>>

\* The first update is sent; handleSubscription goes on after its await.
FirstUpdateSent(k, event) ==
    /\ Doing(k, "first")
    /\ SendDriverUpdate(task[k].client, task[k].driver, event)
    /\ Goto(k, [task[k] EXCEPT !.at = "arming"])
    /\ UNCHANGED connected

ConfigureInterval(k) ==
    /\ Doing(k, "arming")
    /\ Schedule(task[k].client, task[k].driver, "ONLINE_UPDATE_INTERVAL")
    /\ Goto(k, None)
    /\ UNCHANGED <<connected, offline>>

Tick(k, t) ==
    /\ timers[t] # None
    /\ task[k] = None /\ k = Idle
    /\ Goto(k, [at |-> "tick", client |-> timers[t].client, driver |-> timers[t].driver])
    /\ UNCHANGED <<connected, clientIntervals, timers, offline>>

PeriodicUpdateSent(k, event) ==
    /\ Doing(k, "tick")
    /\ SendDriverUpdate(task[k].client, task[k].driver, event)
    /\ Goto(k, None)
    /\ UNCHANGED connected

\* getDriverLocationAndProfile threw: sendDriverUpdate logs it and returns.
UpdateFailed(k) ==
    /\ \/ Doing(k, "first") /\ Goto(k, [task[k] EXCEPT !.at = "arming"])
       \/ Doing(k, "tick") /\ Goto(k, None)
    /\ UNCHANGED <<connected, clientIntervals, timers, offline>>

HandleDisconnect(c) ==
    /\ c \in connected
    /\ connected' = connected \ {c}
    /\ timers' = Cleared(c)
    /\ clientIntervals' = [clientIntervals EXCEPT ![c] = None]
    /\ offline' = [offline EXCEPT ![c] = None]
    /\ UNCHANGED task

Progress(k) ==
    \/ SubscriptionStored(k)
    \/ SubscriptionFailed(k)
    \/ \E event \in Events : FirstUpdateSent(k, event) \/ PeriodicUpdateSent(k, event)
    \/ UpdateFailed(k)
    \/ ConfigureInterval(k)

Next ==
    \/ \E k \in Tasks, c \in Clients, d \in Drivers : HandleSubscription(k, c, d)
    \/ \E k \in Tasks : Progress(k)
    \/ \E k \in Tasks, t \in TimerIds : Tick(k, t)
    \/ \E c \in Clients : HandleDisconnect(c)

Spec == Init /\ [][Next]_vars

TicksFor(c) ==
    \E k \in Tasks, t \in TimerIds :
        timers[t] # None /\ timers[t].client = c /\ Tick(k, t)

\* RealtimeService answers every call, and the interval of a client fires.  The
\* bound on Tasks may disable a tick for a while, hence strong fairness.
FairSpec ==
    /\ Spec
    /\ \A k \in Tasks : WF_vars(Progress(k))
    /\ \A c \in Clients : SF_vars(TicksFor(c))

-----------------------------------------------------------------------------
(* Properties *)

\* Types of the state.
TypeOK ==
    /\ connected \in SUBSET Clients
    /\ clientIntervals \in [Clients -> TimerIds \cup {None}]
    /\ timers \in [TimerIds -> Intervals \cup {None}]
    /\ task \in [Tasks -> TaskRecords \cup {None}]
    /\ offline \in [Clients -> Drivers \cup {None}]

\* clientIntervals holds exactly the live intervals, one per client at most:
\* handlers and ticks that overlap, each replacing the interval, never leave
\* one running that nobody can clear (client.gateway.ts:40-45).
OneTimerPerClient ==
    /\ \A t \in TimerIds : timers[t] # None => clientIntervals[timers[t].client] = t
    /\ \A c \in Clients : clientIntervals[c] # None =>
          /\ timers[clientIntervals[c]] # None
          /\ timers[clientIntervals[c]].client = c

\* The slow interval of a client is one whose driver the client was told, in the
\* last update sent to it, is offline: no overlap of updates, subscriptions and
\* disconnects leaves a client served every minute about a driver it was last
\* shown online, or about another driver than it was last told of.
SlowOnlyWhenOffline ==
    \A t \in TimerIds :
        (/\ timers[t] # None
         /\ timers[t].client \in connected
         /\ timers[t].period = "OFFLINE_UPDATE_INTERVAL")
            => offline[timers[t].client] = timers[t].driver

Subscribing(c) ==
    \E k \in Tasks : task[k] # None /\ task[k].client = c /\ task[k].at # "tick"

Gone(c) == c \notin connected /\ clientIntervals[c] = None /\ ~Subscribing(c)

\* Ticks that were waiting for data when a client left do not bring its interval
\* back: without a subscription in progress, a client that is gone stays gone.
GoneStaysGone == [][\A c \in Clients : Gone(c) => Gone(c)']_vars

\* A client that has an interval keeps being served until it disconnects.
ServedForEver ==
    \A c \in Clients :
        clientIntervals[c] # None /\ c \in connected ~>
            c \notin connected \/ \E k \in Tasks : Doing(k, "tick") /\ task[k].client = c
=============================================================================
