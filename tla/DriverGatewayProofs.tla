------------------------- MODULE DriverGatewayProofs -------------------------
(***************************************************************************)
(* SocketsWatched, for every set of sockets, drivers, tokens and tasks:    *)
(* with TypeOK it is inductive, because the two maps and the intervals are *)
(* only ever changed together, by ScheduleTokenValidation or by Forget.    *)
(***************************************************************************)
EXTENDS DriverGateway, TLAPS

\* The part of TypeOK about the entries.
EntriesTyped ==
    /\ driverSockets \in [Sockets -> Drivers \cup {None}]
    /\ tokenValidationTimers \in [Sockets -> TimerIds \cup {None}]
    /\ timers \in [TimerIds -> Watches \cup {None}]

LEMMA NoneFacts ==
    /\ None \notin Sockets /\ None \notin Drivers /\ None \notin Tokens
    /\ None \notin TimerIds /\ None \notin Watches /\ None \notin TaskRecords
  BY NoneAssumption

\* What SocketsWatched says of one socket.
Entry(s) ==
    \/ driverSockets[s] = None /\ tokenValidationTimers[s] = None
    \/ /\ tokenValidationTimers[s] # None
       /\ timers[tokenValidationTimers[s]] # None
       /\ timers[tokenValidationTimers[s]].socket = s
       /\ driverSockets[s] = DriverOf[Watched(s)]

LEMMA EntryOfEach ==
    SocketsWatched <=>
        /\ \A t \in TimerIds : timers[t] # None => tokenValidationTimers[timers[t].socket] = t
        /\ \A s \in Sockets : Entry(s)
  BY DEF SocketsWatched, Entry

\* Clearing the socket's interval leaves the other sockets' alone.
LEMMA ClearedFacts ==
    ASSUME EntriesTyped, SocketsWatched, NEW s \in Sockets
    PROVE  /\ Cleared(s) \in [TimerIds -> Watches \cup {None}]
           /\ \A t \in TimerIds : Cleared(s)[t] # None =>
                 Cleared(s)[t] = timers[t] /\ timers[t].socket # s
           /\ \A t \in TimerIds :
                 timers[t] # None /\ timers[t].socket # s => Cleared(s)[t] = timers[t]
  BY NoneFacts DEF Cleared, EntriesTyped, SocketsWatched

\* Another socket's entry does not notice that s's interval is cleared and that
\* an unused one is set.
LEMMA OtherEntry ==
    ASSUME EntriesTyped, SocketsWatched, NEW s \in Sockets, NEW x \in Sockets \ {s},
           driverSockets'[x] = driverSockets[x],
           tokenValidationTimers'[x] = tokenValidationTimers[x],
           \A t \in TimerIds : timers[t] # None => timers'[t] = Cleared(s)[t]
    PROVE  Entry(x)'
  <1>1. Entry(x)
    BY EntryOfEach
  <1>2. CASE tokenValidationTimers[x] = None
    BY <1>1, <1>2 DEF Entry
  <1>3. CASE tokenValidationTimers[x] # None
    <2> DEFINE t == tokenValidationTimers[x]
    <2>1. t \in TimerIds /\ timers[t] # None /\ timers[t].socket = x
      BY <1>1, <1>3 DEF Entry, EntriesTyped
    <2>2. timers'[t] = timers[t]
      BY <2>1, ClearedFacts
    <2>3. QED
      BY <1>1, <1>3, <2>1, <2>2 DEF Entry, Watched
  <1>4. QED
    BY <1>2, <1>3

\* handleDisconnect and an expired token keep the entries.
LEMMA ForgetKeeps ==
    ASSUME EntriesTyped, SocketsWatched, NEW s \in Sockets, Forget(s)
    PROVE  EntriesTyped' /\ SocketsWatched'
  <1>1. EntriesTyped'
    BY ClearedFacts DEF Forget, EntriesTyped
  <1>2. /\ timers' = Cleared(s)
        /\ driverSockets'[s] = None /\ tokenValidationTimers'[s] = None
        /\ \A x \in Sockets \ {s} :
              /\ driverSockets'[x] = driverSockets[x]
              /\ tokenValidationTimers'[x] = tokenValidationTimers[x]
    BY DEF Forget, EntriesTyped
  <1>3. ASSUME NEW x \in Sockets PROVE Entry(x)'
    <2>1. CASE x = s
      BY <1>2, <2>1 DEF Entry
    <2>2. CASE x # s
      BY <1>2, <2>2, OtherEntry
    <2>3. QED
      BY <2>1, <2>2
  <1>4. ASSUME NEW t \in TimerIds, timers'[t] # None
        PROVE  tokenValidationTimers'[timers'[t].socket] = t
    <2>1. timers'[t] = timers[t] /\ timers[t] # None /\ timers[t].socket # s
      BY <1>2, <1>4, ClearedFacts
    <2>2. timers[t].socket \in Sockets
      BY <2>1 DEF EntriesTyped, Watches
    <2>3. QED
      BY <1>2, <2>1, <2>2 DEF SocketsWatched
  <1>5. QED
    BY <1>1, <1>3, <1>4 DEF SocketsWatched, Entry

\* So does an authentication.
LEMMA ScheduleKeeps ==
    ASSUME EntriesTyped, SocketsWatched, NEW s \in Sockets, NEW token \in Tokens,
           driverSockets' = [driverSockets EXCEPT ![s] = DriverOf[token]],
           ScheduleTokenValidation(s, token)
    PROVE  EntriesTyped' /\ SocketsWatched'
  <1> DEFINE watch == [socket |-> s, token |-> token]
  <1>1. watch \in Watches /\ watch.socket = s /\ watch.token = token
    BY DEF Watches
  <1>2. PICK t \in TimerIds :
            /\ timers[t] = None
            /\ timers' = [Cleared(s) EXCEPT ![t] = watch]
            /\ tokenValidationTimers' = [tokenValidationTimers EXCEPT ![s] = t]
    BY DEF ScheduleTokenValidation
  <1> HIDE DEF watch
  <1>3. DriverOf[token] \in Drivers
    BY DriverOfAssumption
  <1>4. EntriesTyped'
    BY <1>1, <1>2, <1>3, ClearedFacts DEF EntriesTyped
  <1>5. /\ timers'[t] = watch
        /\ \A u \in TimerIds \ {t} : timers'[u] = Cleared(s)[u]
        /\ driverSockets'[s] = DriverOf[token] /\ tokenValidationTimers'[s] = t
        /\ \A x \in Sockets \ {s} :
              /\ driverSockets'[x] = driverSockets[x]
              /\ tokenValidationTimers'[x] = tokenValidationTimers[x]
    BY <1>2, ClearedFacts DEF EntriesTyped
  <1>6. ASSUME NEW x \in Sockets PROVE Entry(x)'
    <2>1. CASE x = s
      BY <1>1, <1>5, <2>1, NoneFacts DEF Entry, Watched
    <2>2. CASE x # s
      <3>1. \A u \in TimerIds : timers[u] # None => timers'[u] = Cleared(s)[u]
        BY <1>2, <1>5
      <3>2. QED
        BY <1>5, <2>2, <3>1, OtherEntry
    <2>3. QED
      BY <2>1, <2>2
  <1>7. ASSUME NEW u \in TimerIds, timers'[u] # None
        PROVE  tokenValidationTimers'[timers'[u].socket] = u
    <2>1. CASE u = t
      BY <1>1, <1>5, <2>1
    <2>2. CASE u # t
      <3>1. timers'[u] = timers[u] /\ timers[u] # None /\ timers[u].socket # s
        BY <1>5, <1>7, <2>2, ClearedFacts
      <3>2. timers[u].socket \in Sockets
        BY <3>1 DEF EntriesTyped, Watches
      <3>3. QED
        BY <1>5, <3>1, <3>2 DEF SocketsWatched
    <2>3. QED
      BY <2>1, <2>2
  <1>8. QED
    BY <1>4, <1>6, <1>7 DEF SocketsWatched, Entry

-----------------------------------------------------------------------------

\* A task in progress has a record of the right type.
LEMMA TaskFacts ==
    ASSUME TypeOK, NEW k \in Tasks, task[k] # None
    PROVE  /\ task[k] \in TaskRecords
           /\ task[k].socket \in Sockets /\ task[k].token \in Tokens
  BY DEF TypeOK, TaskRecords

LEMMA TaskStep ==
    ASSUME TypeOK, NEW k \in Tasks, NEW record \in TaskRecords \cup {None},
           Goto(k, record)
    PROVE  task' \in [Tasks -> TaskRecords \cup {None}]
  BY DEF Goto, TypeOK

LEMMA RequestType ==
    ASSUME NEW at \in {"authenticating", "revalidating"}, NEW s \in Sockets,
           NEW token \in Tokens
    PROVE  Request(at, s, token) \in TaskRecords
  BY DEF Request, TaskRecords, Verdicts

LEMMA VerdictType ==
    ASSUME NEW r \in TaskRecords, NEW verdict \in Verdicts
    PROVE  [r EXCEPT !.verdict = verdict] \in TaskRecords
  BY DEF TaskRecords

Inductive == TypeOK /\ SocketsWatched

LEMMA InductiveStep ==
    /\ Init => Inductive
    /\ Inductive /\ [Next]_vars => Inductive'
  <1>1. Init => Inductive
    BY NoneFacts DEF Init, Inductive, TypeOK, SocketsWatched
  <1>2. ASSUME Inductive, [Next]_vars PROVE Inductive'
    <2>1. TypeOK /\ SocketsWatched /\ EntriesTyped
      BY <1>2 DEF Inductive, TypeOK, EntriesTyped
    <2>2. ASSUME UNCHANGED <<connected, entries, accepted>>,
                 task' \in [Tasks -> TaskRecords \cup {None}], expired' \in SUBSET Tokens
          PROVE  Inductive'
      BY <2>1, <2>2 DEF Inductive, TypeOK, SocketsWatched, Watched, entries
    <2>3. ASSUME EntriesTyped', SocketsWatched', connected' \in SUBSET Sockets,
                 task' \in [Tasks -> TaskRecords \cup {None}], UNCHANGED expired,
                 accepted' \in [Sockets -> SUBSET Tokens]
          PROVE  Inductive'
      BY <2>1, <2>3 DEF Inductive, TypeOK, EntriesTyped
    <2>4. ASSUME NEW k \in Tasks, NEW s \in Sockets, NEW token \in Tokens,
                 HandleAuthentication(k, s, token)
          PROVE  Inductive'
      BY <2>1, <2>2, <2>4, RequestType, TaskStep DEF HandleAuthentication, TypeOK
    <2>5. ASSUME NEW k \in Tasks, NEW t \in TimerIds, Tick(k, t)
          PROVE  Inductive'
      <3>1. timers[t].socket \in Sockets /\ timers[t].token \in Tokens
        BY <2>1, <2>5 DEF Tick, EntriesTyped, Watches
      <3>2. QED
        BY <2>1, <2>2, <2>5, <3>1, RequestType, TaskStep DEF Tick, TypeOK
    <2>6. ASSUME NEW k \in Tasks, TokenJudged(k)
          PROVE  Inductive'
      <3>1. PICK verdict \in Verdicts :
                Goto(k, [task[k] EXCEPT !.verdict = verdict])
        BY <2>6 DEF TokenJudged
      <3>2. [task[k] EXCEPT !.verdict = verdict] \in TaskRecords
        BY <2>1, <2>6, TaskFacts, VerdictType DEF TokenJudged
      <3>3. task' \in [Tasks -> TaskRecords \cup {None}]
        BY <2>1, <3>1, <3>2, TaskStep
      <3>4. QED
        BY <2>1, <2>2, <2>6, <3>3 DEF TokenJudged, TypeOK
    <2>7. ASSUME NEW k \in Tasks, Authenticated(k)
          PROVE  Inductive'
      <3>1. task[k].socket \in Sockets /\ task[k].token \in Tokens
        BY <2>1, <2>7, TaskFacts DEF Authenticated, Doing
      <3>2. EntriesTyped' /\ SocketsWatched'
        BY <2>1, <2>7, <3>1, ScheduleKeeps DEF Authenticated
      <3>3. task' \in [Tasks -> TaskRecords \cup {None}]
        BY <2>1, <2>7, TaskStep DEF Authenticated
      <3>4. accepted' \in [Sockets -> SUBSET Tokens]
        BY <2>1, <2>7, <3>1 DEF Authenticated, TypeOK
      <3>5. QED
        BY <2>1, <2>3, <2>7, <3>2, <3>3, <3>4 DEF Authenticated, TypeOK
    <2>8. ASSUME NEW k \in Tasks, AuthenticationRefused(k) \/ TokenStillValid(k)
          PROVE  Inductive'
      BY <2>1, <2>2, <2>8, TaskStep DEF AuthenticationRefused, TokenStillValid, TypeOK
    <2>9. ASSUME NEW k \in Tasks, TokenExpired(k)
          PROVE  Inductive'
      <3>1. task[k].socket \in Sockets
        BY <2>1, <2>9, TaskFacts DEF TokenExpired, Doing
      <3>2. EntriesTyped' /\ SocketsWatched'
        BY <2>1, <2>9, <3>1, ForgetKeeps DEF TokenExpired
      <3>3. task' \in [Tasks -> TaskRecords \cup {None}]
        BY <2>1, <2>9, TaskStep DEF TokenExpired
      <3>4. accepted' \in [Sockets -> SUBSET Tokens]
        BY <2>1, <2>9 DEF TokenExpired, Forget, TypeOK
      <3>5. QED
        BY <2>1, <2>3, <2>9, <3>2, <3>3, <3>4 DEF TokenExpired, TypeOK
    <2>10. ASSUME NEW s \in Sockets, HandleDisconnect(s)
           PROVE  Inductive'
      <3>1. EntriesTyped' /\ SocketsWatched'
        BY <2>1, <2>10, ForgetKeeps DEF HandleDisconnect
      <3>2. accepted' \in [Sockets -> SUBSET Tokens]
        BY <2>1, <2>10 DEF HandleDisconnect, Forget, TypeOK
      <3>3. QED
        BY <2>1, <2>3, <2>10, <3>1, <3>2 DEF HandleDisconnect, TypeOK
    <2>11. ASSUME NEW token \in Tokens, Expire(token)
           PROVE  Inductive'
      BY <2>1, <2>2, <2>11 DEF Expire, TypeOK
    <2>12. CASE UNCHANGED vars
      BY <2>1, <2>2, <2>12 DEF vars, TypeOK
    <2>13. QED
      BY <1>2, <2>4, <2>5, <2>6, <2>7, <2>8, <2>9, <2>10, <2>11, <2>12
         DEF Next, Progress
  <1>3. QED
    BY <1>1, <1>2

\* Every reachable state has the types TypeOK gives its parts.
THEOREM TypeCorrect == Spec => []TypeOK
  <1>1. Inductive => TypeOK
    BY DEF Inductive
  <1>2. QED
    BY <1>1, InductiveStep, PTL DEF Spec

\* However authentications, validations and disconnects overlap, a socket speaks
\* for a driver exactly while one live interval watches a token of that driver.
THEOREM AlwaysWatched == Spec => []SocketsWatched
  <1>1. Inductive => SocketsWatched
    BY DEF Inductive
  <1>2. QED
    BY <1>1, InductiveStep, PTL DEF Spec

-----------------------------------------------------------------------------
(* EvictedForCause *)

\* The tokens that are, or are being, validated for a socket are among those it
\* authenticated with, unless the socket has closed; and a token that was judged
\* to have expired has.
Accounted ==
    /\ \A t \in TimerIds : timers[t] # None => timers[t].token \in accepted[timers[t].socket]
    /\ \A k \in Tasks : Doing(k, "revalidating") /\ task[k].socket \in connected =>
          task[k].token \in accepted[task[k].socket]
    /\ \A k \in Tasks : task[k] # None /\ task[k].verdict = "invalid" =>
          task[k].token \in expired

\* A socket that is forgotten as it closes takes its interval along.
LEMMA ForgetAccounts ==
    ASSUME Inductive, Accounted, NEW s \in Sockets, Forget(s),
           connected' = connected \ {s}, UNCHANGED expired,
           \A k \in Tasks : task'[k] = task[k] \/ task'[k] = None
    PROVE  Accounted'
  <1>1. EntriesTyped /\ SocketsWatched
    BY DEF Inductive, TypeOK, EntriesTyped
  <1>2. /\ timers' = Cleared(s)
        /\ \A x \in Sockets \ {s} : accepted'[x] = accepted[x]
    BY DEF Forget, Inductive, TypeOK
  <1>3. ASSUME NEW t \in TimerIds, timers'[t] # None
        PROVE  timers'[t].token \in accepted'[timers'[t].socket]
    <2>1. timers'[t] = timers[t] /\ timers[t] # None /\ timers[t].socket # s
      BY <1>1, <1>2, <1>3, ClearedFacts
    <2>2. timers[t].socket \in Sockets
      BY <1>1, <2>1 DEF EntriesTyped, Watches
    <2>3. QED
      BY <1>2, <2>1, <2>2 DEF Accounted
  <1>4. ASSUME NEW k \in Tasks, Doing(k, "revalidating")', task'[k].socket \in connected'
        PROVE  task'[k].token \in accepted'[task'[k].socket]
    <2>1. task'[k] = task[k] /\ Doing(k, "revalidating")
      BY <1>4 DEF Doing
    <2>2. task[k].socket \in Sockets \ {s} /\ task[k].socket \in connected
      BY <1>4, <2>1 DEF Inductive, TypeOK
    <2>3. QED
      BY <1>2, <2>1, <2>2 DEF Accounted
  <1>5. ASSUME NEW k \in Tasks, task'[k] # None, task'[k].verdict = "invalid"
        PROVE  task'[k].token \in expired'
    BY <1>5 DEF Accounted
  <1>6. QED
    BY <1>3, <1>4, <1>5 DEF Accounted, Doing

LEMMA AccountedStep ==
    /\ Init => Accounted
    /\ Inductive /\ Accounted /\ [Next]_vars => Accounted'
  <1>1. Init => Accounted
    BY DEF Init, Accounted, Doing
  <1>2. ASSUME Inductive, Accounted, [Next]_vars PROVE Accounted'
    <2>1. TypeOK /\ SocketsWatched /\ EntriesTyped
      BY <1>2 DEF Inductive, TypeOK, EntriesTyped
    <2>2. ASSUME NEW k \in Tasks, NEW s \in Sockets, NEW token \in Tokens,
                 HandleAuthentication(k, s, token)
          PROVE  Accounted'
      <3>1. task' = [task EXCEPT ![k] = Request("authenticating", s, token)]
        BY <2>2 DEF HandleAuthentication, Goto
      <3>2. QED
        BY <1>2, <2>1, <2>2, <3>1
           DEF HandleAuthentication, Request, Accounted, Doing, entries, TypeOK
    <2>3. ASSUME NEW k \in Tasks, NEW t \in TimerIds, Tick(k, t)
          PROVE  Accounted'
      <3>1. task' = [task EXCEPT ![k] =
                       Request("revalidating", timers[t].socket, timers[t].token)]
        BY <2>3 DEF Tick, Goto
      <3>2. QED
        BY <1>2, <2>1, <2>3, <3>1 DEF Tick, Request, Accounted, Doing, entries, TypeOK
    <2>4. ASSUME NEW k \in Tasks, TokenJudged(k)
          PROVE  Accounted'
      <3>1. PICK verdict \in Verdicts :
                /\ verdict = "invalid" => task[k].token \in expired
                /\ task' = [task EXCEPT ![k] = [task[k] EXCEPT !.verdict = verdict]]
        BY <2>4 DEF TokenJudged, Goto
      <3>2. /\ task[k] \in TaskRecords /\ task[k] # None
            /\ UNCHANGED <<connected, timers, accepted, expired>>
        BY <2>1, <2>4, TaskFacts DEF TokenJudged, entries
      <3>3. /\ task'[k].verdict = verdict /\ task'[k].at = task[k].at
            /\ task'[k].socket = task[k].socket /\ task'[k].token = task[k].token
            /\ \A j \in Tasks \ {k} : task'[j] = task[j]
        BY <2>1, <3>1, <3>2 DEF TypeOK, TaskRecords
      <3>4. QED
        BY <1>2, <3>1, <3>2, <3>3 DEF Accounted, Doing
    <2>5. ASSUME NEW k \in Tasks, Authenticated(k)
          PROVE  Accounted'
      <3> DEFINE s == task[k].socket
                 token == task[k].token
      <3>1. s \in Sockets /\ token \in Tokens
        BY <2>1, <2>5, TaskFacts DEF Authenticated, Doing
      <3>2. /\ task' = [task EXCEPT ![k] = None]
            /\ accepted' = [accepted EXCEPT ![s] = @ \cup {token}]
            /\ UNCHANGED <<connected, expired>>
        BY <2>5 DEF Authenticated, Goto
      <3>3. /\ token \in accepted'[s]
            /\ \A x \in Sockets : accepted[x] \subseteq accepted'[x]
        BY <2>1, <3>1, <3>2 DEF TypeOK
      <3>4. PICK t \in TimerIds :
                timers' = [Cleared(s) EXCEPT ![t] = [socket |-> s, token |-> token]]
        BY <2>5 DEF Authenticated, ScheduleTokenValidation
      <3>5. ASSUME NEW u \in TimerIds, timers'[u] # None
            PROVE  timers'[u].token \in accepted'[timers'[u].socket]
        <4>1. CASE u = t
          BY <2>1, <3>1, <3>3, <3>4, <4>1, ClearedFacts
        <4>2. CASE u # t
          <5>1. timers'[u] = timers[u] /\ timers[u] # None
            BY <2>1, <3>1, <3>4, <3>5, <4>2, ClearedFacts
          <5>2. timers[u].socket \in Sockets
            BY <2>1, <5>1 DEF EntriesTyped, Watches
          <5>3. QED
            BY <1>2, <3>3, <5>1, <5>2 DEF Accounted
        <4>3. QED
          BY <4>1, <4>2
      <3>6. ASSUME NEW j \in Tasks, task'[j] # None
            PROVE  task'[j] = task[j] /\ task[j].socket \in Sockets
        BY <2>1, <3>2, <3>6, TaskFacts DEF TypeOK
      <3>7. QED
        BY <1>2, <3>2, <3>3, <3>5, <3>6 DEF Accounted, Doing
    <2>6. ASSUME NEW k \in Tasks, AuthenticationRefused(k) \/ TokenStillValid(k)
          PROVE  Accounted'
      <3>1. /\ task' = [task EXCEPT ![k] = None]
            /\ UNCHANGED <<connected, timers, accepted, expired>>
        BY <2>6 DEF AuthenticationRefused, TokenStillValid, Goto, entries
      <3>2. QED
        BY <1>2, <2>1, <3>1 DEF Accounted, Doing, TypeOK
    <2>7. ASSUME NEW k \in Tasks, TokenExpired(k)
          PROVE  Accounted'
      <3>1. task[k].socket \in Sockets
        BY <2>1, <2>7, TaskFacts DEF TokenExpired, Doing
      <3>2. \A j \in Tasks : task'[j] = task[j] \/ task'[j] = None
        BY <2>1, <2>7 DEF TokenExpired, Goto, TypeOK
      <3>3. QED
        BY <1>2, <2>7, <3>1, <3>2, ForgetAccounts DEF TokenExpired
    <2>8. ASSUME NEW s \in Sockets, HandleDisconnect(s)
          PROVE  Accounted'
      BY <1>2, <2>8, ForgetAccounts DEF HandleDisconnect
    <2>9. ASSUME NEW token \in Tokens, Expire(token)
          PROVE  Accounted'
      BY <1>2, <2>9 DEF Expire, Accounted, Doing, entries
    <2>10. CASE UNCHANGED vars
      BY <1>2, <2>10 DEF vars, entries, Accounted, Doing
    <2>11. QED
      BY <1>2, <2>2, <2>3, <2>4, <2>5, <2>6, <2>7, <2>8, <2>9, <2>10 DEF Next, Progress
  <1>3. QED
    BY <1>1, <1>2

\* The gateway closes an open socket only upon a verdict on a token which that
\* socket had authenticated with and which has expired or could not be judged.
THEOREM ClosedForCause == Spec => EvictedForCause
  <1> DEFINE Cause ==
        \A s \in connected \ connected' : task' # task =>
            \E k \in Tasks :
               /\ task[k] # None /\ task'[k] = None
               /\ task[k].token \in accepted[s]
               /\ task[k].token \in expired \/ task[k].verdict = "failed"
  <1>1. Inductive /\ Accounted /\ [Next]_vars => [Cause]_vars
    <2>1. SUFFICES ASSUME Inductive, Accounted, Next,
                          NEW s \in connected \ connected', task' # task
                   PROVE  \E k \in Tasks :
                             /\ task[k] # None /\ task'[k] = None
                             /\ task[k].token \in accepted[s]
                             /\ task[k].token \in expired \/ task[k].verdict = "failed"
      OBVIOUS
    <2>2. PICK k \in Tasks : TokenExpired(k)
      BY <2>1 DEF Next, Progress, HandleAuthentication, Tick, TokenJudged, Authenticated,
           AuthenticationRefused, TokenStillValid, HandleDisconnect, Expire
    <2>3. s = task[k].socket /\ Doing(k, "revalidating") /\ task'[k] = None
      BY <2>1, <2>2 DEF TokenExpired, Goto, Inductive, TypeOK
    <2>4. task[k].token \in accepted[s]
      BY <2>1, <2>3 DEF Accounted
    <2>5. task[k].token \in expired \/ task[k].verdict = "failed"
      BY <2>1, <2>2, <2>3 DEF TokenExpired, Accounted, Doing
    <2>6. QED
      BY <2>3, <2>4, <2>5 DEF Doing
  <1>2. Spec => [][Cause]_vars
    BY <1>1, InductiveStep, AccountedStep, PTL DEF Spec
  <1>3. QED
    BY <1>2 DEF EvictedForCause
=============================================================================
