---------------------------- MODULE DriverGateway ----------------------------
(***************************************************************************)
(* The DriverGateway class of realtime-service: the sockets of drivers,    *)
(* their authentication, and the interval that validates again the token   *)
(* of each of them.                                                        *)
(*                                                                         *)
(* An action is the code between two awaits; a handler or a tick that      *)
(* awaits auth-service is a member of Tasks.  auth-service judges a token  *)
(* when it receives the request, and the verdict may arrive much later;    *)
(* HttpDriverService turns a request that fails into an invalid verdict.   *)
(* Socket ids are not used twice.  Time is left out: a live interval may   *)
(* fire, a token may expire, and an expired token stays so.                *)
(***************************************************************************)
CONSTANTS
    Sockets,
    Drivers,
    Tokens,     \* the tokens auth-service has issued
    DriverOf,   \* token -> the driver it was issued to
    TimerIds,   \* the objects setInterval returns
    Tasks,      \* the handlers and ticks that may be in progress together
    AuthFails,  \* a request to auth-service may fail
    None

ASSUME DriverOfAssumption == DriverOf \in [Tokens -> Drivers]

VARIABLES
    connected,              \* the sockets that are open
    driverSockets,          \* socket -> the driver it speaks for, or None
    tokenValidationTimers,  \* socket -> its registered interval, or None
    timers,                 \* the intervals that are set and not cleared
    task,                   \* Tasks -> what each one is doing
    expired,                \* the tokens that have expired
    accepted                \* socket -> the tokens it authenticated with, until it is
                            \* forgotten (history variable)

entries == <<driverSockets, tokenValidationTimers, timers>>
vars == <<connected, entries, task, expired, accepted>>

Watches == [socket : Sockets, token : Tokens]
\* HttpDriverService reports "failed" as "invalid"; the model tells them apart.
Verdicts == {"pending", "valid", "invalid", "failed"}
TaskRecords ==
    [at : {"authenticating", "revalidating"}, socket : Sockets, token : Tokens,
     verdict : Verdicts]

ASSUME NoneAssumption ==
    None \notin Sockets \cup Drivers \cup Tokens \cup TimerIds \cup Watches \cup TaskRecords

Init ==
    /\ connected = Sockets
    /\ driverSockets = [s \in Sockets |-> None]
    /\ tokenValidationTimers = [s \in Sockets |-> None]
    /\ timers = [t \in TimerIds |-> None]
    /\ task = [k \in Tasks |-> None]
    /\ expired = {}
    /\ accepted = [s \in Sockets |-> {}]

-----------------------------------------------------------------------------
(* Helpers *)

Doing(k, at) == task[k] # None /\ task[k].at = at

\* Which of the idle tasks a handler becomes does not matter.
Idle == CHOOSE k \in Tasks : task[k] = None

Goto(k, record) == task' = [task EXCEPT ![k] = record]

Request(at, s, token) ==
    [at |-> at, socket |-> s, token |-> token, verdict |-> "pending"]

\* clearInterval of the socket's interval, if it has one.
Cleared(s) ==
    [t \in TimerIds |-> IF t = tokenValidationTimers[s] THEN None ELSE timers[t]]

\* What setInterval returns: which unused object it is does not matter.
Unused == CHOOSE t \in TimerIds : timers[t] = None

\* Mutant: the interval of the previous token goes on.
ScheduleTokenValidationUncleared(s, token) ==
    \E t \in TimerIds :
        /\ t = Unused /\ timers[t] = None
        /\ timers' = [timers EXCEPT ![t] = [socket |-> s, token |-> token]]
        /\ tokenValidationTimers' = [tokenValidationTimers EXCEPT ![s] = t]

ScheduleTokenValidation(s, token) ==
    \E t \in TimerIds :
        /\ t = Unused /\ timers[t] = None
        /\ timers' = [Cleared(s) EXCEPT ![t] = [socket |-> s, token |-> token]]
        /\ tokenValidationTimers' = [tokenValidationTimers EXCEPT ![s] = t]

\* Both maps forget the socket; handleDisconnect and an expired token do this.
Forget(s) ==
    /\ driverSockets' = [driverSockets EXCEPT ![s] = None]
    /\ timers' = Cleared(s)
    /\ tokenValidationTimers' = [tokenValidationTimers EXCEPT ![s] = None]
    /\ accepted' = [accepted EXCEPT ![s] = {}]

-----------------------------------------------------------------------------
(* The handlers *)

HandleAuthentication(k, s, token) ==
    /\ s \in connected
    /\ task[k] = None /\ k = Idle
    /\ Goto(k, Request("authenticating", s, token))
    /\ UNCHANGED <<connected, entries, expired, accepted>>

Tick(k, t) ==
    /\ timers[t] # None
    /\ task[k] = None /\ k = Idle
    /\ Goto(k, Request("revalidating", timers[t].socket, timers[t].token))
    /\ UNCHANGED <<connected, entries, expired, accepted>>

\* auth-service judges the token, or the request fails.
TokenJudged(k) ==
    /\ task[k] # None
    /\ task[k].verdict = "pending"
    /\ \E verdict \in Verdicts \ {"pending"} :
          /\ verdict = "valid" => task[k].token \notin expired
          /\ verdict = "invalid" => task[k].token \in expired
          /\ verdict = "failed" => AuthFails
          /\ Goto(k, [task[k] EXCEPT !.verdict = verdict])
    /\ UNCHANGED <<connected, entries, expired, accepted>>

\* Mutant: the token is stored in place of the driver it was issued to.
AuthenticatedAsToken(k) ==
    /\ Doing(k, "authenticating")
    /\ task[k].verdict = "valid"
    /\ driverSockets' = [driverSockets EXCEPT ![task[k].socket] = task[k].token]
    /\ ScheduleTokenValidation(task[k].socket, task[k].token)
    /\ accepted' = [accepted EXCEPT ![task[k].socket] = @ \cup {task[k].token}]
    /\ Goto(k, None)
    /\ UNCHANGED <<connected, expired>>

\* The verdict reached handleAuthentication.  Whether the socket is still open
\* is not looked at.
Authenticated(k) ==
    /\ Doing(k, "authenticating")
    /\ task[k].verdict = "valid"
    /\ driverSockets' = [driverSockets EXCEPT ![task[k].socket] = DriverOf[task[k].token]]
    /\ ScheduleTokenValidation(task[k].socket, task[k].token)
    /\ accepted' = [accepted EXCEPT ![task[k].socket] = @ \cup {task[k].token}]
    /\ Goto(k, None)
    /\ UNCHANGED <<connected, expired>>

\* Mutant: closes the socket, as an expired token does.
AuthenticationRefusedClosing(k) ==
    /\ Doing(k, "authenticating")
    /\ task[k].verdict \in {"invalid", "failed"}
    /\ connected' = connected \ {task[k].socket}
    /\ Forget(task[k].socket)
    /\ Goto(k, None)
    /\ UNCHANGED expired

\* The driver is told; what the socket spoke with before goes on.
AuthenticationRefused(k) ==
    /\ Doing(k, "authenticating")
    /\ task[k].verdict \in {"invalid", "failed"}
    /\ Goto(k, None)
    /\ UNCHANGED <<connected, entries, expired, accepted>>

TokenStillValid(k) ==
    /\ Doing(k, "revalidating")
    /\ task[k].verdict = "valid"
    /\ Goto(k, None)
    /\ UNCHANGED <<connected, entries, expired, accepted>>

\* Mutant: closes the socket and waits for handleDisconnect to clean up, which
\* has run already for a socket that was not open.
TokenExpiredDisconnectOnly(k) ==
    /\ Doing(k, "revalidating")
    /\ task[k].verdict \in {"invalid", "failed"}
    /\ connected' = connected \ {task[k].socket}
    /\ \/ task[k].socket \in connected /\ Forget(task[k].socket)
       \/ task[k].socket \notin connected /\ UNCHANGED <<entries, accepted>>
    /\ Goto(k, None)
    /\ UNCHANGED expired

\* token-expired is emitted, the socket is closed, which runs handleDisconnect,
\* and what is left of the socket is forgotten.
TokenExpired(k) ==
    /\ Doing(k, "revalidating")
    /\ task[k].verdict \in {"invalid", "failed"}
    /\ connected' = connected \ {task[k].socket}
    /\ Forget(task[k].socket)
    /\ Goto(k, None)
    /\ UNCHANGED expired

HandleDisconnect(s) ==
    /\ s \in connected
    /\ connected' = connected \ {s}
    /\ Forget(s)
    /\ UNCHANGED <<task, expired>>

\* A token reaches the end of its life.
Expire(token) ==
    /\ token \notin expired
    /\ expired' = expired \cup {token}
    /\ UNCHANGED <<connected, entries, task, accepted>>

Progress(k) ==
    \/ TokenJudged(k)
    \/ Authenticated(k) \/ AuthenticationRefused(k)
    \/ TokenStillValid(k) \/ TokenExpired(k)

Next ==
    \/ \E k \in Tasks, s \in Sockets, token \in Tokens : HandleAuthentication(k, s, token)
    \/ \E k \in Tasks, t \in TimerIds : Tick(k, t)
    \/ \E k \in Tasks : Progress(k)
    \/ \E s \in Sockets : HandleDisconnect(s)
    \/ \E token \in Tokens : Expire(token)

Spec == Init /\ [][Next]_vars

TicksFor(s) ==
    \E k \in Tasks, t \in TimerIds :
        timers[t] # None /\ timers[t].socket = s /\ Tick(k, t)

\* auth-service answers every request, and the interval of a socket fires.  The
\* bound on Tasks may disable a tick for a while, hence strong fairness.
FairSpec ==
    /\ Spec
    /\ \A k \in Tasks : WF_vars(Progress(k))
    /\ \A s \in Sockets : SF_vars(TicksFor(s))

-----------------------------------------------------------------------------
(* Properties *)

\* Types of the state.
TypeOK ==
    /\ connected \in SUBSET Sockets
    /\ driverSockets \in [Sockets -> Drivers \cup {None}]
    /\ tokenValidationTimers \in [Sockets -> TimerIds \cup {None}]
    /\ timers \in [TimerIds -> Watches \cup {None}]
    /\ task \in [Tasks -> TaskRecords \cup {None}]
    /\ expired \in SUBSET Tokens
    /\ accepted \in [Sockets -> SUBSET Tokens]

\* The token a socket is watched for.
Watched(s) == timers[tokenValidationTimers[s]].token

\* A socket speaks for a driver exactly while one live interval watches a token
\* of that driver for it, and no other interval is live: whatever overlaps,
\* nobody keeps reporting as a driver without being validated again.
SocketsWatched ==
    /\ \A t \in TimerIds : timers[t] # None => tokenValidationTimers[timers[t].socket] = t
    /\ \A s \in Sockets :
          \/ driverSockets[s] = None /\ tokenValidationTimers[s] = None
          \/ /\ tokenValidationTimers[s] # None
             /\ timers[tokenValidationTimers[s]] # None
             /\ timers[tokenValidationTimers[s]].socket = s
             /\ driverSockets[s] = DriverOf[Watched(s)]

\* The gateway closes an open socket only upon a verdict on a token that this
\* very socket had authenticated with, possibly one it has replaced since, and
\* the token has expired or auth-service could not be asked: not upon another
\* socket's token, nor upon one that was refused at the door.
EvictedForCause ==
    [][\A s \in connected \ connected' : task' # task =>
          \E k \in Tasks :
             /\ task[k] # None /\ task'[k] = None
             /\ task[k].token \in accepted[s]
             /\ task[k].token \in expired \/ task[k].verdict = "failed"]_vars

SpeaksWith(s, token) == driverSockets[s] # None /\ Watched(s) = token

\* Once the tokens that expire have done so, no socket goes on speaking for a
\* driver with one of them, not even one whose authentication was judged before
\* and ended after it was closed.
ExpiredTokenLeaves ==
    <>[](\A s \in Sockets : \A token \in expired : ~SpeaksWith(s, token))
=============================================================================
