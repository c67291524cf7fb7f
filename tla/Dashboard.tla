------------------------------ MODULE Dashboard ------------------------------
(***************************************************************************)
(* gateway-service-bff as a whole: the reports of drivers (Reporting) and  *)
(* the dashboard, for which the BFF asks auth-service whose token the      *)
(* request carries and then gathers three parts in parallel.               *)
(*                                                                         *)
(* A request for a dashboard that awaits other services is a member of     *)
(* Requests.  What a service answers is decided when it handles the call;  *)
(* answers arrive in any order.                                            *)
(***************************************************************************)
EXTENDS Reporting, SequencesExt

CONSTANT Requests       \* the requests that may be in progress together

VARIABLE request

vars == <<auth, reporting, request>>

Parts == {"profile", "location", "statistics"}
Closed == {"idle", "served", "refused"}

\* holder: whose token it is, according to auth-service; here: the parts that have
\* arrived; shown: the location among them; told: the reports of the driver that had
\* been answered with success when the request came (a history field).
RequestRecords ==
    [at : Closed \cup {"validating", "validated", "loading"},
     driver : Drivers \cup {None}, token : Tokens \cup {None},
     since : 0 .. MaxTime, holder : Drivers \cup {None}, here : SUBSET Parts,
     shown : 0 .. MaxReports, told : SUBSET (1 .. MaxReports)]

IdleRequest ==
    [at |-> "idle", driver |-> None, token |-> None, since |-> 0,
     holder |-> None, here |-> {}, shown |-> 0, told |-> {}]

Init ==
    /\ ReportingInit
    /\ request = [r \in Requests |-> IdleRequest]

Successes(d) == {i \in ReportsOf(d) : report[d][i].told = "success"}

-----------------------------------------------------------------------------
(* getDriverDashboard *)

Goto(r, record) ==
    /\ request' = [request EXCEPT ![r] = record]
    /\ UNCHANGED <<auth, reporting>>

GetDriverDashboard(r, d, token) ==
    /\ request[r].at \in Closed
    /\ Goto(r, [IdleRequest EXCEPT !.at = "validating", !.driver = d, !.token = token,
                                   !.since = now, !.told = Successes(d)])

\* auth-service handles the validation, or the call fails.
TokenValidated(r) ==
    /\ request[r].at = "validating"
    /\ \E holder \in {ValidateToken(request[r].token), None} :
          Goto(r, [request[r] EXCEPT !.at = "validated", !.holder = holder])

\* Mutant: somebody else's token is refused, but not with an answer.
RefuseInvalid(r) ==
    /\ request[r].at = "validated"
    /\ request[r].holder = None
    /\ Goto(r, [IdleRequest EXCEPT !.at = "refused"])

Refuse(r) ==
    /\ request[r].at = "validated"
    /\ request[r].holder # request[r].driver
    /\ Goto(r, [IdleRequest EXCEPT !.at = "refused"])

\* Mutant: any valid token will do.
LoadForAny(r) ==
    /\ request[r].at = "validated"
    /\ request[r].holder # None
    /\ Goto(r, [request[r] EXCEPT !.at = "loading"])

Load(r) ==
    /\ request[r].at = "validated"
    /\ request[r].holder = request[r].driver
    /\ Goto(r, [request[r] EXCEPT !.at = "loading"])

\* Mutant: answers when two of the three parts are there.
ArrivedMost(r, part, shown) ==
    LET here == request[r].here \cup {part}
    IN  Goto(r, [request[r] EXCEPT
                   !.here = here, !.shown = shown,
                   !.at = IF part # "statistics" /\ here # {part} THEN "served" ELSE "loading"])

\* Promise.all answers with the last part.
Arrived(r, part, shown) ==
    LET here == request[r].here \cup {part}
    IN  Goto(r, [request[r] EXCEPT !.here = here, !.shown = shown,
                                   !.at = IF here = Parts THEN "served" ELSE "loading"])

ProfileArrived(r) ==
    /\ request[r].at = "loading"
    /\ "profile" \notin request[r].here
    /\ HasDriverProfile(request[r].driver)
    /\ Arrived(r, "profile", request[r].shown)

LocationArrived(r) ==
    /\ request[r].at = "loading"
    /\ "location" \notin request[r].here
    /\ locationsByDriver[request[r].driver] # <<>>
    /\ Arrived(r, "location", Last(locationsByDriver[request[r].driver]))

\* getDriverStatistics does not throw: its default stands for what
\* realtime-service, which has no such endpoint, does not answer.
StatisticsArrived(r) ==
    /\ request[r].at = "loading"
    /\ "statistics" \notin request[r].here
    /\ Arrived(r, "statistics", request[r].shown)

\* Promise.all is rejected with the first part that is: a call that failed, or a
\* location that is not there, which is an error like any other.
PartFailed(r) ==
    /\ request[r].at = "loading"
    /\ ~({"profile", "location"} \subseteq request[r].here)
    /\ Goto(r, [IdleRequest EXCEPT !.at = "refused"])

Progress(r) ==
    \/ TokenValidated(r) \/ Refuse(r) \/ Load(r)
    \/ ProfileArrived(r) \/ LocationArrived(r) \/ StatisticsArrived(r) \/ PartFailed(r)

Next ==
    \/ ReportingNext /\ UNCHANGED request
    \/ \E r \in Requests, d \in Drivers, token \in tokens \cup {None} :
          GetDriverDashboard(r, d, token)
    \/ \E r \in Requests : Progress(r)

Spec == Init /\ [][Next]_vars

\* Every HTTP call ends: HttpModule gives up after 5000 ms.
FairSpec ==
    /\ Spec
    /\ \A r \in Requests : WF_vars(Progress(r))
    /\ \A d \in Reporters, i \in 1 .. MaxReports :
          WF_vars(i \in ReportsOf(d) /\ ReportEnds(d, i) /\ UNCHANGED request)

-----------------------------------------------------------------------------
(* Properties *)

\* Types of the state; no token outlives its lifetime.
TypeOK ==
    /\ ReportingTypeOK
    /\ request \in [Requests -> RequestRecords]

\* A dashboard is gathered and served for the driver whose own token came with
\* the request, and only if the token was still alive when the request came, even
\* if it has expired by the time auth-service's verdict is acted upon.
ServedToHolder ==
    \A r \in Requests :
        request[r].at \in {"loading", "served"} =>
            /\ request[r].token.driver = request[r].driver
            /\ request[r].since < request[r].token.expires

\* A dashboard that is served is whole, whatever the order in which its parts
\* arrived: none of them is missing, and the location is one that exists.
ServedWhole ==
    \A r \in Requests :
        request[r].at = "served" => request[r].here = Parts /\ request[r].shown # 0

\* A dashboard does not show an older location than the driver had been told was
\* accepted when the dashboard was asked for, unless the driver had sent the newer
\* report without an answer to the older one: the two were under way together, or
\* the BFF had given the older one up, and location-service saved it last.
ShownNotOlder ==
    \A r \in Requests :
        LET shown == request[r].shown
        IN  request[r].at = "served" =>
                \A i \in request[r].told :
                    shown < i => shown \notin report[request[r].driver][i].before

\* Every request for a dashboard and every report is answered, whichever services
\* fail.
EveryRequestAnswered ==
    /\ \A r \in Requests : request[r].at \notin Closed ~> request[r].at \in Closed
    /\ \A d \in Reporters, i \in 1 .. MaxReports :
          i \in ReportsOf(d) ~> i \in ReportsOf(d) /\ report[d][i].told # "nothing"
=============================================================================
