----------------------------- MODULE Reporting ------------------------------
(***************************************************************************)
(* How a driver reports its location over HTTP: the driver asks the BFF,   *)
(* which asks location-service, which asks auth-service, saves the         *)
(* location and publishes it.  Each of them gives up a call after 5000 ms, *)
(* and the one that was called goes on.                                    *)
(*                                                                         *)
(* A driver reports with a token of its own, or with none, and again       *)
(* whenever it likes: nothing orders the reports of a driver that are on   *)
(* their way together.  Its reports are numbered as the BFF got them; a    *)
(* location is the number of its report.  The publication is module        *)
(* LocationService's subject.                                              *)
(***************************************************************************)
EXTENDS AuthService, Sequences, FiniteSets

CONSTANTS
    Reporters,      \* bound: the drivers that report in a behaviour
    MaxReports      \* bound: reports of a driver

ASSUME ReportsAssumption == Reporters \subseteq Drivers /\ MaxReports \in Nat

VARIABLES
    report,             \* driver -> the sequence of its reports
    locationsByDriver   \* driver -> the sequence of its locations, as saved

reporting == <<report, locationsByDriver>>

\* at: where location-service is with it; told: what the BFF has answered; before:
\* the reports of the driver that had been answered, and not given up, when this one
\* was sent (a history field).
ReportRecords ==
    [at : {"sent", "judged", "refused", "saved", "done", "failed"},
     told : {"nothing", "success", "unauthorized", "error", "timeout"},
     token : Tokens \cup {None}, since : 0 .. MaxTime, holder : Drivers \cup {None},
     before : SUBSET (1 .. MaxReports)]

ReportingInit ==
    /\ AuthInit
    /\ report = [d \in Drivers |-> <<>>]
    /\ locationsByDriver = [d \in Drivers |-> <<>>]

ReportsOf(d) == 1 .. Len(report[d])

Answered(d) == {i \in ReportsOf(d) : report[d][i].told \notin {"nothing", "timeout"}}

GotoReport(d, i, record) == report' = [report EXCEPT ![d][i] = record]

-----------------------------------------------------------------------------
(* gateway-service-bff asks *)

Report(d, token) ==
    /\ token # None => token.driver = d
    /\ Len(report[d]) < MaxReports
    /\ report' = [report EXCEPT ![d] = Append(@,
                    [at |-> "sent", told |-> "nothing", token |-> token,
                     since |-> now, holder |-> None, before |-> Answered(d)])]
    /\ UNCHANGED <<auth, locationsByDriver>>

-----------------------------------------------------------------------------
(* location-service handles the report, whether or not anybody waits for it *)

\* auth-service judges the token, or the call fails or takes too long, which
\* refuses the report like a token that is no good.
ReportJudged(d, i) ==
    /\ report[d][i].at = "sent"
    /\ \E holder \in {ValidateToken(report[d][i].token), None} :
          GotoReport(d, i, [report[d][i] EXCEPT
                              !.at = IF holder = None THEN "refused" ELSE "judged",
                              !.holder = holder])
    /\ UNCHANGED <<auth, locationsByDriver>>

LocationSaved(d, i) ==
    /\ report[d][i].at = "judged"
    /\ locationsByDriver' = [locationsByDriver EXCEPT ![report[d][i].holder] = Append(@, i)]
    /\ GotoReport(d, i, [report[d][i] EXCEPT !.at = "saved"])
    /\ UNCHANGED auth

\* publishLocationUpdate returns, or throws.
PublicationEnded(d, i) ==
    /\ report[d][i].at = "saved"
    /\ \E end \in {"done", "failed"} :
          GotoReport(d, i, [report[d][i] EXCEPT !.at = end])
    /\ UNCHANGED <<auth, locationsByDriver>>

-----------------------------------------------------------------------------
(* gateway-service-bff answers *)

\* Mutant: every error is taken for a refusal, as login and validateToken of the
\* BFF do.
AnswerRefusing(at) ==
    CASE at = "done" -> "success"
      [] at \in {"refused", "failed"} -> "unauthorized"

\* What the driver is told, once location-service has answered.
Answer(at) ==
    CASE at = "done" -> "success"
      [] at = "refused" -> "unauthorized"
      [] at = "failed" -> "error"

\* Mutant: success as soon as the token is known to be good.
ReportAnsweredEarly(d, i) ==
    /\ report[d][i].told = "nothing"
    /\ report[d][i].at = "judged"
    /\ GotoReport(d, i, [report[d][i] EXCEPT !.told = "success"])
    /\ UNCHANGED <<auth, locationsByDriver>>

ReportAnswered(d, i) ==
    /\ report[d][i].told = "nothing"
    /\ report[d][i].at \in {"refused", "done", "failed"}
    /\ GotoReport(d, i, [report[d][i] EXCEPT !.told = Answer(report[d][i].at)])
    /\ UNCHANGED <<auth, locationsByDriver>>

\* The BFF's call takes more than 5000 ms, or its connection breaks.
ReportGivenUp(d, i) ==
    /\ report[d][i].told = "nothing"
    /\ GotoReport(d, i, [report[d][i] EXCEPT !.told = "timeout"])
    /\ UNCHANGED <<auth, locationsByDriver>>

ReportProgress(d, i) ==
    ReportJudged(d, i) \/ LocationSaved(d, i) \/ PublicationEnded(d, i)

ReportEnds(d, i) == ReportAnswered(d, i) \/ ReportGivenUp(d, i)

ReportingNext ==
    \/ AuthNext /\ UNCHANGED reporting
    \/ \E d \in Reporters, token \in tokens \cup {None} : Report(d, token)
    \/ \E d \in Drivers : \E i \in ReportsOf(d) : ReportProgress(d, i) \/ ReportEnds(d, i)

-----------------------------------------------------------------------------
(* Properties *)

ReportingTypeOK ==
    /\ AuthTypeOK
    /\ report \in [Drivers -> Seq(ReportRecords)]
    /\ locationsByDriver \in [Drivers -> Seq(1 .. MaxReports)]

Occurrences(s, x) == {j \in 1 .. Len(s) : s[j] = x}

\* What a driver is told of a report is what happened to it, whoever gave up
\* waiting for whom: with success it is saved, once; told that its token is no
\* good, it is not and never will be, so that the driver may log in and report
\* again.  And what is saved came with a token that was alive when it was sent.
AnswersAreTrue ==
    \A d \in Drivers : \A i \in ReportsOf(d) :
        /\ report[d][i].told = "success" => Cardinality(Occurrences(locationsByDriver[d], i)) = 1
        /\ report[d][i].told = "unauthorized" => Occurrences(locationsByDriver[d], i) = {}
        /\ Occurrences(locationsByDriver[d], i) # {} =>
              report[d][i].token # None /\ report[d][i].since < report[d][i].token.expires
=============================================================================
