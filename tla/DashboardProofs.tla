--------------------------- MODULE DashboardProofs ---------------------------
(***************************************************************************)
(* What the BFF answers, for every set of drivers and requests: the types, *)
(* AnswersAreTrue, ServedToHolder, ServedWhole and ShownNotOlder.          *)
(*                                                                         *)
(* The invariant says of each driver how its reports and its saved         *)
(* locations belong together (Consistent), and of each request what it has *)
(* established so far (Grounded).  A location that was saved after a newer *)
(* one is that of a report which the driver had no answer to when it sent  *)
(* the newer one, or one that was given up: any other answer comes after   *)
(* the saving.                                                             *)
(***************************************************************************)
EXTENDS Dashboard, FiniteSetTheorems, SequenceTheorems, TLAPS

SavedPhases == {"saved", "done", "failed"}
Unanswered == {"nothing", "timeout"}

LEMMA NoneFacts == None \notin Drivers /\ None \notin Tokens
  BY NoneAssumption

-----------------------------------------------------------------------------
(* The invariant *)

\* What a report of driver d carries, once it has come that far.
Truthful(d, rep) ==
    /\ rep.token # None => rep.token.driver = d
    /\ rep.at \in {"judged"} \cup SavedPhases =>
          rep.holder = d /\ rep.token # None /\ rep.since < rep.token.expires
    /\ rep.told = "success" => rep.at = "done"
    /\ rep.told = "unauthorized" => rep.at = "refused"
    /\ rep.told = "error" => rep.at = "failed"

\* reports and locations, as saved, of driver d.
Consistent(d, reports, locations) ==
    /\ reports \in Seq(ReportRecords)
    /\ Len(reports) <= MaxReports
    /\ locations \in Seq(1 .. MaxReports)
    /\ \A i \in 1 .. Len(reports) :
          /\ Truthful(d, reports[i])
          /\ \A j \in reports[i].before :
                j \in 1 .. Len(reports) /\ reports[j].told \notin Unanswered
          /\ reports[i].at \in SavedPhases => \E p \in 1 .. Len(locations) : locations[p] = i
    /\ \A p \in 1 .. Len(locations) :
          locations[p] \in 1 .. Len(reports) /\ reports[locations[p]].at \in SavedPhases
    /\ \A p, q \in 1 .. Len(locations) :
          /\ locations[p] = locations[q] => p = q
          /\ p < q /\ locations[q] < locations[p] =>
                locations[q] \notin reports[locations[p]].before

\* What request q has established, given the reports of all drivers and the time.
Grounded(q, reports, time) ==
    /\ q.at \notin {"idle", "refused"} =>
          /\ q.driver \in Drivers
          /\ q.since <= time
          /\ \A i \in q.told :
                i \in 1 .. Len(reports[q.driver]) /\ reports[q.driver][i].told = "success"
    /\ q.at \in {"validated", "loading", "served"} /\ q.holder # None =>
          q.token # None /\ q.token.driver = q.holder /\ q.since < q.token.expires
    /\ q.at \in {"loading", "served"} => q.holder = q.driver
    /\ q.at \in {"loading", "served"} /\ "location" \in q.here =>
          /\ q.shown # 0
          /\ \A i \in q.told : q.shown < i => q.shown \notin reports[q.driver][i].before
    /\ q.at \in {"validating", "validated"} => q.here = {}
    /\ q.at = "served" => q.here = Parts

ReportsConsistent ==
    /\ report \in [Drivers -> Seq(ReportRecords)]
    /\ locationsByDriver \in [Drivers -> Seq(1 .. MaxReports)]
    /\ \A d \in Drivers :
          /\ Consistent(d, report[d], locationsByDriver[d])
          /\ \A i \in ReportsOf(d) : report[d][i].since <= now

RequestsGrounded ==
    /\ request \in [Requests -> RequestRecords]
    /\ \A r \in Requests : Grounded(request[r], report, now)

IInv == AuthTypeOK /\ ReportsConsistent /\ RequestsGrounded

-----------------------------------------------------------------------------
(* A driver's reports and locations *)

\* The next report: its "before" is of reports that have been answered.
LEMMA ConsistentSent ==
    ASSUME NEW d \in Drivers, NEW reports, NEW locations, Consistent(d, reports, locations),
           Len(reports) < MaxReports,
           NEW rep \in ReportRecords, Truthful(d, rep), rep.at = "sent",
           \A j \in rep.before : j \in 1 .. Len(reports) /\ reports[j].told \notin Unanswered
    PROVE  Consistent(d, Append(reports, rep), locations)
  <1> DEFINE after == Append(reports, rep)
  <1>1. /\ reports \in Seq(ReportRecords) /\ Len(reports) \in Nat
        /\ locations \in Seq(1 .. MaxReports) /\ Len(locations) \in Nat
    BY DEF Consistent
  <1>2. /\ after \in Seq(ReportRecords)
        /\ Len(after) = Len(reports) + 1
        /\ after[Len(reports) + 1] = rep
        /\ \A i \in 1 .. Len(reports) : after[i] = reports[i]
    BY <1>1
  <1>3. rep.at \notin SavedPhases
    BY DEF SavedPhases
  <1>4. Len(after) <= MaxReports
    BY <1>1, <1>2, ReportsAssumption
  <1>5. ASSUME NEW i \in 1 .. Len(after)
        PROVE  /\ Truthful(d, after[i])
               /\ \A k \in after[i].before :
                     k \in 1 .. Len(after) /\ after[k].told \notin Unanswered
               /\ after[i].at \in SavedPhases => \E p \in 1 .. Len(locations) : locations[p] = i
    <2>1. CASE i = Len(reports) + 1
      BY <1>1, <1>2, <1>3, <2>1
    <2>2. CASE i \in 1 .. Len(reports)
      BY <1>1, <1>2, <2>2 DEF Consistent
    <2>3. QED
      BY <1>1, <1>2, <2>1, <2>2
  <1>6. \A p \in 1 .. Len(locations) :
           /\ locations[p] \in 1 .. Len(reports)
           /\ after[locations[p]] = reports[locations[p]]
    BY <1>2 DEF Consistent
  <1>7. \A p \in 1 .. Len(locations) :
           locations[p] \in 1 .. Len(after) /\ after[locations[p]].at \in SavedPhases
    BY <1>1, <1>2, <1>6 DEF Consistent
  <1>8. \A p, q \in 1 .. Len(locations) :
           /\ locations[p] = locations[q] => p = q
           /\ p < q /\ locations[q] < locations[p] =>
                 locations[q] \notin after[locations[p]].before
    BY <1>6 DEF Consistent
  <1>9. QED
    BY <1>1, <1>2, <1>4, <1>5, <1>7, <1>8 DEF Consistent

\* A report goes on, neither saved nor answered again.
LEMMA ConsistentProgress ==
    ASSUME NEW d \in Drivers, NEW reports, NEW locations, Consistent(d, reports, locations),
           NEW i \in 1 .. Len(reports),
           NEW rep \in ReportRecords, Truthful(d, rep),
           rep.at \in SavedPhases <=> reports[i].at \in SavedPhases,
           rep.before = reports[i].before,
           reports[i].told # "nothing" => rep.told = reports[i].told
    PROVE  Consistent(d, [reports EXCEPT ![i] = rep], locations)
  <1> DEFINE after == [reports EXCEPT ![i] = rep]
  <1>1. /\ reports \in Seq(ReportRecords) /\ Len(reports) \in Nat
        /\ locations \in Seq(1 .. MaxReports) /\ Len(locations) \in Nat
    BY DEF Consistent
  <1>2. /\ after \in Seq(ReportRecords)
        /\ Len(after) = Len(reports)
        /\ after[i] = rep
        /\ \A j \in 1 .. Len(reports) \ {i} : after[j] = reports[j]
    BY <1>1, ExceptSeq
  <1> HIDE DEF after
  <1>3. \A k \in 1 .. Len(reports) :
           reports[k].told \notin Unanswered => after[k].told \notin Unanswered
    BY <1>2 DEF Unanswered
  <1>4. ASSUME NEW j \in 1 .. Len(after)
        PROVE  /\ Truthful(d, after[j])
               /\ \A k \in after[j].before :
                     k \in 1 .. Len(after) /\ after[k].told \notin Unanswered
               /\ after[j].at \in SavedPhases => \E p \in 1 .. Len(locations) : locations[p] = j
    <2>1. CASE j = i
      BY <1>2, <1>3, <2>1 DEF Consistent
    <2>2. CASE j # i
      BY <1>2, <1>3, <2>2 DEF Consistent
    <2>3. QED
      BY <2>1, <2>2
  <1>5. \A p \in 1 .. Len(locations) :
           locations[p] \in 1 .. Len(after) /\ after[locations[p]].at \in SavedPhases
    BY <1>2 DEF Consistent
  <1>6. \A p, q \in 1 .. Len(locations) :
           /\ locations[p] = locations[q] => p = q
           /\ p < q /\ locations[q] < locations[p] =>
                 locations[q] \notin after[locations[p]].before
    BY <1>2 DEF Consistent
  <1>7. QED
    BY <1>1, <1>2, <1>4, <1>5, <1>6 DEF Consistent

\* A location is saved.  Nobody has had an answer to its report yet, so that no
\* report was sent after such an answer.
LEMMA ConsistentSaved ==
    ASSUME NEW d \in Drivers, NEW reports, NEW locations, Consistent(d, reports, locations),
           NEW i \in 1 .. Len(reports), reports[i].at = "judged"
    PROVE  Consistent(d, [reports EXCEPT ![i] = [reports[i] EXCEPT !.at = "saved"]],
                      Append(locations, i))
  <1> DEFINE rep == [reports[i] EXCEPT !.at = "saved"]
             after == [reports EXCEPT ![i] = rep]
             then == Append(locations, i)
  <1>1. /\ reports \in Seq(ReportRecords) /\ Len(reports) \in Nat
        /\ locations \in Seq(1 .. MaxReports) /\ Len(locations) \in Nat
        /\ reports[i] \in ReportRecords /\ Truthful(d, reports[i])
        /\ i \in 1 .. MaxReports
    BY ReportsAssumption DEF Consistent
  <1>2. /\ rep \in ReportRecords
        /\ rep.at = "saved" /\ rep.told = reports[i].told /\ rep.token = reports[i].token
        /\ rep.holder = reports[i].holder /\ rep.since = reports[i].since
        /\ rep.before = reports[i].before
    BY <1>1 DEF ReportRecords
  <1>3. reports[i].told \in Unanswered
    BY <1>1 DEF Truthful, ReportRecords, Unanswered
  <1>4. Truthful(d, rep)
    BY <1>1, <1>2, <1>3 DEF Truthful, SavedPhases, Unanswered
  <1>5. /\ after \in Seq(ReportRecords)
        /\ Len(after) = Len(reports)
        /\ after[i] = rep
        /\ \A j \in 1 .. Len(reports) \ {i} : after[j] = reports[j]
    BY <1>1, <1>2, ExceptSeq
  <1>6. /\ then \in Seq(1 .. MaxReports)
        /\ Len(then) = Len(locations) + 1
        /\ then[Len(locations) + 1] = i
        /\ \A p \in 1 .. Len(locations) : then[p] = locations[p]
    BY <1>1
  <1>7. \A p \in 1 .. Len(locations) :
           /\ locations[p] \in 1 .. Len(reports)
           /\ locations[p] # i
           /\ after[locations[p]] = reports[locations[p]]
           /\ reports[locations[p]].at \in SavedPhases
    BY <1>5 DEF Consistent, SavedPhases
  <1>8. \A k \in 1 .. Len(reports) :
            /\ after[k].told = reports[k].told
            /\ after[k].before = reports[k].before
    BY <1>2, <1>5
  <1>9. \A k \in 1 .. Len(reports) : i \notin reports[k].before
    BY <1>3 DEF Consistent
  <1>10. ASSUME NEW j \in 1 .. Len(after)
        PROVE  /\ Truthful(d, after[j])
               /\ \A k \in after[j].before :
                     k \in 1 .. Len(after) /\ after[k].told \notin Unanswered
               /\ after[j].at \in SavedPhases => \E p \in 1 .. Len(then) : then[p] = j
    <2>1. CASE j = i
      <3>1. Truthful(d, after[j])
        BY <1>4, <1>5, <2>1
      <3>2. \A k \in after[j].before :
               k \in 1 .. Len(after) /\ after[k].told \notin Unanswered
        BY <1>5, <1>8, <2>1 DEF Consistent
      <3>3. Len(locations) + 1 \in 1 .. Len(then) /\ then[Len(locations) + 1] = j
        BY <1>1, <1>6, <2>1
      <3>4. QED
        BY <3>1, <3>2, <3>3
    <2>2. CASE j # i
      <3>1. j \in 1 .. Len(reports) /\ after[j] = reports[j]
        BY <1>5, <2>2
      <3>2. reports[j].at \in SavedPhases => \E p \in 1 .. Len(locations) : locations[p] = j
        BY <3>1 DEF Consistent
      <3>3. reports[j].at \in SavedPhases => \E p \in 1 .. Len(then) : then[p] = j
        BY <1>1, <1>6, <3>2
      <3>4. \A k \in after[j].before :
               k \in 1 .. Len(after) /\ after[k].told \notin Unanswered
        BY <1>5, <1>8, <3>1 DEF Consistent
      <3>5. QED
        BY <3>1, <3>3, <3>4 DEF Consistent
    <2>3. QED
      BY <2>1, <2>2
  <1>11. ASSUME NEW p \in 1 .. Len(then)
        PROVE  then[p] \in 1 .. Len(after) /\ after[then[p]].at \in SavedPhases
    <2>1. CASE p = Len(locations) + 1
      BY <1>2, <1>5, <1>6, <2>1 DEF SavedPhases
    <2>2. CASE p \in 1 .. Len(locations)
      BY <1>5, <1>6, <1>7, <2>2
    <2>3. QED
      BY <1>1, <1>6, <2>1, <2>2
  <1>12. ASSUME NEW p \in 1 .. Len(then), NEW q \in 1 .. Len(then)
         PROVE  /\ then[p] = then[q] => p = q
                /\ p < q /\ then[q] < then[p] => then[q] \notin after[then[p]].before
    <2>1. CASE p \in 1 .. Len(locations) /\ q \in 1 .. Len(locations)
      BY <1>6, <1>7, <2>1 DEF Consistent
    <2>2. CASE p \in 1 .. Len(locations) /\ q = Len(locations) + 1
      <3>1. then[p] # then[q]
        BY <1>6, <1>7, <2>2
      <3>2. then[q] = i /\ then[p] \in 1 .. Len(reports)
        BY <1>6, <1>7, <2>2
      <3>3. then[q] \notin after[then[p]].before
        BY <1>8, <1>9, <3>2
      <3>4. QED
        BY <3>1, <3>3
    <2>3. CASE p = Len(locations) + 1 /\ q \in 1 .. Len(locations)
      BY <1>1, <1>6, <1>7, <2>3
    <2>4. CASE p = Len(locations) + 1 /\ q = Len(locations) + 1
      BY <1>1, <2>4
    <2>5. QED
      BY <1>1, <1>6, <2>1, <2>2, <2>3, <2>4
  <1>13. QED
    BY <1>1, <1>5, <1>6, <1>10, <1>11, <1>12 DEF Consistent

-----------------------------------------------------------------------------
(* What every step keeps *)

\* Reports do not go away, and what was answered is not answered differently.
Remembered ==
    \A d \in Drivers : \A i \in ReportsOf(d) :
        /\ i \in 1 .. Len(report'[d])
        /\ report[d][i].told # "nothing" => report'[d][i].told = report[d][i].told
        /\ report'[d][i].since = report[d][i].since
        /\ report'[d][i].before = report[d][i].before

\* An action that replaces a report of one driver.
LEMMA ReportReplaced ==
    ASSUME ReportsConsistent, NEW d \in Drivers, NEW i \in ReportsOf(d),
           NEW rep \in ReportRecords, GotoReport(d, i, rep), UNCHANGED <<auth, locationsByDriver>>,
           Truthful(d, rep), rep.since = report[d][i].since,
           rep.before = report[d][i].before,
           rep.at \in SavedPhases <=> report[d][i].at \in SavedPhases,
           report[d][i].told # "nothing" => rep.told = report[d][i].told
    PROVE  ReportsConsistent' /\ Remembered
  <1> USE DEF ReportsConsistent, ReportsOf
  <1>1. /\ report' = [report EXCEPT ![d] = [report[d] EXCEPT ![i] = rep]]
        /\ locationsByDriver' = locationsByDriver /\ now' = now
    BY DEF GotoReport, auth
  <1>2. Consistent(d, [report[d] EXCEPT ![i] = rep], locationsByDriver[d])
    BY ConsistentProgress
  <1>3. [report[d] EXCEPT ![i] = rep] \in Seq(ReportRecords)
    BY <1>2 DEF Consistent
  <1>4. /\ report' \in [Drivers -> Seq(ReportRecords)]
        /\ report'[d] = [report[d] EXCEPT ![i] = rep]
        /\ \A e \in Drivers \ {d} : report'[e] = report[e]
    BY <1>1, <1>3
  <1>5. \A e \in Drivers : Consistent(e, report'[e], locationsByDriver'[e])
    BY <1>1, <1>2, <1>4
  <1>6. /\ Len(report'[d]) = Len(report[d])
        /\ \A j \in 1 .. Len(report[d]) :
              report'[d][j] = IF j = i THEN rep ELSE report[d][j]
    BY <1>4, ExceptSeq
  <1>7. Remembered
    BY <1>4, <1>6 DEF Remembered
  <1>8. \A e \in Drivers : \A j \in 1 .. Len(report'[e]) : report'[e][j].since <= now'
    BY <1>1, <1>4, <1>6
  <1>9. QED
    BY <1>1, <1>4, <1>5, <1>7, <1>8

\* Time goes on, drivers log in.
LEMMA AuthKeeps ==
    ASSUME AuthTypeOK, ReportsConsistent, AuthNext, UNCHANGED reporting
    PROVE  AuthTypeOK' /\ ReportsConsistent' /\ Remembered /\ now <= now'
  <1>1. report' = report /\ locationsByDriver' = locationsByDriver
    BY DEF reporting
  <1>2. now \in Nat
    BY TimeAssumption DEF AuthTypeOK
  <1>3. ASSUME NEW email \in Drivers, NEW password \in Drivers, Login(email, password)
        PROVE  AuthTypeOK' /\ now' = now
    <2>1. PICK driver \in FindByEmail(email) :
             tokens' = tokens \cup {GenerateToken(driver)} /\ now' = now
      BY <1>3 DEF Login
    <2>2. driver.id \in Drivers
      BY DEF FindByEmail, InitializeDrivers
    <2>3. now + Lifetime \in Lifetime .. Lifetime + MaxTime
      BY TimeAssumption DEF AuthTypeOK
    <2>4. GenerateToken(driver) \in Tokens
      BY <2>2, <2>3 DEF GenerateToken, Tokens
    <2>5. QED
      BY <2>1, <2>4 DEF AuthTypeOK
  <1>4. ASSUME TimePasses
        PROVE  AuthTypeOK' /\ now' = now + 1
    BY <1>4, TimeAssumption DEF TimePasses, AuthTypeOK
  <1>5. AuthTypeOK' /\ now' \in Nat /\ now <= now'
    BY <1>2, <1>3, <1>4 DEF AuthNext
  <1>6. \A d \in Drivers : \A i \in ReportsOf(d) : report[d][i].since <= now'
    <2> SUFFICES ASSUME NEW d \in Drivers, NEW i \in ReportsOf(d)
                 PROVE  report[d][i].since <= now'
      OBVIOUS
    <2>1. report[d][i] \in ReportRecords /\ report[d][i].since <= now
      BY DEF ReportsConsistent, ReportsOf
    <2>2. report[d][i].since \in Nat
      BY <2>1, TimeAssumption DEF ReportRecords
    <2>3. QED
      BY <1>2, <1>5, <2>1, <2>2
  <1>7. ReportsConsistent' /\ Remembered
    BY <1>1, <1>6 DEF ReportsConsistent, Remembered, ReportsOf
  <1>8. QED
    BY <1>5, <1>7

\* A driver reports.
LEMMA ReportKeeps ==
    ASSUME AuthTypeOK, ReportsConsistent, NEW d \in Reporters,
           NEW token \in tokens \cup {None}, Report(d, token)
    PROVE  ReportsConsistent' /\ Remembered
  <1> DEFINE rep == [at |-> "sent", told |-> "nothing", token |-> token,
                     since |-> now, holder |-> None, before |-> Answered(d)]
  <1>1. /\ d \in Drivers
        /\ report[d] \in Seq(ReportRecords)
        /\ Consistent(d, report[d], locationsByDriver[d])
        /\ Len(report[d]) < MaxReports
        /\ Len(report[d]) <= MaxReports
        /\ \A j \in Answered(d) :
              j \in 1 .. Len(report[d]) /\ report[d][j].told \notin Unanswered
    BY ReportsAssumption
       DEF ReportsConsistent, Consistent, Report, ReportsOf, Answered, Unanswered
  <1>2. /\ report' = [report EXCEPT ![d] = Append(report[d], rep)]
        /\ locationsByDriver' = locationsByDriver /\ now' = now
    BY DEF Report, auth
  <1>3. rep \in ReportRecords
    <2>1. Answered(d) \in SUBSET (1 .. MaxReports)
      BY <1>1, ReportsAssumption
    <2>2. QED
      BY <2>1 DEF AuthTypeOK, ReportRecords
  <1>4. Truthful(d, rep)
    BY DEF Truthful, SavedPhases, Report
  <1>5. Consistent(d, Append(report[d], rep), locationsByDriver[d])
    BY <1>1, <1>3, <1>4, ConsistentSent
  <1>6. /\ report' \in [Drivers -> Seq(ReportRecords)]
        /\ report'[d] = Append(report[d], rep)
        /\ \A e \in Drivers \ {d} : report'[e] = report[e]
    BY <1>1, <1>2, <1>3 DEF ReportsConsistent
  <1>7. /\ Len(report'[d]) = Len(report[d]) + 1
        /\ report'[d][Len(report[d]) + 1] = rep
        /\ \A j \in 1 .. Len(report[d]) : report'[d][j] = report[d][j]
    BY <1>1, <1>3, <1>6
  <1>8. Remembered
    <2> HIDE DEF rep
    <2>1. Len(report[d]) \in Nat
      BY <1>1
    <2>2. \A j \in 1 .. Len(report[d]) :
             j \in 1 .. Len(report'[d]) /\ report'[d][j] = report[d][j]
      BY <1>7, <2>1
    <2>3. QED
      BY <1>6, <2>2 DEF Remembered, ReportsOf
  <1>9. \A e \in Drivers : Consistent(e, report'[e], locationsByDriver'[e])
    BY <1>2, <1>5, <1>6 DEF ReportsConsistent
  <1>10. \A e \in Drivers : \A j \in 1 .. Len(report'[e]) : report'[e][j].since <= now'
    <2>1. \A j \in 1 .. Len(report'[d]) : report'[d][j].since <= now'
      <3>1. \A j \in 1 .. Len(report[d]) : report'[d][j].since <= now'
        BY <1>1, <1>2, <1>7 DEF ReportsConsistent, ReportsOf
      <3>2. rep.since <= now'
        BY <1>2, TimeAssumption DEF AuthTypeOK
      <3>3. QED
        BY <1>1, <1>7, <3>1, <3>2
    <2>2. \A e \in Drivers \ {d} : \A j \in 1 .. Len(report'[e]) : report'[e][j].since <= now'
      BY <1>2, <1>6 DEF ReportsConsistent, ReportsOf
    <2>3. QED
      BY <2>1, <2>2
  <1>11. QED
    BY <1>2, <1>6, <1>8, <1>9, <1>10 DEF ReportsConsistent, ReportsOf

\* location-service judges, saves and publishes.
LEMMA ProgressKeeps ==
    ASSUME AuthTypeOK, ReportsConsistent, NEW d \in Drivers, NEW i \in ReportsOf(d),
           ReportProgress(d, i)
    PROVE  ReportsConsistent' /\ Remembered /\ UNCHANGED auth
  <1>1. /\ report[d][i] \in ReportRecords
        /\ report[d] \in Seq(ReportRecords)
        /\ Consistent(d, report[d], locationsByDriver[d])
        /\ Truthful(d, report[d][i])
        /\ report[d][i].since <= now
        /\ i \in 1 .. Len(report[d])
    <2>1. /\ report[d] \in Seq(ReportRecords)
          /\ Consistent(d, report[d], locationsByDriver[d])
          /\ report[d][i].since <= now
          /\ i \in 1 .. Len(report[d])
      BY DEF ReportsConsistent, ReportsOf
    <2>2. Truthful(d, report[d][i])
      BY <2>1 DEF Consistent
    <2>3. QED
      BY <2>1, <2>2
  <1>2. CASE ReportJudged(d, i)
    <2>1. PICK holder \in {ValidateToken(report[d][i].token), None} :
             GotoReport(d, i, [report[d][i] EXCEPT
                                 !.at = IF holder = None THEN "refused" ELSE "judged",
                                 !.holder = holder])
      BY <1>2 DEF ReportJudged
    <2> DEFINE rep == [report[d][i] EXCEPT
                         !.at = IF holder = None THEN "refused" ELSE "judged",
                         !.holder = holder]
    <2>2. report[d][i].at = "sent" /\ UNCHANGED <<auth, locationsByDriver>>
      BY <1>2 DEF ReportJudged
    <2>3. holder # None =>
             /\ report[d][i].token # None /\ holder = d
             /\ report[d][i].since < report[d][i].token.expires
      <3>1. holder # None =>
               /\ report[d][i].token # None
               /\ holder = report[d][i].token.driver
               /\ now < report[d][i].token.expires
        BY DEF ValidateToken
      <3>2. report[d][i].token # None =>
               report[d][i].token.driver = d /\ report[d][i].token.expires \in Nat
        BY <1>1, TimeAssumption DEF Truthful, ReportRecords, Tokens
      <3>3. report[d][i].since \in Nat /\ now \in Nat
        BY <1>1, TimeAssumption DEF ReportRecords, AuthTypeOK
      <3>4. QED
        BY <1>1, <3>1, <3>2, <3>3
    <2>4. /\ rep \in ReportRecords
          /\ rep.at = IF holder = None THEN "refused" ELSE "judged"
          /\ rep.holder = holder /\ rep.told = report[d][i].told
          /\ rep.token = report[d][i].token /\ rep.since = report[d][i].since
          /\ rep.before = report[d][i].before
      BY <1>1, <2>3 DEF ReportRecords
    <2>5. report[d][i].told \in {"nothing", "timeout"}
      BY <1>1, <2>2 DEF Truthful, ReportRecords
    <2>6. Truthful(d, rep)
      BY <1>1, <2>3, <2>4, <2>5 DEF Truthful, SavedPhases
    <2>7. rep.at \notin SavedPhases /\ report[d][i].at \notin SavedPhases
      BY <2>2, <2>4 DEF SavedPhases
    <2>8. QED
      BY <2>1, <2>2, <2>4, <2>6, <2>7, ReportReplaced
  <1>3. CASE LocationSaved(d, i)
    <2> DEFINE rep == [report[d][i] EXCEPT !.at = "saved"]
               after == [report[d] EXCEPT ![i] = rep]
    <2>1. /\ report[d][i].at = "judged" /\ report[d][i].holder = d
          /\ UNCHANGED auth /\ now' = now
      BY <1>1, <1>3 DEF LocationSaved, Truthful, auth
    <2>2. /\ report' = [report EXCEPT ![d] = after]
          /\ locationsByDriver' =
                [locationsByDriver EXCEPT ![d] = Append(locationsByDriver[d], i)]
      BY <1>3, <2>1 DEF LocationSaved, GotoReport
    <2>3. Consistent(d, after, Append(locationsByDriver[d], i))
      BY <1>1, <2>1, ConsistentSaved
    <2>4. after \in Seq(ReportRecords) /\ Append(locationsByDriver[d], i) \in Seq(1 .. MaxReports)
      BY <2>3 DEF Consistent
    <2>5. /\ report' \in [Drivers -> Seq(ReportRecords)]
          /\ locationsByDriver' \in [Drivers -> Seq(1 .. MaxReports)]
          /\ report'[d] = after
          /\ locationsByDriver'[d] = Append(locationsByDriver[d], i)
          /\ \A e \in Drivers \ {d} :
                report'[e] = report[e] /\ locationsByDriver'[e] = locationsByDriver[e]
      BY <2>2, <2>4 DEF ReportsConsistent
    <2>6. \A e \in Drivers : Consistent(e, report'[e], locationsByDriver'[e])
      BY <2>3, <2>5 DEF ReportsConsistent
    <2>7. /\ rep \in ReportRecords
          /\ rep.told = report[d][i].told /\ rep.since = report[d][i].since
          /\ rep.before = report[d][i].before
      BY <1>1 DEF ReportRecords
    <2>8. /\ Len(report'[d]) = Len(report[d])
          /\ \A j \in 1 .. Len(report[d]) :
                report'[d][j] = IF j = i THEN rep ELSE report[d][j]
      BY <1>1, <2>5, <2>7, ExceptSeq
    <2>9. Remembered
      BY <2>5, <2>7, <2>8 DEF Remembered, ReportsOf
    <2>10. \A e \in Drivers : \A j \in 1 .. Len(report'[e]) : report'[e][j].since <= now'
      BY <2>1, <2>5, <2>7, <2>8 DEF ReportsConsistent, ReportsOf
    <2>11. QED
      BY <2>1, <2>5, <2>6, <2>9, <2>10 DEF ReportsConsistent, ReportsOf
  <1>4. CASE PublicationEnded(d, i)
    <2>1. PICK end \in {"done", "failed"} :
             GotoReport(d, i, [report[d][i] EXCEPT !.at = end])
      BY <1>4 DEF PublicationEnded
    <2> DEFINE rep == [report[d][i] EXCEPT !.at = end]
    <2>2. report[d][i].at = "saved" /\ UNCHANGED <<auth, locationsByDriver>>
      BY <1>4 DEF PublicationEnded
    <2>3. /\ rep \in ReportRecords
          /\ rep.at = end
          /\ rep.holder = report[d][i].holder /\ rep.told = report[d][i].told
          /\ rep.token = report[d][i].token /\ rep.since = report[d][i].since
          /\ rep.before = report[d][i].before
      BY <1>1 DEF ReportRecords
    <2>4. report[d][i].told \in {"nothing", "timeout"}
      BY <1>1, <2>2 DEF Truthful, ReportRecords
    <2>5. Truthful(d, rep)
      BY <1>1, <2>2, <2>3, <2>4 DEF Truthful, SavedPhases
    <2>6. rep.at \in SavedPhases /\ report[d][i].at \in SavedPhases
      BY <2>2, <2>3 DEF SavedPhases
    <2>7. QED
      BY <2>1, <2>2, <2>3, <2>5, <2>6, ReportReplaced
  <1>5. QED
    BY <1>2, <1>3, <1>4 DEF ReportProgress

\* The BFF answers a report, or gives it up.
LEMMA EndKeeps ==
    ASSUME ReportsConsistent, NEW d \in Drivers, NEW i \in ReportsOf(d), ReportEnds(d, i)
    PROVE  ReportsConsistent' /\ Remembered /\ UNCHANGED auth
  <1>1. report[d][i] \in ReportRecords /\ Truthful(d, report[d][i])
    <2>1. /\ report[d] \in Seq(ReportRecords)
          /\ Consistent(d, report[d], locationsByDriver[d])
          /\ i \in 1 .. Len(report[d])
      BY DEF ReportsConsistent, ReportsOf
    <2>2. report[d][i] \in ReportRecords
      BY <2>1
    <2>3. Truthful(d, report[d][i])
      BY <2>1 DEF Consistent
    <2>4. QED
      BY <2>2, <2>3
  <1>2. ASSUME NEW told \in {"success", "unauthorized", "error", "timeout"},
               GotoReport(d, i, [report[d][i] EXCEPT !.told = told]),
               report[d][i].told = "nothing",
               told = "success" => report[d][i].at = "done",
               told = "unauthorized" => report[d][i].at = "refused",
               told = "error" => report[d][i].at = "failed",
               UNCHANGED <<auth, locationsByDriver>>
        PROVE  ReportsConsistent' /\ Remembered /\ UNCHANGED auth
    <2> DEFINE rep == [report[d][i] EXCEPT !.told = told]
    <2>1. /\ rep \in ReportRecords
          /\ rep.at = report[d][i].at /\ rep.told = told
          /\ rep.holder = report[d][i].holder
          /\ rep.token = report[d][i].token /\ rep.since = report[d][i].since
          /\ rep.before = report[d][i].before
      BY <1>1 DEF ReportRecords
    <2>2. Truthful(d, rep)
      BY <1>1, <1>2, <2>1 DEF Truthful
    <2>3. QED
      BY <1>2, <2>1, <2>2, ReportReplaced
  <1>3. CASE ReportAnswered(d, i)
    BY <1>2, <1>3 DEF ReportAnswered, Answer
  <1>4. CASE ReportGivenUp(d, i)
    BY <1>2, <1>4 DEF ReportGivenUp
  <1>5. QED
    BY <1>3, <1>4 DEF ReportEnds

LEMMA ReportingKeeps ==
    ASSUME AuthTypeOK, ReportsConsistent, ReportingNext
    PROVE  AuthTypeOK' /\ ReportsConsistent' /\ Remembered /\ now <= now'
  <1>1. UNCHANGED auth => AuthTypeOK' /\ now <= now'
    BY TimeAssumption DEF auth, AuthTypeOK
  <1>2. CASE AuthNext /\ UNCHANGED reporting
    BY <1>2, AuthKeeps
  <1>3. ASSUME NEW d \in Reporters, NEW token \in tokens \cup {None}, Report(d, token)
        PROVE  AuthTypeOK' /\ ReportsConsistent' /\ Remembered /\ now <= now'
    BY <1>1, <1>3, ReportKeeps DEF Report
  <1>4. ASSUME NEW d \in Drivers, NEW i \in ReportsOf(d),
               ReportProgress(d, i) \/ ReportEnds(d, i)
        PROVE  AuthTypeOK' /\ ReportsConsistent' /\ Remembered /\ now <= now'
    BY <1>1, <1>4, ProgressKeeps, EndKeeps
  <1>5. QED
    BY <1>2, <1>3, <1>4 DEF ReportingNext

-----------------------------------------------------------------------------
(* Requests for a dashboard *)

\* What a request has established stays so.
LEMMA StaysGrounded ==
    ASSUME AuthTypeOK, AuthTypeOK', Remembered, now <= now', NEW q \in RequestRecords,
           Grounded(q, report, now)
    PROVE  Grounded(q, report', now')
  <1>1. now \in Nat /\ now' \in Nat /\ q.since \in Nat
    BY TimeAssumption DEF AuthTypeOK, RequestRecords
  <1>2. ASSUME NEW i, q.driver \in Drivers, i \in 1 .. Len(report[q.driver])
        PROVE  /\ i \in 1 .. Len(report'[q.driver])
               /\ report'[q.driver][i].before = report[q.driver][i].before
               /\ report[q.driver][i].told # "nothing" =>
                     report'[q.driver][i].told = report[q.driver][i].told
    BY <1>2 DEF Remembered, ReportsOf
  <1>3. q.at \notin {"idle", "refused"} =>
           /\ q.driver \in Drivers
           /\ q.since <= now'
           /\ \A i \in q.told :
                 i \in 1 .. Len(report'[q.driver]) /\ report'[q.driver][i].told = "success"
    BY <1>1, <1>2 DEF Grounded
  <1>4. q.at \in {"loading", "served"} /\ "location" \in q.here =>
           /\ q.shown # 0
           /\ \A i \in q.told : q.shown < i => q.shown \notin report'[q.driver][i].before
    BY <1>2 DEF Grounded
  <1>5. QED
    BY <1>3, <1>4 DEF Grounded

\* A step of one request.
LEMMA StepKeeps ==
    ASSUME RequestsGrounded, NEW r \in Requests, NEW q \in RequestRecords, Goto(r, q),
           Grounded(q, report, now)
    PROVE  RequestsGrounded'
  <1>1. request' = [request EXCEPT ![r] = q] /\ report' = report /\ now' = now
    BY DEF Goto, auth, reporting
  <1>2. QED
    BY <1>1 DEF RequestsGrounded

LEMMA AskedKeeps ==
    ASSUME IInv, NEW r \in Requests, NEW d \in Drivers, NEW token \in tokens \cup {None},
           GetDriverDashboard(r, d, token)
    PROVE  RequestsGrounded'
  <1> DEFINE q == [IdleRequest EXCEPT !.at = "validating", !.driver = d, !.token = token,
                                      !.since = now, !.told = Successes(d)]
  <1>1. Goto(r, q)
    BY DEF GetDriverDashboard
  <1>2. Successes(d) \subseteq 1 .. Len(report[d]) /\ Successes(d) \in SUBSET (1 .. MaxReports)
    BY ReportsAssumption DEF Successes, ReportsOf, IInv, ReportsConsistent, Consistent
  <1>3. /\ q.at = "validating" /\ q.driver = d /\ q.token = token
        /\ q.since = now /\ q.told = Successes(d) /\ q.here = {}
    BY DEF IdleRequest
  <1>4. q \in RequestRecords
    <2>1. token \in Tokens \cup {None} /\ now \in 0 .. MaxTime /\ 0 \in 0 .. MaxReports
      BY ReportsAssumption DEF IInv, AuthTypeOK
    <2>2. IdleRequest \in RequestRecords
      BY ReportsAssumption, TimeAssumption DEF IdleRequest, RequestRecords, Closed
    <2>3. QED
      BY <1>2, <2>1, <2>2 DEF RequestRecords
  <1>5. Grounded(q, report, now)
    BY <1>2, <1>3, TimeAssumption DEF Grounded, Successes, IInv, AuthTypeOK
  <1>6. QED
    BY <1>1, <1>4, <1>5, StepKeeps DEF IInv

LEMMA RefusedGrounded ==
    LET q == [IdleRequest EXCEPT !.at = "refused"]
    IN  q \in RequestRecords /\ Grounded(q, report, now)
  BY ReportsAssumption, TimeAssumption DEF IdleRequest, RequestRecords, Closed, Grounded

\* A part arrives; the location is one that has been saved.
LEMMA PartKeeps ==
    ASSUME IInv, NEW r \in Requests, request[r].at = "loading",
           NEW part \in Parts, NEW shown \in 0 .. MaxReports, Arrived(r, part, shown),
           part = "location" =>
               LET locations == locationsByDriver[request[r].driver]
               IN  locations # <<>> /\ shown = Last(locations),
           part # "location" => shown = request[r].shown
    PROVE  RequestsGrounded'
  <1> DEFINE d == request[r].driver
             here == request[r].here \cup {part}
             q == [request[r] EXCEPT !.here = here, !.shown = shown,
                                     !.at = IF here = Parts THEN "served" ELSE "loading"]
  <1>1. /\ request[r] \in RequestRecords /\ Grounded(request[r], report, now)
        /\ d \in Drivers
    BY DEF IInv, RequestsGrounded, Grounded
  <1>2. /\ q \in RequestRecords
        /\ q.at = IF here = Parts THEN "served" ELSE "loading"
        /\ q.here = here /\ q.shown = shown
        /\ q.driver = d /\ q.token = request[r].token /\ q.since = request[r].since
        /\ q.holder = request[r].holder /\ q.told = request[r].told
    BY <1>1 DEF RequestRecords, Closed, Parts
  <1>3. ASSUME "location" \in here
        PROVE  /\ shown # 0
               /\ \A i \in q.told : shown < i => shown \notin report[d][i].before
    <2>1. CASE part = "location"
      <3> DEFINE locations == locationsByDriver[d]
                 n == Len(locations)
      <3>1. /\ Consistent(d, report[d], locations)
            /\ locations \in Seq(1 .. MaxReports)
        BY <1>1 DEF IInv, ReportsConsistent
      <3>2. n \in 1 .. n /\ shown = locations[n] /\ n \in Nat
        BY <2>1, <3>1 DEF Last
      <3>3. shown \in 1 .. Len(report[d])
        BY <3>1, <3>2 DEF Consistent
      <3>4. ASSUME NEW i \in q.told, shown < i
            PROVE  shown \notin report[d][i].before
        <4>1. i \in 1 .. Len(report[d]) /\ report[d][i].told = "success"
          BY <1>1, <1>2 DEF Grounded
        <4>2. report[d][i].at = "done"
          BY <3>1, <4>1 DEF Consistent, Truthful
        <4>3. PICK p \in 1 .. n : locations[p] = i
          BY <3>1, <4>1, <4>2 DEF Consistent, SavedPhases
        <4>4. p < n
          BY <3>2, <3>3, <3>4, <4>1, <4>3
        <4>5. QED
          BY <3>1, <3>2, <3>4, <4>3, <4>4 DEF Consistent
      <3>5. QED
        BY <3>2, <3>3, <3>4
    <2>2. CASE part # "location"
      BY <1>1, <1>2, <1>3, <2>2 DEF Grounded
    <2>3. QED
      BY <2>1, <2>2
  <1>4. Grounded(q, report, now)
    BY <1>1, <1>2, <1>3 DEF Grounded
  <1>5. Goto(r, q)
    BY DEF Arrived
  <1>6. QED
    BY <1>2, <1>4, <1>5, StepKeeps DEF IInv

LEMMA ProgressGrounded ==
    ASSUME IInv, NEW r \in Requests, Progress(r)
    PROVE  RequestsGrounded' /\ UNCHANGED <<auth, reporting>>
  <1>1. request[r] \in RequestRecords /\ Grounded(request[r], report, now)
    BY DEF IInv, RequestsGrounded
  <1>2. UNCHANGED <<auth, reporting>>
    BY DEF Progress, TokenValidated, Refuse, Load, ProfileArrived, LocationArrived,
           StatisticsArrived, PartFailed, Arrived, Goto
  <1>3. CASE TokenValidated(r)
    <2>1. PICK holder \in {ValidateToken(request[r].token), None} :
             Goto(r, [request[r] EXCEPT !.at = "validated", !.holder = holder])
      BY <1>3 DEF TokenValidated
    <2> DEFINE q == [request[r] EXCEPT !.at = "validated", !.holder = holder]
    <2>2. request[r].at = "validating"
      BY <1>3 DEF TokenValidated
    <2>3. holder # None =>
             /\ request[r].token # None
             /\ holder = request[r].token.driver
             /\ now < request[r].token.expires
      BY DEF ValidateToken
    <2>4. /\ request[r].token # None =>
                request[r].token.driver \in Drivers /\ request[r].token.expires \in Nat
          /\ request[r].since \in Nat /\ now \in Nat
      BY <1>1, TimeAssumption DEF RequestRecords, Tokens, IInv, AuthTypeOK
    <2>5. /\ q \in RequestRecords
          /\ q.at = "validated" /\ q.holder = holder
          /\ q.driver = request[r].driver /\ q.token = request[r].token
          /\ q.since = request[r].since /\ q.told = request[r].told
          /\ q.here = request[r].here
      BY <1>1, <2>3, <2>4 DEF RequestRecords
    <2>6. Grounded(q, report, now)
      BY <1>1, <2>2, <2>3, <2>4, <2>5 DEF Grounded
    <2>7. QED
      BY <1>2, <2>1, <2>5, <2>6, StepKeeps DEF IInv
  <1>4. CASE Refuse(r) \/ PartFailed(r)
    BY <1>2, <1>4, RefusedGrounded, StepKeeps DEF Refuse, PartFailed, IInv
  <1>5. CASE Load(r)
    <2> DEFINE q == [request[r] EXCEPT !.at = "loading"]
    <2>1. /\ request[r].at = "validated" /\ request[r].holder = request[r].driver
          /\ Goto(r, q)
      BY <1>5 DEF Load
    <2>2. /\ q \in RequestRecords
          /\ q.at = "loading" /\ q.holder = request[r].holder
          /\ q.driver = request[r].driver /\ q.token = request[r].token
          /\ q.since = request[r].since /\ q.told = request[r].told
          /\ q.here = request[r].here
      BY <1>1 DEF RequestRecords
    <2>3. "location" \notin request[r].here
      BY <1>1, <2>1 DEF Grounded
    <2>4. Grounded(q, report, now)
      BY <1>1, <2>1, <2>2, <2>3 DEF Grounded
    <2>5. QED
      BY <1>2, <2>1, <2>2, <2>4, StepKeeps DEF IInv
  <1>6. CASE ProfileArrived(r)
    BY <1>1, <1>2, <1>6, PartKeeps DEF ProfileArrived, Parts, RequestRecords
  <1>7. CASE LocationArrived(r)
    <2> DEFINE locations == locationsByDriver[request[r].driver]
    <2>1. /\ request[r].at = "loading" /\ locations # <<>>
          /\ Arrived(r, "location", Last(locations))
      BY <1>7 DEF LocationArrived
    <2>2. locations \in Seq(1 .. MaxReports)
      BY <1>1, <2>1 DEF Grounded, IInv, ReportsConsistent
    <2>3. Last(locations) \in 0 .. MaxReports
      BY <2>1, <2>2, ReportsAssumption DEF Last
    <2>4. QED
      BY <1>2, <2>1, <2>3, PartKeeps DEF Parts
  <1>8. CASE StatisticsArrived(r)
    BY <1>1, <1>2, <1>8, PartKeeps DEF StatisticsArrived, Parts, RequestRecords
  <1>9. QED
    BY <1>3, <1>4, <1>5, <1>6, <1>7, <1>8 DEF Progress

-----------------------------------------------------------------------------
(* The invariant holds, and the properties with it *)

LEMMA InitInv == Init => IInv
  <1> SUFFICES ASSUME Init PROVE IInv
    OBVIOUS
  <1>1. AuthTypeOK
    BY TimeAssumption DEF Init, ReportingInit, AuthInit, AuthTypeOK
  <1>2. ReportsConsistent
    BY ReportsAssumption DEF Init, ReportingInit, ReportsConsistent, Consistent, ReportsOf
  <1>3. IdleRequest \in RequestRecords
    BY ReportsAssumption, TimeAssumption DEF IdleRequest, RequestRecords, Closed
  <1>4. Grounded(IdleRequest, report, now)
    BY DEF IdleRequest, Grounded
  <1>5. QED
    BY <1>1, <1>2, <1>3, <1>4 DEF Init, IInv, RequestsGrounded

LEMMA NextInv == IInv /\ [Next]_vars => IInv'
  <1> SUFFICES ASSUME IInv, [Next]_vars PROVE IInv'
    OBVIOUS
  <1>1. CASE ReportingNext /\ UNCHANGED request
    <2>1. AuthTypeOK' /\ ReportsConsistent' /\ Remembered /\ now <= now'
      BY <1>1, ReportingKeeps DEF IInv
    <2>2. RequestsGrounded'
      BY <1>1, <2>1, StaysGrounded DEF IInv, RequestsGrounded
    <2>3. QED
      BY <2>1, <2>2 DEF IInv
  <1>2. UNCHANGED <<auth, reporting>> => AuthTypeOK' /\ ReportsConsistent'
    BY DEF IInv, auth, reporting, AuthTypeOK, ReportsConsistent, ReportsOf
  <1>3. ASSUME NEW r \in Requests, NEW d \in Drivers, NEW token \in tokens \cup {None},
               GetDriverDashboard(r, d, token)
        PROVE  IInv'
    BY <1>2, <1>3, AskedKeeps DEF GetDriverDashboard, Goto, IInv
  <1>4. ASSUME NEW r \in Requests, Progress(r)
        PROVE  IInv'
    BY <1>2, <1>4, ProgressGrounded DEF IInv
  <1>5. CASE UNCHANGED vars
    BY <1>2, <1>5 DEF vars, IInv, RequestsGrounded, auth, reporting
  <1>6. QED
    BY <1>1, <1>3, <1>4, <1>5 DEF Next

THEOREM Invariant == Spec => []IInv
  <1>1. QED
    BY InitInv, NextInv, PTL DEF Spec

\* The state is well typed.
THEOREM TypeCorrect == Spec => []TypeOK
  <1>1. IInv => TypeOK
    BY DEF IInv, ReportsConsistent, RequestsGrounded, TypeOK, ReportingTypeOK
  <1>2. QED
    BY <1>1, Invariant, PTL

\* What a driver is told of its reports is what happened to them.
THEOREM AnswersTrue == Spec => []AnswersAreTrue
  <1>1. ASSUME IInv, NEW d \in Drivers, NEW i \in ReportsOf(d)
        PROVE  LET saved == Occurrences(locationsByDriver[d], i)
               IN  /\ report[d][i].told = "success" => Cardinality(saved) = 1
                   /\ report[d][i].told = "unauthorized" => saved = {}
                   /\ saved # {} => /\ report[d][i].token # None
                                    /\ report[d][i].since < report[d][i].token.expires
    <2> DEFINE locations == locationsByDriver[d]
               saved == Occurrences(locations, i)
    <2>1. /\ Consistent(d, report[d], locations)
          /\ i \in 1 .. Len(report[d]) /\ Truthful(d, report[d][i])
      BY <1>1 DEF IInv, ReportsConsistent, ReportsOf, Consistent
    <2>2. report[d][i].told = "success" => Cardinality(saved) = 1
      <3> SUFFICES ASSUME report[d][i].told = "success" PROVE Cardinality(saved) = 1
        OBVIOUS
      <3>1. report[d][i].at = "done"
        BY <2>1 DEF Truthful
      <3>2. PICK p \in 1 .. Len(locations) : locations[p] = i
        BY <2>1, <3>1 DEF Consistent, SavedPhases
      <3>3. saved = {p}
        BY <2>1, <3>2 DEF Occurrences, Consistent
      <3>4. QED
        BY <3>3, FS_Singleton
    <2>3. saved # {} => report[d][i].at \in SavedPhases
      BY <2>1 DEF Occurrences, Consistent
    <2>4. QED
      BY <2>1, <2>2, <2>3 DEF Truthful, SavedPhases
  <1>2. IInv => AnswersAreTrue
    BY <1>1 DEF AnswersAreTrue
  <1>3. QED
    BY <1>2, Invariant, PTL

\* A dashboard is gathered for the holder of the driver's own token.
THEOREM HolderServed == Spec => []ServedToHolder
  <1>1. IInv => ServedToHolder
    BY NoneFacts DEF IInv, RequestsGrounded, Grounded, ServedToHolder
  <1>2. QED
    BY <1>1, Invariant, PTL

\* What is served is whole.
THEOREM WholeServed == Spec => []ServedWhole
  <1>1. IInv => ServedWhole
    BY DEF IInv, RequestsGrounded, Grounded, ServedWhole, Parts
  <1>2. QED
    BY <1>1, Invariant, PTL

\* What is shown is no older than what had been accepted, unless the newer report
\* was sent without an answer to the older one.
THEOREM NotOlderShown == Spec => []ShownNotOlder
  <1>1. IInv => ShownNotOlder
    BY DEF IInv, RequestsGrounded, Grounded, ShownNotOlder, Parts
  <1>2. QED
    BY <1>1, Invariant, PTL
=============================================================================
