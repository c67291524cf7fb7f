----------------------------- MODULE MCSessions -----------------------------
(* Small instances of Sessions for TLC. *)
EXTENDS Sessions, TLC

\* Bound: location-service gets the first report or none, as the second would be
\* loaded only where the first could.
FirstStored == stored' # stored => clock = 0

\* Bound: locations of one driver only.
OneReporter ==
    \E d \in Drivers : \A other \in Drivers \ {d} : stored[other] = 0 /\ locationCache[other] = 0

BoundedSpec ==
    SessionsInit /\ [][SequentialSessionsNext /\ FirstStored /\ OneReporter']_sessions

\* The fingerprint of a state leaves out what neither a guard nor an unprimed
\* property reads (what was published and sent, the periods), and which object an
\* interval is: by OneTimerPerClient of ClientGateway the registered ones are all.
Seen ==
    <<clientSubscriptions, tracked, driverSubscribers, locationCache, profileCache,
      subscriber, channels, call, stored, clock, connected, task,
      [c \in Clients |-> IF clientIntervals[c] = None THEN None
                         ELSE timers[clientIntervals[c]].driver]>>

\* Sound for safety only.
Symmetry == Permutations(Clients) \cup Permutations(Drivers) \cup Permutations(Calls)
=============================================================================
