------------------------ MODULE LocationServiceProofs ------------------------
(***************************************************************************)
(* What location-service keeps and publishes, for every set of drivers and *)
(* requests, every length of the history and any number of losses of the   *)
(* connection.                                                             *)
(*                                                                         *)
(* The history is the end of everything saved (Histories).  The properties *)
(* of the publication rest on the commands that wait for an answer: each   *)
(* belongs to one request (Owned), those of a driver are in the order of   *)
(* their timestamps (Sorted), those executed have been sent out (Told),    *)
(* and a channel that has carried a location carries a newer one later, or *)
(* ends with the newest (Settling).                                        *)
(***************************************************************************)
EXTENDS LocationService, SequenceTheorems, WellFoundedInduction, TLAPS

Phases == {"idle", "validating", "publishing", "announcing"}

RequestRecords ==
    [at : Phases, driver : Drivers \cup {None}, header : Headers \cup {None},
     location : 0 .. MaxClock]

Increasing(s) == \A i, j \in 1 .. Len(s) : i < j => s[i] < s[j]

\* No location in s is newer than now.
UpTo(s, now) == \A i \in 1 .. Len(s) : s[i] <= now

\* Command c is to carry a location on the channel of driver d.
Carries(c, d) == c.channel = "driver" /\ c.driver = d

\* The types, with the state as functions; a request that is under way has a driver.
Typed ==
    /\ started \in BOOLEAN
    /\ clock \in 0 .. MaxClock
    /\ locationsByDriver \in [Drivers -> Seq(Stamps)]
    /\ saved \in [Drivers -> Seq(Stamps)]
    /\ delivered \in [Drivers -> Seq(Stamps)]
    /\ isConnected \in BOOLEAN
    /\ commands \in Seq(Commands)
    /\ executed \in 0 .. Len(commands)
    /\ announced \subseteq Stamps
    /\ request \in [Requests -> RequestRecords]
    /\ \A r \in Requests : request[r].at # "idle" => request[r].driver \in Drivers
    /\ losses \in 0 .. MaxLosses

\* The history is the end of what was saved, which is in the order of the clock.
HistoryOf(history, s, now) ==
    /\ Increasing(s)
    /\ UpTo(s, now)
    /\ history = Latest(s, MaxHistory)

Histories == \A d \in Drivers : HistoryOf(locationsByDriver[d], saved[d], clock)

\* A command belongs to the request that waits for its answer, and a request to
\* one command at most.
Owned(box, req) ==
    /\ \A i \in 1 .. Len(box) :
          /\ req[box[i].request].at =
                (IF box[i].channel = "driver" THEN "publishing" ELSE "announcing")
          /\ req[box[i].request].driver = box[i].driver
          /\ req[box[i].request].location = box[i].location
    /\ \A i, j \in 1 .. Len(box) : i < j => box[i].request # box[j].request

\* The commands of a driver's channel are in the order of their timestamps.
Sorted(box, now) ==
    /\ \A i \in 1 .. Len(box) : box[i].location <= now
    /\ \A i, j \in 1 .. Len(box) :
          i < j /\ box[i].channel = "driver" /\ box[j].channel = "driver"
                /\ box[i].driver = box[j].driver
              => box[i].location < box[j].location

\* What Redis has executed it has sent out; the general channel comes second.
Told(box, n, out, general) ==
    /\ \A i \in 1 .. n :
          IF box[i].channel = "driver" THEN InSeq(box[i].location, out[box[i].driver])
          ELSE box[i].location \in general
    /\ \A i \in 1 .. Len(box) :
          box[i].channel = "general" => InSeq(box[i].location, out[box[i].driver])

\* The commands that Redis has yet to execute are newer than what a channel has
\* carried, and that is in order.
InOrder(box, n, out, d) ==
    /\ Increasing(out)
    /\ \A i \in n + 1 .. Len(box) : Carries(box[i], d) =>
          \A k \in 1 .. Len(out) : out[k] < box[i].location

\* One of the commands from .. to carries location l of driver d, or a newer one.
Covered(box, from, to, d, l) ==
    \E i \in from .. to : Carries(box[i], d) /\ l <= box[i].location

\* What a channel has carried is followed by a command as new or newer that Redis
\* has yet to execute, or there is no such command and the last is the newest.
\* What was last is as old as a command that may have to be sent again, if any is.
Settling(box, n, out, d) ==
    /\ \A k \in 1 .. Len(out) :
          \/ Covered(box, n + 1, Len(box), d, out[k])
          \/ /\ \A i \in n + 1 .. Len(box) : ~Carries(box[i], d)
             /\ out[k] <= out[Len(out)]
    /\ out # <<>> /\ (\E i \in 1 .. n : Carries(box[i], d))
          => Covered(box, 1, n, d, out[Len(out)])

Queue ==
    /\ Owned(commands, request)
    /\ Sorted(commands, clock)
    /\ Told(commands, executed, delivered, announced)

Channels ==
    \A d \in Drivers :
        /\ UpTo(delivered[d], clock)
        /\ losses = 0 => InOrder(commands, executed, delivered[d], d)
        /\ Settling(commands, executed, delivered[d], d)

\* The inductive invariant.
Invariants == Typed /\ Histories /\ Queue /\ Channels

-----------------------------------------------------------------------------
(* The history *)

\* The last n of s, element by element.
LEMMA LatestOf ==
    ASSUME NEW s \in Seq(Stamps), NEW n \in Nat \ {0}
    PROVE  /\ Latest(s, n) \in Seq(Stamps)
           /\ Len(Latest(s, n)) = IF Len(s) > n THEN n ELSE Len(s)
           /\ \A i \in 1 .. Len(Latest(s, n)) :
                 Latest(s, n)[i] = s[Len(s) - Len(Latest(s, n)) + i]
  <1> DEFINE first == IF Len(s) > n THEN Len(s) - n + 1 ELSE 1
  <1>1. Len(s) \in Nat /\ first \in Int /\ first >= 1
    BY LenProperties
  <1>2. \A i \in first .. Len(s) : s[i] \in Stamps
    BY <1>1, ElementOfSeq
  <1>3. /\ SubSeq(s, first, Len(s)) \in Seq(Stamps)
        /\ Len(SubSeq(s, first, Len(s))) = IF first <= Len(s) THEN Len(s) - first + 1 ELSE 0
        /\ \A i \in 1 .. Len(s) - first + 1 : SubSeq(s, first, Len(s))[i] = s[first + i - 1]
    <2> HIDE DEF first
    <2>1. QED
      BY <1>1, <1>2, SubSeqProperties
  <1>4. Latest(s, n) = SubSeq(s, first, Len(s))
    BY DEF Latest
  <1>5. Len(Latest(s, n)) = IF Len(s) > n THEN n ELSE Len(s)
    <2>1. Len(Latest(s, n)) = IF first <= Len(s) THEN Len(s) - first + 1 ELSE 0
      BY <1>3, <1>4
    <2>2. CASE Len(s) > n
      BY <1>1, <2>1, <2>2
    <2>3. CASE ~(Len(s) > n)
      BY <1>1, <2>1, <2>3
    <2>4. QED
      BY <2>2, <2>3
  <1>6. ASSUME NEW i \in 1 .. Len(Latest(s, n))
        PROVE  Latest(s, n)[i] = s[Len(s) - Len(Latest(s, n)) + i]
    <2>1. i \in 1 .. Len(s) - first + 1 /\ first + i - 1 = Len(s) - Len(Latest(s, n)) + i
      BY <1>1, <1>5
    <2>2. QED
      BY <1>3, <1>4, <2>1
  <1>7. QED
    BY <1>3, <1>4, <1>5, <1>6

\* To push a location, and to shift when there are too many, keeps the last of all.
LEMMA KeepsLatest ==
    ASSUME NEW s \in Seq(Stamps), NEW l \in Stamps
    PROVE  Keep(Latest(s, MaxHistory), l) = Latest(Append(s, l), MaxHistory)
  <1> DEFINE h == Latest(s, MaxHistory)
             longer == Append(h, l)
             q == Append(s, l)
             new == Latest(q, MaxHistory)
  <1>0. MaxHistory \in Nat \ {0}
    BY HistoryAssumption
  <1>1. /\ h \in Seq(Stamps) /\ Len(s) \in Nat
        /\ Len(h) = IF Len(s) > MaxHistory THEN MaxHistory ELSE Len(s)
        /\ \A i \in 1 .. Len(h) : h[i] = s[Len(s) - Len(h) + i]
    BY <1>0, LatestOf, LenProperties
  <1>2. /\ q \in Seq(Stamps) /\ Len(q) = Len(s) + 1 /\ q[Len(s) + 1] = l
        /\ \A i \in 1 .. Len(s) : q[i] = s[i]
    BY AppendProperties
  <1>3. /\ new \in Seq(Stamps)
        /\ Len(new) = IF Len(q) > MaxHistory THEN MaxHistory ELSE Len(q)
        /\ \A i \in 1 .. Len(new) : new[i] = q[Len(q) - Len(new) + i]
    BY <1>0, <1>2, LatestOf
  <1> HIDE DEF h, q, new
  <1>4. /\ longer \in Seq(Stamps) /\ longer # <<>>
        /\ Len(longer) = Len(h) + 1 /\ longer[Len(h) + 1] = l
        /\ \A i \in 1 .. Len(h) : longer[i] = h[i]
    BY <1>1, AppendProperties
  <1> HIDE DEF longer
  <1>5. \A i \in 1 .. Len(longer) : longer[i] = q[Len(q) - Len(longer) + i]
    <2> TAKE i \in 1 .. Len(longer)
    <2>1. CASE i = Len(h) + 1
      <3>1. Len(q) = Len(s) + 1 /\ Len(longer) = i /\ Len(s) \in Nat /\ i \in Nat
        BY <1>1, <1>2, <1>4, <2>1
      <3>2. Len(q) - Len(longer) + i = Len(s) + 1
        BY <3>1
      <3>3. QED
        BY <1>2, <1>4, <2>1, <3>2
    <2>2. CASE i \in 1 .. Len(h)
      <3>1. /\ Len(q) - Len(longer) + i = Len(s) - Len(h) + i
            /\ Len(s) - Len(h) + i \in 1 .. Len(s)
        BY <1>0, <1>1, <1>2, <1>4, <2>2
      <3>2. longer[i] = s[Len(s) - Len(h) + i]
        BY <1>1, <1>4, <2>2
      <3>3. QED
        BY <1>2, <3>1, <3>2
    <2>3. QED
      BY <1>1, <1>4, <2>1, <2>2
  <1>6. CASE Len(longer) > MaxHistory
    <2> DEFINE t == Tail(longer)
    <2>1. /\ t \in Seq(Stamps) /\ Len(t) = Len(longer) - 1
          /\ \A i \in 1 .. Len(t) : t[i] = longer[i + 1]
      BY <1>4, HeadTailProperties
    <2> HIDE DEF t
    <2>2. Len(t) = Len(new)
      BY <1>0, <1>1, <1>2, <1>3, <1>4, <1>6, <2>1
    <2>3. \A i \in 1 .. Len(t) : t[i] = new[i]
      <3> TAKE i \in 1 .. Len(t)
      <3>1. /\ Len(longer) = Len(new) + 1 /\ Len(new) \in Nat /\ Len(q) \in Nat
            /\ Len(t) = Len(new)
        BY <1>1, <1>2, <1>4, <2>1, <2>2, LenProperties
      <3>2. /\ i + 1 \in 1 .. Len(longer)
            /\ Len(q) - Len(longer) + (i + 1) = Len(q) - Len(new) + i
        BY <3>1
      <3>3. QED
        BY <1>3, <1>5, <2>1, <2>2, <3>2
    <2>4. t = new
      BY <1>3, <2>1, <2>2, <2>3, SeqEqual
    <2>5. QED
      BY <1>6, <2>4 DEF Keep, t, longer, new, q, h
  <1>7. CASE ~(Len(longer) > MaxHistory)
    <2>1. Len(longer) = Len(new)
      BY <1>0, <1>1, <1>2, <1>3, <1>4, <1>7
    <2>2. \A i \in 1 .. Len(longer) : longer[i] = new[i]
      BY <1>3, <1>5, <2>1
    <2>3. longer = new
      BY <1>3, <1>4, <2>1, <2>2, SeqEqual
    <2>4. QED
      BY <1>7, <2>3 DEF Keep, longer, new, q, h
  <1>8. QED
    BY <1>6, <1>7

\* A location newer than all the others comes last.
LEMMA Later ==
    ASSUME NEW s \in Seq(Stamps), NEW l \in Stamps, Increasing(s),
           \A i \in 1 .. Len(s) : s[i] < l
    PROVE  /\ Append(s, l) \in Seq(Stamps)
           /\ Increasing(Append(s, l))
           /\ UpTo(Append(s, l), l)
  <1> DEFINE q == Append(s, l)
  <1>1. /\ q \in Seq(Stamps) /\ Len(q) = Len(s) + 1 /\ Len(s) \in Nat
        /\ \A i \in 1 .. Len(s) : q[i] = s[i]
        /\ q[Len(s) + 1] = l
    BY AppendProperties, LenProperties
  <1>2. \A i \in 1 .. Len(q) : q[i] \in Nat
    BY <1>1, ElementOfSeq, BoundsAssumption DEF Stamps
  <1>3. l \in Nat
    BY BoundsAssumption DEF Stamps
  <1> HIDE DEF q
  <1>4. ASSUME NEW i \in 1 .. Len(q), NEW j \in 1 .. Len(q), i < j
        PROVE  q[i] < q[j]
    <2>1. i \in 1 .. Len(s) /\ q[i] = s[i]
      BY <1>1, <1>4
    <2>2. CASE j = Len(s) + 1
      BY <1>1, <2>1, <2>2
    <2>3. CASE j \in 1 .. Len(s)
      BY <1>1, <1>4, <2>1, <2>3 DEF Increasing
    <2>4. QED
      BY <1>1, <2>2, <2>3
  <1>5. ASSUME NEW i \in 1 .. Len(q)
        PROVE  q[i] <= l
    <2>1. CASE i = Len(s) + 1
      BY <1>1, <1>3, <2>1
    <2>2. CASE i \in 1 .. Len(s)
      BY <1>1, <1>2, <1>3, <2>2
    <2>3. QED
      BY <1>1, <2>1, <2>2
  <1>6. QED
    BY <1>1, <1>4, <1>5 DEF q, Increasing, UpTo

-----------------------------------------------------------------------------
(* Types *)

\* The first of the commands, with the others.
LEMMA FirstCommand ==
    ASSUME Typed, executed > 0
    PROVE  /\ Len(commands) \in Nat /\ executed \in 1 .. Len(commands)
           /\ commands # <<>> /\ Head(commands) = commands[1]
           /\ commands[1] \in Commands
           /\ Tail(commands) \in Seq(Commands)
           /\ Len(Tail(commands)) = Len(commands) - 1
           /\ \A i \in 1 .. Len(commands) - 1 : Tail(commands)[i] = commands[i + 1]
  <1>1. commands \in Seq(Commands) /\ Len(commands) \in Nat /\ executed \in 1 .. Len(commands)
    BY LenProperties DEF Typed
  <1>2. commands # <<>>
    BY <1>1, EmptySeq
  <1>3. Head(commands) = commands[1]
    BY <1>1, <1>2
  <1>4. /\ Tail(commands) \in Seq(Commands)
        /\ Len(Tail(commands)) = Len(commands) - 1
        /\ \A i \in 1 .. Len(Tail(commands)) : Tail(commands)[i] = commands[i + 1]
    BY <1>1, <1>2, HeadTailProperties
  <1>5. commands[1] \in Commands
    BY <1>1, ElementOfSeq
  <1>6. QED
    BY <1>1, <1>2, <1>3, <1>4, <1>5

LEMMA InitTyped == Init => Typed
  <1>1. /\ Len(<<>>) = 0 /\ <<>> \in Seq(Stamps) /\ <<>> \in Seq(Commands)
    BY EmptySeq
  <1>2. IdleRequest \in RequestRecords
    BY BoundsAssumption DEF IdleRequest, RequestRecords, Phases
  <1>3. ASSUME Init
        PROVE  request \in [Requests -> RequestRecords] /\ \A r \in Requests : request[r].at = "idle"
    <2>1. request = [r \in Requests |-> IdleRequest] /\ IdleRequest.at = "idle"
      BY <1>3 DEF Init, IdleRequest
    <2>2. QED
      BY <1>2, <2>1
  <1>4. ASSUME Init
        PROVE  executed \in 0 .. Len(commands) /\ commands \in Seq(Commands)
    BY <1>1, <1>4 DEF Init
  <1>5. ASSUME Init
        PROVE  /\ locationsByDriver \in [Drivers -> Seq(Stamps)]
               /\ saved \in [Drivers -> Seq(Stamps)]
               /\ delivered \in [Drivers -> Seq(Stamps)]
    BY <1>1, <1>5 DEF Init
  <1>6. ASSUME Init
        PROVE  /\ started \in BOOLEAN /\ isConnected \in BOOLEAN
               /\ announced \subseteq Stamps
    BY <1>6 DEF Init
  <1>7. ASSUME Init
        PROVE  clock \in 0 .. MaxClock /\ losses \in 0 .. MaxLosses
    BY <1>7, BoundsAssumption DEF Init
  <1>8. QED
    BY <1>3, <1>4, <1>5, <1>6, <1>7 DEF Typed

\* A request goes on, and the types of the requests stay.
LEMMA GotoTyped ==
    ASSUME Typed, NEW r \in Requests, NEW record \in RequestRecords, Goto(r, record),
           record.at # "idle" => record.driver \in Drivers
    PROVE  /\ request' \in [Requests -> RequestRecords]
           /\ \A q \in Requests : request'[q].at # "idle" => request'[q].driver \in Drivers
           /\ request'[r] = record
           /\ \A q \in Requests : q # r => request'[q] = request[q]
  <1>1. request \in [Requests -> RequestRecords] /\ request' = [request EXCEPT ![r] = record]
    BY DEF Typed, Goto
  <1>2. request'[r] = record /\ \A q \in Requests : q # r => request'[q] = request[q]
    BY <1>1
  <1>3. request' \in [Requests -> RequestRecords]
    BY <1>1
  <1>4. \A q \in Requests : request'[q].at # "idle" => request'[q].driver \in Drivers
    BY <1>2 DEF Typed
  <1>5. QED
    BY <1>2, <1>3, <1>4

\* What a request becomes when its location has been stamped, or the first of its
\* publications has been answered.
LEMMA RecordTypes ==
    ASSUME Typed, NEW r \in Requests, request[r].at # "idle"
    PROVE  /\ request[r] \in RequestRecords /\ request[r].driver \in Drivers
           /\ \A l \in Stamps :
                 LET new == [request[r] EXCEPT !.at = "publishing", !.location = l]
                 IN  /\ new \in RequestRecords /\ new.at = "publishing"
                     /\ new.driver = request[r].driver /\ new.location = l
           /\ LET new == [request[r] EXCEPT !.at = "announcing"]
              IN  /\ new \in RequestRecords /\ new.at = "announcing"
                  /\ new.driver = request[r].driver /\ new.location = request[r].location
           /\ IdleRequest \in RequestRecords /\ IdleRequest.at = "idle"
  <1>1. request[r] \in RequestRecords /\ request[r].driver \in Drivers
    BY DEF Typed
  <1>2. IdleRequest \in RequestRecords /\ IdleRequest.at = "idle"
    BY BoundsAssumption DEF IdleRequest, RequestRecords, Phases
  <1>3. ASSUME NEW l \in Stamps
        PROVE  LET new == [request[r] EXCEPT !.at = "publishing", !.location = l]
               IN  /\ new \in RequestRecords /\ new.at = "publishing"
                   /\ new.driver = request[r].driver /\ new.location = l
    <2>1. l \in 0 .. MaxClock
      BY BoundsAssumption DEF Stamps
    <2>2. QED
      BY <1>1, <2>1 DEF RequestRecords, Phases
  <1>4. LET new == [request[r] EXCEPT !.at = "announcing"]
        IN  /\ new \in RequestRecords /\ new.at = "announcing"
            /\ new.driver = request[r].driver /\ new.location = request[r].location
    BY <1>1 DEF RequestRecords, Phases
  <1>5. QED
    BY <1>1, <1>2, <1>3, <1>4

LEMMA UpdateLocationTyped ==
    ASSUME Typed, NEW r \in Requests, NEW d \in Drivers, NEW header \in Headers,
           UpdateLocation(r, d, header)
    PROVE  Typed'
  <1> DEFINE record == [at |-> "validating", driver |-> d, header |-> header, location |-> 0]
  <1>1. record \in RequestRecords /\ record.driver \in Drivers
    BY BoundsAssumption DEF RequestRecords, Phases
  <1>2. Goto(r, record)
    BY DEF UpdateLocation
  <1> HIDE DEF record
  <1>3. /\ request' \in [Requests -> RequestRecords]
        /\ \A q \in Requests : request'[q].at # "idle" => request'[q].driver \in Drivers
    BY <1>1, <1>2, GotoTyped
  <1>4. QED
    BY <1>3 DEF UpdateLocation, store, outside, Typed

LEMMA TokenRefusedTyped ==
    ASSUME Typed, NEW r \in Requests, NEW valid \in BOOLEAN, TokenRefused(r, valid)
    PROVE  Typed'
  <1>1. Goto(r, IdleRequest)
    BY DEF TokenRefused
  <1>2. IdleRequest \in RequestRecords /\ IdleRequest.at = "idle"
    BY RecordTypes DEF TokenRefused
  <1>3. /\ request' \in [Requests -> RequestRecords]
        /\ \A q \in Requests : request'[q].at # "idle" => request'[q].driver \in Drivers
    BY <1>1, <1>2, GotoTyped
  <1>4. QED
    BY <1>3 DEF TokenRefused, store, outside, Typed

\* What updateDriverLocation does, with the driver named.
LEMMA Stamped ==
    ASSUME Typed, NEW r \in Requests, UpdateDriverLocation(r)
    PROVE  LET d == request[r].driver
               c == [request |-> r, channel |-> "driver", driver |-> d, location |-> clock + 1]
           IN  /\ d \in Drivers /\ clock + 1 \in Stamps /\ clock' = clock + 1
               /\ request[r].at = "validating"
               /\ saved' = [saved EXCEPT ![d] = Append(saved[d], clock + 1)]
               /\ locationsByDriver' =
                     [locationsByDriver EXCEPT ![d] = Keep(locationsByDriver[d], clock + 1)]
               /\ c \in Commands
               /\ \/ /\ Goto(r, [request[r] EXCEPT !.at = "publishing", !.location = clock + 1])
                     /\ commands' = Append(commands, c)
                  \/ /\ Goto(r, IdleRequest)
                     /\ commands' = commands
               /\ UNCHANGED <<started, isConnected, executed, delivered, announced, losses>>
  <1>1. request[r].at = "validating" /\ request[r].driver \in Drivers
    BY DEF Typed, UpdateDriverLocation
  <1>2. clock \in Nat /\ clock + 1 \in Stamps
    BY BoundsAssumption DEF Typed, UpdateDriverLocation, Stamps
  <1>3. QED
    BY <1>1, <1>2 DEF UpdateDriverLocation, Commands, outside

LEMMA UpdateDriverLocationTyped ==
    ASSUME Typed, Histories, NEW r \in Requests, UpdateDriverLocation(r)
    PROVE  Typed' /\ Histories'
  <1> DEFINE d == request[r].driver
             l == clock + 1
             c == [request |-> r, channel |-> "driver", driver |-> d, location |-> l]
  <1>1. /\ d \in Drivers /\ l \in Stamps /\ clock' = l /\ c \in Commands
        /\ saved' = [saved EXCEPT ![d] = Append(saved[d], l)]
        /\ locationsByDriver' = [locationsByDriver EXCEPT ![d] = Keep(locationsByDriver[d], l)]
        /\ request[r].at = "validating"
        /\ \/ /\ Goto(r, [request[r] EXCEPT !.at = "publishing", !.location = l])
              /\ commands' = Append(commands, c)
           \/ /\ Goto(r, IdleRequest)
              /\ commands' = commands
        /\ UNCHANGED <<started, isConnected, executed, delivered, announced, losses>>
    BY Stamped
  <1>2. clock \in Nat /\ l = clock + 1
    BY DEF Typed
  <1> HIDE DEF d, l, c
  <1>3. /\ request' \in [Requests -> RequestRecords]
        /\ \A q \in Requests : request'[q].at # "idle" => request'[q].driver \in Drivers
    <2> DEFINE new == [request[r] EXCEPT !.at = "publishing", !.location = l]
    <2>1. /\ new \in RequestRecords /\ new.driver \in Drivers
          /\ IdleRequest \in RequestRecords /\ IdleRequest.at = "idle"
      BY <1>1, RecordTypes
    <2>2. Goto(r, new) \/ Goto(r, IdleRequest)
      BY <1>1
    <2> HIDE DEF new
    <2>3. QED
      BY <2>1, <2>2, GotoTyped
  <1>4. commands' \in Seq(Commands) /\ executed' \in 0 .. Len(commands')
    <2>1. commands \in Seq(Commands) /\ executed \in 0 .. Len(commands) /\ executed' = executed
      BY <1>1 DEF Typed
    <2>2. /\ Append(commands, c) \in Seq(Commands)
          /\ Len(Append(commands, c)) = Len(commands) + 1 /\ Len(commands) \in Nat
      BY <1>1, <2>1, AppendProperties, LenProperties
    <2>3. QED
      BY <1>1, <2>1, <2>2
  <1>5. /\ locationsByDriver \in [Drivers -> Seq(Stamps)]
        /\ saved \in [Drivers -> Seq(Stamps)] /\ saved[d] \in Seq(Stamps)
        /\ HistoryOf(locationsByDriver[d], saved[d], clock)
    BY <1>1 DEF Typed, Histories
  <1>6. \A i \in 1 .. Len(saved[d]) : saved[d][i] < l
    BY <1>2, <1>5, ElementOfSeq, BoundsAssumption DEF HistoryOf, UpTo, Stamps
  <1>7. /\ Append(saved[d], l) \in Seq(Stamps)
        /\ HistoryOf(Keep(locationsByDriver[d], l), Append(saved[d], l), l)
    BY <1>1, <1>5, <1>6, Later, KeepsLatest DEF HistoryOf
  <1>8. Keep(locationsByDriver[d], l) \in Seq(Stamps)
    BY <1>7, LatestOf, HistoryAssumption DEF HistoryOf
  <1>9. Typed'
    <2>1. saved' \in [Drivers -> Seq(Stamps)] /\ locationsByDriver' \in [Drivers -> Seq(Stamps)]
      BY <1>1, <1>5, <1>7, <1>8
    <2>2. clock' \in 0 .. MaxClock
      BY <1>1, BoundsAssumption DEF Stamps
    <2>3. QED
      BY <1>1, <1>3, <1>4, <2>1, <2>2 DEF Typed
  <1>10. ASSUME NEW e \in Drivers
         PROVE  HistoryOf(locationsByDriver'[e], saved'[e], clock')
    <2>1. CASE e = d
      BY <1>1, <1>5, <1>7, <2>1
    <2>2. CASE e # d
      <3>1. locationsByDriver'[e] = locationsByDriver[e] /\ saved'[e] = saved[e]
        BY <1>1, <1>5, <2>2
      <3>2. HistoryOf(locationsByDriver[e], saved[e], clock) /\ saved[e] \in Seq(Stamps)
        BY <1>5 DEF Histories
      <3>3. UpTo(saved[e], clock')
        BY <1>1, <1>2, <3>2, ElementOfSeq, BoundsAssumption DEF HistoryOf, UpTo, Stamps
      <3>4. QED
        BY <3>1, <3>2, <3>3 DEF HistoryOf
    <2>3. QED
      BY <2>1, <2>2
  <1>11. QED
    BY <1>9, <1>10 DEF Histories

\* The command that comes after c has been answered.
GeneralAfter(c) ==
    [request |-> c.request, channel |-> "general", driver |-> c.driver,
     location |-> c.location]

\* What an answer does to the commands: the first goes, and one for the general
\* channel may come last.
LEMMA Answered ==
    ASSUME Typed, Queue, PublishAnswered
    PROVE  LET c == commands[1]
               r == c.request
               g == GeneralAfter(c)
               n == Len(commands)
           IN  /\ c \in Commands /\ r \in Requests /\ g \in Commands
               /\ n \in Nat /\ executed \in 1 .. n /\ executed' = executed - 1
               /\ commands' \in Seq(Commands)
               /\ \A i \in 1 .. n - 1 : commands'[i] = commands[i + 1]
               /\ request[r].at # "idle"
               /\ request[r].driver = c.driver /\ request[r].location = c.location
               /\ \/ /\ c.channel = "driver"
                     /\ Goto(r, [request[r] EXCEPT !.at = "announcing"])
                     /\ Len(commands') = n /\ commands'[n] = g
                  \/ /\ c.channel = "general"
                     /\ Goto(r, IdleRequest)
                     /\ Len(commands') = n - 1
               /\ UNCHANGED <<started, clock, locationsByDriver, saved, isConnected,
                              delivered, announced, losses>>
  <1> DEFINE c == commands[1]
             r == c.request
             g == GeneralAfter(c)
             n == Len(commands)
  <1>1. executed > 0
    BY DEF PublishAnswered
  <1>2. /\ n \in Nat /\ executed \in 1 .. n
        /\ Head(commands) = c /\ c \in Commands
        /\ Tail(commands) \in Seq(Commands) /\ Len(Tail(commands)) = n - 1
        /\ \A i \in 1 .. n - 1 : Tail(commands)[i] = commands[i + 1]
    BY <1>1, FirstCommand
  <1>3. /\ request[r].at = (IF c.channel = "driver" THEN "publishing" ELSE "announcing")
        /\ request[r].driver = c.driver /\ request[r].location = c.location
    BY <1>2 DEF Queue, Owned
  <1>4. r \in Requests /\ g \in Commands /\ c.channel \in {"driver", "general"}
    BY <1>2 DEF Commands, GeneralAfter
  <1>5. executed' = executed - 1
    BY DEF PublishAnswered
  <1>6. UNCHANGED <<started, clock, locationsByDriver, saved, isConnected, delivered,
                    announced, losses>>
    BY DEF PublishAnswered, store, outside
  <1>7. \/ /\ request[r].at = "publishing"
           /\ commands' = Append(Tail(commands), Publish(r, "general"))
           /\ Goto(r, [request[r] EXCEPT !.at = "announcing"])
        \/ /\ request[r].at = "announcing"
           /\ commands' = Tail(commands)
           /\ Goto(r, IdleRequest)
    BY <1>2 DEF PublishAnswered
  <1>8. Publish(r, "general") = g
    BY <1>3 DEF Publish, GeneralAfter
  <1>9. /\ Append(Tail(commands), g) \in Seq(Commands)
        /\ Len(Append(Tail(commands), g)) = n
        /\ Append(Tail(commands), g)[n] = g
        /\ \A i \in 1 .. n - 1 : Append(Tail(commands), g)[i] = commands[i + 1]
    <2> HIDE DEF g, c
    <2>1. /\ Append(Tail(commands), g) \in Seq(Commands)
          /\ Len(Append(Tail(commands), g)) = Len(Tail(commands)) + 1
          /\ \A i \in 1 .. Len(Tail(commands)) :
                Append(Tail(commands), g)[i] = Tail(commands)[i]
          /\ Append(Tail(commands), g)[Len(Tail(commands)) + 1] = g
      BY <1>2, <1>4, AppendProperties
    <2>2. Len(Tail(commands)) + 1 = n
      BY <1>2
    <2>3. QED
      BY <1>2, <2>1, <2>2
  <1> HIDE DEF g, c, r, n
  <1>10. CASE c.channel = "driver"
    <2>1. /\ commands' = Append(Tail(commands), g)
          /\ Goto(r, [request[r] EXCEPT !.at = "announcing"])
      BY <1>3, <1>7, <1>8, <1>10
    <2>2. QED
      BY <1>2, <1>3, <1>4, <1>5, <1>6, <1>9, <1>10, <2>1 DEF c, r, g, n
  <1>11. CASE c.channel = "general"
    <2>1. commands' = Tail(commands) /\ Goto(r, IdleRequest)
      BY <1>3, <1>7, <1>11
    <2>2. QED
      BY <1>2, <1>3, <1>4, <1>5, <1>6, <1>11, <2>1 DEF c, r, g, n
  <1>12. QED
    BY <1>4, <1>10, <1>11

\* What the execution of a command does to the channels.
LEMMA Executes ==
    ASSUME Typed, RedisPublishes
    PROVE  LET c == commands[executed + 1]
           IN  /\ executed \in Nat /\ Len(commands) \in Nat
               /\ executed + 1 \in 1 .. Len(commands) /\ executed' = executed + 1
               /\ c \in Commands
               /\ \/ /\ c.channel = "driver"
                     /\ delivered' = [delivered EXCEPT ![c.driver] =
                                         Append(delivered[c.driver], c.location)]
                     /\ announced' = announced
                  \/ /\ c.channel = "general"
                     /\ announced' = announced \cup {c.location}
                     /\ delivered' = delivered
               /\ UNCHANGED <<started, clock, locationsByDriver, saved, isConnected,
                              commands, request, losses>>
  <1>1. commands \in Seq(Commands) /\ Len(commands) \in Nat /\ executed \in 0 .. Len(commands)
    BY LenProperties DEF Typed
  <1>2. executed < Len(commands) /\ executed' = executed + 1
    BY DEF RedisPublishes
  <1>3. executed + 1 \in 1 .. Len(commands)
    BY <1>1, <1>2
  <1>4. commands[executed + 1] \in Commands
    BY <1>1, <1>3, ElementOfSeq
  <1>5. QED
    BY <1>1, <1>2, <1>3, <1>4 DEF RedisPublishes, store, outside

LEMMA PublishAnsweredTyped ==
    ASSUME Typed, Queue, PublishAnswered
    PROVE  Typed'
  <1> DEFINE c == commands[1]
             r == c.request
             n == Len(commands)
             next == [request[r] EXCEPT !.at = "announcing"]
  <1>1. /\ r \in Requests /\ n \in Nat /\ executed \in 1 .. n /\ executed' = executed - 1
        /\ commands' \in Seq(Commands)
        /\ request[r].at # "idle"
        /\ \/ Goto(r, next) /\ Len(commands') = n
           \/ Goto(r, IdleRequest) /\ Len(commands') = n - 1
        /\ UNCHANGED <<started, clock, locationsByDriver, saved, isConnected,
                       delivered, announced, losses>>
    BY Answered
  <1> HIDE DEF c, r, n
  <1>2. /\ next \in RequestRecords /\ next.driver \in Drivers
        /\ IdleRequest \in RequestRecords /\ IdleRequest.at = "idle"
    BY <1>1, RecordTypes
  <1> HIDE DEF next
  <1>3. /\ request' \in [Requests -> RequestRecords]
        /\ \A q \in Requests : request'[q].at # "idle" => request'[q].driver \in Drivers
    BY <1>1, <1>2, GotoTyped
  <1>4. executed' \in 0 .. Len(commands')
    BY <1>1
  <1>5. QED
    BY <1>1, <1>3, <1>4 DEF Typed

LEMMA RedisPublishesTyped ==
    ASSUME Typed, RedisPublishes
    PROVE  Typed'
  <1> DEFINE c == commands[executed + 1]
  <1>1. /\ executed \in Nat /\ Len(commands) \in Nat
        /\ executed + 1 \in 1 .. Len(commands) /\ executed' = executed + 1
        /\ c \in Commands
        /\ \/ /\ delivered' = [delivered EXCEPT ![c.driver] =
                                  Append(delivered[c.driver], c.location)]
              /\ announced' = announced
           \/ /\ announced' = announced \cup {c.location}
              /\ delivered' = delivered
        /\ UNCHANGED <<started, clock, locationsByDriver, saved, isConnected,
                       commands, request, losses>>
    BY Executes
  <1>2. c.driver \in Drivers /\ c.location \in Stamps
    BY <1>1 DEF Commands
  <1> HIDE DEF c
  <1>3. delivered' \in [Drivers -> Seq(Stamps)]
    <2>1. delivered \in [Drivers -> Seq(Stamps)] /\ delivered[c.driver] \in Seq(Stamps)
      BY <1>2 DEF Typed
    <2>2. Append(delivered[c.driver], c.location) \in Seq(Stamps)
      BY <1>2, <2>1, AppendProperties
    <2>3. QED
      BY <1>1, <2>1, <2>2
  <1>4. announced' \subseteq Stamps
    BY <1>1, <1>2 DEF Typed
  <1>5. executed' \in 0 .. Len(commands')
    BY <1>1
  <1>6. QED
    BY <1>1, <1>3, <1>4, <1>5 DEF Typed

LEMMA CloseTyped ==
    ASSUME Typed, Close
    PROVE  Typed'
  <1>1. executed' \in 0 .. Len(commands')
    BY LenProperties DEF Typed, Close
  <1>2. losses' \in 0 .. MaxLosses
    BY BoundsAssumption DEF Typed, Close
  <1>3. QED
    BY <1>1, <1>2 DEF Typed, Close, store, outside

LEMMA QuietTyped ==
    ASSUME Typed, Start \/ Connect
    PROVE  Typed'
  BY DEF Typed, Start, Connect, store, outside

\* Nothing but UpdateDriverLocation touches the store.
LEMMA HistoriesStay ==
    ASSUME Histories, UNCHANGED store
    PROVE  Histories'
  BY DEF Histories, store

-----------------------------------------------------------------------------
(* The commands that wait for an answer *)

\* A request that has no command goes on.
LEMMA OwnedElsewhere ==
    ASSUME NEW box, NEW req, NEW new, NEW r, Owned(box, req),
           req[r].at \in {"idle", "validating"}, \A q \in Requests : q # r => new[q] = req[q],
           \A i \in 1 .. Len(box) : box[i].request \in Requests
    PROVE  Owned(box, new) /\ \A i \in 1 .. Len(box) : box[i].request # r
  <1>1. \A i \in 1 .. Len(box) : box[i].request # r
    BY DEF Owned
  <1>2. \A i \in 1 .. Len(box) : new[box[i].request] = req[box[i].request]
    BY <1>1
  <1>3. QED
    BY <1>1, <1>2 DEF Owned

\* The parts of a command.
LEMMA CommandsTyped ==
    ASSUME NEW box \in Seq(Commands), NEW i \in 1 .. Len(box)
    PROVE  /\ box[i] \in Commands /\ box[i].request \in Requests /\ box[i].driver \in Drivers
           /\ box[i].channel \in {"driver", "general"}
           /\ box[i].location \in Stamps /\ box[i].location \in Nat
  <1>1. box[i] \in Commands
    BY ElementOfSeq
  <1>2. QED
    BY <1>1, BoundsAssumption DEF Commands, Stamps

\* What has been sent out stays.
LEMMA StillSent ==
    ASSUME NEW s \in Seq(Stamps), NEW l \in Stamps
    PROVE  /\ InSeq(l, Append(s, l))
           /\ \A x : InSeq(x, s) => InSeq(x, Append(s, l))
  <1>1. /\ Len(Append(s, l)) = Len(s) + 1 /\ Len(s) \in Nat
        /\ Append(s, l)[Len(s) + 1] = l
        /\ \A i \in 1 .. Len(s) : Append(s, l)[i] = s[i]
    BY AppendProperties, LenProperties
  <1>2. InSeq(l, Append(s, l))
    BY <1>1 DEF InSeq
  <1>3. ASSUME NEW x, InSeq(x, s)
        PROVE  InSeq(x, Append(s, l))
    <2>1. PICK i \in 1 .. Len(s) : s[i] = x
      BY <1>3 DEF InSeq
    <2>2. i \in 1 .. Len(Append(s, l)) /\ Append(s, l)[i] = x
      BY <1>1, <2>1
    <2>3. QED
      BY <2>2 DEF InSeq
  <1>4. QED
    BY <1>2, <1>3

\* A request that waits for no answer goes on, and nothing else happens.
LEMMA QueueStays ==
    ASSUME Typed, Queue, NEW r \in Requests, NEW record \in RequestRecords,
           request[r].at \in {"idle", "validating"}, Goto(r, record),
           record.at # "idle" => record.driver \in Drivers,
           UNCHANGED <<clock, commands, executed, delivered, announced>>
    PROVE  Queue'
  <1>1. \A q \in Requests : q # r => request'[q] = request[q]
    BY GotoTyped
  <1>2. \A i \in 1 .. Len(commands) : commands[i].request \in Requests
    BY CommandsTyped DEF Typed
  <1>3. Owned(commands, request')
    BY <1>1, <1>2, OwnedElsewhere DEF Queue
  <1>4. QED
    BY <1>3 DEF Queue

LEMMA UpdateLocationQueue ==
    ASSUME Typed, Queue, NEW r \in Requests, NEW d \in Drivers, NEW header \in Headers,
           UpdateLocation(r, d, header)
    PROVE  Queue'
  <1> DEFINE record == [at |-> "validating", driver |-> d, header |-> header, location |-> 0]
  <1>1. record \in RequestRecords /\ record.driver \in Drivers
    BY BoundsAssumption DEF RequestRecords, Phases
  <1>2. Goto(r, record) /\ request[r].at = "idle"
    BY DEF UpdateLocation
  <1> HIDE DEF record
  <1>3. UNCHANGED <<clock, commands, executed, delivered, announced>>
    BY DEF UpdateLocation, store, outside
  <1>4. QED
    BY <1>1, <1>2, <1>3, QueueStays

LEMMA TokenRefusedQueue ==
    ASSUME Typed, Queue, NEW r \in Requests, NEW valid \in BOOLEAN, TokenRefused(r, valid)
    PROVE  Queue'
  <1>1. Goto(r, IdleRequest) /\ request[r].at = "validating"
    BY DEF TokenRefused
  <1>2. IdleRequest \in RequestRecords /\ IdleRequest.at = "idle"
    BY <1>1, RecordTypes
  <1>3. UNCHANGED <<clock, commands, executed, delivered, announced>>
    BY DEF TokenRefused, store, outside
  <1>4. QED
    BY <1>1, <1>2, <1>3, QueueStays

LEMMA UpdateDriverLocationQueue ==
    ASSUME Typed, Queue, NEW r \in Requests, UpdateDriverLocation(r)
    PROVE  Queue'
  <1> DEFINE d == request[r].driver
             l == clock + 1
             c == [request |-> r, channel |-> "driver", driver |-> d, location |-> l]
             new == [request[r] EXCEPT !.at = "publishing", !.location = l]
             n == Len(commands)
  <1>1. /\ d \in Drivers /\ l \in Stamps /\ clock' = l /\ c \in Commands
        /\ request[r].at = "validating"
        /\ \/ /\ Goto(r, new)
              /\ commands' = Append(commands, c)
           \/ /\ Goto(r, IdleRequest)
              /\ commands' = commands
        /\ UNCHANGED <<executed, delivered, announced>>
    BY Stamped
  <1>2. /\ new \in RequestRecords /\ new.at = "publishing"
        /\ new.driver = d /\ new.location = l
        /\ IdleRequest \in RequestRecords /\ IdleRequest.at = "idle"
    BY <1>1, RecordTypes
  <1>3. /\ c.request = r /\ c.channel = "driver" /\ c.driver = d /\ c.location = l
        /\ clock \in Nat /\ l = clock + 1
    BY DEF Typed
  <1>4. /\ commands \in Seq(Commands) /\ n \in Nat /\ executed \in 0 .. n
        /\ Owned(commands, request) /\ Sorted(commands, clock)
        /\ Told(commands, executed, delivered, announced)
    BY LenProperties DEF Typed, Queue
  <1> HIDE DEF d, l, c, new, n
  <1>5. \A q \in Requests : q # r => request'[q] = request[q]
    BY <1>1, <1>2, GotoTyped
  <1>6. Owned(commands, request') /\ \A i \in 1 .. n : commands[i].request # r
    <2>1. \A i \in 1 .. Len(commands) : commands[i].request \in Requests
      BY <1>4, CommandsTyped
    <2>2. request[r].at \in {"idle", "validating"}
      BY <1>1
    <2>3. QED
      BY <1>4, <1>5, <2>1, <2>2, OwnedElsewhere DEF n
  <1>7. \A i \in 1 .. n : commands[i].location <= clock /\ commands[i].location \in Nat
    BY <1>4, CommandsTyped DEF Sorted, n
  <1>8. CASE commands' = commands
    <2>1. Sorted(commands, clock')
      BY <1>1, <1>3, <1>4, <1>7 DEF Sorted, n
    <2>2. QED
      BY <1>1, <1>4, <1>6, <1>8, <2>1 DEF Queue
  <1>9. CASE Goto(r, new) /\ commands' = Append(commands, c)
    <2> DEFINE box == commands'
    <2>1. request'[r] = new
      BY <1>1, <1>2, <1>9, GotoTyped
    <2>2. /\ Len(box) = n + 1 /\ box[n + 1] = c
          /\ \A i \in 1 .. n : box[i] = commands[i]
      BY <1>1, <1>4, <1>9, AppendProperties DEF n
    <2> HIDE DEF box
    <2>3. Owned(box, request')
      <3>1. ASSUME NEW i \in 1 .. Len(box)
            PROVE  /\ request'[box[i].request].at =
                         (IF box[i].channel = "driver" THEN "publishing" ELSE "announcing")
                   /\ request'[box[i].request].driver = box[i].driver
                   /\ request'[box[i].request].location = box[i].location
        <4>1. CASE i = n + 1
          BY <1>2, <1>3, <2>1, <2>2, <4>1
        <4>2. CASE i \in 1 .. n
          BY <1>6, <2>2, <4>2 DEF Owned, n
        <4>3. QED
          BY <1>4, <2>2, <4>1, <4>2
      <3>2. ASSUME NEW i \in 1 .. Len(box), NEW j \in 1 .. Len(box), i < j
            PROVE  box[i].request # box[j].request
        <4>1. i \in 1 .. n /\ box[i] = commands[i]
          BY <1>4, <2>2, <3>2
        <4>2. CASE j = n + 1
          BY <1>3, <1>6, <2>2, <4>1, <4>2
        <4>3. CASE j \in 1 .. n
          BY <1>4, <2>2, <3>2, <4>1, <4>3 DEF Owned, n
        <4>4. QED
          BY <1>4, <2>2, <4>2, <4>3
      <3>3. QED
        BY <3>1, <3>2 DEF Owned
    <2>4. Sorted(box, clock')
      <3>1. ASSUME NEW i \in 1 .. Len(box)
            PROVE  box[i].location <= clock'
        <4>1. CASE i = n + 1
          BY <1>1, <1>3, <2>2, <4>1
        <4>2. CASE i \in 1 .. n
          BY <1>1, <1>3, <1>7, <2>2, <4>2
        <4>3. QED
          BY <1>4, <2>2, <4>1, <4>2
      <3>2. ASSUME NEW i \in 1 .. Len(box), NEW j \in 1 .. Len(box), i < j,
                   box[i].channel = "driver", box[j].channel = "driver",
                   box[i].driver = box[j].driver
            PROVE  box[i].location < box[j].location
        <4>1. i \in 1 .. n /\ box[i] = commands[i]
          BY <1>4, <2>2, <3>2
        <4>2. CASE j = n + 1
          BY <1>3, <1>7, <2>2, <4>1, <4>2
        <4>3. CASE j \in 1 .. n
          BY <1>4, <2>2, <3>2, <4>1, <4>3 DEF Sorted, n
        <4>4. QED
          BY <1>4, <2>2, <4>2, <4>3
      <3>3. QED
        BY <3>1, <3>2 DEF Sorted
    <2>5. Told(box, executed, delivered, announced)
      <3>1. ASSUME NEW i \in 1 .. executed
            PROVE  IF box[i].channel = "driver"
                   THEN InSeq(box[i].location, delivered[box[i].driver])
                   ELSE box[i].location \in announced
        <4>1. i \in 1 .. n /\ box[i] = commands[i]
          BY <1>4, <2>2
        <4>2. QED
          BY <1>4, <4>1 DEF Told
      <3>2. ASSUME NEW i \in 1 .. Len(box), box[i].channel = "general"
            PROVE  InSeq(box[i].location, delivered[box[i].driver])
        <4>1. i \in 1 .. n /\ box[i] = commands[i]
          BY <1>3, <1>4, <2>2, <3>2
        <4>2. QED
          BY <1>4, <3>2, <4>1 DEF Told, n
      <3>3. QED
        BY <3>1, <3>2 DEF Told
    <2>6. QED
      BY <1>1, <2>3, <2>4, <2>5 DEF Queue, box
  <1>10. QED
    BY <1>1, <1>8, <1>9

\* The command that is answered has been executed, and so the next may be sent.
LEMMA PublishAnsweredQueue ==
    ASSUME Typed, Queue, PublishAnswered
    PROVE  Queue'
  <1> DEFINE c == commands[1]
             r == c.request
             g == GeneralAfter(c)
             n == Len(commands)
             next == [request[r] EXCEPT !.at = "announcing"]
             box == commands'
  <1>1. /\ c \in Commands /\ r \in Requests /\ g \in Commands
        /\ n \in Nat /\ executed \in 1 .. n /\ executed' = executed - 1
        /\ box \in Seq(Commands)
        /\ \A i \in 1 .. n - 1 : box[i] = commands[i + 1]
        /\ request[r].at # "idle"
        /\ request[r].driver = c.driver /\ request[r].location = c.location
        /\ \/ c.channel = "driver" /\ Goto(r, next) /\ Len(box) = n /\ box[n] = g
           \/ c.channel = "general" /\ Goto(r, IdleRequest) /\ Len(box) = n - 1
        /\ UNCHANGED <<clock, delivered, announced>>
    BY Answered
  <1>2. /\ g.request = r /\ g.channel = "general" /\ g.driver = c.driver
        /\ g.location = c.location
    BY DEF GeneralAfter
  <1>3. /\ next \in RequestRecords /\ next.at = "announcing" /\ next.driver \in Drivers
        /\ next.driver = request[r].driver /\ next.location = request[r].location
        /\ IdleRequest \in RequestRecords /\ IdleRequest.at = "idle"
    BY <1>1, RecordTypes
  <1>4. /\ commands \in Seq(Commands)
        /\ Owned(commands, request) /\ Sorted(commands, clock)
        /\ Told(commands, executed, delivered, announced)
    BY DEF Typed, Queue
  <1>5. \A i \in 1 .. n : commands[i] \in Commands /\ commands[i].request \in Requests
    BY <1>4, CommandsTyped
  <1>6. c = commands[1] /\ 1 \in 1 .. n
    BY <1>1
  <1>7. c.location <= clock
    BY <1>1, <1>4 DEF Sorted
  <1>8. c.channel = "driver" => InSeq(c.location, delivered[c.driver])
    BY <1>1, <1>4 DEF Told
  <1>9. Len(box) = n \/ Len(box) = n - 1
    BY <1>1
  <1> HIDE DEF c, r, g, n, next, box
  <1>10. \A q \in Requests : q # r => request'[q] = request[q]
    BY <1>1, <1>3, GotoTyped
  <1>11. \A i \in 2 .. n : commands[i].request # r
    BY <1>1, <1>4, <1>6 DEF Owned, n, r
  <1>12. \A i \in 1 .. n - 1 : i + 1 \in 2 .. n /\ i + 1 \in 1 .. n
    BY <1>1
  <1>13. ASSUME NEW i \in 1 .. Len(box), i \notin 1 .. n - 1
         PROVE  i = n /\ c.channel = "driver" /\ Goto(r, next) /\ box[i] = g
    <2>1. Len(box) = n /\ i = n
      BY <1>1, <1>9, <1>13
    <2>2. c.channel = "driver" /\ Goto(r, next) /\ box[n] = g
      BY <1>1, <2>1
    <2>3. QED
      BY <2>1, <2>2
  <1>14. Owned(box, request')
    <2>1. ASSUME NEW i \in 1 .. Len(box)
          PROVE  /\ request'[box[i].request].at =
                       (IF box[i].channel = "driver" THEN "publishing" ELSE "announcing")
                 /\ request'[box[i].request].driver = box[i].driver
                 /\ request'[box[i].request].location = box[i].location
      <3>1. CASE i \in 1 .. n - 1
        <4>1. /\ box[i] = commands[i + 1] /\ i + 1 \in 1 .. n
              /\ request'[commands[i + 1].request] = request[commands[i + 1].request]
          BY <1>1, <1>5, <1>10, <1>11, <1>12, <3>1
        <4>2. QED
          BY <1>4, <4>1 DEF Owned, n
      <3>2. CASE i \notin 1 .. n - 1
        <4>1. box[i] = g /\ Goto(r, next)
          BY <1>13, <3>2
        <4>2. request'[r] = next
          BY <1>1, <1>3, <4>1, GotoTyped
        <4>3. QED
          BY <1>1, <1>2, <1>3, <4>1, <4>2
      <3>3. QED
        BY <3>1, <3>2
    <2>2. ASSUME NEW i \in 1 .. Len(box), NEW j \in 1 .. Len(box), i < j
          PROVE  box[i].request # box[j].request
      <3>1. i \in 1 .. n - 1 /\ box[i] = commands[i + 1] /\ i + 1 \in 2 .. n
        BY <1>1, <1>9, <1>12, <2>2
      <3>2. CASE j \in 1 .. n - 1
        <4>1. box[j] = commands[j + 1] /\ j + 1 \in 1 .. n /\ i + 1 \in 1 .. n /\ i + 1 < j + 1
          BY <1>1, <1>12, <2>2, <3>1, <3>2
        <4>2. commands[i + 1].request # commands[j + 1].request
          BY <1>4, <4>1 DEF Owned, n
        <4>3. QED
          BY <3>1, <4>1, <4>2
      <3>3. CASE j \notin 1 .. n - 1
        BY <1>2, <1>11, <1>13, <3>1, <3>3
      <3>4. QED
        BY <3>2, <3>3
    <2>3. QED
      BY <2>1, <2>2 DEF Owned
  <1>15. Sorted(box, clock')
    <2>1. ASSUME NEW i \in 1 .. Len(box)
          PROVE  box[i].location <= clock'
      <3>1. CASE i \in 1 .. n - 1
        BY <1>1, <1>4, <1>12, <3>1 DEF Sorted, n
      <3>2. CASE i \notin 1 .. n - 1
        BY <1>1, <1>2, <1>7, <1>13, <3>2
      <3>3. QED
        BY <3>1, <3>2
    <2>2. ASSUME NEW i \in 1 .. Len(box), NEW j \in 1 .. Len(box), i < j,
                 box[i].channel = "driver", box[j].channel = "driver",
                 box[i].driver = box[j].driver
          PROVE  box[i].location < box[j].location
      <3>1. i \in 1 .. n - 1 /\ j \in 1 .. n - 1
        BY <1>1, <1>2, <1>9, <1>13, <2>2
      <3>2. /\ box[i] = commands[i + 1] /\ box[j] = commands[j + 1] /\ i + 1 < j + 1
            /\ i + 1 \in 1 .. n /\ j + 1 \in 1 .. n
        BY <1>1, <1>12, <2>2, <3>1
      <3>3. commands[i + 1].location < commands[j + 1].location
        BY <1>4, <2>2, <3>2 DEF Sorted, n
      <3>4. QED
        BY <3>2, <3>3
    <2>3. QED
      BY <2>1, <2>2 DEF Sorted
  <1>16. Told(box, executed', delivered, announced)
    <2>1. ASSUME NEW i \in 1 .. executed'
          PROVE  IF box[i].channel = "driver"
                 THEN InSeq(box[i].location, delivered[box[i].driver])
                 ELSE box[i].location \in announced
      <3>1. i \in 1 .. n - 1 /\ i + 1 \in 1 .. executed /\ box[i] = commands[i + 1]
        BY <1>1
      <3>2. QED
        BY <1>4, <3>1 DEF Told
    <2>2. ASSUME NEW i \in 1 .. Len(box), box[i].channel = "general"
          PROVE  InSeq(box[i].location, delivered[box[i].driver])
      <3>1. CASE i \in 1 .. n - 1
        <4>1. i + 1 \in 1 .. n /\ box[i] = commands[i + 1]
          BY <1>1, <1>12, <3>1
        <4>2. QED
          BY <1>4, <2>2, <4>1 DEF Told, n
      <3>2. CASE i \notin 1 .. n - 1
        BY <1>2, <1>8, <1>13, <3>2
      <3>3. QED
        BY <3>1, <3>2
    <2>3. QED
      BY <2>1, <2>2 DEF Told
  <1>17. QED
    BY <1>1, <1>14, <1>15, <1>16 DEF Queue, box

LEMMA RedisPublishesQueue ==
    ASSUME Typed, Queue, RedisPublishes
    PROVE  Queue'
  <1> DEFINE n == Len(commands)
             c == commands[executed + 1]
             d == c.driver
  <1>1. /\ executed \in Nat /\ n \in Nat
        /\ executed + 1 \in 1 .. n /\ executed' = executed + 1
        /\ c \in Commands
        /\ \/ /\ c.channel = "driver"
              /\ delivered' = [delivered EXCEPT ![d] = Append(delivered[d], c.location)]
              /\ announced' = announced
           \/ /\ c.channel = "general"
              /\ announced' = announced \cup {c.location}
              /\ delivered' = delivered
        /\ UNCHANGED <<clock, commands, request>>
    BY Executes
  <1>2. /\ d \in Drivers /\ c.location \in Stamps
    BY <1>1 DEF Commands
  <1>3. /\ commands \in Seq(Commands) /\ delivered \in [Drivers -> Seq(Stamps)]
        /\ Owned(commands, request) /\ Sorted(commands, clock)
        /\ Told(commands, executed, delivered, announced)
    BY DEF Typed, Queue
  <1>4. \A i \in 1 .. n : commands[i].driver \in Drivers
    BY <1>3, CommandsTyped
  <1>5. c = commands[executed + 1]
    OBVIOUS
  <1> HIDE DEF c, d, n
  <1>6. ASSUME NEW e \in Drivers, NEW x, InSeq(x, delivered[e])
        PROVE  InSeq(x, delivered'[e])
    <2>1. delivered[e] \in Seq(Stamps)
      BY <1>3
    <2>2. CASE e = d /\ delivered' = [delivered EXCEPT ![d] = Append(delivered[d], c.location)]
      BY <1>2, <1>3, <1>6, <2>1, <2>2, StillSent
    <2>3. CASE e # d \/ delivered' = delivered
      BY <1>1, <1>3, <1>6, <2>3
    <2>4. QED
      BY <1>1, <2>2, <2>3
  <1>7. c.channel = "driver" => InSeq(c.location, delivered'[d])
    BY <1>1, <1>2, <1>3, StillSent
  <1>8. c.channel = "general" => c.location \in announced'
    BY <1>1
  <1>9. announced \subseteq announced'
    BY <1>1
  <1>10. Told(commands, executed', delivered', announced')
    <2>1. ASSUME NEW i \in 1 .. executed'
          PROVE  IF commands[i].channel = "driver"
                 THEN InSeq(commands[i].location, delivered'[commands[i].driver])
                 ELSE commands[i].location \in announced'
      <3>1. CASE i = executed + 1
        <4>1. commands[i] = c /\ c.channel \in {"driver", "general"}
          BY <1>1, <1>5, <3>1
        <4>2. QED
          BY <1>7, <1>8, <4>1 DEF d
      <3>2. CASE i \in 1 .. executed
        <4>1. commands[i].driver \in Drivers
          BY <1>1, <1>4, <3>2
        <4>2. QED
          BY <1>3, <1>6, <1>9, <3>2, <4>1 DEF Told
      <3>3. QED
        BY <1>1, <3>1, <3>2
    <2>2. ASSUME NEW i \in 1 .. Len(commands), commands[i].channel = "general"
          PROVE  InSeq(commands[i].location, delivered'[commands[i].driver])
      BY <1>3, <1>4, <1>6, <2>2 DEF Told, n
    <2>3. QED
      BY <2>1, <2>2 DEF Told
  <1>11. QED
    BY <1>1, <1>3, <1>10 DEF Queue

LEMMA CloseQueue ==
    ASSUME Typed, Queue, Close
    PROVE  Queue'
  <1>1. UNCHANGED <<clock, commands, request, delivered, announced>> /\ executed' = 0
    BY DEF Close, store, outside
  <1>2. Told(commands, 0, delivered, announced)
    BY DEF Queue, Told
  <1>3. QED
    BY <1>1, <1>2 DEF Queue

-----------------------------------------------------------------------------
(* What a channel carries *)

\* A newer location is to be sent.
LEMMA Sends ==
    ASSUME NEW box \in Seq(Commands), NEW c \in Commands, NEW n \in 0 .. Len(box),
           NEW out \in Seq(Stamps), NEW d \in Drivers, NEW now \in Nat, UpTo(out, now),
           c.location = now + 1, c.channel = "driver"
    PROVE  /\ InOrder(box, n, out, d) => InOrder(Append(box, c), n, out, d)
           /\ Settling(box, n, out, d) => Settling(Append(box, c), n, out, d)
  <1> DEFINE more == Append(box, c)
             len == Len(box)
  <1>1. /\ len \in Nat /\ Len(more) = len + 1 /\ more[len + 1] = c
        /\ \A i \in 1 .. len : more[i] = box[i]
    BY AppendProperties, LenProperties
  <1>2. \A k \in 1 .. Len(out) : out[k] \in Nat /\ out[k] < c.location
    BY ElementOfSeq, BoundsAssumption DEF UpTo, Stamps
  <1>3. n \in Nat /\ \A i \in n + 1 .. len : i \in 1 .. len
    BY <1>1
  <1> HIDE DEF more
  <1>4. ASSUME InOrder(box, n, out, d)
        PROVE  InOrder(more, n, out, d)
    <2>1. ASSUME NEW i \in n + 1 .. Len(more), Carries(more[i], d), NEW k \in 1 .. Len(out)
          PROVE  out[k] < more[i].location
      <3>1. CASE i = len + 1
        BY <1>1, <1>2, <3>1
      <3>2. CASE i \in n + 1 .. len
        <4>1. more[i] = box[i]
          BY <1>1, <1>3, <3>2
        <4>2. QED
          BY <1>4, <2>1, <3>2, <4>1 DEF InOrder
      <3>3. QED
        BY <1>1, <3>1, <3>2
    <2>2. QED
      BY <1>4, <2>1 DEF InOrder
  <1>5. ASSUME Settling(box, n, out, d)
        PROVE  Settling(more, n, out, d)
    <2>1. ASSUME NEW k \in 1 .. Len(out)
          PROVE  \/ Covered(more, n + 1, Len(more), d, out[k])
                 \/ /\ \A i \in n + 1 .. Len(more) : ~Carries(more[i], d)
                    /\ out[k] <= out[Len(out)]
      <3>1. CASE Covered(box, n + 1, Len(box), d, out[k])
        <4>1. PICK i \in n + 1 .. len : Carries(box[i], d) /\ out[k] <= box[i].location
          BY <3>1 DEF Covered
        <4>2. i \in n + 1 .. Len(more) /\ more[i] = box[i]
          BY <1>1, <1>3, <4>1
        <4>3. QED
          BY <4>1, <4>2 DEF Covered
      <3>2. CASE Carries(c, d)
        <4>1. len + 1 \in n + 1 .. Len(more) /\ more[len + 1] = c
          BY <1>1, <1>3
        <4>2. out[k] <= c.location
          <5>1. c.location \in Nat
            OBVIOUS
          <5>2. QED
            BY <1>2, <5>1
        <4>3. QED
          BY <3>2, <4>1, <4>2 DEF Covered
      <3>3. CASE /\ ~Carries(c, d)
                 /\ \A i \in n + 1 .. len : ~Carries(box[i], d)
                 /\ out[k] <= out[Len(out)]
        <4>1. ASSUME NEW i \in n + 1 .. Len(more)
              PROVE  ~Carries(more[i], d)
          <5>1. CASE i = len + 1
            BY <1>1, <3>3, <5>1
          <5>2. CASE i \in n + 1 .. len
            BY <1>1, <1>3, <3>3, <5>2
          <5>3. QED
            BY <1>1, <5>1, <5>2
        <4>2. QED
          BY <3>3, <4>1
      <3>4. QED
        BY <1>5, <3>1, <3>2, <3>3 DEF Settling
    <2>2. \A i \in 1 .. n : more[i] = box[i]
      BY <1>1
    <2>3. out # <<>> /\ (\E i \in 1 .. n : Carries(more[i], d))
              => Covered(more, 1, n, d, out[Len(out)])
      BY <1>5, <2>2 DEF Settling, Covered
    <2>4. QED
      BY <2>1, <2>3 DEF Settling
  <1>6. QED
    BY <1>4, <1>5 DEF more

\* The first command has been answered; one for the general channel may come last.
LEMMA GoesOn ==
    ASSUME NEW box \in Seq(Commands), NEW new \in Seq(Commands), NEW n \in 1 .. Len(box),
           NEW out \in Seq(Stamps), NEW d \in Drivers, NEW now, Sorted(box, now),
           \A i \in 1 .. Len(box) - 1 : new[i] = box[i + 1],
           \/ Len(new) = Len(box) - 1
           \/ Len(new) = Len(box) /\ new[Len(box)].channel = "general"
    PROVE  /\ InOrder(box, n, out, d) => InOrder(new, n - 1, out, d)
           /\ Settling(box, n, out, d) => Settling(new, n - 1, out, d)
  <1> DEFINE len == Len(box)
  <1>1. len \in Nat /\ n \in Nat
    BY LenProperties
  <1>2. ASSUME NEW i \in 1 .. Len(new), Carries(new[i], d)
        PROVE  i \in 1 .. len - 1 /\ i + 1 \in 1 .. len /\ new[i] = box[i + 1]
    <2>1. i \in 1 .. len - 1
      BY <1>1, <1>2 DEF Carries
    <2>2. QED
      BY <1>1, <2>1
  <1>3. ASSUME NEW i \in 2 .. len
        PROVE  i - 1 \in 1 .. Len(new) /\ new[i - 1] = box[i]
    <2>1. i - 1 \in 1 .. len - 1 /\ i - 1 \in 1 .. Len(new) /\ (i - 1) + 1 = i
      BY <1>1
    <2>2. QED
      BY <2>1
  <1>4. ASSUME NEW i \in (n - 1) + 1 .. Len(new), Carries(new[i], d)
        PROVE  i + 1 \in n + 1 .. len /\ new[i] = box[i + 1]
    <2>1. i \in 1 .. Len(new) /\ i >= n
      BY <1>1
    <2>2. QED
      BY <1>1, <1>2, <1>4, <2>1
  <1>5. ASSUME InOrder(box, n, out, d)
        PROVE  InOrder(new, n - 1, out, d)
    BY <1>4, <1>5 DEF InOrder
  <1>6. ASSUME Settling(box, n, out, d)
        PROVE  Settling(new, n - 1, out, d)
    <2>1. ASSUME NEW k \in 1 .. Len(out)
          PROVE  \/ Covered(new, (n - 1) + 1, Len(new), d, out[k])
                 \/ /\ \A i \in (n - 1) + 1 .. Len(new) : ~Carries(new[i], d)
                    /\ out[k] <= out[Len(out)]
      <3>1. CASE Covered(box, n + 1, len, d, out[k])
        <4>1. PICK i \in n + 1 .. len : Carries(box[i], d) /\ out[k] <= box[i].location
          BY <3>1 DEF Covered
        <4>2. i \in 2 .. len /\ i - 1 >= (n - 1) + 1
          BY <1>1, <4>1
        <4>3. i - 1 \in (n - 1) + 1 .. Len(new) /\ new[i - 1] = box[i]
          BY <1>1, <1>3, <4>2
        <4>4. QED
          BY <4>1, <4>3 DEF Covered
      <3>2. CASE /\ \A i \in n + 1 .. len : ~Carries(box[i], d)
                 /\ out[k] <= out[Len(out)]
        BY <1>4, <3>2
      <3>3. QED
        BY <1>6, <3>1, <3>2 DEF Settling
    <2>2. ASSUME out # <<>>, NEW i \in 1 .. n - 1, Carries(new[i], d)
          PROVE  Covered(new, 1, n - 1, d, out[Len(out)])
      <3>1. i \in 1 .. Len(new) /\ i + 1 \in 1 .. n
        BY <1>1
      <3>2. i + 1 \in 1 .. len /\ new[i] = box[i + 1] /\ Carries(box[i + 1], d)
        BY <1>2, <2>2, <3>1
      <3>3. Covered(box, 1, n, d, out[Len(out)])
        BY <1>6, <2>2, <3>1, <3>2 DEF Settling
      <3>4. PICK j \in 1 .. n : Carries(box[j], d) /\ out[Len(out)] <= box[j].location
        BY <3>3 DEF Covered
      <3>5. CASE j = 1
        <4>1. box[1].location < box[i + 1].location
          <5>1. 1 \in 1 .. Len(box) /\ i + 1 \in 1 .. Len(box) /\ 1 < i + 1
            BY <1>1, <3>2
          <5>2. /\ box[1].channel = "driver" /\ box[i + 1].channel = "driver"
                /\ box[1].driver = box[i + 1].driver
            BY <3>2, <3>4, <3>5 DEF Carries
          <5>3. QED
            BY <5>1, <5>2 DEF Sorted
        <4>2. /\ box[1].location \in Nat /\ box[i + 1].location \in Nat
              /\ out[Len(out)] \in Nat
          <5>1. Len(out) \in 1 .. Len(out)
            BY <2>2, EmptySeq
          <5>2. QED
            BY <1>1, <3>2, <5>1, CommandsTyped, ElementOfSeq, BoundsAssumption DEF Stamps
        <4>3. out[Len(out)] <= new[i].location
          BY <3>2, <3>4, <3>5, <4>1, <4>2
        <4>4. QED
          BY <2>2, <4>3 DEF Covered
      <3>6. CASE j # 1
        <4>1. j \in 2 .. len /\ j - 1 \in 1 .. n - 1
          BY <1>1, <3>6
        <4>2. new[j - 1] = box[j]
          BY <1>3, <4>1
        <4>3. QED
          BY <3>4, <4>1, <4>2 DEF Covered
      <3>7. QED
        BY <3>5, <3>6
    <2>3. QED
      BY <2>1, <2>2 DEF Settling
  <1>7. QED
    BY <1>5, <1>6

\* A command that is not about driver d's channel is executed.
LEMMA CarriesOther ==
    ASSUME NEW box \in Seq(Commands), NEW n \in Nat, n + 1 \in 1 .. Len(box),
           NEW out \in Seq(Stamps), NEW d \in Drivers, ~Carries(box[n + 1], d)
    PROVE  /\ InOrder(box, n, out, d) => InOrder(box, n + 1, out, d)
           /\ Settling(box, n, out, d) => Settling(box, n + 1, out, d)
  <1>1. Len(box) \in Nat
    BY LenProperties
  <1>2. \A i \in (n + 1) + 1 .. Len(box) : i \in n + 1 .. Len(box)
    BY <1>1
  <1>3. \A i \in n + 1 .. Len(box) : Carries(box[i], d) => i \in (n + 1) + 1 .. Len(box)
    BY <1>1
  <1>4. \A i \in 1 .. n + 1 : Carries(box[i], d) => i \in 1 .. n
    BY <1>1
  <1>5. \A i \in 1 .. n : i \in 1 .. n + 1
    OBVIOUS
  <1>6. InOrder(box, n, out, d) => InOrder(box, n + 1, out, d)
    BY <1>2 DEF InOrder
  <1>7. \A l : Covered(box, n + 1, Len(box), d, l) => Covered(box, (n + 1) + 1, Len(box), d, l)
    BY <1>3 DEF Covered
  <1>8. \A l : Covered(box, 1, n, d, l) => Covered(box, 1, n + 1, d, l)
    BY <1>5 DEF Covered
  <1>9. Settling(box, n, out, d) => Settling(box, n + 1, out, d)
    BY <1>2, <1>4, <1>7, <1>8 DEF Settling
  <1>10. QED
    BY <1>6, <1>9

\* A command about driver d's channel is executed.
LEMMA CarriesNext ==
    ASSUME NEW box \in Seq(Commands), NEW n \in Nat, n + 1 \in 1 .. Len(box),
           NEW out \in Seq(Stamps), NEW d \in Drivers, NEW now, Sorted(box, now),
           Carries(box[n + 1], d)
    PROVE  LET sent == Append(out, box[n + 1].location)
           IN  /\ InOrder(box, n, out, d) => InOrder(box, n + 1, sent, d)
               /\ Settling(box, n, out, d) => Settling(box, n + 1, sent, d)
  <1> DEFINE l == box[n + 1].location
             sent == Append(out, l)
             len == Len(out)
  <1>1. Len(box) \in Nat /\ l \in Stamps /\ l \in Nat
    BY CommandsTyped, LenProperties
  <1>2. /\ len \in Nat /\ Len(sent) = len + 1 /\ sent[len + 1] = l
        /\ sent \in Seq(Stamps) /\ \A k \in 1 .. len : sent[k] = out[k]
    BY <1>1, AppendProperties, LenProperties
  <1>3. \A k \in 1 .. len : out[k] \in Nat
    BY ElementOfSeq, BoundsAssumption DEF Stamps
  <1>4. ASSUME NEW i \in (n + 1) + 1 .. Len(box), Carries(box[i], d)
        PROVE  l < box[i].location /\ i \in n + 1 .. Len(box) /\ box[i].location \in Nat
    <2>1. i \in n + 1 .. Len(box) /\ i \in 1 .. Len(box) /\ n + 1 < i
      BY <1>1
    <2>2. /\ box[n + 1].channel = "driver" /\ box[i].channel = "driver"
          /\ box[n + 1].driver = box[i].driver
      BY <1>4 DEF Carries
    <2>3. box[i].location \in Nat
      BY <2>1, CommandsTyped
    <2>4. QED
      BY <2>1, <2>2, <2>3 DEF Sorted
  <1>5. n + 1 \in n + 1 .. Len(box) /\ n + 1 \in 1 .. n + 1
    BY <1>1
  <1> HIDE DEF l, sent
  <1>6. ASSUME InOrder(box, n, out, d)
        PROVE  InOrder(box, n + 1, sent, d)
    <2>1. \A k \in 1 .. len : out[k] < l
      BY <1>5, <1>6 DEF InOrder, l
    <2>2. Increasing(sent)
      BY <1>1, <1>6, <2>1, Later DEF InOrder, sent
    <2>3. ASSUME NEW i \in (n + 1) + 1 .. Len(box), Carries(box[i], d),
                 NEW k \in 1 .. Len(sent)
          PROVE  sent[k] < box[i].location
      <3>1. CASE k = len + 1
        BY <1>2, <1>4, <2>3, <3>1
      <3>2. CASE k \in 1 .. len
        BY <1>2, <1>4, <1>6, <2>3, <3>2 DEF InOrder
      <3>3. QED
        BY <1>2, <3>1, <3>2
    <2>4. QED
      BY <2>2, <2>3 DEF InOrder
  <1>7. ASSUME Settling(box, n, out, d)
        PROVE  Settling(box, n + 1, sent, d)
    <2>1. ASSUME NEW x \in Nat, x <= l
          PROVE  \/ Covered(box, (n + 1) + 1, Len(box), d, x)
                 \/ /\ \A i \in (n + 1) + 1 .. Len(box) : ~Carries(box[i], d)
                    /\ x <= sent[Len(sent)]
      <3>1. CASE \E i \in (n + 1) + 1 .. Len(box) : Carries(box[i], d)
        <4>1. PICK i \in (n + 1) + 1 .. Len(box) : Carries(box[i], d)
          BY <3>1
        <4>2. l < box[i].location /\ box[i].location \in Nat
          BY <1>4, <4>1
        <4>3. x <= box[i].location
          BY <1>1, <2>1, <4>2
        <4>4. QED
          BY <4>1, <4>3 DEF Covered
      <3>2. CASE \A i \in (n + 1) + 1 .. Len(box) : ~Carries(box[i], d)
        BY <1>2, <2>1, <3>2
      <3>3. QED
        BY <3>1, <3>2
    <2>2. ASSUME NEW k \in 1 .. Len(sent)
          PROVE  \/ Covered(box, (n + 1) + 1, Len(box), d, sent[k])
                 \/ /\ \A i \in (n + 1) + 1 .. Len(box) : ~Carries(box[i], d)
                    /\ sent[k] <= sent[Len(sent)]
      <3>1. CASE k = len + 1
        <4>1. sent[k] = l /\ l <= l
          BY <1>1, <1>2, <3>1
        <4>2. QED
          BY <1>1, <2>1, <4>1
      <3>2. CASE k \in 1 .. len
        <4>1. sent[k] = out[k] /\ out[k] \in Nat
          BY <1>2, <1>3, <3>2
        <4>2. Covered(box, n + 1, Len(box), d, out[k])
          BY <1>5, <1>7, <3>2 DEF Settling
        <4>3. PICK i \in n + 1 .. Len(box) : Carries(box[i], d) /\ out[k] <= box[i].location
          BY <4>2 DEF Covered
        <4>4. CASE i = n + 1
          BY <2>1, <4>1, <4>3, <4>4 DEF l
        <4>5. CASE i # n + 1
          <5>1. i \in (n + 1) + 1 .. Len(box)
            BY <1>1, <4>5
          <5>2. Covered(box, (n + 1) + 1, Len(box), d, out[k])
            BY <4>3, <5>1 DEF Covered
          <5>3. QED
            BY <4>1, <5>2
        <4>6. QED
          BY <4>4, <4>5
      <3>3. QED
        BY <1>2, <3>1, <3>2
    <2>3. Covered(box, 1, n + 1, d, sent[Len(sent)])
      <3>1. sent[Len(sent)] = box[n + 1].location /\ l <= l
        BY <1>1, <1>2 DEF l
      <3>2. QED
        BY <1>5, <3>1 DEF Covered, l
    <2>4. QED
      BY <2>2, <2>3 DEF Settling
  <1>8. QED
    BY <1>6, <1>7 DEF sent, l

\* The connection is lost: every command is to be sent again.
LEMMA SentAgain ==
    ASSUME NEW box \in Seq(Commands), NEW n \in 0 .. Len(box), NEW out \in Seq(Stamps),
           NEW d \in Drivers, Settling(box, n, out, d)
    PROVE  Settling(box, 0, out, d)
  <1>1. Len(box) \in Nat /\ n \in Nat /\ Len(out) \in Nat
    BY LenProperties
  <1>2. \A k \in 1 .. Len(out) : out[k] \in Nat
    BY ElementOfSeq, BoundsAssumption DEF Stamps
  <1>3. \A i \in n + 1 .. Len(box) : i \in 0 + 1 .. Len(box)
    BY <1>1
  <1>4. \A i \in 1 .. n : i \in 0 + 1 .. Len(box)
    BY <1>1
  <1>5. ASSUME NEW k \in 1 .. Len(out)
        PROVE  \/ Covered(box, 0 + 1, Len(box), d, out[k])
               \/ /\ \A i \in 0 + 1 .. Len(box) : ~Carries(box[i], d)
                  /\ out[k] <= out[Len(out)]
    <2>1. CASE Covered(box, n + 1, Len(box), d, out[k])
      BY <1>3, <2>1 DEF Covered
    <2>2. CASE /\ \A i \in n + 1 .. Len(box) : ~Carries(box[i], d)
               /\ out[k] <= out[Len(out)]
      <3>1. CASE \E i \in 1 .. n : Carries(box[i], d)
        <4>1. out # <<>> /\ Len(out) \in 1 .. Len(out)
          BY <1>1, EmptySeq
        <4>2. Covered(box, 1, n, d, out[Len(out)])
          BY <3>1, <4>1 DEF Settling
        <4>3. PICK i \in 1 .. n : Carries(box[i], d) /\ out[Len(out)] <= box[i].location
          BY <4>2 DEF Covered
        <4>4. i \in 1 .. Len(box)
          BY <1>1
        <4>5. box[i].location \in Nat /\ out[k] \in Nat /\ out[Len(out)] \in Nat
          BY <1>2, <4>1, <4>4, CommandsTyped
        <4>6. out[k] <= box[i].location
          BY <2>2, <4>3, <4>5
        <4>7. QED
          BY <1>4, <4>3, <4>6 DEF Covered
      <3>2. CASE \A i \in 1 .. n : ~Carries(box[i], d)
        <4>1. \A i \in 0 + 1 .. Len(box) : i \in 1 .. n \/ i \in n + 1 .. Len(box)
          BY <1>1
        <4>2. QED
          BY <2>2, <3>2, <4>1
      <3>3. QED
        BY <3>1, <3>2
    <2>3. QED
      BY <2>1, <2>2 DEF Settling
  <1>6. ~ \E i \in 1 .. 0 : Carries(box[i], d)
    OBVIOUS
  <1>7. QED
    BY <1>5, <1>6 DEF Settling

LEMMA ChannelsStay ==
    ASSUME Channels, UNCHANGED <<clock, commands, executed, delivered, losses>>
    PROVE  Channels'
  BY DEF Channels

LEMMA UpdateDriverLocationChannels ==
    ASSUME Typed, Channels, NEW r \in Requests, UpdateDriverLocation(r)
    PROVE  Channels'
  <1> DEFINE c == [request |-> r, channel |-> "driver", driver |-> request[r].driver,
                   location |-> clock + 1]
  <1>1. /\ clock' = clock + 1 /\ c \in Commands
        /\ commands' = Append(commands, c) \/ commands' = commands
        /\ UNCHANGED <<executed, delivered, losses>>
    BY Stamped
  <1>2. c.location = clock + 1 /\ c.channel = "driver"
    OBVIOUS
  <1>3. /\ commands \in Seq(Commands) /\ executed \in 0 .. Len(commands)
        /\ clock \in Nat /\ delivered \in [Drivers -> Seq(Stamps)]
    BY DEF Typed
  <1> HIDE DEF c
  <1>4. ASSUME NEW d \in Drivers
        PROVE  /\ UpTo(delivered'[d], clock')
               /\ losses' = 0 => InOrder(commands', executed', delivered'[d], d)
               /\ Settling(commands', executed', delivered'[d], d)
    <2> DEFINE out == delivered[d]
    <2>1. /\ out \in Seq(Stamps) /\ UpTo(out, clock)
          /\ losses = 0 => InOrder(commands, executed, out, d)
          /\ Settling(commands, executed, out, d)
      BY <1>3 DEF Channels
    <2> HIDE DEF out
    <2>2. UpTo(out, clock')
      BY <1>1, <1>3, <2>1, ElementOfSeq, BoundsAssumption DEF UpTo, Stamps
    <2>3. /\ InOrder(commands, executed, out, d)
                => InOrder(Append(commands, c), executed, out, d)
          /\ Settling(commands, executed, out, d)
                => Settling(Append(commands, c), executed, out, d)
      BY <1>1, <1>2, <1>3, <2>1, Sends
    <2>4. QED
      BY <1>1, <2>1, <2>2, <2>3 DEF out
  <1>5. QED
    BY <1>4 DEF Channels

LEMMA PublishAnsweredChannels ==
    ASSUME Typed, Queue, Channels, PublishAnswered
    PROVE  Channels'
  <1> DEFINE n == Len(commands)
             box == commands'
             g == GeneralAfter(commands[1])
  <1>1. /\ n \in Nat /\ executed \in 1 .. n /\ executed' = executed - 1
        /\ box \in Seq(Commands)
        /\ \A i \in 1 .. n - 1 : box[i] = commands[i + 1]
        /\ Len(box) = n - 1 \/ (Len(box) = n /\ box[n] = g)
        /\ UNCHANGED <<clock, delivered, losses>>
    BY Answered
  <1>2. g.channel = "general"
    BY DEF GeneralAfter
  <1> HIDE DEF g, box
  <1>3. Len(box) = n - 1 \/ (Len(box) = n /\ box[n].channel = "general")
    BY <1>1, <1>2
  <1>4. commands \in Seq(Commands) /\ Sorted(commands, clock)
    BY DEF Typed, Queue
  <1>5. ASSUME NEW d \in Drivers
        PROVE  /\ UpTo(delivered'[d], clock')
               /\ losses' = 0 => InOrder(box, executed', delivered'[d], d)
               /\ Settling(box, executed', delivered'[d], d)
    <2> DEFINE out == delivered[d]
    <2>1. /\ out \in Seq(Stamps) /\ UpTo(out, clock)
          /\ losses = 0 => InOrder(commands, executed, out, d)
          /\ Settling(commands, executed, out, d)
      BY DEF Typed, Channels
    <2> HIDE DEF out
    <2>2. /\ InOrder(commands, executed, out, d) => InOrder(box, executed - 1, out, d)
          /\ Settling(commands, executed, out, d) => Settling(box, executed - 1, out, d)
      BY <1>1, <1>3, <1>4, <2>1, GoesOn
    <2>3. QED
      BY <1>1, <2>1, <2>2 DEF out
  <1>6. QED
    BY <1>5 DEF Channels, box

LEMMA RedisPublishesChannels ==
    ASSUME Typed, Queue, Channels, RedisPublishes
    PROVE  Channels'
  <1> DEFINE c == commands[executed + 1]
  <1>1. /\ executed \in Nat /\ Len(commands) \in Nat
        /\ executed + 1 \in 1 .. Len(commands) /\ executed' = executed + 1
        /\ c \in Commands
        /\ \/ /\ c.channel = "driver"
              /\ delivered' = [delivered EXCEPT ![c.driver] =
                                  Append(delivered[c.driver], c.location)]
           \/ /\ c.channel = "general"
              /\ delivered' = delivered
        /\ UNCHANGED <<clock, commands, losses>>
    BY Executes
  <1>2. /\ commands \in Seq(Commands) /\ Sorted(commands, clock)
        /\ delivered \in [Drivers -> Seq(Stamps)]
    BY DEF Typed, Queue
  <1>3. c.location <= clock /\ c.location \in Stamps /\ c.driver \in Drivers
    BY <1>1, <1>2, CommandsTyped DEF Sorted
  <1>4. ASSUME NEW d \in Drivers
        PROVE  /\ UpTo(delivered'[d], clock')
               /\ losses' = 0 => InOrder(commands', executed', delivered'[d], d)
               /\ Settling(commands', executed', delivered'[d], d)
    <2> DEFINE out == delivered[d]
               sent == Append(out, c.location)
    <2>1. /\ out \in Seq(Stamps) /\ UpTo(out, clock)
          /\ losses = 0 => InOrder(commands, executed, out, d)
          /\ Settling(commands, executed, out, d)
      BY <1>2 DEF Channels
    <2>2. CASE Carries(c, d)
      <3>1. delivered'[d] = sent
        <4>1. c.channel = "driver" /\ c.driver = d
          BY <2>2 DEF Carries
        <4>2. delivered' = [delivered EXCEPT ![c.driver] =
                               Append(delivered[c.driver], c.location)]
          BY <1>1, <4>1
        <4>3. QED
          BY <1>2, <4>1, <4>2
      <3>2. UpTo(sent, clock)
        <4>1. /\ Len(sent) = Len(out) + 1 /\ Len(out) \in Nat
              /\ sent[Len(out) + 1] = c.location
              /\ \A i \in 1 .. Len(out) : sent[i] = out[i]
          BY <1>3, <2>1, AppendProperties, LenProperties
        <4>2. QED
          BY <1>3, <2>1, <4>1 DEF UpTo
      <3>3. /\ InOrder(commands, executed, out, d) => InOrder(commands, executed + 1, sent, d)
            /\ Settling(commands, executed, out, d)
                  => Settling(commands, executed + 1, sent, d)
        BY <1>1, <1>2, <2>1, <2>2, CarriesNext
      <3> HIDE DEF sent, out, c
      <3>4. QED
        BY <1>1, <2>1, <3>1, <3>2, <3>3
    <2>3. CASE ~Carries(c, d)
      <3>1. delivered'[d] = out
        <4>1. CASE delivered' = delivered
          BY <4>1
        <4>2. CASE c.channel = "driver" /\ delivered' = [delivered EXCEPT ![c.driver] =
                      Append(delivered[c.driver], c.location)]
          <5>1. c.driver # d
            BY <2>3, <4>2 DEF Carries
          <5>2. QED
            BY <1>2, <4>2, <5>1
        <4>3. QED
          BY <1>1, <4>1, <4>2
      <3>2. /\ InOrder(commands, executed, out, d) => InOrder(commands, executed + 1, out, d)
            /\ Settling(commands, executed, out, d) => Settling(commands, executed + 1, out, d)
        BY <1>1, <1>2, <2>1, <2>3, CarriesOther
      <3> HIDE DEF out, c
      <3>3. QED
        BY <1>1, <2>1, <3>1, <3>2
    <2>4. QED
      BY <2>2, <2>3
  <1>5. QED
    BY <1>4 DEF Channels

LEMMA CloseChannels ==
    ASSUME Typed, Channels, Close
    PROVE  Channels'
  <1>1. UNCHANGED <<clock, commands, delivered>> /\ executed' = 0 /\ losses' # 0
    BY BoundsAssumption DEF Typed, Close, store, outside
  <1>2. commands \in Seq(Commands) /\ executed \in 0 .. Len(commands)
    BY DEF Typed
  <1>3. ASSUME NEW d \in Drivers
        PROVE  UpTo(delivered[d], clock) /\ Settling(commands, 0, delivered[d], d)
    <2>1. /\ delivered[d] \in Seq(Stamps) /\ UpTo(delivered[d], clock)
          /\ Settling(commands, executed, delivered[d], d)
      BY DEF Typed, Channels
    <2>2. QED
      BY <1>2, <2>1, SentAgain
  <1>4. QED
    BY <1>1, <1>3 DEF Channels

-----------------------------------------------------------------------------
(* The inductive invariant *)

LEMMA InitInvariants == Init => Invariants
  <1> SUFFICES ASSUME Init
               PROVE  Invariants
    OBVIOUS
  <1>1. Typed
    BY InitTyped
  <1>2. Len(<<>>) = 0 /\ <<>> \in Seq(Stamps)
    BY EmptySeq
  <1>3. /\ commands = <<>> /\ executed = 0
        /\ \A d \in Drivers : /\ saved[d] = <<>> /\ locationsByDriver[d] = <<>>
                              /\ delivered[d] = <<>>
    BY DEF Init
  <1>4. \A now : Increasing(<<>>) /\ UpTo(<<>>, now)
    BY <1>2 DEF Increasing, UpTo
  <1>5. Latest(<<>>, MaxHistory) = <<>>
    <2>1. MaxHistory \in Nat \ {0}
      BY HistoryAssumption
    <2>2. /\ Latest(<<>>, MaxHistory) \in Seq(Stamps)
          /\ Len(Latest(<<>>, MaxHistory)) =
                (IF Len(<<>>) > MaxHistory THEN MaxHistory ELSE Len(<<>>))
      BY <1>2, <2>1, LatestOf
    <2>3. Len(Latest(<<>>, MaxHistory)) = 0
      BY <1>2, <2>1, <2>2
    <2>4. QED
      BY <2>2, <2>3, EmptySeq
  <1>6. Histories
    BY <1>3, <1>4, <1>5 DEF Histories, HistoryOf
  <1>7. Queue
    BY <1>2, <1>3 DEF Queue, Owned, Sorted, Told
  <1>8. \A d \in Drivers : InOrder(<<>>, 0, <<>>, d) /\ Settling(<<>>, 0, <<>>, d)
    BY <1>2, <1>4 DEF InOrder, Settling
  <1>9. Channels
    BY <1>3, <1>4, <1>8 DEF Channels
  <1>10. QED
    BY <1>1, <1>6, <1>7, <1>9 DEF Invariants

LEMMA NextInvariants == Invariants /\ [Next]_vars => Invariants'
  <1> SUFFICES ASSUME Typed, Histories, Queue, Channels, [Next]_vars
               PROVE  Typed' /\ Histories' /\ Queue' /\ Channels'
    BY DEF Invariants
  <1>1. CASE \E r \in Requests, d \in Drivers, header \in Headers :
                UpdateLocation(r, d, header)
    <2>1. PICK r \in Requests, d \in Drivers, header \in Headers :
                  UpdateLocation(r, d, header)
      BY <1>1
    <2>2. UNCHANGED store /\ UNCHANGED <<clock, commands, executed, delivered, losses>>
      BY <2>1 DEF UpdateLocation, store, outside
    <2>3. QED
      BY <2>1, <2>2, UpdateLocationTyped, HistoriesStay, UpdateLocationQueue, ChannelsStay
  <1>2. CASE \E r \in Requests, valid \in BOOLEAN : TokenRefused(r, valid)
    <2>1. PICK r \in Requests, valid \in BOOLEAN : TokenRefused(r, valid)
      BY <1>2
    <2>2. UNCHANGED store /\ UNCHANGED <<clock, commands, executed, delivered, losses>>
      BY <2>1 DEF TokenRefused, store, outside
    <2>3. QED
      BY <2>1, <2>2, TokenRefusedTyped, HistoriesStay, TokenRefusedQueue, ChannelsStay
  <1>3. CASE \E r \in Requests : UpdateDriverLocation(r)
    BY <1>3, UpdateDriverLocationTyped, UpdateDriverLocationQueue,
       UpdateDriverLocationChannels
  <1>4. CASE PublishAnswered
    <2>1. UNCHANGED store
      BY <1>4 DEF PublishAnswered
    <2>2. QED
      BY <1>4, <2>1, PublishAnsweredTyped, HistoriesStay, PublishAnsweredQueue,
         PublishAnsweredChannels
  <1>5. CASE RedisPublishes
    <2>1. UNCHANGED store
      BY <1>5 DEF RedisPublishes
    <2>2. QED
      BY <1>5, <2>1, RedisPublishesTyped, HistoriesStay, RedisPublishesQueue,
         RedisPublishesChannels
  <1>6. CASE Start \/ Connect
    <2>1. UNCHANGED store
      BY <1>6 DEF Start, Connect
    <2>2. UNCHANGED <<clock, commands, executed, delivered, announced, request, losses>>
      BY <1>6 DEF Start, Connect, store, outside
    <2>3. Queue'
      BY <2>2 DEF Queue
    <2>4. QED
      BY <1>6, <2>1, <2>2, <2>3, QuietTyped, HistoriesStay, ChannelsStay
  <1>7. CASE Close
    <2>1. UNCHANGED store
      BY <1>7 DEF Close
    <2>2. QED
      BY <1>7, <2>1, CloseTyped, HistoriesStay, CloseQueue, CloseChannels
  <1>8. CASE UNCHANGED vars
    BY <1>8 DEF vars, store, outside, Typed, Histories, Queue, Channels
  <1>9. QED
    BY <1>1, <1>2, <1>3, <1>4, <1>5, <1>6, <1>7, <1>8 DEF Next

LEMMA Invariant == Spec => []Invariants
  <1>1. QED
    BY InitInvariants, NextInvariants, PTL DEF Spec

-----------------------------------------------------------------------------
(* The query *)

\* Every set of numbers has a least one.
LEMMA Least ==
    ASSUME NEW T, T \subseteq Nat, T # {}
    PROVE  \E x \in T : \A y \in T : x <= y
  <1>1. \E x \in T : \A y \in T : <<y, x>> \notin OpToRel(<, Nat)
    BY NatLessThanWellFounded, WFMin
  <1>2. \A x \in Nat, y \in Nat : <<y, x>> \notin OpToRel(<, Nat) => x <= y
    BY DEF OpToRel
  <1>3. QED
    BY <1>1, <1>2

\* Induction, over a set instead of a formula.
LEMMA Induction ==
    ASSUME NEW T, 0 \in T, \A n \in Nat : n \in T => n + 1 \in T
    PROVE  \A n \in Nat : n \in T
  <1> DEFINE Missing == Nat \ T
  <1>1. ASSUME Missing # {} PROVE FALSE
    <2>1. Missing \subseteq Nat
      OBVIOUS
    <2> HIDE DEF Missing
    <2>2. PICK x \in Missing : \A y \in Missing : x <= y
      BY <1>1, <2>1, Least
    <2>3. x \in Nat /\ x \notin T
      BY <2>2 DEF Missing
    <2>4. x - 1 \in Nat /\ ~(x <= x - 1) /\ x - 1 + 1 = x
      BY <2>3
    <2>5. x - 1 \notin Missing
      BY <2>2, <2>4
    <2>6. QED
      BY <2>3, <2>4, <2>5 DEF Missing
  <1>2. QED
    BY <1>1

\* What filter has chosen when it has gone through the first i elements is f[i].
Filters(f, s, times, n) ==
    /\ f[0] = <<>>
    /\ \A i \in 1 .. n :
          f[i] = IF s[i] \in times THEN Append(f[i - 1], s[i]) ELSE f[i - 1]

LEMMA FiltersExist ==
    ASSUME NEW s \in Seq(Stamps), NEW times
    PROVE  \E f \in [0 .. Len(s) -> Seq(Stamps)] : Filters(f, s, times, Len(s))
  <1> DEFINE Far == {n \in Nat : n <= Len(s) =>
                        \E f \in [0 .. n -> Seq(Stamps)] : Filters(f, s, times, n)}
  <1>0. Len(s) \in Nat
    BY LenProperties
  <1>1. 0 \in Far
    <2> DEFINE f == [i \in 0 .. 0 |-> <<>>]
    <2>1. f \in [0 .. 0 -> Seq(Stamps)]
      BY EmptySeq
    <2>2. Filters(f, s, times, 0)
      BY DEF Filters
    <2> HIDE DEF f
    <2>3. QED
      BY <2>1, <2>2
  <1>2. ASSUME NEW n \in Nat, n \in Far
        PROVE  n + 1 \in Far
    <2> SUFFICES ASSUME n + 1 <= Len(s)
                 PROVE  \E f \in [0 .. n + 1 -> Seq(Stamps)] : Filters(f, s, times, n + 1)
      OBVIOUS
    <2>1. PICK f \in [0 .. n -> Seq(Stamps)] : Filters(f, s, times, n)
      BY <1>0, <1>2
    <2> DEFINE next == IF s[n + 1] \in times THEN Append(f[n], s[n + 1]) ELSE f[n]
               g == [i \in 0 .. n + 1 |-> IF i <= n THEN f[i] ELSE next]
    <2>2. f[n] \in Seq(Stamps) /\ s[n + 1] \in Stamps
      BY <1>0, ElementOfSeq
    <2>3. next \in Seq(Stamps)
      BY <2>2, AppendProperties
    <2> HIDE DEF next
    <2>4. g \in [0 .. n + 1 -> Seq(Stamps)]
      BY <2>3
    <2>5. g[0] = <<>>
      BY <2>1 DEF Filters
    <2>6. ASSUME NEW i \in 1 .. n + 1
          PROVE  g[i] = IF s[i] \in times THEN Append(g[i - 1], s[i]) ELSE g[i - 1]
      <3>1. CASE i <= n
        <4>1. g[i] = f[i] /\ g[i - 1] = f[i - 1] /\ i \in 1 .. n
          BY <3>1
        <4> HIDE DEF g
        <4>2. QED
          BY <2>1, <4>1 DEF Filters
      <3>2. CASE i = n + 1
        <4>1. g[i] = next /\ g[i - 1] = f[n]
          BY <3>2
        <4> HIDE DEF g
        <4>2. QED
          BY <3>2, <4>1 DEF next
      <3>3. QED
        BY <3>1, <3>2
    <2> HIDE DEF g
    <2>7. Filters(g, s, times, n + 1)
      BY <2>5, <2>6 DEF Filters
    <2>8. QED
      BY <2>4, <2>7
  <1> HIDE DEF Far
  <1>3. \A n \in Nat : n \in Far
    BY <1>1, <1>2, Induction
  <1>4. Len(s) \in Far
    BY <1>0, <1>3
  <1>5. QED
    BY <1>0, <1>4 DEF Far

\* The answer is what has been chosen after the last element.
LEMMA FilteredIsLast ==
    ASSUME NEW s \in Seq(Stamps), NEW times
    PROVE  \E f : Filters(f, s, times, Len(s)) /\ Filtered(s, times) = f[Len(s)]
  <1> DEFINE Step(f, i) ==
               IF i = 0 THEN <<>>
               ELSE IF s[i] \in times THEN Append(f[i - 1], s[i]) ELSE f[i - 1]
             upTo == CHOOSE f : f = [i \in 0 .. Len(s) |-> Step(f, i)]
  <1>0. Len(s) \in Nat
    BY LenProperties
  <1>1. PICK f \in [0 .. Len(s) -> Seq(Stamps)] : Filters(f, s, times, Len(s))
    BY FiltersExist
  <1>2. f = [i \in 0 .. Len(s) |-> Step(f, i)]
    <2>1. f[0] = Step(f, 0)
      BY <1>1 DEF Filters
    <2>2. \A i \in 1 .. Len(s) : f[i] = Step(f, i)
      BY <1>1 DEF Filters
    <2> HIDE DEF Step
    <2>3. \A i \in 0 .. Len(s) : f[i] = Step(f, i)
      <3>1. \A i \in 0 .. Len(s) : i = 0 \/ i \in 1 .. Len(s)
        BY <1>0
      <3>2. QED
        BY <2>1, <2>2, <3>1
    <2>4. QED
      BY <2>3
  <1>3. upTo = [i \in 0 .. Len(s) |-> Step(upTo, i)]
    <2> HIDE DEF Step
    <2>1. QED
      BY <1>2
  <1>4. Filtered(s, times) = upTo[Len(s)]
    BY DEF Filtered
  <1> HIDE DEF upTo
  <1>5. Filters(upTo, s, times, Len(s))
    <2>1. \A i \in 0 .. Len(s) : upTo[i] = Step(upTo, i)
      <3> HIDE DEF Step
      <3>1. QED
        BY <1>3
    <2>2. QED
      BY <1>0, <2>1 DEF Filters
  <1>6. QED
    BY <1>4, <1>5

\* What has been chosen of the first n elements.
Chosen(t, s, times, n) ==
    /\ t \in Seq(Stamps)
    /\ \A j \in 1 .. Len(t) : \E m \in 1 .. n : t[j] = s[m] /\ s[m] \in times
    /\ \A m \in 1 .. n : s[m] \in times => InSeq(s[m], t)
    /\ Increasing(t)

LEMMA ChoosesNext ==
    ASSUME NEW s \in Seq(Stamps), NEW times, NEW n \in Nat, n + 1 <= Len(s), Increasing(s),
           NEW t, Chosen(t, s, times, n), s[n + 1] \in times
    PROVE  Chosen(Append(t, s[n + 1]), s, times, n + 1)
  <1> DEFINE l == s[n + 1]
             u == Append(t, l)
  <1>0. Len(s) \in Nat /\ n + 1 \in 1 .. Len(s) /\ l \in Stamps
    BY LenProperties, ElementOfSeq
  <1>1. t \in Seq(Stamps) /\ Len(t) \in Nat
    BY LenProperties DEF Chosen
  <1>2. /\ u \in Seq(Stamps) /\ Len(u) = Len(t) + 1 /\ u[Len(t) + 1] = l
        /\ \A i \in 1 .. Len(t) : u[i] = t[i]
    BY <1>0, <1>1, AppendProperties
  <1> HIDE DEF u
  <1>3. \A j \in 1 .. Len(u) : \E m \in 1 .. n + 1 : u[j] = s[m] /\ s[m] \in times
    <2> TAKE j \in 1 .. Len(u)
    <2>1. CASE j = Len(t) + 1
      <3>1. n + 1 \in 1 .. n + 1 /\ u[j] = s[n + 1]
        BY <1>2, <2>1
      <3>2. QED
        BY <3>1
    <2>2. CASE j \in 1 .. Len(t)
      <3>1. PICK m \in 1 .. n : t[j] = s[m] /\ s[m] \in times
        BY <2>2 DEF Chosen
      <3>2. m \in 1 .. n + 1 /\ u[j] = s[m]
        BY <1>2, <2>2, <3>1
      <3>3. QED
        BY <3>1, <3>2
    <2>3. QED
      BY <1>1, <1>2, <2>1, <2>2
  <1>4. ASSUME NEW m \in 1 .. n + 1, s[m] \in times
        PROVE  InSeq(s[m], u)
    <2>1. CASE m = n + 1
      <3>1. Len(t) + 1 \in 1 .. Len(u) /\ u[Len(t) + 1] = s[m]
        BY <1>1, <1>2, <2>1
      <3>2. QED
        BY <3>1 DEF InSeq
    <2>2. CASE m \in 1 .. n
      <3>1. PICK i \in 1 .. Len(t) : t[i] = s[m]
        BY <1>4, <2>2 DEF Chosen, InSeq
      <3>2. i \in 1 .. Len(u) /\ u[i] = s[m]
        BY <1>1, <1>2, <3>1
      <3>3. QED
        BY <3>2 DEF InSeq
    <2>3. QED
      BY <2>1, <2>2
  <1>5. ASSUME NEW i \in 1 .. Len(u), NEW j \in 1 .. Len(u), i < j
        PROVE  u[i] < u[j]
    <2>1. i \in 1 .. Len(t) /\ u[i] = t[i]
      BY <1>1, <1>2, <1>5
    <2>2. CASE j \in 1 .. Len(t)
      BY <1>2, <1>5, <2>1, <2>2 DEF Chosen, Increasing
    <2>3. CASE j = Len(t) + 1
      <3>1. PICK m \in 1 .. n : t[i] = s[m]
        BY <2>1 DEF Chosen
      <3>2. m \in 1 .. Len(s) /\ m < n + 1
        BY <1>0
      <3>3. s[m] < s[n + 1]
        BY <1>0, <3>2 DEF Increasing
      <3>4. QED
        BY <1>2, <2>1, <2>3, <3>1, <3>3
    <2>4. QED
      BY <1>1, <1>2, <2>2, <2>3
  <1>6. QED
    BY <1>2, <1>3, <1>4, <1>5 DEF Chosen, Increasing, u

\* A filtered history has the locations within the times, and keeps their order.
LEMMA FilteredFacts ==
    ASSUME NEW s \in Seq(Stamps), NEW times, Increasing(s)
    PROVE  Chosen(Filtered(s, times), s, times, Len(s))
  <1>0. Len(s) \in Nat
    BY LenProperties
  <1>1. PICK f : Filters(f, s, times, Len(s)) /\ Filtered(s, times) = f[Len(s)]
    BY FilteredIsLast
  <1> DEFINE Good == {n \in Nat : n <= Len(s) => Chosen(f[n], s, times, n)}
  <1>2. 0 \in Good
    <2>1. f[0] = <<>>
      BY <1>1 DEF Filters
    <2>2. Chosen(<<>>, s, times, 0)
      BY EmptySeq DEF Chosen, Increasing
    <2>3. QED
      BY <2>1, <2>2
  <1>3. ASSUME NEW n \in Nat, n \in Good
        PROVE  n + 1 \in Good
    <2> SUFFICES ASSUME n + 1 <= Len(s)
                 PROVE  Chosen(f[n + 1], s, times, n + 1)
      OBVIOUS
    <2>1. Chosen(f[n], s, times, n)
      BY <1>0, <1>3
    <2>2. n + 1 \in 1 .. Len(s) /\ n + 1 - 1 = n
      BY <1>0
    <2>3. f[n + 1] = IF s[n + 1] \in times THEN Append(f[n], s[n + 1]) ELSE f[n]
      BY <1>1, <2>2 DEF Filters
    <2>4. CASE s[n + 1] \in times
      <3>1. Chosen(Append(f[n], s[n + 1]), s, times, n + 1)
        BY <2>1, <2>4, ChoosesNext
      <3>2. QED
        BY <2>3, <2>4, <3>1
    <2>5. CASE s[n + 1] \notin times
      <3>1. \A m \in 1 .. n + 1 : m \in 1 .. n \/ m = n + 1
        OBVIOUS
      <3>2. 1 .. n \subseteq 1 .. n + 1
        OBVIOUS
      <3>3. Chosen(f[n], s, times, n + 1)
        BY <2>1, <2>5, <3>1, <3>2 DEF Chosen
      <3>4. QED
        BY <2>3, <2>5, <3>3
    <2>6. QED
      BY <2>4, <2>5
  <1> HIDE DEF Good
  <1>4. \A n \in Nat : n \in Good
    BY <1>2, <1>3, Induction
  <1>5. Len(s) \in Good
    BY <1>0, <1>4
  <1>6. QED
    BY <1>0, <1>1, <1>5 DEF Good

\* The repository has every location that was saved at or after the oldest that it
\* holds: a query over a range that it still covers has nothing to miss.
LEMMA CoveredRangeKept ==
    ASSUME Typed, Histories, NEW d \in Drivers, locationsByDriver[d] # <<>>,
           NEW i \in 1 .. Len(saved[d]), locationsByDriver[d][1] <= saved[d][i]
    PROVE  InSeq(saved[d][i], locationsByDriver[d])
  <1> DEFINE h == locationsByDriver[d]
             s == saved[d]
             k == Len(s) - Len(h)
  <1>1. s \in Seq(Stamps) /\ Increasing(s) /\ h = Latest(s, MaxHistory)
    BY DEF Typed, Histories, HistoryOf
  <1>2. MaxHistory \in Nat \ {0} /\ Len(s) \in Nat
    BY <1>1, HistoryAssumption, LenProperties
  <1>3. /\ h \in Seq(Stamps)
        /\ Len(h) = IF Len(s) > MaxHistory THEN MaxHistory ELSE Len(s)
        /\ \A m \in 1 .. Len(h) : h[m] = s[Len(s) - Len(h) + m]
    BY <1>1, <1>2, LatestOf
  <1>4. Len(h) \in Nat \ {0} /\ h[1] <= s[i] /\ i \in 1 .. Len(s)
    BY <1>3, EmptySeq
  <1> HIDE DEF h, s
  <1>5. k \in Nat /\ k + 1 \in 1 .. Len(s) /\ 1 \in 1 .. Len(h)
    BY <1>2, <1>3, <1>4
  <1>6. h[1] = s[k + 1]
    BY <1>3, <1>5
  <1>7. s[k + 1] \in Nat /\ s[i] \in Nat
    BY <1>1, <1>4, <1>5, ElementOfSeq, BoundsAssumption DEF Stamps
  <1>8. ~(i < k + 1)
    <2>1. i < k + 1 => s[i] < s[k + 1]
      BY <1>1, <1>4, <1>5 DEF Increasing
    <2>2. QED
      BY <1>4, <1>6, <1>7, <2>1
  <1>9. i - k \in 1 .. Len(h) /\ k + (i - k) = i
    BY <1>2, <1>4, <1>5, <1>8
  <1>10. h[i - k] = s[i]
    BY <1>3, <1>9
  <1>11. QED
    BY <1>9, <1>10 DEF InSeq, h, s

-----------------------------------------------------------------------------
(* The theorems *)

\* The state of location-service and of its connection to Redis is well typed.
THEOREM TypeCorrect == Spec => []TypeOK
  <1>1. Invariants => TypeOK
    <2> SUFFICES ASSUME Typed, Histories
                 PROVE  TypeOK
      BY DEF Invariants
    <2>1. ASSUME NEW d \in Drivers
          PROVE  Len(locationsByDriver[d]) <= MaxHistory
      <3>1. saved[d] \in Seq(Stamps) /\ locationsByDriver[d] = Latest(saved[d], MaxHistory)
        BY DEF Typed, Histories, HistoryOf
      <3>2. /\ Len(locationsByDriver[d]) =
                  (IF Len(saved[d]) > MaxHistory THEN MaxHistory ELSE Len(saved[d]))
            /\ Len(saved[d]) \in Nat
        BY <3>1, LatestOf, HistoryAssumption, LenProperties
      <3>3. QED
        BY <3>2, HistoryAssumption
    <2>2. QED
      BY <2>1 DEF Typed, TypeOK, RequestRecords, Phases
  <1>2. QED
    BY <1>1, Invariant, PTL

\* What the repository holds of a driver is the end of all that was saved of it, in
\* the order of the timestamps, whatever the number of requests under way and the
\* length of the history (repository:20, 42).
THEOREM HistoryIsLatest == Spec => []HistoryKeepsLatest
  <1>1. Invariants => HistoryKeepsLatest
    <2> SUFFICES ASSUME Typed, Histories, NEW d \in Drivers
                 PROVE  /\ locationsByDriver[d] = Latest(saved[d], MaxHistory)
                        /\ saved[d] # <<>> => GetLastLocation(d) = saved[d][Len(saved[d])]
                        /\ \A i, j \in 1 .. Len(locationsByDriver[d]) :
                              i < j => locationsByDriver[d][i] < locationsByDriver[d][j]
      BY DEF Invariants, HistoryKeepsLatest
    <2> DEFINE h == locationsByDriver[d]
               s == saved[d]
    <2>1. s \in Seq(Stamps) /\ Increasing(s) /\ h = Latest(s, MaxHistory)
      BY DEF Typed, Histories, HistoryOf
    <2>2. MaxHistory \in Nat \ {0} /\ Len(s) \in Nat
      BY <2>1, HistoryAssumption, LenProperties
    <2>3. /\ h \in Seq(Stamps)
          /\ Len(h) = IF Len(s) > MaxHistory THEN MaxHistory ELSE Len(s)
          /\ \A i \in 1 .. Len(h) : h[i] = s[Len(s) - Len(h) + i]
      BY <2>1, <2>2, LatestOf
    <2>4. GetLastLocation(d) = IF h = <<>> THEN 0 ELSE h[Len(h)]
      BY DEF GetLastLocation
    <2> HIDE DEF h, s
    <2>5. Len(h) \in Nat /\ Len(h) <= Len(s)
      BY <2>2, <2>3
    <2>6. ASSUME s # <<>>
          PROVE  GetLastLocation(d) = s[Len(s)]
      <3>1. Len(s) > 0
        BY <2>1, <2>6, EmptySeq
      <3>2. Len(h) \in 1 .. Len(h) /\ Len(s) - Len(h) + Len(h) = Len(s)
        BY <2>2, <2>3, <2>5, <3>1
      <3>3. h # <<>>
        BY <3>2, EmptySeq
      <3>4. h[Len(h)] = s[Len(s)]
        BY <2>3, <3>2
      <3>5. QED
        BY <2>4, <3>3, <3>4
    <2>7. ASSUME NEW i \in 1 .. Len(h), NEW j \in 1 .. Len(h), i < j
          PROVE  h[i] < h[j]
      <3> DEFINE k == Len(s) - Len(h)
      <3>1. k + i \in 1 .. Len(s) /\ k + j \in 1 .. Len(s) /\ k + i < k + j
        BY <2>2, <2>5, <2>7
      <3>2. s[k + i] < s[k + j]
        BY <2>1, <3>1 DEF Increasing
      <3>3. QED
        BY <2>3, <3>2
    <2>8. QED
      BY <2>1, <2>6, <2>7 DEF h, s
  <1>2. QED
    BY <1>1, Invariant, PTL

\* A query that begins no earlier than the oldest location that the repository holds is
\* answered with every location saved in its range, those at both ends included, and no
\* other, once each and in order, for every length of the history and however many
\* requests save meanwhile.
THEOREM QueryComplete == Spec => []HistoryQueryComplete
  <1>1. Invariants => HistoryQueryComplete
    <2> SUFFICES ASSUME Typed, Histories, NEW d \in Drivers, NEW from \in Stamps,
                        NEW to \in Stamps,
                        locationsByDriver[d] # <<>>, locationsByDriver[d][1] <= from
                 PROVE  LET answer == GetLocationHistory(d, from, to)
                        IN  /\ \A l \in Stamps :
                                  InSeq(l, answer) <=> InSeq(l, saved[d]) /\ l \in from .. to
                            /\ \A i, j \in 1 .. Len(answer) : i < j => answer[i] < answer[j]
      BY DEF Invariants, HistoryQueryComplete
    <2> DEFINE h == locationsByDriver[d]
               s == saved[d]
               answer == GetLocationHistory(d, from, to)
    <2>1. h \in Seq(Stamps) /\ s \in Seq(Stamps)
      BY DEF Typed
    <2>2. Increasing(s) /\ h = Latest(s, MaxHistory)
      BY DEF Histories, HistoryOf
    <2>3. MaxHistory \in Nat \ {0} /\ Len(s) \in Nat
      BY <2>1, HistoryAssumption, LenProperties
    <2>4. /\ Len(h) = IF Len(s) > MaxHistory THEN MaxHistory ELSE Len(s)
          /\ \A i \in 1 .. Len(h) : h[i] = s[Len(s) - Len(h) + i]
      BY <2>1, <2>2, <2>3, LatestOf
    <2>5. \A i \in 1 .. Len(h) : Len(s) - Len(h) + i \in 1 .. Len(s)
      <3> HIDE DEF h, s
      <3>1. Len(h) \in Nat /\ Len(h) <= Len(s)
        BY <2>3, <2>4
      <3>2. QED
        BY <2>3, <3>1
    <2>6. Increasing(h)
      <3> HIDE DEF h, s
      <3> SUFFICES ASSUME NEW i \in 1 .. Len(h), NEW j \in 1 .. Len(h), i < j
                   PROVE  h[i] < h[j]
        BY DEF Increasing
      <3>1. Len(h) \in Nat
        BY <2>3, <2>4
      <3>2. Len(s) - Len(h) + i < Len(s) - Len(h) + j
        BY <2>3, <3>1
      <3>3. s[Len(s) - Len(h) + i] < s[Len(s) - Len(h) + j]
        BY <2>2, <2>5, <3>2 DEF Increasing
      <3>4. QED
        BY <2>4, <3>3
    <2>7. Chosen(answer, h, from .. to, Len(h))
      BY <2>1, <2>6, FilteredFacts DEF GetLocationHistory
    <2>8. from \in Nat /\ h[1] \in Nat
      <3>1. h[1] \in Stamps
        BY <2>1, EmptySeq, ElementOfSeq
      <3>2. QED
        BY <3>1, BoundsAssumption DEF Stamps
    <2>9. \A i \in 1 .. Len(s) : h[1] <= s[i] => InSeq(s[i], h)
      BY CoveredRangeKept
    <2>10. h[1] <= from
      OBVIOUS
    <2> HIDE DEF h, s, answer
    <2>11. ASSUME NEW l \in Stamps, InSeq(l, answer)
           PROVE  InSeq(l, s) /\ l \in from .. to
      <3>1. PICK m \in 1 .. Len(h) : l = h[m] /\ h[m] \in from .. to
        BY <2>7, <2>11 DEF Chosen, InSeq
      <3>2. Len(s) - Len(h) + m \in 1 .. Len(s) /\ s[Len(s) - Len(h) + m] = l
        BY <2>4, <2>5, <3>1
      <3>3. QED
        BY <3>1, <3>2 DEF InSeq
    <2>12. ASSUME NEW l \in Stamps, InSeq(l, s), l \in from .. to
           PROVE  InSeq(l, answer)
      <3>1. PICK i \in 1 .. Len(s) : s[i] = l
        BY <2>12 DEF InSeq
      <3>2. h[1] <= s[i]
        BY <2>8, <2>10, <2>12, <3>1
      <3>3. PICK m \in 1 .. Len(h) : h[m] = l
        BY <2>9, <3>1, <3>2 DEF InSeq
      <3>4. QED
        BY <2>7, <2>12, <3>3 DEF Chosen
    <2>13. \A i, j \in 1 .. Len(answer) : i < j => answer[i] < answer[j]
      BY <2>7 DEF Chosen, Increasing
    <2>14. QED
      BY <2>11, <2>12, <2>13 DEF answer, s
  <1>2. QED
    BY <1>1, Invariant, PTL

\* While the connection has never been lost, the channel of a driver carries its
\* locations once each and in the order of their timestamps, however the requests of
\* the driver overlap.
THEOREM ChannelInOrder == Spec => []DeliveredInOrder
  <1>1. Invariants => DeliveredInOrder
    BY DEF Invariants, Channels, InOrder, Increasing, DeliveredInOrder
  <1>2. QED
    BY <1>1, Invariant, PTL

\* After any number of losses, with commands sent again and carried twice, a channel
\* with nothing under way has carried the newest of its locations last.
THEOREM NewestComesLast == Spec => []SettledChannelLatest
  <1>1. Invariants => SettledChannelLatest
    <2> SUFFICES ASSUME Typed, Channels, NEW d \in Drivers,
                        \A i \in 1 .. Len(commands) : commands[i].driver # d,
                        NEW k \in 1 .. Len(delivered[d])
                 PROVE  delivered[d][k] <= delivered[d][Len(delivered[d])]
      BY DEF Invariants, SettledChannelLatest
    <2>1. \A i \in executed + 1 .. Len(commands) : i \in 1 .. Len(commands)
      BY LenProperties DEF Typed
    <2>2. ~Covered(commands, executed + 1, Len(commands), d, delivered[d][k])
      BY <2>1 DEF Covered, Carries
    <2>3. QED
      BY <2>2 DEF Channels, Settling
  <1>2. QED
    BY <1>1, Invariant, PTL

\* When a driver is told success, the driver's channel and the general one have both
\* carried the location, although the connection may have been lost in between, any
\* number of times; but for a location saved while the connection was down.
THEOREM SuccessIsPublished == Spec => AnsweredIsPublished
  <1> DEFINE Honest(r) ==
        Succeeds(r) =>
            \/ request[r].at = "validating" /\ ~isConnected
            \/ /\ InSeq(request[r].location, delivered[request[r].driver])
               /\ request[r].location \in announced
  <1>1. Invariants /\ [Next]_vars => \A r \in Requests : Honest(r)
    <2> SUFFICES ASSUME Typed, Queue, [Next]_vars, NEW r \in Requests, Succeeds(r)
                 PROVE  \/ request[r].at = "validating" /\ ~isConnected
                        \/ /\ InSeq(request[r].location, delivered[request[r].driver])
                           /\ request[r].location \in announced
      BY DEF Invariants
    <2>0. /\ request[r].at # "idle" /\ request'[r].at = "idle"
          /\ request[r].at = "validating" => saved' # saved
      BY DEF Succeeds
    <2>1. CASE PublishAnswered
      <3> DEFINE c == commands[1]
                 q == c.request
                 next == [request[q] EXCEPT !.at = "announcing"]
      <3>1. /\ q \in Requests /\ Len(commands) \in Nat /\ executed \in 1 .. Len(commands)
            /\ request[q].at # "idle"
            /\ request[q].driver = c.driver /\ request[q].location = c.location
            /\ \/ c.channel = "driver" /\ Goto(q, next)
               \/ c.channel = "general" /\ Goto(q, IdleRequest)
        BY <2>1, Answered
      <3>2. /\ next \in RequestRecords /\ next.at = "announcing" /\ next.driver \in Drivers
            /\ IdleRequest \in RequestRecords /\ IdleRequest.at = "idle"
        BY <3>1, RecordTypes
      <3>3. 1 \in 1 .. executed /\ 1 \in 1 .. Len(commands)
        BY <3>1
      <3>4. /\ c.channel = "general" => c.location \in announced
            /\ c.channel = "general" => InSeq(c.location, delivered[c.driver])
        BY <3>3 DEF Queue, Told
      <3> HIDE DEF c, q, next
      <3>5. r = q
        BY <2>0, <3>1, <3>2, GotoTyped
      <3>6. c.channel = "general"
        BY <2>0, <3>1, <3>2, <3>5, GotoTyped
      <3>7. QED
        BY <3>1, <3>4, <3>5, <3>6
    <2>2. CASE \E q \in Requests, d \in Drivers, header \in Headers :
                  UpdateLocation(q, d, header)
      <3>1. PICK q \in Requests, d \in Drivers, header \in Headers :
                    UpdateLocation(q, d, header)
        BY <2>2
      <3>2. r # q
        BY <2>0, <3>1 DEF UpdateLocation
      <3>3. request'[r] = request[r]
        BY <3>1, <3>2 DEF UpdateLocation, Goto, Typed
      <3>4. QED
        BY <2>0, <3>3
    <2>3. CASE \E q \in Requests, valid \in BOOLEAN : TokenRefused(q, valid)
      <3>1. PICK q \in Requests, valid \in BOOLEAN : TokenRefused(q, valid)
        BY <2>3
      <3>2. r # q
        BY <2>0, <3>1 DEF TokenRefused, store
      <3>3. request'[r] = request[r]
        BY <3>1, <3>2 DEF TokenRefused, Goto, Typed
      <3>4. QED
        BY <2>0, <3>3
    <2>4. CASE \E q \in Requests : UpdateDriverLocation(q)
      <3>1. PICK q \in Requests : UpdateDriverLocation(q)
        BY <2>4
      <3>2. r = q
        BY <2>0, <3>1 DEF UpdateDriverLocation, Goto, Typed
      <3>3. request[r].at = "validating"
        BY <3>1, <3>2 DEF UpdateDriverLocation
      <3>4. CASE isConnected
        <4>1. request'[r].at = "publishing"
          BY <3>1, <3>2, <3>4 DEF UpdateDriverLocation, Goto, Typed, RequestRecords
        <4>2. QED
          BY <2>0, <4>1
      <3>5. QED
        BY <3>3, <3>4
    <2>5. CASE RedisPublishes \/ Start \/ Connect \/ Close \/ UNCHANGED vars
      <3>1. UNCHANGED request
        BY <2>5 DEF RedisPublishes, Start, Connect, Close, vars
      <3>2. QED
        BY <2>0, <3>1
    <2>6. QED
      BY <2>1, <2>2, <2>3, <2>4, <2>5 DEF Next
  <1>2. QED
    BY <1>1, Invariant, PTL DEF Spec, AnsweredIsPublished
=============================================================================
