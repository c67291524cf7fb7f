------------------------- MODULE RedisDeliveryProofs -------------------------
(***************************************************************************)
(* What arrives where, for every set of instances and drivers and any      *)
(* number of losses: the types, PublishedOnce, HandlerCacheCurrent and     *)
(* HandlerCacheAdvances.                                                   *)
(*                                                                         *)
(* PublishedOnce is not inductive: a command that waits has been executed  *)
(* as often as its answer was lost, at most, and waits in one place        *)
(* (Queues).  The properties of the handler's cache follow from what       *)
(* waits in the inbox: of each driver, a sequence of locations in the      *)
(* order of their publication, which ends with the last one (Arrivals).    *)
(***************************************************************************)
EXTENDS RedisDelivery, FiniteSetTheorems, SequenceTheorems, TLAPS

Commands == [driver : Drivers, location : 1 .. MaxClock]

\* x is in p.
Occurs(p, x) == \E m \in 1 .. Len(p) : p[m] = x

\* old was published before new.
Before(p, old, new) ==
    \E m, n \in 1 .. Len(p) : m < n /\ p[m] = old /\ p[n] = new

\* LastPublished of a driver is Newest of what was published about it.
Newest(p) == IF p = <<>> THEN 0 ELSE Last(p)

\* What is cached of driver d, and what waits about it in box, is in the order in
\* which it was published, which is p.
OrderedIn(p, d, box, cached) ==
    /\ \A n \in 1 .. Len(box) : box[n].driver = d =>
          /\ Occurs(p, box[n].location)
          /\ cached = 0 \/ cached = box[n].location \/ Before(p, cached, box[n].location)
    /\ \A m, n \in 1 .. Len(box) :
          m < n /\ box[m].driver = d /\ box[n].driver = d =>
              box[m].location = box[n].location \/ Before(p, box[m].location, box[n].location)
    /\ cached # 0 => Occurs(p, cached)

\* The last of driver d in box, or else what is cached, is the last of p.
CurrentIn(p, d, box, cached) ==
    /\ \A n \in 1 .. Len(box) :
          box[n].driver = d /\ (\A m \in n + 1 .. Len(box) : box[m].driver # d)
              => box[n].location = Newest(p)
    /\ (\A n \in 1 .. Len(box) : box[n].driver # d) => cached = Newest(p)

-----------------------------------------------------------------------------
(* Sequences of messages *)

\* What is published is newer than what was.
LEMMA Published ==
    ASSUME NEW p \in Seq(1 .. MaxClock), NEW l \in 1 .. MaxClock
    PROVE  /\ Append(p, l) \in Seq(1 .. MaxClock)
           /\ Len(Append(p, l)) = Len(p) + 1
           /\ \A n \in 1 .. Len(p) : Append(p, l)[n] = p[n]
           /\ Append(p, l)[Len(p) + 1] = l
           /\ Newest(Append(p, l)) = l
           /\ Occurs(Append(p, l), l)
           /\ \A x : Occurs(p, x) => Occurs(Append(p, l), x) /\ Before(Append(p, l), x, l)
           /\ \A x, y : Before(p, x, y) => Before(Append(p, l), x, y)
  <1> DEFINE q == Append(p, l)
  <1>1. /\ q \in Seq(1 .. MaxClock) /\ q # <<>>
        /\ Len(q) = Len(p) + 1 /\ Len(p) \in Nat
        /\ \A n \in 1 .. Len(p) : q[n] = p[n]
        /\ q[Len(p) + 1] = l
    BY AppendProperties
  <1>2. Newest(q) = l
    <2>1. Newest(q) = q[Len(q)]
      BY <1>1 DEF Newest, Last
    <2>2. QED
      BY <1>1, <2>1
  <1> HIDE DEF q
  <1>3. Occurs(q, l) /\ \A x : Occurs(p, x) => Occurs(q, x) /\ Before(q, x, l)
    BY <1>1 DEF Occurs, Before
  <1>4. \A x, y : Before(p, x, y) => Before(q, x, y)
    BY <1>1 DEF Before
  <1>5. QED
    BY <1>1, <1>2, <1>3, <1>4 DEF q

\* What is true of box \o more.
LEMMA Received ==
    ASSUME NEW box \in Seq(Messages), NEW more \in Seq(Messages)
    PROVE  /\ box \o more \in Seq(Messages)
           /\ Len(box) \in Nat /\ Len(more) \in Nat
           /\ Len(box \o more) = Len(box) + Len(more)
           /\ \A n \in 1 .. Len(box) : (box \o more)[n] = box[n]
           /\ \A n \in Len(box) + 1 .. Len(box) + Len(more) :
                 n - Len(box) \in 1 .. Len(more) /\ (box \o more)[n] = more[n - Len(box)]
  BY ConcatProperties

\* Copies of a location that is published are later than what waits.
LEMMA CopiesArrive ==
    ASSUME NEW p \in Seq(1 .. MaxClock), NEW d, NEW l \in 1 .. MaxClock, NEW cached,
           NEW box \in Seq(Messages), NEW more \in Seq(Messages),
           \A n \in 1 .. Len(more) : more[n].driver = d /\ more[n].location = l,
           OrderedIn(p, d, box, cached)
    PROVE  /\ OrderedIn(Append(p, l), d, box \o more, cached)
           /\ Len(more) > 0 => CurrentIn(Append(p, l), d, box \o more, cached)
  <1> DEFINE q == Append(p, l)
             all == box \o more
  <1>1. /\ Len(box) \in Nat /\ Len(more) \in Nat
        /\ Len(all) = Len(box) + Len(more)
        /\ \A n \in 1 .. Len(box) : all[n] = box[n]
        /\ \A n \in Len(box) + 1 .. Len(all) : all[n].driver = d /\ all[n].location = l
    BY Received
  <1>2. /\ Newest(q) = l /\ Occurs(q, l)
        /\ \A x : Occurs(p, x) => Occurs(q, x) /\ Before(q, x, l)
        /\ \A x, y : Before(p, x, y) => Before(q, x, y)
    BY Published
  <1> HIDE DEF q, all
  <1>3. \A n \in 1 .. Len(all) : n \in 1 .. Len(box) \/ n \in Len(box) + 1 .. Len(all)
    BY <1>1
  <1>4. ASSUME NEW n \in 1 .. Len(all), all[n].driver = d
        PROVE  /\ Occurs(q, all[n].location)
               /\ cached = 0 \/ cached = all[n].location \/ Before(q, cached, all[n].location)
    <2>1. CASE n \in 1 .. Len(box)
      BY <1>1, <1>2, <1>4, <2>1 DEF OrderedIn
    <2>2. CASE n \in Len(box) + 1 .. Len(all)
      BY <1>1, <1>2, <2>2 DEF OrderedIn
    <2>3. QED
      BY <1>3, <2>1, <2>2
  <1>5. ASSUME NEW m \in 1 .. Len(all), NEW n \in 1 .. Len(all), m < n,
               all[m].driver = d, all[n].driver = d
        PROVE  all[m].location = all[n].location \/ Before(q, all[m].location, all[n].location)
    <2>1. CASE n \in 1 .. Len(box)
      <3>1. m \in 1 .. Len(box)
        BY <1>1, <1>5, <2>1
      <3>2. QED
        BY <1>1, <1>2, <1>5, <2>1, <3>1 DEF OrderedIn
    <2>2. CASE n \in Len(box) + 1 .. Len(all) /\ m \in 1 .. Len(box)
      BY <1>1, <1>2, <1>5, <2>2 DEF OrderedIn
    <2>3. CASE n \in Len(box) + 1 .. Len(all) /\ m \in Len(box) + 1 .. Len(all)
      BY <1>1, <2>3
    <2>4. QED
      BY <1>3, <2>1, <2>2, <2>3
  <1>6. cached # 0 => Occurs(q, cached)
    BY <1>2 DEF OrderedIn
  <1>7. OrderedIn(q, d, all, cached)
    BY <1>4, <1>5, <1>6 DEF OrderedIn
  <1>8. ASSUME Len(more) > 0
        PROVE  CurrentIn(q, d, all, cached)
    <2>1. Len(all) \in 1 .. Len(all) /\ Len(all) \in Len(box) + 1 .. Len(all)
      BY <1>1, <1>8
    <2>2. all[Len(all)].driver = d /\ all[Len(all)].location = l
      BY <1>1, <2>1
    <2>3. ASSUME NEW n \in 1 .. Len(all), \A m \in n + 1 .. Len(all) : all[m].driver # d
          PROVE  all[n].location = l
      <3>1. Len(all) \notin n + 1 .. Len(all)
        BY <2>2, <2>3
      <3>2. n = Len(all)
        BY <1>1, <3>1
      <3>3. QED
        BY <2>2, <3>2
    <2>4. QED
      BY <1>2, <2>1, <2>2, <2>3 DEF CurrentIn
  <1>9. QED
    BY <1>7, <1>8 DEF q, all

\* Messages about another driver change nothing.
LEMMA OthersArrive ==
    ASSUME NEW p, NEW d, NEW cached,
           NEW box \in Seq(Messages), NEW more \in Seq(Messages),
           \A n \in 1 .. Len(more) : more[n].driver # d
    PROVE  /\ OrderedIn(p, d, box, cached) => OrderedIn(p, d, box \o more, cached)
           /\ CurrentIn(p, d, box, cached) => CurrentIn(p, d, box \o more, cached)
  <1> DEFINE all == box \o more
  <1>1. /\ Len(box) \in Nat /\ Len(more) \in Nat
        /\ Len(all) = Len(box) + Len(more)
        /\ \A n \in 1 .. Len(box) : all[n] = box[n]
        /\ \A n \in Len(box) + 1 .. Len(all) : all[n].driver # d
    BY Received
  <1> HIDE DEF all
  <1>2. \A n \in 1 .. Len(all) : all[n].driver = d => n \in 1 .. Len(box)
    BY <1>1
  <1>3. 1 .. Len(box) \subseteq 1 .. Len(all)
    BY <1>1
  <1>4. OrderedIn(p, d, box, cached) => OrderedIn(p, d, all, cached)
    BY <1>1, <1>2 DEF OrderedIn
  <1>5. ASSUME CurrentIn(p, d, box, cached)
        PROVE  CurrentIn(p, d, all, cached)
    <2>1. ASSUME NEW n \in 1 .. Len(all), all[n].driver = d,
                 \A m \in n + 1 .. Len(all) : all[m].driver # d
          PROVE  all[n].location = Newest(p)
      <3>1. n \in 1 .. Len(box)
        BY <1>2, <2>1
      <3>2. \A m \in n + 1 .. Len(box) : m \in n + 1 .. Len(all) /\ m \in 1 .. Len(box)
        BY <1>1, <3>1
      <3>3. \A m \in n + 1 .. Len(box) : box[m].driver # d
        BY <1>1, <2>1, <3>2
      <3>4. QED
        BY <1>1, <1>5, <2>1, <3>1, <3>3 DEF CurrentIn
    <2>2. (\A n \in 1 .. Len(all) : all[n].driver # d) => cached = Newest(p)
      BY <1>1, <1>3, <1>5 DEF CurrentIn
    <2>3. QED
      BY <2>1, <2>2 DEF CurrentIn
  <1>6. QED
    BY <1>4, <1>5 DEF all

\* The first message is handled.
LEMMA HeadHandled ==
    ASSUME NEW p, NEW d, NEW cached, NEW box \in Seq(Messages), box # <<>>
    PROVE  LET now == IF Head(box).driver = d THEN Head(box).location ELSE cached
           IN  /\ OrderedIn(p, d, box, cached) => OrderedIn(p, d, Tail(box), now)
               /\ CurrentIn(p, d, box, cached) => CurrentIn(p, d, Tail(box), now)
  <1> DEFINE rest == Tail(box)
             now == IF box[1].driver = d THEN box[1].location ELSE cached
  <1>1. /\ Len(box) \in Nat \ {0} /\ Head(box) = box[1] /\ 1 \in 1 .. Len(box)
        /\ Len(rest) = Len(box) - 1
        /\ \A n \in 1 .. Len(rest) : rest[n] = box[n + 1]
    BY HeadTailProperties, EmptySeq
  <1> HIDE DEF rest
  <1>2. \A n \in 1 .. Len(rest) : n + 1 \in 1 .. Len(box) /\ 1 < n + 1
    BY <1>1
  <1>3. ASSUME OrderedIn(p, d, box, cached)
        PROVE  OrderedIn(p, d, rest, now)
    <2>1. ASSUME NEW n \in 1 .. Len(rest), rest[n].driver = d
          PROVE  /\ Occurs(p, rest[n].location)
                 /\ now = 0 \/ now = rest[n].location \/ Before(p, now, rest[n].location)
      BY <1>1, <1>2, <1>3, <2>1 DEF OrderedIn
    <2>2. ASSUME NEW m \in 1 .. Len(rest), NEW n \in 1 .. Len(rest), m < n,
                 rest[m].driver = d, rest[n].driver = d
          PROVE  \/ rest[m].location = rest[n].location
                 \/ Before(p, rest[m].location, rest[n].location)
      <3>1. m + 1 < n + 1
        BY <1>1, <2>2
      <3>2. QED
        BY <1>1, <1>2, <1>3, <2>2, <3>1 DEF OrderedIn
    <2>3. now # 0 => Occurs(p, now)
      BY <1>1, <1>3 DEF OrderedIn
    <2>4. QED
      BY <2>1, <2>2, <2>3 DEF OrderedIn
  <1>4. ASSUME CurrentIn(p, d, box, cached)
        PROVE  CurrentIn(p, d, rest, now)
    <2>1. ASSUME NEW n \in 1 .. Len(rest), rest[n].driver = d,
                 \A m \in n + 1 .. Len(rest) : rest[m].driver # d
          PROVE  rest[n].location = Newest(p)
      <3>1. \A m \in n + 2 .. Len(box) : m - 1 \in n + 1 .. Len(rest) /\ m - 1 \in 1 .. Len(rest)
                                         /\ (m - 1) + 1 = m
        BY <1>1
      <3>2. \A m \in n + 2 .. Len(box) : box[m].driver # d
        <4>1. TAKE m \in n + 2 .. Len(box)
        <4>2. m - 1 \in n + 1 .. Len(rest) /\ m - 1 \in 1 .. Len(rest) /\ (m - 1) + 1 = m
          BY <3>1
        <4>3. rest[m - 1].driver # d /\ rest[m - 1] = box[m]
          BY <1>1, <2>1, <4>2
        <4>4. QED
          BY <4>3
      <3>3. (n + 1) + 1 = n + 2
        BY <1>1
      <3>4. QED
        BY <1>1, <1>2, <1>4, <2>1, <3>2, <3>3 DEF CurrentIn
    <2>2. ASSUME \A n \in 1 .. Len(rest) : rest[n].driver # d
          PROVE  now = Newest(p)
      <3>1. \A n \in 2 .. Len(box) : n - 1 \in 1 .. Len(rest) /\ (n - 1) + 1 = n
        BY <1>1
      <3>2. \A n \in 2 .. Len(box) : box[n].driver # d
        <4>1. TAKE n \in 2 .. Len(box)
        <4>2. n - 1 \in 1 .. Len(rest) /\ (n - 1) + 1 = n
          BY <3>1
        <4>3. rest[n - 1].driver # d /\ rest[n - 1] = box[n]
          BY <1>1, <2>2, <4>2
        <4>4. QED
          BY <4>3
      <3>3. \A n \in 1 .. Len(box) : n = 1 \/ n \in 2 .. Len(box)
        BY <1>1
      <3>4. CASE box[1].driver = d
        BY <1>1, <1>4, <3>2, <3>4 DEF CurrentIn
      <3>5. CASE box[1].driver # d
        BY <1>4, <3>2, <3>3, <3>5 DEF CurrentIn
      <3>6. QED
        BY <3>4, <3>5
    <2>3. QED
      BY <2>1, <2>2 DEF CurrentIn
  <1>5. QED
    BY <1>1, <1>3, <1>4 DEF rest

\* A part of what waited, from the first on.
LEMMA PartRemains ==
    ASSUME NEW p, NEW d, NEW cached, NEW box \in Seq(Messages), NEW k \in 0 .. Len(box),
           OrderedIn(p, d, box, cached)
    PROVE  /\ SubSeq(box, 1, k) \in Seq(Messages)
           /\ OrderedIn(p, d, SubSeq(box, 1, k), cached)
  <1> DEFINE part == SubSeq(box, 1, k)
  <1>1. Len(box) \in Nat /\ k \in Int /\ 1 \in Int /\ \A n \in 1 .. k : box[n] \in Messages
    BY ElementOfSeq
  <1>2. /\ part \in Seq(Messages)
        /\ Len(part) = IF 1 <= k THEN k - 1 + 1 ELSE 0
        /\ \A n \in 1 .. k - 1 + 1 : part[n] = box[1 + n - 1]
    BY <1>1, SubSeqProperties
  <1>3. Len(part) = k /\ \A n \in 1 .. k : part[n] = box[n]
    BY <1>1, <1>2
  <1> HIDE DEF part
  <1>4. \A n \in 1 .. Len(part) : n \in 1 .. Len(box) /\ part[n] = box[n]
    BY <1>1, <1>3
  <1>5. OrderedIn(p, d, part, cached)
    BY <1>4 DEF OrderedIn
  <1>6. QED
    BY <1>2, <1>5 DEF part

\* An instance that starts, or starts again.
LEMMA NothingWaits ==
    ASSUME NEW p, NEW d
    PROVE  OrderedIn(p, d, <<>>, 0)
  <1>1. 1 .. Len(<<>>) = {}
    OBVIOUS
  <1>2. QED
    BY <1>1 DEF OrderedIn

-----------------------------------------------------------------------------
(* The invariant *)

\* TypeOK, with what each of its bounds rests on.
Typed ==
    /\ clock \in Locations
    /\ locationCache \in [Instances -> [Objects -> [Keys -> Locations]]]
    /\ followed \in [Instances -> SUBSET Drivers]
    /\ inbox \in [Instances -> Seq(Messages)]
    /\ unannounced \subseteq 1 .. MaxClock
    /\ stored \in [Drivers -> Locations]
    /\ published \in [Drivers -> Seq(1 .. MaxClock)]
    /\ outbox \in [Instances -> Seq(Commands)]
    /\ executed \in [Instances -> Nat]
    /\ \A i \in Instances : executed[i] <= Len(outbox[i])
    /\ resends \in [1 .. MaxClock -> Nat]
    /\ \A l \in 1 .. MaxClock : resends[l] <= losses
    /\ started \subseteq Instances
    /\ listening \subseteq started
    /\ since \in [Instances -> Locations]
    /\ losses \in 0 .. MaxLosses

\* Nothing is published, or waits to be, that has not been reported.
Reported ==
    /\ \A d \in Drivers : \A n \in 1 .. Len(published[d]) : published[d][n] <= clock
    /\ \A i \in Instances : \A n \in 1 .. Len(outbox[i]) : outbox[i][n].location <= clock

\* A location waits in one place of one queue at most.
Unique ==
    \A i, j \in Instances : \A n \in 1 .. Len(outbox[i]), m \in 1 .. Len(outbox[j]) :
        outbox[i][n].location = outbox[j][m].location => i = j /\ n = m

\* How often location x is in p.
Count(p, x) == Cardinality({n \in 1 .. Len(p) : p[n] = x})

\* PublishedOnce, in terms of Count.
Once ==
    \A d \in Drivers, l \in 1 .. MaxClock : Count(published[d], l) <= 1 + resends[l]

\* A command that Redis has not executed on this connection has been executed at
\* most as often as its answer was lost.
Paid ==
    \A i \in Instances : \A n \in executed[i] + 1 .. Len(outbox[i]) : \A d \in Drivers :
        Count(published[d], outbox[i][n].location) <= resends[outbox[i][n].location]

\* Every handler has, and is sent, the locations of a driver in the order of publication.
Ordered ==
    \A i \in Instances, d \in Drivers :
        OrderedIn(published[d], d, inbox[i], locationCache[i][Handler][d])

\* What was published since an instance subscribed has reached it or is on its way.
Current ==
    \A i \in listening, d \in Drivers : Newest(published[d]) > since[i] =>
        CurrentIn(published[d], d, inbox[i], locationCache[i][Handler][d])

IInv == Typed /\ Reported /\ Unique /\ Paid /\ Once /\ Ordered /\ Current

-----------------------------------------------------------------------------
(* What the operations do *)

LEMMA HandlerFacts ==
    Handler = "RealtimeService" /\ Handler \in Objects /\ "IRealtimeService" \in Objects
  BY DEF Handler, Providers, Last, Objects

LEMMA KeyFacts == General \in Keys /\ Drivers \subseteq Keys /\ General \notin Drivers
  BY GeneralAssumption DEF Keys

\* What is received is one message or two equal ones, and none while Redis does not
\* have the subscriptions.
LEMMA CopiesFacts ==
    ASSUME NEW i, NEW d \in Drivers, NEW l \in 1 .. MaxClock
    PROVE  /\ Copies(i, d, l) \in Seq(Messages)
           /\ i \in listening => Len(Copies(i, d, l)) > 0
           /\ \A n \in 1 .. Len(Copies(i, d, l)) :
                 Copies(i, d, l)[n].driver = d /\ Copies(i, d, l)[n].location = l
  <1> DEFINE m == [driver |-> d, location |-> l]
  <1>1. m \in Messages /\ m.driver = d /\ m.location = l
    BY KeyFacts DEF Messages
  <1> HIDE DEF m
  <1>2. /\ <<>> \in Seq(Messages) /\ Len(<<>>) = 0
        /\ <<m>> \in Seq(Messages) /\ Len(<<m>>) = 1 /\ <<m>>[1] = m
        /\ <<m, m>> \in Seq(Messages) /\ Len(<<m, m>>) = 2
        /\ <<m, m>>[1] = m /\ <<m, m>>[2] = m
    BY <1>1
  <1>3. CASE i \notin listening
    <2>1. Copies(i, d, l) = <<>>
      BY <1>3 DEF Copies
    <2>2. QED
      BY <1>2, <1>3, <2>1
  <1>4. CASE i \in listening /\ d \in followed[i]
    <2>1. Copies(i, d, l) = <<m, m>>
      BY <1>4 DEF Copies, m
    <2>2. QED
      BY <1>1, <1>2, <2>1
  <1>5. CASE i \in listening /\ d \notin followed[i]
    <2>1. Copies(i, d, l) = <<m>>
      BY <1>5 DEF Copies, m
    <2>2. QED
      BY <1>1, <1>2, <2>1
  <1>6. QED
    BY <1>3, <1>4, <1>5

LEMMA PublishFacts ==
    ASSUME Typed, NEW d \in Drivers, NEW l \in 1 .. MaxClock, Publish(d, l)
    PROVE  /\ published' \in [Drivers -> Seq(1 .. MaxClock)]
           /\ published'[d] = Append(published[d], l)
           /\ \A e \in Drivers \ {d} : published'[e] = published[e]
           /\ inbox' \in [Instances -> Seq(Messages)]
           /\ \A i \in Instances : inbox'[i] = inbox[i] \o Copies(i, d, l)
  <1>1. published' = [published EXCEPT ![d] = Append(published[d], l)]
    BY DEF Publish
  <1>2. published[d] \in Seq(1 .. MaxClock) /\ Append(published[d], l) \in Seq(1 .. MaxClock)
    BY AppendProperties DEF Typed
  <1>3. inbox' = [i \in Instances |-> inbox[i] \o Copies(i, d, l)]
    BY DEF Publish
  <1>4. \A i \in Instances : inbox[i] \o Copies(i, d, l) \in Seq(Messages)
    <2>1. TAKE i \in Instances
    <2>2. inbox[i] \in Seq(Messages) /\ Copies(i, d, l) \in Seq(Messages)
      BY CopiesFacts DEF Typed
    <2>3. QED
      BY <2>2, ConcatProperties
  <1>5. /\ inbox' \in [Instances -> Seq(Messages)]
        /\ \A i \in Instances : inbox'[i] = inbox[i] \o Copies(i, d, l)
    BY <1>3, <1>4
  <1>6. /\ published' \in [Drivers -> Seq(1 .. MaxClock)]
        /\ published'[d] = Append(published[d], l)
        /\ \A e \in Drivers \ {d} : published'[e] = published[e]
    BY <1>1, <1>2 DEF Typed
  <1>7. QED
    BY <1>5, <1>6

LEMMA HandleFacts ==
    ASSUME Typed, NEW i \in Instances, NEW object \in Objects, NEW d \in Keys,
           NEW l \in 1 .. MaxClock, Handle(i, object, d, l)
    PROVE  /\ locationCache' \in [Instances -> [Objects -> [Keys -> Locations]]]
           /\ \A j \in Instances, o \in Objects, e \in Keys :
                 locationCache'[j][o][e] =
                     IF j = i /\ o = object /\ e = d THEN l ELSE locationCache[j][o][e]
           /\ executed' = executed /\ resends' = resends
           /\ \/ UNCHANGED outbox
              \/ /\ object = "IRealtimeService" /\ d \in Drivers
                 /\ [driver |-> d, location |-> l] \in Commands
                 /\ outbox' = [outbox EXCEPT ![i] =
                                   Append(outbox[i], [driver |-> d, location |-> l])]
  <1>1. l \in Locations
    BY BoundsAssumption DEF Locations
  <1>2. locationCache' = [locationCache EXCEPT ![i][object][d] = l]
    BY DEF Handle
  <1>3. /\ locationCache' \in [Instances -> [Objects -> [Keys -> Locations]]]
        /\ \A j \in Instances, o \in Objects, e \in Keys :
              locationCache'[j][o][e] =
                  IF j = i /\ o = object /\ e = d THEN l ELSE locationCache[j][o][e]
    BY <1>1, <1>2 DEF Typed
  <1>4. executed' = executed /\ resends' = resends
    BY DEF Handle
  <1>5. CASE object = "IRealtimeService" /\ d \in followed[i]
    <2>1. d \in Drivers
      BY <1>5 DEF Typed
    <2>2. [driver |-> d, location |-> l] \in Commands
      BY <2>1 DEF Commands
    <2>3. QED
      BY <1>3, <1>4, <1>5, <2>1, <2>2 DEF Handle
  <1>6. CASE ~(object = "IRealtimeService" /\ d \in followed[i])
    BY <1>3, <1>4, <1>6 DEF Handle
  <1>7. QED
    BY <1>5, <1>6

\* Of the handlers' caches, only messages change one.
LEMMA HandlerHandles ==
    ASSUME Typed, NEW i \in Instances, NEW d \in Keys, NEW l \in 1 .. MaxClock,
           Handle(i, Handler, d, l)
    PROVE  /\ \A j \in Instances, e \in Keys :
                 locationCache'[j][Handler][e] =
                     IF j = i /\ e = d THEN l ELSE locationCache[j][Handler][e]
           /\ UNCHANGED <<outbox, executed, resends>>
  <1>1. Handler \in Objects /\ Handler # "IRealtimeService"
    BY HandlerFacts
  <1>2. \A j \in Instances, o \in Objects, e \in Keys :
            locationCache'[j][o][e] =
                IF j = i /\ o = Handler /\ e = d THEN l ELSE locationCache[j][o][e]
    <2>1. locationCache' = [locationCache EXCEPT ![i][Handler][d] = l]
      BY DEF Handle
    <2>2. QED
      BY <1>1, <2>1 DEF Typed
  <1>3. UNCHANGED <<outbox, executed, resends>>
    BY <1>1 DEF Handle
  <1>4. QED
    BY <1>1, <1>2, <1>3

LEMMA SocketHandles ==
    ASSUME Typed, NEW i \in Instances, NEW d \in Keys, NEW l \in 1 .. MaxClock,
           Handle(i, "IRealtimeService", d, l)
    PROVE  \A j \in Instances, e \in Keys :
               locationCache'[j][Handler][e] = locationCache[j][Handler][e]
  <1>1. Handler \in Objects /\ Handler # "IRealtimeService" /\ "IRealtimeService" \in Objects
    BY HandlerFacts
  <1>2. \A j \in Instances, o \in Objects, e \in Keys :
            locationCache'[j][o][e] =
                IF j = i /\ o = "IRealtimeService" /\ e = d THEN l ELSE locationCache[j][o][e]
    <2>1. locationCache' = [locationCache EXCEPT ![i]["IRealtimeService"][d] = l]
      BY DEF Handle
    <2>2. QED
      BY <1>1, <2>1 DEF Typed
  <1>3. QED
    BY <1>1, <1>2

\* A load fills the other object's cache.
LEMMA LoadFacts ==
    ASSUME Typed, NEW i \in Instances, NEW d \in Drivers, Load(i, d)
    PROVE  /\ locationCache' \in [Instances -> [Objects -> [Keys -> Locations]]]
           /\ \A j \in Instances, e \in Keys :
                 locationCache'[j][Handler][e] = locationCache[j][Handler][e]
  <1>1. Handler \in Objects /\ Handler # "IRealtimeService" /\ "IRealtimeService" \in Objects
    BY HandlerFacts
  <1>2. d \in Keys /\ stored[d] \in Locations
    BY KeyFacts DEF Typed
  <1>3. locationCache' = [locationCache EXCEPT ![i]["IRealtimeService"][d] = stored[d]]
    BY DEF Load
  <1>4. /\ locationCache' \in [Instances -> [Objects -> [Keys -> Locations]]]
        /\ \A j \in Instances, o \in Objects, e \in Keys :
              locationCache'[j][o][e] =
                  IF j = i /\ o = "IRealtimeService" /\ e = d THEN stored[d]
                  ELSE locationCache[j][o][e]
    BY <1>1, <1>2, <1>3 DEF Typed
  <1>5. QED
    BY <1>1, <1>4

LEMMA CommandFacts ==
    ASSUME Typed, NEW i \in Instances, NEW n \in 1 .. Len(outbox[i])
    PROVE  outbox[i][n].driver \in Drivers /\ outbox[i][n].location \in 1 .. MaxClock
  <1>1. outbox[i] \in Seq(Commands)
    BY DEF Typed
  <1>2. outbox[i][n] \in Commands
    BY <1>1
  <1>3. QED
    BY <1>2 DEF Commands

LEMMA MessageFacts ==
    ASSUME Typed, NEW i \in Instances, inbox[i] # <<>>
    PROVE  /\ Head(inbox[i]).driver \in Keys /\ Head(inbox[i]).location \in 1 .. MaxClock
           /\ Tail(inbox[i]) \in Seq(Messages)
           /\ Head(inbox[i]) = inbox[i][1] /\ 1 \in 1 .. Len(inbox[i])
  <1>1. inbox[i] \in Seq(Messages)
    BY DEF Typed
  <1>2. Head(inbox[i]) \in Messages /\ Tail(inbox[i]) \in Seq(Messages)
    BY <1>1, HeadTailProperties
  <1>3. Head(inbox[i]) = inbox[i][1] /\ 1 \in 1 .. Len(inbox[i])
    BY <1>1
  <1>4. QED
    BY <1>2, <1>3 DEF Messages

\* The command that Redis executes next.
LEMMA NextCommand ==
    ASSUME Typed, NEW i \in Instances, executed[i] < Len(outbox[i])
    PROVE  /\ executed[i] + 1 \in 1 .. Len(outbox[i])
           /\ outbox[i][executed[i] + 1].driver \in Drivers
           /\ outbox[i][executed[i] + 1].location \in 1 .. MaxClock
  <1>1. executed[i] \in Nat /\ Len(outbox[i]) \in Nat
    BY DEF Typed
  <1>2. executed[i] + 1 \in 1 .. Len(outbox[i])
    BY <1>1
  <1>3. QED
    BY <1>2, CommandFacts

LEMMA Times ==
    ASSUME Typed, clock < MaxClock
    PROVE  clock + 1 \in 1 .. MaxClock /\ clock + 1 \in Locations /\ clock < clock + 1
  BY BoundsAssumption DEF Typed, Locations

-----------------------------------------------------------------------------
(* Types *)

LEMMA InitTyped == Init => Typed
  <1> SUFFICES ASSUME Init
               PROVE  Typed
    OBVIOUS
  <1>1. 0 \in Locations /\ 0 \in 0 .. MaxLosses
    BY BoundsAssumption DEF Locations
  <1>2. /\ <<>> \in Seq(Messages) /\ <<>> \in Seq(Commands) /\ <<>> \in Seq(1 .. MaxClock)
        /\ Len(<<>>) = 0
    OBVIOUS
  <1>3. locationCache \in [Instances -> [Objects -> [Keys -> Locations]]]
    BY <1>1 DEF Init
  <1>4. QED
    BY <1>1, <1>2, <1>3 DEF Init, Typed

LEMMA TypedStep == Typed /\ [Next]_vars => Typed'
  <1> SUFFICES ASSUME Typed, [Next]_vars
               PROVE  Typed'
    OBVIOUS
  <1>1. ASSUME NEW d \in Drivers, ReportOverHttp(d)
        PROVE  Typed'
    <2>1. clock + 1 \in 1 .. MaxClock /\ clock + 1 \in Locations
      BY <1>1, Times DEF ReportOverHttp
    <2>2. Publish(d, clock + 1)
      BY <1>1 DEF ReportOverHttp
    <2>3. published' \in [Drivers -> Seq(1 .. MaxClock)] /\ inbox' \in [Instances -> Seq(Messages)]
      BY <2>1, <2>2, PublishFacts
    <2>4. QED
      BY <1>1, <2>1, <2>3 DEF Typed, ReportOverHttp, publisher, connections
  <1>2. ASSUME NEW l \in unannounced, Announce(l)
        PROVE  Typed'
    <2> DEFINE m == [driver |-> General, location |-> l]
    <2>1. m \in Messages
      BY KeyFacts DEF Typed, Messages
    <2> HIDE DEF m
    <2>2. \A i \in Instances : inbox[i] \in Seq(Messages) /\ Append(inbox[i], m) \in Seq(Messages)
      BY <2>1, AppendProperties DEF Typed
    <2>3. inbox' = [i \in Instances |-> IF i \in listening THEN Append(inbox[i], m) ELSE inbox[i]]
      BY <1>2 DEF Announce, m
    <2>4. inbox' \in [Instances -> Seq(Messages)]
      BY <2>2, <2>3
    <2>5. QED
      BY <1>2, <2>4 DEF Typed, Announce, publisher, connections
  <1>3. ASSUME NEW i \in Instances, NEW d \in Drivers, ReportOverSocket(i, d)
        PROVE  Typed'
    <2>1. clock + 1 \in 1 .. MaxClock /\ clock + 1 \in Locations
      BY <1>3, Times DEF ReportOverSocket
    <2>2. Handle(i, "IRealtimeService", d, clock + 1)
      BY <1>3 DEF ReportOverSocket
    <2>3. d \in Keys
      BY KeyFacts
    <2> DEFINE c == [driver |-> d, location |-> clock + 1]
    <2>4. /\ locationCache' \in [Instances -> [Objects -> [Keys -> Locations]]]
          /\ executed' = executed /\ resends' = resends
          /\ \/ outbox' = outbox
             \/ /\ c \in Commands
                /\ outbox' = [outbox EXCEPT ![i] = Append(outbox[i], c)]
      BY <2>1, <2>2, <2>3, HandleFacts, HandlerFacts
    <2> HIDE DEF c
    <2>5. outbox' \in [Instances -> Seq(Commands)] /\ \A j \in Instances : executed[j] <= Len(outbox'[j])
      <3>1. /\ c \in Commands => /\ Append(outbox[i], c) \in Seq(Commands)
                                 /\ Len(Append(outbox[i], c)) = Len(outbox[i]) + 1
            /\ Len(outbox[i]) \in Nat /\ executed[i] \in Nat
        BY AppendProperties DEF Typed
      <3>2. CASE outbox' = outbox
        BY <3>2 DEF Typed
      <3>3. CASE /\ c \in Commands
                 /\ outbox' = [outbox EXCEPT ![i] = Append(outbox[i], c)]
        <4>1. outbox' \in [Instances -> Seq(Commands)]
          BY <3>1, <3>3 DEF Typed
        <4>2. \A j \in Instances : executed[j] <= Len(outbox'[j])
          <5>1. TAKE j \in Instances
          <5>2. CASE j = i
            BY <3>1, <3>3, <5>2 DEF Typed
          <5>3. CASE j # i
            BY <3>3, <5>3 DEF Typed
          <5>4. QED
            BY <5>2, <5>3
        <4>3. QED
          BY <4>1, <4>2
      <3>4. QED
        BY <2>4, <3>2, <3>3
    <2>6. QED
      BY <1>3, <2>1, <2>4, <2>5 DEF Typed, ReportOverSocket, redis, connections
  <1>4. ASSUME NEW i \in Instances, Deliver(i)
        PROVE  Typed'
    <2>1. /\ inbox[i] # <<>>
          /\ Handle(i, Handler, Head(inbox[i]).driver, Head(inbox[i]).location)
          /\ inbox' = [inbox EXCEPT ![i] = Tail(inbox[i])]
      BY <1>4 DEF Deliver
    <2>2. /\ Head(inbox[i]).driver \in Keys /\ Head(inbox[i]).location \in 1 .. MaxClock
          /\ Tail(inbox[i]) \in Seq(Messages)
      BY <2>1, MessageFacts
    <2>3. /\ locationCache' \in [Instances -> [Objects -> [Keys -> Locations]]]
          /\ executed' = executed /\ resends' = resends /\ outbox' = outbox
      BY <2>1, <2>2, HandleFacts, HandlerFacts
    <2>4. inbox' \in [Instances -> Seq(Messages)]
      BY <2>1, <2>2 DEF Typed
    <2>5. QED
      BY <1>4, <2>3, <2>4 DEF Typed, Deliver, connections
  <1>5. ASSUME NEW i \in Instances, RedisPublishes(i)
        PROVE  Typed'
    <2> DEFINE d == outbox[i][executed[i] + 1].driver
               l == outbox[i][executed[i] + 1].location
    <2>1. executed[i] < Len(outbox[i]) /\ Publish(d, l)
          /\ executed' = [executed EXCEPT ![i] = executed[i] + 1]
      BY <1>5 DEF RedisPublishes
    <2>2. d \in Drivers /\ l \in 1 .. MaxClock
      BY <2>1, NextCommand
    <2>3. published' \in [Drivers -> Seq(1 .. MaxClock)] /\ inbox' \in [Instances -> Seq(Messages)]
      <3> HIDE DEF d, l
      <3>1. QED
        BY <2>1, <2>2, PublishFacts
    <2>4. executed' \in [Instances -> Nat] /\ \A j \in Instances : executed'[j] <= Len(outbox[j])
      <3>1. executed[i] \in Nat /\ Len(outbox[i]) \in Nat
        BY DEF Typed
      <3>2. QED
        BY <2>1, <3>1 DEF Typed
    <2>5. QED
      BY <1>5, <2>3, <2>4 DEF Typed, RedisPublishes, connections
  <1>6. ASSUME NEW i \in Instances, PublishAnswered(i)
        PROVE  Typed'
    <2>1. /\ executed[i] > 0 /\ executed[i] \in Nat /\ executed[i] <= Len(outbox[i])
          /\ executed' = [executed EXCEPT ![i] = executed[i] - 1]
          /\ outbox' = [outbox EXCEPT ![i] = Tail(outbox[i])]
          /\ outbox[i] \in Seq(Commands) /\ Len(outbox[i]) \in Nat
      BY <1>6 DEF Typed, PublishAnswered
    <2>2. /\ outbox[i] # <<>> /\ Tail(outbox[i]) \in Seq(Commands)
          /\ Len(Tail(outbox[i])) = Len(outbox[i]) - 1
      BY <2>1, HeadTailProperties
    <2>3. executed' \in [Instances -> Nat] /\ outbox' \in [Instances -> Seq(Commands)]
      BY <2>1, <2>2 DEF Typed
    <2>4. \A j \in Instances : executed'[j] <= Len(outbox'[j])
      BY <2>1, <2>2 DEF Typed
    <2>5. QED
      BY <1>6, <2>3, <2>4 DEF Typed, PublishAnswered, redis, connections
  <1>7. ASSUME NEW i \in Instances, NEW d \in Drivers, Follow(i, d) \/ Unfollow(i, d)
        PROVE  Typed'
    <2>1. followed' \in [Instances -> SUBSET Drivers]
      <3>1. followed[i] \cup {d} \in SUBSET Drivers /\ followed[i] \ {d} \in SUBSET Drivers
        BY DEF Typed
      <3>2. CASE Follow(i, d)
        BY <3>1, <3>2 DEF Typed, Follow
      <3>3. CASE Unfollow(i, d)
        BY <3>1, <3>3 DEF Typed, Unfollow
      <3>4. QED
        BY <1>7, <3>2, <3>3
    <2>2. UNCHANGED <<clock, locationCache, redis, publisher, unannounced, stored, connections>>
      BY <1>7 DEF Follow, Unfollow
    <2>3. QED
      BY <2>1, <2>2 DEF Typed, redis, publisher, connections
  <1>8. ASSUME NEW i \in Instances, Start(i)
        PROVE  Typed'
    BY <1>8 DEF Typed, Start, redis, publisher
  <1>9. ASSUME NEW i \in Instances, Connect(i)
        PROVE  Typed'
    BY <1>9 DEF Typed, Connect, redis, publisher
  <1>10. ASSUME NEW i \in Instances, Close(i)
         PROVE  Typed'
    <2>1. PICK k \in 0 .. Len(inbox[i]) : inbox' = [inbox EXCEPT ![i] = SubSeq(inbox[i], 1, k)]
      BY <1>10 DEF Close
    <2>2. SubSeq(inbox[i], 1, k) \in Seq(Messages)
      <3>1. Len(inbox[i]) \in Nat /\ k \in Int /\ \A n \in 1 .. k : inbox[i][n] \in Messages
        <4>1. inbox[i] \in Seq(Messages)
          BY DEF Typed
        <4>2. QED
          BY <4>1, ElementOfSeq
      <3>2. QED
        BY <3>1, SubSeqProperties
    <2>3. inbox' \in [Instances -> Seq(Messages)]
      BY <2>1, <2>2 DEF Typed
    <2>4. losses' \in 0 .. MaxLosses /\ losses <= losses'
      BY <1>10, BoundsAssumption DEF Typed, Close
    <2>5. \A l \in 1 .. MaxClock : resends[l] <= losses'
      BY <2>4, BoundsAssumption DEF Typed
    <2>6. QED
      BY <1>10, <2>3, <2>4, <2>5 DEF Typed, Close, publisher
  <1>11. ASSUME NEW i \in Instances, ClosePublisher(i)
         PROVE  Typed'
    <2>1. losses' \in 0 .. MaxLosses /\ losses' = losses + 1 /\ losses \in Nat
      BY <1>11, BoundsAssumption DEF Typed, ClosePublisher
    <2>2. \A l \in 1 .. MaxClock : resends[l] \in Nat /\ resends[l] <= losses
      BY DEF Typed
    <2>3. resends' = [l \in 1 .. MaxClock |->
              IF \E n \in 1 .. executed[i] : outbox[i][n].location = l
              THEN resends[l] + 1 ELSE resends[l]]
      BY <1>11 DEF ClosePublisher
    <2>4. resends' \in [1 .. MaxClock -> Nat] /\ \A l \in 1 .. MaxClock : resends'[l] <= losses'
      BY <2>1, <2>2, <2>3
    <2>5. executed' \in [Instances -> Nat] /\ \A j \in Instances : executed'[j] <= Len(outbox[j])
      <3>1. executed' = [executed EXCEPT ![i] = 0] /\ Len(outbox[i]) \in Nat
        BY <1>11 DEF Typed, ClosePublisher
      <3>2. QED
        BY <3>1 DEF Typed
    <2>6. QED
      BY <1>11, <2>1, <2>4, <2>5 DEF Typed, ClosePublisher, redis
  <1>12. ASSUME NEW i \in Instances, Crash(i)
         PROVE  Typed'
    <2>1. losses' \in 0 .. MaxLosses /\ losses <= losses'
      BY <1>12, BoundsAssumption DEF Typed, Crash
    <2>2. \A l \in 1 .. MaxClock : resends[l] <= losses'
      BY <2>1, BoundsAssumption DEF Typed
    <2>3. [o \in Objects |-> [d \in Keys |-> 0]] \in [Objects -> [Keys -> Locations]]
      BY BoundsAssumption DEF Locations
    <2>4. locationCache' \in [Instances -> [Objects -> [Keys -> Locations]]]
      BY <1>12, <2>3 DEF Typed, Crash
    <2>5. <<>> \in Seq(Messages) /\ <<>> \in Seq(Commands) /\ Len(<<>>) = 0
      OBVIOUS
    <2>6. /\ inbox' \in [Instances -> Seq(Messages)]
          /\ outbox' \in [Instances -> Seq(Commands)]
          /\ executed' \in [Instances -> Nat]
          /\ followed' \in [Instances -> SUBSET Drivers]
      BY <1>12, <2>5 DEF Typed, Crash
    <2>7. \A j \in Instances : executed'[j] <= Len(outbox'[j])
      BY <1>12, <2>5 DEF Typed, Crash
    <2>8. QED
      BY <1>12, <2>1, <2>2, <2>4, <2>6, <2>7 DEF Typed, Crash
  <1>13. ASSUME NEW i \in Instances, NEW d \in Drivers, Load(i, d)
         PROVE  Typed'
    <2>1. locationCache' \in [Instances -> [Objects -> [Keys -> Locations]]]
      BY <1>13, LoadFacts
    <2>2. UNCHANGED <<clock, followed, redis, publisher, unannounced, stored, connections>>
      BY <1>13 DEF Load
    <2>3. QED
      BY <2>1, <2>2 DEF Typed, redis, publisher, connections
  <1>14. CASE UNCHANGED vars
    BY <1>14 DEF Typed, vars, redis, publisher, connections
  <1>15. QED
    BY <1>1, <1>2, <1>3, <1>4, <1>5, <1>6, <1>7, <1>8, <1>9, <1>10, <1>11, <1>12, <1>13, <1>14
       DEF Next

-----------------------------------------------------------------------------
(* How often a location is published *)

LEMMA CountGrows ==
    ASSUME NEW p \in Seq(1 .. MaxClock), NEW l \in 1 .. MaxClock, NEW x
    PROVE  /\ Count(p, x) \in Nat
           /\ Count(Append(p, l), l) = Count(p, l) + 1
           /\ x # l => Count(Append(p, l), x) = Count(p, x)
  <1> DEFINE q == Append(p, l)
             Places(s, y) == {n \in 1 .. Len(s) : s[n] = y}
  <1>1. /\ Len(p) \in Nat /\ Len(q) = Len(p) + 1
        /\ \A n \in 1 .. Len(p) : q[n] = p[n]
        /\ q[Len(p) + 1] = l
    BY Published
  <1>2. \A y : IsFiniteSet(Places(p, y)) /\ Cardinality(Places(p, y)) \in Nat
    <2>1. IsFiniteSet(1 .. Len(p))
      BY <1>1, FS_Interval
    <2>2. QED
      BY <2>1, FS_Subset, FS_CardinalityType
  <1> HIDE DEF q
  <1>3. Len(p) + 1 \notin Places(p, l) /\ Places(q, l) = Places(p, l) \cup {Len(p) + 1}
    BY <1>1
  <1>4. x # l => Places(q, x) = Places(p, x)
    BY <1>1
  <1>5. Cardinality(Places(q, l)) = Cardinality(Places(p, l)) + 1
    <2>1. IsFiniteSet(Places(p, l)) /\ Cardinality(Places(p, l)) \in Nat
      BY <1>2
    <2> HIDE DEF Places
    <2>2. QED
      BY <1>3, <2>1, FS_AddElement
  <1>6. QED
    BY <1>2, <1>4, <1>5 DEF Count, q

\* What is nowhere in p is there no times.
LEMMA CountNone ==
    ASSUME NEW p, NEW x, \A n \in 1 .. Len(p) : p[n] # x
    PROVE  Count(p, x) = 0
  <1>1. {n \in 1 .. Len(p) : p[n] = x} = {}
    OBVIOUS
  <1>2. QED
    BY <1>1, FS_EmptySet DEF Count

LEMMA Counts ==
    ASSUME Typed, NEW d \in Drivers, NEW x
    PROVE  Count(published[d], x) \in Nat
  <1>1. published[d] \in Seq(1 .. MaxClock)
    BY DEF Typed
  <1>2. CASE MaxClock > 0
    <2>1. 1 \in 1 .. MaxClock
      BY <1>2, BoundsAssumption
    <2>2. QED
      BY <1>1, <2>1, CountGrows
  <1>3. CASE MaxClock = 0
    <2>1. Len(published[d]) = 0
      BY <1>1, <1>3
    <2>2. QED
      BY <2>1, CountNone
  <1>4. QED
    BY <1>2, <1>3, BoundsAssumption

LEMMA PublishCounts ==
    ASSUME Typed, NEW d \in Drivers, NEW l \in 1 .. MaxClock, Publish(d, l)
    PROVE  /\ Count(published'[d], l) = Count(published[d], l) + 1
           /\ \A e \in Drivers : \A x : ~(e = d /\ x = l) =>
                 Count(published'[e], x) = Count(published[e], x)
  <1>1. /\ published'[d] = Append(published[d], l) /\ published[d] \in Seq(1 .. MaxClock)
        /\ \A e \in Drivers \ {d} : published'[e] = published[e]
    BY PublishFacts DEF Typed
  <1>2. \A x : x # l => Count(published'[d], x) = Count(published[d], x)
    BY <1>1, CountGrows
  <1>3. Count(published'[d], l) = Count(published[d], l) + 1
    BY <1>1, CountGrows
  <1>4. QED
    BY <1>1, <1>2, <1>3

Queues == Reported /\ Unique /\ Paid /\ Once

\* A new location has not been published, and does not wait.
LEMMA NewLocation ==
    ASSUME Typed, Reported, clock < MaxClock
    PROVE  /\ \A d \in Drivers : Count(published[d], clock + 1) = 0
           /\ \A i \in Instances : \A n \in 1 .. Len(outbox[i]) :
                 outbox[i][n].location # clock + 1
           /\ resends[clock + 1] \in Nat
  <1>1. clock \in Nat
    BY BoundsAssumption DEF Typed, Locations
  <1>2. \A d \in Drivers : Count(published[d], clock + 1) = 0
    <2>1. TAKE d \in Drivers
    <2>2. \A n \in 1 .. Len(published[d]) : published[d][n] # clock + 1
      <3>1. TAKE n \in 1 .. Len(published[d])
      <3>2. published[d] \in Seq(1 .. MaxClock)
        BY DEF Typed
      <3>3. published[d][n] \in Nat /\ published[d][n] <= clock
        BY <3>2, BoundsAssumption DEF Reported
      <3>4. QED
        BY <1>1, <3>3
    <2>3. QED
      BY <2>2, CountNone
  <1>3. ASSUME NEW i \in Instances, NEW n \in 1 .. Len(outbox[i])
        PROVE  outbox[i][n].location # clock + 1
    <2>1. outbox[i][n].location \in Nat /\ outbox[i][n].location <= clock
      BY CommandFacts, BoundsAssumption DEF Reported
    <2>2. QED
      BY <1>1, <2>1
  <1>4. resends[clock + 1] \in Nat
    BY Times DEF Typed
  <1>5. QED
    BY <1>2, <1>3, <1>4

\* A step that neither publishes nor changes the queues.
LEMMA QueuesStay ==
    ASSUME Queues, UNCHANGED <<clock, published, outbox, executed, resends>>
    PROVE  Queues'
  BY DEF Queues, Reported, Unique, Paid, Once

LEMMA HttpQueues ==
    ASSUME Typed, Queues, NEW d \in Drivers, ReportOverHttp(d)
    PROVE  Queues'
  <1>1. /\ clock < MaxClock /\ clock' = clock + 1 /\ Publish(d, clock + 1)
        /\ outbox' = outbox /\ executed' = executed /\ resends' = resends
        /\ clock \in Nat /\ clock + 1 \in 1 .. MaxClock
    BY Times, BoundsAssumption DEF ReportOverHttp, publisher, Typed, Locations
  <1>2. /\ \A e \in Drivers : Count(published[e], clock + 1) = 0
        /\ \A i \in Instances : \A n \in 1 .. Len(outbox[i]) : outbox[i][n].location # clock + 1
    BY <1>1, NewLocation DEF Queues
  <1>3. Reported'
    <2>1. ASSUME NEW e \in Drivers, NEW n \in 1 .. Len(published'[e])
          PROVE  published'[e][n] <= clock + 1
      <3>1. /\ published[e] \in Seq(1 .. MaxClock)
            /\ published'[e] = IF e = d THEN Append(published[e], clock + 1) ELSE published[e]
        BY <1>1, PublishFacts DEF Typed
      <3>2. \A m \in 1 .. Len(published[e]) : published[e][m] \in Nat /\ published[e][m] <= clock
        BY <3>1, BoundsAssumption DEF Queues, Reported
      <3>3. CASE e = d
        BY <1>1, <3>1, <3>2, <3>3, AppendProperties
      <3>4. CASE e # d
        BY <1>1, <3>1, <3>2, <3>4
      <3>5. QED
        BY <3>3, <3>4
    <2>2. ASSUME NEW i \in Instances, NEW n \in 1 .. Len(outbox[i])
          PROVE  outbox[i][n].location <= clock + 1
      BY <1>1, CommandFacts, BoundsAssumption DEF Queues, Reported
    <2>3. QED
      BY <1>1, <2>1, <2>2 DEF Reported
  <1>4. Unique'
    BY <1>1 DEF Queues, Unique
  <1>5. Paid'
    <2>1. ASSUME NEW i \in Instances, NEW n \in executed[i] + 1 .. Len(outbox[i]), NEW e \in Drivers
          PROVE  Count(published'[e], outbox[i][n].location) <= resends[outbox[i][n].location]
      <3>1. n \in 1 .. Len(outbox[i])
        BY DEF Typed
      <3>2. Count(published'[e], outbox[i][n].location) = Count(published[e], outbox[i][n].location)
        BY <1>1, <1>2, <3>1, PublishCounts
      <3>3. QED
        BY <3>2 DEF Queues, Paid
    <2>2. QED
      BY <1>1, <2>1 DEF Paid
  <1>6. Once'
    <2>1. ASSUME NEW e \in Drivers, NEW l \in 1 .. MaxClock
          PROVE  Count(published'[e], l) <= 1 + resends[l]
      <3>1. resends[l] \in Nat /\ Count(published[e], l) <= 1 + resends[l]
        BY DEF Typed, Queues, Once
      <3>2. CASE e = d /\ l = clock + 1
        BY <1>1, <1>2, <3>1, <3>2, PublishCounts
      <3>3. CASE ~(e = d /\ l = clock + 1)
        BY <1>1, <3>1, <3>3, PublishCounts
      <3>4. QED
        BY <3>2, <3>3
    <2>2. QED
      BY <1>1, <2>1 DEF Once
  <1>7. QED
    BY <1>3, <1>4, <1>5, <1>6 DEF Queues

LEMMA RedisQueues ==
    ASSUME Typed, Queues, NEW i \in Instances, RedisPublishes(i)
    PROVE  Queues'
  <1> DEFINE d == outbox[i][executed[i] + 1].driver
             l == outbox[i][executed[i] + 1].location
  <1>1. /\ executed[i] < Len(outbox[i]) /\ Publish(d, l)
        /\ executed' = [executed EXCEPT ![i] = executed[i] + 1]
        /\ clock' = clock /\ outbox' = outbox /\ resends' = resends
    BY DEF RedisPublishes
  <1>2. d \in Drivers /\ l \in 1 .. MaxClock /\ executed[i] + 1 \in 1 .. Len(outbox[i])
    BY <1>1, NextCommand
  <1>3. executed[i] \in Nat /\ Len(outbox[i]) \in Nat
    BY DEF Typed
  <1>4. l <= clock
    BY <1>2 DEF Queues, Reported
  <1>5. \A e \in Drivers : Count(published[e], l) <= resends[l]
    <2>1. executed[i] + 1 \in executed[i] + 1 .. Len(outbox[i])
      BY <1>2, <1>3
    <2>2. QED
      BY <2>1 DEF Queues, Paid
  <1>6. ASSUME NEW j \in Instances, NEW n \in executed'[j] + 1 .. Len(outbox[j])
        PROVE  n \in executed[j] + 1 .. Len(outbox[j]) /\ outbox[j][n].location # l
    <2>1. executed[j] \in Nat /\ Len(outbox[j]) \in Nat
          /\ executed'[j] = IF j = i THEN executed[i] + 1 ELSE executed[j]
      BY <1>1 DEF Typed
    <2>2. /\ n \in executed[j] + 1 .. Len(outbox[j]) /\ n \in 1 .. Len(outbox[j])
          /\ j = i => n # executed[i] + 1
      BY <1>3, <2>1
    <2>3. QED
      BY <1>2, <2>2 DEF Queues, Unique
  <1>7. /\ published'[d] = Append(published[d], l)
        /\ \A e \in Drivers \ {d} : published'[e] = published[e]
        /\ Count(published'[d], l) = Count(published[d], l) + 1
        /\ \A e \in Drivers : \A x : ~(e = d /\ x = l) =>
              Count(published'[e], x) = Count(published[e], x)
    <2> HIDE DEF d, l
    <2>1. QED
      BY <1>1, <1>2, PublishFacts, PublishCounts
  <1> HIDE DEF d, l
  <1>8. Reported'
    <2>1. ASSUME NEW e \in Drivers, NEW n \in 1 .. Len(published'[e])
          PROVE  published'[e][n] <= clock
      <3>1. published[e] \in Seq(1 .. MaxClock)
        BY DEF Typed
      <3>2. \A m \in 1 .. Len(published[e]) : published[e][m] <= clock
        BY DEF Queues, Reported
      <3>3. CASE e = d
        <4>1. published'[e] = Append(published[e], l)
          BY <1>7, <3>3
        <4>2. /\ Len(published'[e]) = Len(published[e]) + 1
              /\ \A m \in 1 .. Len(published[e]) : published'[e][m] = published[e][m]
              /\ published'[e][Len(published[e]) + 1] = l
          BY <1>2, <3>1, <4>1, AppendProperties
        <4>3. Len(published[e]) \in Nat
          BY <3>1
        <4>4. n \in 1 .. Len(published[e]) \/ n = Len(published[e]) + 1
          BY <4>2, <4>3
        <4>5. QED
          BY <1>4, <3>2, <4>2, <4>4
      <3>4. CASE e # d
        BY <1>7, <3>2, <3>4
      <3>5. QED
        BY <3>3, <3>4
    <2>2. QED
      BY <1>1, <2>1 DEF Queues, Reported
  <1>9. Unique'
    BY <1>1 DEF Queues, Unique
  <1>10. Paid'
    <2>1. ASSUME NEW j \in Instances, NEW n \in executed'[j] + 1 .. Len(outbox[j]), NEW e \in Drivers
          PROVE  Count(published'[e], outbox[j][n].location) <= resends[outbox[j][n].location]
      <3>1. n \in executed[j] + 1 .. Len(outbox[j]) /\ outbox[j][n].location # l
        BY <1>6
      <3>2. Count(published'[e], outbox[j][n].location) = Count(published[e], outbox[j][n].location)
        BY <1>7, <3>1
      <3>3. QED
        BY <3>1, <3>2 DEF Queues, Paid
    <2>2. QED
      BY <1>1, <2>1 DEF Paid
  <1>11. Once'
    <2>1. ASSUME NEW e \in Drivers, NEW x \in 1 .. MaxClock
          PROVE  Count(published'[e], x) <= 1 + resends[x]
      <3>1. resends[x] \in Nat /\ Count(published[e], x) \in Nat
            /\ Count(published[e], x) <= 1 + resends[x]
        BY Counts DEF Typed, Queues, Once
      <3>2. CASE e = d /\ x = l
        <4>1. Count(published'[e], x) = Count(published[e], x) + 1
          BY <1>7, <3>2
        <4>2. Count(published[e], x) <= resends[x]
          BY <1>5, <3>2
        <4>3. QED
          BY <3>1, <4>1, <4>2
      <3>3. CASE ~(e = d /\ x = l)
        BY <1>7, <3>1, <3>3
      <3>4. QED
        BY <3>2, <3>3
    <2>2. QED
      BY <1>1, <2>1 DEF Once
  <1>12. QED
    BY <1>8, <1>9, <1>10, <1>11 DEF Queues

LEMMA AnswerQueues ==
    ASSUME Typed, Queues, NEW i \in Instances, PublishAnswered(i)
    PROVE  Queues'
  <1>1. /\ executed[i] > 0
        /\ executed' = [executed EXCEPT ![i] = executed[i] - 1]
        /\ outbox' = [outbox EXCEPT ![i] = Tail(outbox[i])]
        /\ clock' = clock /\ published' = published /\ resends' = resends
    BY DEF PublishAnswered, redis
  <1>2. /\ executed[i] \in Nat /\ executed[i] <= Len(outbox[i])
        /\ outbox[i] \in Seq(Commands) /\ Len(outbox[i]) \in Nat
    BY DEF Typed
  <1>3. /\ outbox[i] # <<>> /\ Len(Tail(outbox[i])) = Len(outbox[i]) - 1
        /\ \A n \in 1 .. Len(Tail(outbox[i])) : Tail(outbox[i])[n] = outbox[i][n + 1]
    BY <1>1, <1>2, HeadTailProperties
  \* Where a command that still waits was before.
  <1> DEFINE was(j, n) == IF j = i THEN n + 1 ELSE n
  <1>4. ASSUME NEW j \in Instances, NEW n \in 1 .. Len(outbox'[j])
        PROVE  was(j, n) \in 1 .. Len(outbox[j]) /\ outbox'[j][n] = outbox[j][was(j, n)]
    <2>1. CASE j = i
      BY <1>1, <1>2, <1>3, <2>1 DEF Typed
    <2>2. CASE j # i
      BY <1>1, <2>2 DEF Typed
    <2>3. QED
      BY <2>1, <2>2
  <1>5. ASSUME NEW j \in Instances, NEW n \in executed'[j] + 1 .. Len(outbox'[j])
        PROVE  n \in 1 .. Len(outbox'[j]) /\ was(j, n) \in executed[j] + 1 .. Len(outbox[j])
    <2>1. CASE j = i
      BY <1>1, <1>2, <1>3, <2>1 DEF Typed
    <2>2. CASE j # i
      <3>1. executed'[j] = executed[j] /\ outbox'[j] = outbox[j] /\ executed[j] \in Nat
            /\ Len(outbox[j]) \in Nat
        BY <1>1, <2>2 DEF Typed
      <3>2. QED
        BY <2>2, <3>1
    <2>3. QED
      BY <2>1, <2>2
  <1>6. \A j \in Instances : \A n, m \in Nat : was(j, n) = was(j, m) => n = m
    OBVIOUS
  <1> HIDE DEF was
  <1>7. Reported'
    BY <1>1, <1>4 DEF Queues, Reported
  <1>8. Unique'
    <2>1. ASSUME NEW j \in Instances, NEW k \in Instances,
                 NEW n \in 1 .. Len(outbox'[j]), NEW m \in 1 .. Len(outbox'[k]),
                 outbox'[j][n].location = outbox'[k][m].location
          PROVE  j = k /\ n = m
      <3>1. /\ was(j, n) \in 1 .. Len(outbox[j]) /\ outbox'[j][n] = outbox[j][was(j, n)]
            /\ was(k, m) \in 1 .. Len(outbox[k]) /\ outbox'[k][m] = outbox[k][was(k, m)]
        BY <1>4
      <3>2. outbox[j][was(j, n)].location = outbox[k][was(k, m)].location
        BY <2>1, <3>1
      <3>3. j = k /\ was(j, n) = was(k, m)
        BY <3>1, <3>2 DEF Queues, Unique
      <3>4. QED
        BY <1>6, <3>3
    <2>2. QED
      BY <2>1 DEF Unique
  <1>9. Paid'
    <2>1. ASSUME NEW j \in Instances, NEW n \in executed'[j] + 1 .. Len(outbox'[j]), NEW e \in Drivers
          PROVE  Count(published[e], outbox'[j][n].location) <= resends[outbox'[j][n].location]
      <3>1. /\ was(j, n) \in executed[j] + 1 .. Len(outbox[j])
            /\ outbox'[j][n] = outbox[j][was(j, n)]
        BY <1>4, <1>5
      <3>2. QED
        BY <3>1 DEF Queues, Paid
    <2>2. QED
      BY <1>1, <2>1 DEF Paid
  <1>10. Once'
    BY <1>1 DEF Queues, Once
  <1>11. QED
    BY <1>7, <1>8, <1>9, <1>10 DEF Queues

LEMMA SocketQueues ==
    ASSUME Typed, Queues, NEW i \in Instances, NEW d \in Drivers, ReportOverSocket(i, d)
    PROVE  Queues'
  <1> DEFINE c == [driver |-> d, location |-> clock + 1]
  <1>1. /\ clock < MaxClock /\ clock' = clock + 1 /\ published' = published
        /\ Handle(i, "IRealtimeService", d, clock + 1)
    BY DEF ReportOverSocket, redis
  <1>2. clock + 1 \in 1 .. MaxClock /\ clock \in Nat /\ d \in Keys
    BY <1>1, Times, KeyFacts, BoundsAssumption DEF Typed, Locations
  <1>3. /\ executed' = executed /\ resends' = resends
        /\ \/ outbox' = outbox
           \/ /\ c \in Commands
              /\ outbox' = [outbox EXCEPT ![i] = Append(outbox[i], c)]
    BY <1>1, <1>2, HandleFacts, HandlerFacts
  <1>4. c.location = clock + 1
    OBVIOUS
  <1> HIDE DEF c
  <1>5. /\ \A e \in Drivers : Count(published[e], clock + 1) = 0
        /\ \A j \in Instances : \A n \in 1 .. Len(outbox[j]) : outbox[j][n].location # clock + 1
        /\ resends[clock + 1] \in Nat
    BY <1>1, NewLocation DEF Queues
  \* A command waited before, or is the new one.
  <1>6. ASSUME NEW j \in Instances, NEW n \in 1 .. Len(outbox'[j])
        PROVE  \/ n \in 1 .. Len(outbox[j]) /\ outbox'[j][n] = outbox[j][n]
               \/ j = i /\ n = Len(outbox[i]) + 1 /\ outbox'[j][n].location = clock + 1
    <2>1. CASE outbox' = outbox
      BY <2>1
    <2>2. CASE c \in Commands /\ outbox' = [outbox EXCEPT ![i] = Append(outbox[i], c)]
      <3>1. CASE j = i
        <4>1. /\ outbox'[j] = Append(outbox[i], c) /\ Len(outbox[i]) \in Nat
              /\ Len(Append(outbox[i], c)) = Len(outbox[i]) + 1
              /\ \A m \in 1 .. Len(outbox[i]) : Append(outbox[i], c)[m] = outbox[i][m]
              /\ Append(outbox[i], c)[Len(outbox[i]) + 1] = c
          BY <2>2, <3>1, AppendProperties DEF Typed
        <4>2. n \in 1 .. Len(outbox[i]) \/ n = Len(outbox[i]) + 1
          BY <4>1
        <4>3. QED
          BY <1>4, <3>1, <4>1, <4>2
      <3>2. CASE j # i
        BY <2>2, <3>2 DEF Typed
      <3>3. QED
        BY <3>1, <3>2
    <2>3. QED
      BY <1>3, <2>1, <2>2
  <1>7. Reported'
    <2>1. ASSUME NEW e \in Drivers, NEW n \in 1 .. Len(published[e])
          PROVE  published[e][n] <= clock + 1
      <3>1. published[e] \in Seq(1 .. MaxClock)
        BY DEF Typed
      <3>2. published[e][n] \in Nat /\ published[e][n] <= clock
        BY <3>1, BoundsAssumption DEF Queues, Reported
      <3>3. QED
        BY <1>2, <3>2
    <2>2. ASSUME NEW j \in Instances, NEW n \in 1 .. Len(outbox'[j])
          PROVE  outbox'[j][n].location <= clock + 1
      <3>1. CASE n \in 1 .. Len(outbox[j]) /\ outbox'[j][n] = outbox[j][n]
        <4>1. outbox[j][n].location \in Nat /\ outbox[j][n].location <= clock
          BY <3>1, CommandFacts, BoundsAssumption DEF Queues, Reported
        <4>2. QED
          BY <1>2, <3>1, <4>1
      <3>2. CASE outbox'[j][n].location = clock + 1
        BY <1>2, <3>2
      <3>3. QED
        BY <1>6, <3>1, <3>2
    <2>3. QED
      BY <1>1, <2>1, <2>2 DEF Reported
  <1>8. Unique'
    <2>1. ASSUME NEW j \in Instances, NEW k \in Instances,
                 NEW n \in 1 .. Len(outbox'[j]), NEW m \in 1 .. Len(outbox'[k]),
                 outbox'[j][n].location = outbox'[k][m].location
          PROVE  j = k /\ n = m
      <3>1. CASE outbox'[j][n].location = clock + 1
        <4>1. j = i /\ n = Len(outbox[i]) + 1
          BY <1>5, <1>6, <3>1
        <4>2. k = i /\ m = Len(outbox[i]) + 1
          BY <1>5, <1>6, <2>1, <3>1
        <4>3. QED
          BY <4>1, <4>2
      <3>2. CASE outbox'[j][n].location # clock + 1
        <4>1. n \in 1 .. Len(outbox[j]) /\ outbox'[j][n] = outbox[j][n]
          BY <1>6, <3>2
        <4>2. m \in 1 .. Len(outbox[k]) /\ outbox'[k][m] = outbox[k][m]
          BY <1>6, <2>1, <3>2
        <4>3. outbox[j][n].location = outbox[k][m].location
          BY <2>1, <4>1, <4>2
        <4>4. QED
          BY <4>1, <4>2, <4>3 DEF Queues, Unique
      <3>3. QED
        BY <3>1, <3>2
    <2>2. QED
      BY <2>1 DEF Unique
  <1>9. Paid'
    <2>1. ASSUME NEW j \in Instances, NEW n \in executed[j] + 1 .. Len(outbox'[j]), NEW e \in Drivers
          PROVE  Count(published[e], outbox'[j][n].location) <= resends[outbox'[j][n].location]
      <3>1. executed[j] \in Nat /\ n \in 1 .. Len(outbox'[j])
        BY DEF Typed
      <3>2. CASE n \in 1 .. Len(outbox[j]) /\ outbox'[j][n] = outbox[j][n]
        <4>1. n \in executed[j] + 1 .. Len(outbox[j])
          BY <3>1, <3>2
        <4>2. QED
          BY <3>2, <4>1 DEF Queues, Paid
      <3>3. CASE outbox'[j][n].location = clock + 1
        BY <1>5, <3>3
      <3>4. QED
        BY <1>6, <3>1, <3>2, <3>3
    <2>2. QED
      BY <1>1, <1>3, <2>1 DEF Paid
  <1>10. Once'
    BY <1>1, <1>3 DEF Queues, Once
  <1>11. QED
    BY <1>7, <1>8, <1>9, <1>10 DEF Queues

LEMMA LostAnswersQueues ==
    ASSUME Typed, Queues, NEW i \in Instances, ClosePublisher(i)
    PROVE  Queues'
  <1>1. /\ executed' = [executed EXCEPT ![i] = 0]
        /\ resends' = [l \in 1 .. MaxClock |->
               IF \E n \in 1 .. executed[i] : outbox[i][n].location = l
               THEN resends[l] + 1 ELSE resends[l]]
        /\ clock' = clock /\ published' = published /\ outbox' = outbox
    BY DEF ClosePublisher, redis
  <1>2. \A l \in 1 .. MaxClock : /\ resends[l] \in Nat /\ resends'[l] \in Nat
                                 /\ resends[l] <= resends'[l]
    <2>1. resends \in [1 .. MaxClock -> Nat]
      BY DEF Typed
    <2>2. QED
      BY <1>1, <2>1
  <1>3. Paid'
    <2>1. ASSUME NEW j \in Instances, NEW n \in executed'[j] + 1 .. Len(outbox[j]), NEW e \in Drivers
          PROVE  Count(published[e], outbox[j][n].location) <= resends'[outbox[j][n].location]
      <3> DEFINE l == outbox[j][n].location
      <3>1. /\ executed[j] \in Nat /\ Len(outbox[j]) \in Nat
            /\ executed'[j] = IF j = i THEN 0 ELSE executed[j]
        BY <1>1 DEF Typed
      <3>2. /\ n \in 1 .. Len(outbox[j])
            /\ n \in executed[j] + 1 .. Len(outbox[j]) \/ (j = i /\ n \in 1 .. executed[i])
        BY <3>1
      <3>3. l \in 1 .. MaxClock /\ Count(published[e], l) \in Nat
        BY <3>2, CommandFacts, Counts
      <3>4. CASE n \in executed[j] + 1 .. Len(outbox[j])
        <4>1. Count(published[e], l) <= resends[l]
          BY <3>4 DEF Queues, Paid
        <4>2. QED
          BY <1>2, <3>3, <4>1
      <3>5. CASE j = i /\ n \in 1 .. executed[i]
        <4>1. resends'[l] = resends[l] + 1
          BY <1>1, <3>3, <3>5
        <4>2. Count(published[e], l) <= 1 + resends[l]
          BY <3>3 DEF Queues, Once
        <4>3. QED
          BY <1>2, <3>3, <4>1, <4>2
      <3>6. QED
        BY <3>2, <3>4, <3>5
    <2>2. QED
      BY <1>1, <2>1 DEF Paid
  <1>4. Once'
    <2>1. ASSUME NEW e \in Drivers, NEW l \in 1 .. MaxClock
          PROVE  Count(published[e], l) <= 1 + resends'[l]
      <3>1. Count(published[e], l) \in Nat /\ Count(published[e], l) <= 1 + resends[l]
        BY Counts DEF Queues, Once
      <3>2. QED
        BY <1>2, <3>1
    <2>2. QED
      BY <1>1, <2>1 DEF Once
  <1>5. QED
    BY <1>1, <1>3, <1>4 DEF Queues, Reported, Unique

LEMMA CrashQueues ==
    ASSUME Typed, Queues, NEW i \in Instances, Crash(i)
    PROVE  Queues'
  <1>1. /\ clock' = clock /\ published' = published /\ resends' = resends
        /\ \A j \in Instances : /\ outbox'[j] = IF j = i THEN <<>> ELSE outbox[j]
                                /\ executed'[j] = IF j = i THEN 0 ELSE executed[j]
    BY DEF Typed, Crash
  <1>2. Len(<<>>) = 0 /\ 1 .. 0 = {} /\ 0 + 1 .. 0 = {}
    OBVIOUS
  <1>3. Reported'
    BY <1>1, <1>2 DEF Queues, Reported
  <1>4. Unique'
    BY <1>1, <1>2 DEF Queues, Unique
  <1>5. Paid'
    BY <1>1, <1>2 DEF Queues, Paid
  <1>6. Once'
    BY <1>1 DEF Queues, Once
  <1>7. QED
    BY <1>3, <1>4, <1>5, <1>6 DEF Queues

LEMMA QueuesStep == Typed /\ Queues /\ [Next]_vars => Queues'
  <1> SUFFICES ASSUME Typed, Queues, [Next]_vars
               PROVE  Queues'
    OBVIOUS
  <1>1. ASSUME NEW l \in unannounced, Announce(l)
        PROVE  Queues'
    BY <1>1, QueuesStay DEF Announce, publisher
  <1>2. ASSUME NEW i \in Instances, Deliver(i)
        PROVE  Queues'
    <2>1. /\ inbox[i] # <<>>
          /\ Handle(i, Handler, Head(inbox[i]).driver, Head(inbox[i]).location)
          /\ clock' = clock /\ published' = published
      BY <1>2 DEF Deliver
    <2>2. outbox' = outbox /\ executed' = executed /\ resends' = resends
      BY <2>1, MessageFacts, HandleFacts, HandlerFacts
    <2>3. QED
      BY <2>1, <2>2, QueuesStay
  <1>3. ASSUME NEW i \in Instances, NEW d \in Drivers,
               Load(i, d) \/ Follow(i, d) \/ Unfollow(i, d)
        PROVE  Queues'
    BY <1>3, QueuesStay DEF Load, Follow, Unfollow, redis, publisher
  <1>4. ASSUME NEW i \in Instances, Start(i) \/ Connect(i) \/ Close(i)
        PROVE  Queues'
    BY <1>4, QueuesStay DEF Start, Connect, Close, redis, publisher
  <1>5. CASE UNCHANGED vars
    BY <1>5, QueuesStay DEF vars, redis, publisher
  <1>6. QED
    BY <1>1, <1>2, <1>3, <1>4, <1>5, HttpQueues, SocketQueues, RedisQueues, AnswerQueues,
       LostAnswersQueues, CrashQueues DEF Next

-----------------------------------------------------------------------------
(* What the handlers receive *)

Arrivals == Ordered /\ Current

LEMMA ArrivalsStay ==
    ASSUME Arrivals, UNCHANGED <<locationCache, published, inbox, listening, since>>
    PROVE  Arrivals'
  BY DEF Arrivals, Ordered, Current

\* Redis publishes a location: copies of it arrive after what waits.
LEMMA PublishArrives ==
    ASSUME Typed, Arrivals, NEW d \in Drivers, NEW l \in 1 .. MaxClock, Publish(d, l),
           UNCHANGED <<locationCache, listening, since>>
    PROVE  Arrivals'
  <1>1. ASSUME NEW i \in Instances, NEW e \in Drivers
        PROVE  /\ OrderedIn(published'[e], e, inbox'[i], locationCache[i][Handler][e])
               /\ i \in listening /\ Newest(published'[e]) > since[i] =>
                     CurrentIn(published'[e], e, inbox'[i], locationCache[i][Handler][e])
    <2>0. /\ Copies(i, d, l) \in Seq(Messages)
          /\ i \in listening => Len(Copies(i, d, l)) > 0
          /\ \A n \in 1 .. Len(Copies(i, d, l)) :
                Copies(i, d, l)[n].driver = d /\ Copies(i, d, l)[n].location = l
      BY ONLY CopiesFacts, d \in Drivers, l \in 1 .. MaxClock
    <2> DEFINE box == inbox[i]
               copies == Copies(i, d, l)
               cached == locationCache[i][Handler][e]
    <2>1. /\ box \in Seq(Messages) /\ copies \in Seq(Messages)
          /\ i \in listening => Len(copies) > 0
          /\ \A n \in 1 .. Len(copies) : copies[n].driver = d /\ copies[n].location = l
      <3>1. box \in Seq(Messages)
        BY DEF Typed
      <3>2. QED
        BY <2>0, <3>1
    <2>2. inbox'[i] = box \o copies
      BY PublishFacts
    <2>3. OrderedIn(published[e], e, box, cached)
      BY DEF Arrivals, Ordered
    <2>4. published[d] \in Seq(1 .. MaxClock)
      BY DEF Typed
    <2>5. i \in listening /\ Newest(published[e]) > since[i] =>
              CurrentIn(published[e], e, box, cached)
      BY DEF Arrivals, Current
    <2>6. /\ published'[d] = Append(published[d], l)
          /\ e # d => published'[e] = published[e]
      BY PublishFacts
    <2> HIDE DEF box, copies, cached
    <2>7. CASE e = d
      <3>1. /\ OrderedIn(Append(published[d], l), d, box \o copies, cached)
            /\ Len(copies) > 0 => CurrentIn(Append(published[d], l), d, box \o copies, cached)
        BY <2>1, <2>3, <2>4, <2>7, CopiesArrive
      <3>2. QED
        BY <2>1, <2>2, <2>6, <2>7, <3>1 DEF cached
    <2>8. CASE e # d
      <3>1. \A n \in 1 .. Len(copies) : copies[n].driver # e
        BY <2>1, <2>8
      <3>2. /\ OrderedIn(published[e], e, box \o copies, cached)
            /\ CurrentIn(published[e], e, box, cached) =>
                  CurrentIn(published[e], e, box \o copies, cached)
        BY <2>1, <2>3, <3>1, OthersArrive
      <3>3. QED
        BY <2>2, <2>5, <2>6, <2>8, <3>2 DEF cached
    <2>9. QED
      BY <2>7, <2>8
  <1>2. listening \subseteq Instances
    BY DEF Typed
  <1>3. QED
    BY <1>1, <1>2 DEF Arrivals, Ordered, Current

\* What comes over the general channel is about no driver.
LEMMA AnnounceArrives ==
    ASSUME Typed, Arrivals, NEW l \in unannounced, Announce(l)
    PROVE  Arrivals'
  <1> DEFINE m == [driver |-> General, location |-> l]
  <1>1. m \in Messages /\ m.driver = General
    BY KeyFacts DEF Typed, Messages
  <1>2. /\ inbox' = [i \in Instances |-> IF i \in listening THEN Append(inbox[i], m) ELSE inbox[i]]
        /\ UNCHANGED <<locationCache, published, listening, since>>
    BY DEF Announce, connections
  <1> HIDE DEF m
  <1>3. <<m>> \in Seq(Messages) /\ \A n \in 1 .. Len(<<m>>) : <<m>>[n].driver = General
    BY <1>1
  <1>4. ASSUME NEW i \in Instances, NEW e \in Drivers
        PROVE  /\ OrderedIn(published[e], e, inbox'[i], locationCache[i][Handler][e])
               /\ i \in listening /\ Newest(published[e]) > since[i] =>
                     CurrentIn(published[e], e, inbox'[i], locationCache[i][Handler][e])
    <2>1. /\ OrderedIn(published[e], e, inbox[i], locationCache[i][Handler][e])
          /\ i \in listening /\ Newest(published[e]) > since[i] =>
                CurrentIn(published[e], e, inbox[i], locationCache[i][Handler][e])
      BY DEF Arrivals, Ordered, Current
    <2>2. inbox[i] \in Seq(Messages)
      BY DEF Typed
    <2>3. inbox'[i] = inbox[i] \/ inbox'[i] = inbox[i] \o <<m>>
      BY <1>1, <1>2, <2>2, AppendIsConcat
    <2>4. \A n \in 1 .. Len(<<m>>) : <<m>>[n].driver # e
      BY <1>3, KeyFacts
    <2>5. /\ OrderedIn(published[e], e, inbox[i] \o <<m>>, locationCache[i][Handler][e])
          /\ CurrentIn(published[e], e, inbox[i], locationCache[i][Handler][e]) =>
                CurrentIn(published[e], e, inbox[i] \o <<m>>, locationCache[i][Handler][e])
      BY <1>3, <2>1, <2>2, <2>4, OthersArrive
    <2>6. QED
      BY <2>1, <2>3, <2>5
  <1>5. listening \subseteq Instances
    BY DEF Typed
  <1>6. QED
    BY <1>2, <1>4, <1>5 DEF Arrivals, Ordered, Current

\* A driver reports over its socket: the other object writes its cache.
LEMMA SocketArrives ==
    ASSUME Typed, Arrivals, NEW i \in Instances, NEW d \in Drivers, ReportOverSocket(i, d)
    PROVE  Arrivals'
  <1>1. /\ Handle(i, "IRealtimeService", d, clock + 1)
        /\ clock + 1 \in 1 .. MaxClock /\ d \in Keys
        /\ UNCHANGED <<published, inbox, listening, since>>
    BY Times, KeyFacts DEF ReportOverSocket, redis, connections
  <1>2. \A j \in Instances, e \in Drivers : locationCache'[j][Handler][e] = locationCache[j][Handler][e]
    <2>1. \A j \in Instances, e \in Keys :
              locationCache'[j][Handler][e] = locationCache[j][Handler][e]
      BY <1>1, SocketHandles
    <2>2. QED
      BY <2>1, KeyFacts
  <1>3. listening \subseteq Instances
    BY DEF Typed
  <1>4. QED
    BY <1>1, <1>2, <1>3 DEF Arrivals, Ordered, Current

\* So does a load.
LEMMA LoadArrives ==
    ASSUME Typed, Arrivals, NEW i \in Instances, NEW d \in Drivers, Load(i, d)
    PROVE  Arrivals'
  <1>1. UNCHANGED <<published, inbox, listening, since>>
    BY DEF Load, redis, connections
  <1>2. \A j \in Instances, e \in Drivers : locationCache'[j][Handler][e] = locationCache[j][Handler][e]
    BY LoadFacts, KeyFacts
  <1>3. listening \subseteq Instances
    BY DEF Typed
  <1>4. QED
    BY <1>1, <1>2, <1>3 DEF Arrivals, Ordered, Current

\* The handler handles the first message.
LEMMA DeliverArrives ==
    ASSUME Typed, Arrivals, NEW i \in Instances, Deliver(i)
    PROVE  Arrivals'
  <1> DEFINE d == Head(inbox[i]).driver
             l == Head(inbox[i]).location
  <1>1. /\ inbox[i] # <<>> /\ Handle(i, Handler, d, l)
        /\ inbox' = [inbox EXCEPT ![i] = Tail(inbox[i])]
        /\ UNCHANGED <<published, listening, since>>
    BY DEF Deliver, connections
  <1>2. d \in Keys /\ l \in 1 .. MaxClock /\ inbox[i] \in Seq(Messages)
    BY <1>1, MessageFacts DEF Typed
  <1>3. \A j \in Instances, e \in Drivers :
            locationCache'[j][Handler][e] =
                IF j = i /\ e = d THEN l ELSE locationCache[j][Handler][e]
    <2> HIDE DEF d, l
    <2>1. \A j \in Instances, e \in Keys :
              locationCache'[j][Handler][e] =
                  IF j = i /\ e = d THEN l ELSE locationCache[j][Handler][e]
      BY <1>1, <1>2, HandlerHandles
    <2>2. QED
      BY <2>1, KeyFacts
  <1>4. ASSUME NEW j \in Instances, NEW e \in Drivers
        PROVE  /\ OrderedIn(published[e], e, inbox'[j], locationCache'[j][Handler][e])
               /\ j \in listening /\ Newest(published[e]) > since[j] =>
                     CurrentIn(published[e], e, inbox'[j], locationCache'[j][Handler][e])
    <2>1. /\ OrderedIn(published[e], e, inbox[j], locationCache[j][Handler][e])
          /\ j \in listening /\ Newest(published[e]) > since[j] =>
                CurrentIn(published[e], e, inbox[j], locationCache[j][Handler][e])
      BY DEF Arrivals, Ordered, Current
    <2>2. CASE j = i
      <3> DEFINE now == IF Head(inbox[i]).driver = e THEN Head(inbox[i]).location
                        ELSE locationCache[i][Handler][e]
      <3>1. locationCache'[j][Handler][e] = now /\ inbox'[j] = Tail(inbox[i])
        BY <1>1, <1>3, <2>2 DEF Typed
      <3>2. /\ OrderedIn(published[e], e, Tail(inbox[i]), now)
            /\ CurrentIn(published[e], e, inbox[i], locationCache[i][Handler][e]) =>
                  CurrentIn(published[e], e, Tail(inbox[i]), now)
        BY <1>1, <1>2, <2>1, <2>2, HeadHandled
      <3> HIDE DEF now
      <3>3. QED
        BY <2>1, <2>2, <3>1, <3>2
    <2>3. CASE j # i
      <3>1. locationCache'[j][Handler][e] = locationCache[j][Handler][e] /\ inbox'[j] = inbox[j]
        BY <1>1, <1>3, <2>3 DEF Typed
      <3>2. QED
        BY <2>1, <3>1
    <2>4. QED
      BY <2>2, <2>3
  <1>5. listening \subseteq Instances
    BY DEF Typed
  <1>6. QED
    BY <1>1, <1>4, <1>5 DEF Arrivals, Ordered, Current

\* Nothing has been published since an instance subscribed just now.
LEMMA ConnectArrives ==
    ASSUME Typed, Queues, Arrivals, NEW i \in Instances, Connect(i)
    PROVE  Arrivals'
  <1>1. /\ UNCHANGED <<locationCache, published, inbox>>
        /\ listening' = listening \cup {i}
        /\ \A j \in Instances : since'[j] = IF j = i THEN clock ELSE since[j]
    BY DEF Connect, redis, Typed
  <1>2. ASSUME NEW d \in Drivers
        PROVE  ~(Newest(published[d]) > clock)
    <2>1. published[d] \in Seq(1 .. MaxClock) /\ clock \in Nat
      BY BoundsAssumption DEF Typed, Locations
    <2>2. CASE published[d] = <<>>
      BY <2>1, <2>2 DEF Newest
    <2>3. CASE published[d] # <<>>
      <3>1. Len(published[d]) \in 1 .. Len(published[d])
        BY <2>1, <2>3
      <3>2. published[d][Len(published[d])] \in Nat /\ published[d][Len(published[d])] <= clock
        BY <2>1, <3>1, BoundsAssumption DEF Queues, Reported
      <3>3. QED
        BY <2>1, <2>3, <3>2 DEF Newest, Last
    <2>4. QED
      BY <2>2, <2>3
  <1>3. Ordered'
    BY <1>1 DEF Arrivals, Ordered
  <1>4. ASSUME NEW j \in listening', NEW d \in Drivers, Newest(published[d]) > since'[j]
        PROVE  CurrentIn(published[d], d, inbox[j], locationCache[j][Handler][d])
    <2>1. j # i /\ j \in listening /\ j \in Instances
      BY <1>1, <1>2, <1>4 DEF Typed
    <2>2. Newest(published[d]) > since[j]
      BY <1>1, <1>4, <2>1
    <2>3. QED
      BY <2>1, <2>2 DEF Arrivals, Current
  <1>5. QED
    BY <1>1, <1>3, <1>4 DEF Arrivals, Current

LEMMA CloseArrives ==
    ASSUME Typed, Arrivals, NEW i \in Instances, Close(i)
    PROVE  Arrivals'
  <1>1. PICK k \in 0 .. Len(inbox[i]) : inbox' = [inbox EXCEPT ![i] = SubSeq(inbox[i], 1, k)]
    BY DEF Close
  <1>2. listening' = listening \ {i} /\ UNCHANGED <<locationCache, published, since>>
    BY DEF Close
  <1>3. ASSUME NEW j \in Instances, NEW d \in Drivers
        PROVE  OrderedIn(published[d], d, inbox'[j], locationCache[j][Handler][d])
    <2>1. OrderedIn(published[d], d, inbox[j], locationCache[j][Handler][d])
      BY DEF Arrivals, Ordered
    <2>2. CASE j = i
      <3>1. inbox[i] \in Seq(Messages) /\ inbox'[j] = SubSeq(inbox[i], 1, k)
        BY <1>1, <2>2 DEF Typed
      <3>2. OrderedIn(published[d], d, SubSeq(inbox[i], 1, k), locationCache[i][Handler][d])
        BY <2>1, <2>2, <3>1, PartRemains
      <3>3. QED
        BY <2>2, <3>1, <3>2
    <2>3. CASE j # i
      BY <1>1, <2>1, <2>3 DEF Typed
    <2>4. QED
      BY <2>2, <2>3
  <1>4. \A j \in listening' : j \in listening /\ inbox'[j] = inbox[j]
    BY <1>1, <1>2 DEF Typed
  <1>5. QED
    BY <1>2, <1>3, <1>4 DEF Arrivals, Ordered, Current

LEMMA CrashArrives ==
    ASSUME Typed, Arrivals, NEW i \in Instances, Crash(i)
    PROVE  Arrivals'
  <1>1. /\ listening' = listening \ {i} /\ UNCHANGED <<published, since>>
        /\ \A j \in Instances : inbox'[j] = IF j = i THEN <<>> ELSE inbox[j]
        /\ \A j \in Instances, d \in Drivers :
              locationCache'[j][Handler][d] = IF j = i THEN 0 ELSE locationCache[j][Handler][d]
    BY HandlerFacts, KeyFacts DEF Typed, Crash
  <1>2. ASSUME NEW j \in Instances, NEW d \in Drivers
        PROVE  OrderedIn(published[d], d, inbox'[j], locationCache'[j][Handler][d])
    <2>1. CASE j = i
      <3>1. OrderedIn(published[d], d, <<>>, 0)
        BY NothingWaits
      <3>2. inbox'[j] = <<>> /\ locationCache'[j][Handler][d] = 0
        BY <1>1, <2>1
      <3>3. QED
        BY <3>1, <3>2
    <2>2. CASE j # i
      BY <1>1, <2>2 DEF Arrivals, Ordered
    <2>3. QED
      BY <2>1, <2>2
  <1>3. \A j \in listening' : j \in listening /\ j \in Instances /\ j # i
    BY <1>1 DEF Typed
  <1>4. QED
    BY <1>1, <1>2, <1>3 DEF Arrivals, Ordered, Current

LEMMA ArrivalsStep == Typed /\ Queues /\ Arrivals /\ [Next]_vars => Arrivals'
  <1> SUFFICES ASSUME Typed, Queues, Arrivals, [Next]_vars
               PROVE  Arrivals'
    OBVIOUS
  <1>1. ASSUME NEW d \in Drivers, ReportOverHttp(d)
        PROVE  Arrivals'
    <2>1. clock + 1 \in 1 .. MaxClock /\ Publish(d, clock + 1)
          /\ UNCHANGED <<locationCache, listening, since>>
      BY <1>1, Times DEF ReportOverHttp, connections
    <2>2. QED
      BY <2>1, PublishArrives
  <1>2. ASSUME NEW i \in Instances, RedisPublishes(i)
        PROVE  Arrivals'
    <2> DEFINE d == outbox[i][executed[i] + 1].driver
               l == outbox[i][executed[i] + 1].location
    <2>1. executed[i] < Len(outbox[i]) /\ Publish(d, l)
          /\ UNCHANGED <<locationCache, listening, since>>
      BY <1>2 DEF RedisPublishes, connections
    <2>2. d \in Drivers /\ l \in 1 .. MaxClock
      BY <2>1, NextCommand
    <2> HIDE DEF d, l
    <2>3. QED
      BY <2>1, <2>2, PublishArrives
  <1>3. ASSUME NEW i \in Instances, NEW d \in Drivers, Follow(i, d) \/ Unfollow(i, d)
        PROVE  Arrivals'
    BY <1>3, ArrivalsStay DEF Follow, Unfollow, redis, connections
  <1>4. ASSUME NEW i \in Instances, PublishAnswered(i) \/ Start(i) \/ ClosePublisher(i)
        PROVE  Arrivals'
    BY <1>4, ArrivalsStay DEF PublishAnswered, Start, ClosePublisher, redis, connections
  <1>5. CASE UNCHANGED vars
    BY <1>5, ArrivalsStay DEF vars, redis, connections
  <1>6. QED
    BY <1>1, <1>2, <1>3, <1>4, <1>5, AnnounceArrives, SocketArrives, LoadArrives,
       DeliverArrives, ConnectArrives, CloseArrives, CrashArrives DEF Next

-----------------------------------------------------------------------------
(* Theorems *)

LEMMA InitInv == Init => IInv
  <1> SUFFICES ASSUME Init
               PROVE  IInv
    OBVIOUS
  <1>1. /\ \A d \in Drivers : published[d] = <<>>
        /\ \A i \in Instances : inbox[i] = <<>> /\ outbox[i] = <<>> /\ executed[i] = 0
        /\ \A i \in Instances, d \in Drivers : locationCache[i][Handler][d] = 0
        /\ listening = {} /\ \A l \in 1 .. MaxClock : resends[l] = 0
    BY HandlerFacts, KeyFacts DEF Init
  <1>2. Len(<<>>) = 0 /\ 1 .. 0 = {} /\ 0 + 1 .. 0 = {}
    OBVIOUS
  <1>3. Reported /\ Unique /\ Paid
    BY <1>1, <1>2 DEF Reported, Unique, Paid
  <1>4. Once
    <2>1. \A x : Count(<<>>, x) = 0
      BY <1>2, CountNone
    <2>2. QED
      BY <1>1, <2>1 DEF Once
  <1>5. Ordered
    <2>1. \A d \in Drivers : OrderedIn(<<>>, d, <<>>, 0)
      BY NothingWaits
    <2>2. QED
      BY <1>1, <2>1 DEF Ordered
  <1>6. Current
    BY <1>1 DEF Current
  <1>7. QED
    BY <1>3, <1>4, <1>5, <1>6, InitTyped DEF IInv

LEMMA NextInv == IInv /\ [Next]_vars => IInv'
  BY TypedStep, QueuesStep, ArrivalsStep DEF IInv, Queues, Arrivals

\* IInv holds of every state of RedisDelivery: what waits in the inboxes and in the
\* queues of commands of all instances is what the properties need.
THEOREM Invariant == Spec => []IInv
  BY InitInv, NextInv, PTL DEF Spec

\* TypeOK: what the caches, inboxes and queues of commands hold, and that an answer is
\* only lost with a connection.
THEOREM TypeCorrect == Spec => []TypeOK
  <1>1. Typed => TypeOK
    <2> SUFFICES ASSUME Typed
                 PROVE  TypeOK
      OBVIOUS
    <2>1. \A i \in Instances : executed[i] \in 0 .. Len(outbox[i])
      BY DEF Typed
    <2>2. resends \in [1 .. MaxClock -> 0 .. MaxLosses]
      <3>1. \A l \in 1 .. MaxClock : resends[l] \in 0 .. MaxLosses
        BY BoundsAssumption DEF Typed
      <3>2. QED
        BY <3>1 DEF Typed
    <2>3. outbox \in [Instances -> Seq([driver : Drivers, location : 1 .. MaxClock])]
      BY DEF Typed, Commands
    <2>4. QED
      BY <2>1, <2>2, <2>3 DEF Typed, TypeOK
  <1>2. QED
    BY <1>1, Invariant, PTL DEF IInv

\* PublishedOnce: although every instance receives what it publishes, and hands it to
\* handleDriverLocationUpdate, which publishes, no location goes round in a circle.
THEOREM NoEcho == Spec => []PublishedOnce
  <1>1. Once => PublishedOnce
    BY DEF Once, Count, PublishedOnce, Publications
  <1>2. QED
    BY <1>1, Invariant, PTL DEF IInv

\* HandlerCacheCurrent: the object that messages go to has the last location published
\* since the subscriptions were (re)established, once it has handled its messages.
THEOREM HandlerCurrent == Spec => []HandlerCacheCurrent
  <1>1. IInv => HandlerCacheCurrent
    <2> SUFFICES ASSUME IInv, NEW i \in Instances, NEW d \in Drivers, Informed(i, d)
                 PROVE  locationCache[i][Handler][d] = LastPublished(d)
      BY DEF HandlerCacheCurrent
    <2>1. LastPublished(d) = Newest(published[d])
      BY DEF LastPublished, Newest
    <2>2. CurrentIn(published[d], d, inbox[i], locationCache[i][Handler][d])
      BY <2>1 DEF IInv, Current, Informed
    <2>3. QED
      BY <2>1, <2>2 DEF CurrentIn, Informed
  <1>2. QED
    BY <1>1, Invariant, PTL

\* HandlerCacheAdvances: double copies, late messages and messages after a gap do not
\* take the handler's cache back to a location published before the cached one.
THEOREM HandlerAdvances == Spec => HandlerCacheAdvances
  <1> DEFINE Advances(i, d) ==
                \/ locationCache'[i][Handler][d] >= locationCache[i][Handler][d]
                \/ Overtaken(d, locationCache'[i][Handler][d], locationCache[i][Handler][d])
                \/ i \notin started'
  <1>1. ASSUME IInv, [Next]_vars, NEW i \in Instances, NEW d \in Drivers
        PROVE  Advances(i, d)
    <2>1. /\ Typed /\ locationCache[i][Handler][d] \in Nat /\ d \in Keys
      <3>1. Typed /\ locationCache \in [Instances -> [Objects -> [Keys -> Locations]]]
        BY <1>1 DEF IInv, Typed
      <3>2. Handler \in Objects /\ d \in Keys
        BY HandlerFacts, KeyFacts
      <3>3. locationCache[i][Handler][d] \in Locations
        BY <3>1, <3>2
      <3>4. QED
        BY <3>1, <3>2, <3>3, BoundsAssumption DEF Locations
    <2>2. CASE locationCache'[i][Handler][d] = locationCache[i][Handler][d]
      BY <2>1, <2>2
    <2>3. ASSUME NEW j \in Instances, Deliver(j)
          PROVE  Advances(i, d)
      <3> DEFINE e == Head(inbox[j]).driver
                 l == Head(inbox[j]).location
                 old == locationCache[i][Handler][d]
      <3>1. inbox[j] # <<>> /\ Handle(j, Handler, e, l)
        BY <2>3 DEF Deliver
      <3>2. /\ e \in Keys /\ l \in 1 .. MaxClock
            /\ Head(inbox[j]) = inbox[j][1] /\ 1 \in 1 .. Len(inbox[j])
        BY <2>1, <3>1, MessageFacts
      <3>3. locationCache'[i][Handler][d] = IF i = j /\ d = e THEN l ELSE old
        <4> HIDE DEF e, l, old
        <4>1. \A k \in Instances, x \in Keys :
                  locationCache'[k][Handler][x] =
                      IF k = j /\ x = e THEN l ELSE locationCache[k][Handler][x]
          BY <2>1, <3>1, <3>2, HandlerHandles
        <4>2. QED
          BY <2>1, <4>1 DEF old
      <3>4. CASE i = j /\ d = e
        <4>1. old = 0 \/ old = l \/ Before(published[d], old, l)
          BY <1>1, <3>2, <3>4 DEF IInv, Ordered, OrderedIn
        <4>2. Before(published[d], old, l) => Overtaken(d, l, old)
          BY DEF Before, Overtaken, Publications
        <4>3. old = 0 \/ old = l => l >= old
          BY <2>1, <3>2
        <4>4. locationCache'[i][Handler][d] = l
          BY <3>3, <3>4
        <4>5. QED
          BY <4>1, <4>2, <4>3, <4>4
      <3>5. CASE ~(i = j /\ d = e)
        BY <2>2, <3>3, <3>5
      <3>6. QED
        BY <3>4, <3>5
    <2>4. ASSUME NEW j \in Instances, NEW e \in Drivers, ReportOverSocket(j, e)
          PROVE  Advances(i, d)
      <3>1. /\ Handle(j, "IRealtimeService", e, clock + 1)
            /\ clock + 1 \in 1 .. MaxClock /\ e \in Keys
        BY <2>1, <2>4, Times, KeyFacts DEF ReportOverSocket
      <3>2. locationCache'[i][Handler][d] = locationCache[i][Handler][d]
        BY <2>1, <3>1, SocketHandles
      <3>3. QED
        BY <2>2, <3>2
    <2>5. ASSUME NEW j \in Instances, Crash(j)
          PROVE  Advances(i, d)
      <3>1. CASE i = j
        BY <2>5, <3>1 DEF Crash
      <3>2. CASE i # j
        BY <2>1, <2>2, <2>5, <3>2 DEF Crash, Typed
      <3>3. QED
        BY <3>1, <3>2
    <2>6. ASSUME NEW j \in Instances, NEW e \in Drivers, Load(j, e)
          PROVE  Advances(i, d)
      <3>1. locationCache'[i][Handler][d] = locationCache[i][Handler][d]
        BY <2>1, <2>6, LoadFacts
      <3>2. QED
        BY <2>2, <3>1
    <2>7. CASE locationCache' = locationCache
      BY <2>2, <2>7
    <2>8. QED
      BY <1>1, <2>3, <2>4, <2>5, <2>6, <2>7
         DEF Next, vars, ReportOverHttp, Announce, Follow, Unfollow, RedisPublishes,
             PublishAnswered, Start, Connect, Close, ClosePublisher
  <1>2. IInv /\ [Next]_vars => [\A i \in Instances, d \in Drivers :
            LET old == locationCache[i][Handler][d]
                new == locationCache'[i][Handler][d]
            IN  new >= old \/ Overtaken(d, new, old) \/ i \notin started']_vars
    BY <1>1
  <1>3. QED
    BY <1>2, Invariant, PTL DEF Spec, HandlerCacheAdvances
=============================================================================
