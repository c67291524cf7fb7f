--------------------------- MODULE MCRedisDelivery ---------------------------
(* Small instances of RedisDelivery for TLC. *)
EXTENDS RedisDelivery, TLC

\* The fingerprint of a state leaves out what has no bearing on the rest of it, and
\* of which the properties of run Redis read the type only: what is cached for the
\* gateways, what they can load, and what is cached under the name of the general
\* channel.
Seen ==
    <<[i \in Instances |-> [d \in Drivers |-> locationCache[i][Handler][d]]],
      clock, followed, redis, publisher, unannounced, connections>>

\* Sound for safety only.
Symmetry == Permutations(Instances) \cup Permutations(Drivers)
=============================================================================
