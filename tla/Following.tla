------------------------------ MODULE Following ------------------------------
(***************************************************************************)
(* What the subscription half of RealtimeService promises (realtime-       *)
(* service.port.ts): a client follows at most one driver, the one it asked *)
(* for last; only its own requests take it off a driver; and this instance *)
(* listens to the channel of every driver that somebody follows.           *)
(***************************************************************************)
CONSTANTS Clients, Drivers, None

VARIABLES
    asked,      \* client -> the driver it asked for last, None for no driver
    follows,    \* client -> the driver whose set of followers it is in
    listening   \* the drivers whose channel this instance receives

vars == <<asked, follows, listening>>

Init ==
    /\ asked = [c \in Clients |-> None]
    /\ follows = [c \in Clients |-> None]
    /\ listening = {}

\* A request takes the client off its driver or, if the channel of the new one
\* is already received, straight to it.
Request(c, d) ==
    /\ asked' = [asked EXCEPT ![c] = d]
    /\ \/ follows' = [follows EXCEPT ![c] = None]
       \/ d \in listening /\ follows' = [follows EXCEPT ![c] = d]
    /\ UNCHANGED listening

Serve(c) ==
    /\ asked[c] # None
    /\ follows' = [follows EXCEPT ![c] = asked[c]]
    /\ listening' = listening \cup {asked[c]}
    /\ UNCHANGED asked

Silence(d) ==
    /\ \A c \in Clients : follows[c] # d
    /\ listening' = listening \ {d}
    /\ UNCHANGED <<asked, follows>>

Next ==
    \/ \E c \in Clients, d \in Drivers \cup {None} : Request(c, d)
    \/ \E c \in Clients : Serve(c)
    \/ \E d \in Drivers : Silence(d)

Spec == Init /\ [][Next]_vars
=============================================================================
