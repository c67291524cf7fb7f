--------------------------- MODULE MCClientGateway ---------------------------
(* Small instances of ClientGateway for TLC. *)
EXTENDS ClientGateway, TLC

\* Sound for safety only.
Symmetry ==
    Permutations(Clients) \cup Permutations(Drivers) \cup Permutations(TimerIds)
        \cup Permutations(Tasks)
=============================================================================
