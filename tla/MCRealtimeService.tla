-------------------------- MODULE MCRealtimeService --------------------------
(* Small instances of RealtimeService for TLC. *)
EXTENDS RealtimeService, TLC

\* Clients, drivers and calls are interchangeable: sound for safety only.
Symmetry == Permutations(Clients) \cup Permutations(Drivers) \cup Permutations(Calls)
=============================================================================
