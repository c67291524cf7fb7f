-------------------------- MODULE MCLocationService --------------------------
(* Small instances of LocationService for TLC. *)
EXTENDS LocationService, TLC
=============================================================================
