--------------------------- MODULE MCDriverGateway ---------------------------
(* Small instances of DriverGateway for TLC. *)
EXTENDS DriverGateway, TLC

CONSTANTS d1, d2, j1, j2

\* A token for each of two drivers.
MCDriverOf == (j1 :> d1) @@ (j2 :> d2)
=============================================================================
