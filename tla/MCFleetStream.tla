--------------------------- MODULE MCFleetStream ---------------------------
(* Small instances of FleetStream.                                         *)
EXTENDS FleetStream
============================================================================
