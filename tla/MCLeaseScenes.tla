--------------------------- MODULE MCLeaseScenes ---------------------------
(***************************************************************************)
(* CoordStore in three scenes, one of which a behaviour plays: what the    *)
(* processes may ask, and how much time and how many faults there are.     *)
(***************************************************************************)
EXTENDS MCCoordStore

VARIABLE scene

Table == INSTANCE CoordStore WITH
    Requests <- LeaseRequests, MaxCalls <- OneCallEach, MaxTime <- 1, MaxFaults <- 0
Writers == INSTANCE CoordStore WITH
    Requests <- WriterRequests, MaxCalls <- OneCallEach, MaxTime <- 1, MaxFaults <- 1
Marks == INSTANCE CoordStore WITH
    Requests <- MarkRequests, MaxCalls <- MainCallsTwice, MaxTime <- 0, MaxFaults <- 1

ScenesInit == scene \in {"table", "writers", "marks"} /\ Init

ScenesNext ==
    /\ UNCHANGED scene
    /\ \/ scene = "table" /\ Table!Next
       \/ scene = "writers" /\ Writers!Next
       \/ scene = "marks" /\ Marks!Next

ScenesSpec == ScenesInit /\ [][ScenesNext]_<<scene, vars>>
============================================================================
