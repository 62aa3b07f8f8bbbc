-------------------------- MODULE MCTaskLifecycle --------------------------
(***************************************************************************)
(* Small instances of TaskLifecycle in three scenes, one of which a        *)
(* behaviour plays: two workers on implementation work, two processes of   *)
(* one worker, and two workers on record-only work.                        *)
(***************************************************************************)
EXTENDS TaskLifecycle, TLC

CONSTANTS p1, p2, a, b, s1, s2

VARIABLE scene

TwoWorkers == p1 :> a @@ p2 :> b
OneWorker == p1 :> a @@ p2 :> a

Apart == INSTANCE TaskLifecycle WITH
    WorkerOf <- TwoWorkers, Landed <- {}, Required <- TRUE,
    MaxClaims <- 2, MaxRequests <- 2, MaxStops <- 1
Shared == INSTANCE TaskLifecycle WITH
    WorkerOf <- OneWorker, Landed <- {s2}, Required <- TRUE, MaxClaims <- 2, MaxRequests <- 1, MaxStops <- 0
Record == INSTANCE TaskLifecycle WITH
    WorkerOf <- TwoWorkers, Landed <- {s1}, Required <- FALSE,
    MaxClaims <- 3, MaxRequests <- 0, MaxStops <- 1

ScenesInit == scene \in {"apart", "shared", "record"} /\ Init

ScenesNext ==
    /\ UNCHANGED scene
    /\ \/ scene = "apart" /\ Apart!Next
       \/ scene = "shared" /\ Shared!Next
       \/ scene = "record" /\ Record!Next

ScenesSpec == ScenesInit /\ [][ScenesNext]_<<scene, vars>>
============================================================================
