------------------------------- MODULE MCHost -------------------------------
(***************************************************************************)
(* What runs on a host: the roots of a fleet (FleetRoot), the event stream *)
(* of one of them (FleetStream), the services of a released project        *)
(* (Release) and the backup (HostBackup).  A behaviour plays one scene     *)
(* while the other components stay in their initial state: two leads of    *)
(* one target and a support root of the first, a reader whose backlog is   *)
(* more than one page, what the commands of a release are, with its        *)
(* scopes, commits and builds (commit 2 contains commit 1), or backups of  *)
(* two subvolumes, a dump and a guest.                                     *)
(***************************************************************************)
EXTENDS FleetRoot, FleetStream, Release, HostBackup, TLC

CONSTANTS lead, other, support, shared, facet

VARIABLE scene

SupportOf == support :> lead
CommitAncestry == {<<2, 1>>}
Jobs == <<"home", "projects", "dump", "guest">>
Allocations == (lead :> shared) @@ (other :> shared) @@ (support :> facet)

Deploying == INSTANCE Release WITH
    Ops <- {"rebuild", "start", "stop"}, Scopes <- {"full"}, Launch <- {}, MaxBuilds <- 4
Pruning == INSTANCE Release WITH
    Ops <- {"rebuild", "restart"}, Scopes <- {"backend", "manual"}, Launch <- {}, Commit <- {1}
Healing == INSTANCE Release WITH
    Ops <- {"rebuild", "heal"}, Scopes <- {"full", "frontend"}, Launch <- {}, Commit <- {1},
    MaxBuilds <- 4
Nested == INSTANCE Release WITH
    Ops <- {"rebuild", "heal"}, Scopes <- {"backend"}, Launch <- {}, Commit <- {1},
    MaxBuilds <- 4, Inside <- {None, "backend"}
Launching == INSTANCE Release WITH
    Ops <- {"rebuild"}, Scopes <- {"full"}, Commit <- {1}
Capturing == INSTANCE HostBackup WITH
    MaxRuns <- 3, MaxCopies <- 0, MaxChecks <- 0, MaxFaults <- 2

Symmetry == Permutations(Proc) \cup Permutations(Cli)

Releases == {"deploying", "pruning", "healing", "nested", "launching"}

ScenesInit ==
    /\ scene \in {"fleet", "pages", "capturing", "copying"} \cup Releases
    /\ Init /\ StreamInit /\ ReleaseInit
    /\ scene \notin Releases => used = 0
    /\ scene \in {"deploying", "nested"} => used = 2
    /\ scene \in Releases \ {"deploying"} => \A b \in disk : receipt[b].commit = 1
    /\ IF scene = "capturing" THEN Capturing!BackupInit ELSE BackupInit
    /\ scene # "copying" => enabled = Guest

ScenesNext ==
    /\ UNCHANGED scene
    /\ \/ scene = "fleet" /\ Next /\ UNCHANGED <<streamVars, releaseVars, backupVars>>
       \/ scene = "pages" /\ StreamNext /\ UNCHANGED <<vars, releaseVars, backupVars>>
       \/ scene = "deploying" /\ Deploying!ReleaseNext /\ UNCHANGED <<vars, streamVars, backupVars>>
       \/ scene = "pruning" /\ Pruning!ReleaseNext /\ UNCHANGED <<vars, streamVars, backupVars>>
       \/ scene = "healing" /\ Healing!ReleaseNext /\ UNCHANGED <<vars, streamVars, backupVars>>
       \/ scene = "nested" /\ Nested!ReleaseNext /\ UNCHANGED <<vars, streamVars, backupVars>>
       \/ scene = "launching" /\ Launching!ReleaseNext /\ UNCHANGED <<vars, streamVars, backupVars>>
       \/ scene = "capturing" /\ Capturing!BackupNext /\ UNCHANGED <<vars, streamVars, releaseVars>>
       \/ scene = "copying" /\ BackupNext /\ UNCHANGED <<vars, streamVars, releaseVars>>

ScenesSpec == ScenesInit /\ [][ScenesNext]_<<scene, vars, streamVars, releaseVars, backupVars>>
=============================================================================
