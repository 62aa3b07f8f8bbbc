----------------------------- MODULE MCProgress -----------------------------
(***************************************************************************)
(* What must eventually happen: events are delivered, messages are heard,  *)
(* services are healed, the backup target becomes read-only, health        *)
(* requests are answered and requested backups made.                       *)
(* The components do not meet, so a behaviour has one of them at work (its *)
(* scene) while the others stay in their initial state.                    *)
(***************************************************************************)
EXTENDS WriteWindow, HealthCache, Sequences, TLC

CONSTANTS p1, k1, k2, k3, q1, None

VARIABLES scene,
    rows, history, wakes, step, phase, cursor, page, late, woken, mine, got, dropped,
    state, seen, woke, line, token, call, agent, hook, missed, outrun, lapses, turns, faults,
    deploying, disk, current, previous, receipt, file, running, proc, recent, launch, used, slips,
    overtaken,
    held, at, id, todo, gone, snaps, target, capture, local, good, flag, force, source, plan, done,
    record, memory, repo, blank, today, verify, check, enabled, captures, copies, commands, wishes,
    checks, breaks

streamVars == <<rows, history, wakes, step, phase, cursor, page, late, woken, mine, got, dropped>>
inboxVars == <<state, seen, woke, line, token, call, agent, hook, missed, outrun,
               lapses, turns, faults>>
releaseVars == <<deploying, disk, current, previous, receipt, file, running, proc, recent,
                 launch, used, slips, overtaken>>
backupVars == <<held, at, id, todo, gone, snaps, target, capture, local, good, flag, force, source,
                plan, done, record, memory, repo, blank, today, verify, check, enabled, captures, copies,
                commands, wishes, checks, breaks>>
vars == <<scene, streamVars, inboxVars, releaseVars, windowVars, cacheVars,
          backupVars>>

Feed == INSTANCE FleetStream WITH
    Key <- {k1, k2, k3}, Lasting <- {k1}, PageSize <- 4, MaxEvents <- 3
Mail == INSTANCE Inbox WITH
    Req <- {q1}, Ack <- {}, Fyi <- {}, MaxLapses <- 1, MaxTurns <- 1, MaxFaults <- 1
Services == INSTANCE Release WITH
    Cli <- {p1}, Launch <- {}, Ops <- {"rebuild", "heal"}, Scopes <- {"full", "frontend"},
    Inside <- {None}, HealsIn <- None,
    Commit <- {1}, Ancestry <- {}, MaxBuilds <- 3, MaxSlips <- 2
OwnServices == INSTANCE Release WITH
    Cli <- {p1}, Launch <- {}, Ops <- {"rebuild", "heal"}, Scopes <- {"full", "frontend"},
    Inside <- {None, "backend"}, HealsIn <- "backend",
    Commit <- {1}, Ancestry <- {}, MaxBuilds <- 3, MaxSlips <- 2
Backups == INSTANCE HostBackup WITH
    Subvol <- {"home"}, Stream <- {"dump"}, Guest <- {}, LegacyAfter <- 1,
    JobOrder <- <<"home", "dump">>, MaxRuns <- 4, MaxCopies <- 4, Reserve <- 3,
    MaxCommands <- 1, MaxRequests <- 1, MaxChecks <- 0, MaxFaults <- 1,
    lock <- held, where <- at, state <- record, runs <- captures, requests <- wishes, faults <- breaks

Init ==
    /\ scene \in {"stream", "inbox", "services", "own", "window", "health", "backups"}
    /\ Feed!StreamInit /\ Mail!InboxInit /\ Services!ReleaseInit /\ WindowInit /\ CacheInit
    /\ Backups!BackupInit
    /\ used = IF scene \in {"services", "own"} THEN 2 ELSE 0

Next ==
    \/ /\ scene = "stream" /\ Feed!StreamNext
       /\ UNCHANGED <<scene, inboxVars, releaseVars, windowVars, cacheVars, backupVars>>
    \/ /\ scene = "inbox" /\ Mail!InboxNext
       /\ UNCHANGED <<scene, streamVars, releaseVars, windowVars, cacheVars, backupVars>>
    \/ /\ \/ scene = "services" /\ Services!ReleaseNext
          \/ scene = "own" /\ OwnServices!ReleaseNext
       /\ UNCHANGED <<scene, streamVars, inboxVars, windowVars, cacheVars, backupVars>>
    \/ /\ scene = "window" /\ WindowNext
       /\ UNCHANGED <<scene, streamVars, inboxVars, releaseVars, cacheVars, backupVars>>
    \/ /\ scene = "health" /\ CacheNext
       /\ UNCHANGED <<scene, streamVars, inboxVars, releaseVars, windowVars, backupVars>>
    \/ /\ scene = "backups" /\ Backups!BackupNext
       /\ UNCHANGED <<scene, streamVars, inboxVars, releaseVars, windowVars, cacheVars>>

(* The fairness of each component's FairSpec, in its scene. *)
Fairness ==
    /\ WF_streamVars(scene = "stream" /\ Feed!Wait)
    /\ WF_streamVars(scene = "stream" /\ Feed!DeadlinePasses)
    /\ SF_streamVars(scene = "stream" /\ Feed!ReaderStep)
    /\ \A c \in Mail!Caller : WF_inboxVars(scene = "inbox" /\ Mail!WakeStep(c))
    /\ WF_inboxVars(scene = "inbox" /\ \E closes \in BOOLEAN : Mail!Settle(q1, closes))
    /\ WF_inboxVars(scene = "inbox" /\ Mail!Watch)
    /\ WF_inboxVars(scene = "inbox" /\ Mail!Deliver)
    /\ WF_inboxVars(scene = "inbox" /\ Mail!HookStep)
    /\ WF_inboxVars(scene = "inbox" /\ Mail!Stop)
    /\ WF_releaseVars(scene \in {"services", "own"} /\ Services!RebuildStep(p1))
    /\ WF_releaseVars(scene \in {"services", "own"} /\ Services!OntoStep(p1))
    /\ SF_releaseVars(\/ scene = "services" /\ Services!Heal(p1, None, FALSE)
                      \/ scene = "own" /\ OwnServices!Heal(p1, "backend", FALSE))
    /\ \A u \in Services!Unit :
          WF_releaseVars(scene \in {"services", "own"} /\ Services!CooldownOver(u))
    /\ WF_windowVars(scene = "window" /\ Guard(TRUE))
    /\ \A p \in Proc : WF_windowVars(scene = "window" /\ Expire(p))
    /\ WF_windowVars(scene = "window" /\ \E c \in strays : RunsLate(c))
    /\ WF_cacheVars(scene = "health" /\ \E ok \in BOOLEAN : FetchEnds(ok))
    /\ WF_cacheVars(scene = "health" /\ CancelEnds)
    /\ \A r \in Client : WF_cacheVars(scene = "health" /\ Resume(r))
    /\ WF_backupVars(/\ scene = "backups"
                     /\ Backups!StartUnit \/ Backups!CopyStep \/ Backups!CaptureStep("unit"))
    /\ WF_backupVars(scene = "backups" /\ Backups!CaptureStep("cmd"))

Spec == Init /\ [][Next]_vars /\ Fairness

-----------------------------------------------------------------------------
(* A reader that keeps waiting gets every event, in order and each once:   *)
(* a sequence names one event for good, and lost wakes, retries and        *)
(* retention pass over nothing, unless a deadline throws away what a wait  *)
(* had read (fleet_events).                                                *)
StreamDelivers ==
    /\ [](Feed!SequenceNamesOneEvent /\ Feed!SkippedOnlyByDeadline)
    /\ Feed!EventDelivered

(* Every request is shown, answered or taken back (coord_deliver).         *)
Heard == Mail!Heard

(* A unit on another release than the live one does not stay there         *)
(* (service_heal) while scheduled heals run, the one they run inside       *)
(* excepted.                                                               *)
Healed == (scene = "services" => Services!Healed) /\ OwnServices!Healed

(* Whoever is inside the window can write while the helper has not failed, *)
(* and the backup target becomes read-only again (backup write window).    *)
WindowFollowsWriters == []InsideCanWrite /\ ReadOnlyAgain

(* Every health request is answered, however the refresh ends, and not     *)
(* with a snapshot older than the TTL.                                     *)
AnsweredInTime == []AnswerIsCurrent /\ Answered

(* A request is followed by a copy that began after it, whatever the first *)
(* run that meets it runs into, unless it was made in the middle of one;   *)
(* and no copy stays marked as running (backup_run).                       *)
RequestServed == Backups!RequestServed
=============================================================================
