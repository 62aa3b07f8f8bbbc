------------------------------ MODULE Release ------------------------------
(***************************************************************************)
(* Deployment of one managed project on this host: the releases on disk,   *)
(* the `current` and `previous` pointers, the unit files that name a       *)
(* release, the release every unit's process runs from, and the commands   *)
(* that change them.                                                       *)
(*   cli/lib/service_release.py  releases, receipts, pointers, pruning     *)
(*   cli/commands/service.py     st service rebuild and restart            *)
(*   cli/lib/service_heal.py     st service heal                           *)
(*   cli/lib/service_ops.py      unit files, restarts, start and stop      *)
(*   scripts/st                  the launcher that runs `current`          *)
(*                                                                         *)
(* A build is a release directory and its receipt.  "backend" stands for   *)
(* one unit out of the backend and the workers restarted with it,          *)
(* "frontend" for the page, "manual" for a worker a rebuild restarts only  *)
(* when it is named.  A command may run inside one of these units, as the  *)
(* scheduled heal does inside a worker of summitflow itself: it does not   *)
(* restart that unit.                                                      *)
(* rebuild and heal hold the deployment lock, a lock of a process's open   *)
(* file that its death releases; start, stop and the launcher do not.      *)
(***************************************************************************)
EXTENDS Naturals, Sequences, FiniteSets

CONSTANTS Cli,        \* processes that run the commands
          Launch,     \* runs of the st launcher
          Ops,        \* commands the processes run
          Scopes,     \* scopes rebuilds are asked for
          Inside,     \* units commands run inside; None: none of this project's
          HealsIn,    \* ... and the one the scheduled heal runs inside
          Commit,     \* accepted commits
          Ancestry,   \* <<c, d>>: commit c contains commit d
          MaxBuilds,  \* bound: releases ever made
          MaxSlips,   \* bound: failed steps, unexpected errors, killed processes
          None

Build == 1 .. MaxBuilds
Unit == {"backend", "frontend", "manual"}
Scope == {"full", "backend", "frontend", "manual"}
StCommand == {"rebuild", "restart", "heal", "start", "stop"}

ASSUME ReleaseAssumption ==
    /\ Ops \subseteq StCommand /\ Scopes \subseteq Scope
    /\ Inside \subseteq Unit \union {None} /\ HealsIn \in Inside
    /\ None \notin Cli /\ None \notin Build /\ None \notin Unit
    /\ None \notin Scope /\ None \notin StCommand
    /\ MaxBuilds \in Nat /\ MaxSlips \in Nat

Services == Unit \ {"manual"}

\* Units a rebuild renders, and the ones it restarts.
Rendered(scope) == IF scope = "manual" THEN {"manual"} ELSE Services
Restarted(scope) ==
    CASE scope = "full" -> Services
      [] scope = "backend" -> {"backend"}
      [] scope = "frontend" -> {"frontend"}
      [] scope = "manual" -> {"manual"}
HasBackend(scope) == scope \in {"full", "backend"}

Only(u, S) == IF u \in S THEN <<u>> ELSE <<>>
InOrder(S) == Only("backend", S) \o Only("frontend", S) \o Only("manual", S)

Idle == [pc |-> "idle", op |-> None, build |-> None, scope |-> None, commit |-> None,
         back |-> FALSE, todo |-> <<>>, done |-> {}, rels |-> {}, doom |-> None, errs |-> FALSE,
         own |-> None]
NoReceipt == [state |-> "none", commit |-> None, scope |-> None, migrated |-> FALSE,
              verified |-> FALSE, prev |-> None, rollback |-> "none"]
NoLaunch == [at |-> "idle", build |-> None, pointed |-> FALSE]

VARIABLES deploying, \* holder of deployment.lock
          disk,      \* release directories that exist
          current, previous,  \* the two pointers
          receipt,   \* receipts by build
          file,      \* the release each unit file names
          running,   \* the release each unit's process runs from
          proc,      \* the command each process is in
          recent,    \* units self-heal restarted within the cooldown
          launch,    \* launcher runs
          used,      \* builds made so far
          slips,
          overtaken  \* st service start rendered a release no longer live

rel == <<disk, current, previous, receipt>>
releaseVars == <<deploying, rel, file, running, proc, recent, launch, used, slips, overtaken>>

Slip == slips < MaxSlips /\ slips' = slips + 1
NoSlip == UNCHANGED slips
May(ok) == IF ok THEN NoSlip ELSE Slip

\* A command begins inside a unit whose process is there (INVOCATION_ID).  When
\* that process is stopped under it, the command ends as in Die.
Begins(own) == own \in Inside /\ (own # None => running[own] # None)

GoesOn(p, pc) == proc' = [proc EXCEPT ![p].pc = pc]
Leaves(p) == /\ proc' = [proc EXCEPT ![p] = Idle]
             /\ deploying' = IF deploying = p THEN None ELSE deploying

\* fail_release: the receipt of p's release says failed and p exits.
FailWith(p, r) ==
    /\ receipt' = [receipt EXCEPT ![proc[p].build] = [r EXCEPT !.state = "failed"]]
    /\ Leaves(p)
Fail(p) == FailWith(p, receipt[proc[p].build])

-----------------------------------------------------------------------------
(* st service rebuild. *)

\* deployment_lock: a held lock refuses the rebuild at once.
Rebuild(p, own, scope, c, back) ==
    /\ "rebuild" \in Ops /\ proc[p] = Idle /\ deploying = None /\ used < MaxBuilds
    /\ Begins(own)
    /\ deploying' = p
    /\ proc' = [proc EXCEPT ![p] = [Idle EXCEPT !.pc = "prepare", !.op = "rebuild", !.own = own,
                                    !.scope = scope, !.commit = c, !.back = back]]
    /\ UNCHANGED <<rel, file, running, recent, launch, used, slips, overtaken>>

\* Mutant: commits on one line of history, whichever is older.
ForwardEither(c) ==
    current # None => LET live == receipt[current].commit IN
                      live = c \/ {<<c, live>>, <<live, c>>} \cap Ancestry # {}

\* require_forward_deploy: the live release's commit is in the new one.
Forward(c) ==
    current # None => LET live == receipt[current].commit IN
                      live = c \/ <<c, live>> \in Ancestry

\* prepare_release: forward check and _materialize_release's directory.
Prepare(p) ==
    LET b == used + 1 IN
    /\ proc[p].pc = "prepare"
    /\ proc[p].back \/ Forward(proc[p].commit)
    /\ disk' = disk \union {b}
    /\ used' = b
    /\ proc' = [proc EXCEPT ![p].pc = "receipt", ![p].build = b]
    /\ UNCHANGED <<deploying, current, previous, receipt, file, running, recent,
                   launch, slips, overtaken>>

Refuse(p) ==
    /\ proc[p].pc = "prepare"
    /\ ~proc[p].back /\ ~Forward(proc[p].commit)
    /\ Leaves(p)
    /\ UNCHANGED <<rel, file, running, recent, launch, used, slips, overtaken>>

\* ... and its receipt; mark_phase deployment_scope.
WriteReceipt(p) ==
    /\ proc[p].pc = "receipt"
    /\ receipt' = [receipt EXCEPT ![proc[p].build] =
          [NoReceipt EXCEPT !.state = "prepared", !.commit = proc[p].commit,
                            !.scope = proc[p].scope, !.prev = current]]
    /\ GoesOn(p, "build")
    /\ UNCHANGED <<deploying, disk, current, previous, file, running, recent, launch,
                   used, slips, overtaken>>

\* The steps of _release_steps up to the migrations, which only a rebuild of
\* the backend runs.
BuildSteps(p, ok) ==
    /\ proc[p].pc = "build" /\ May(ok)
    /\ \/ ok /\ GoesOn(p, IF HasBackend(proc[p].scope) THEN "migrate" ELSE "units")
             /\ UNCHANGED <<deploying, receipt>>
       \/ ~ok /\ Fail(p)
    /\ UNCHANGED <<disk, current, previous, file, running, recent, launch, used,
                   overtaken>>

Migrate(p, ok) ==
    /\ proc[p].pc = "migrate" /\ May(ok)
    /\ \/ /\ ok
          /\ receipt' = [receipt EXCEPT ![proc[p].build].migrated = TRUE]
          /\ GoesOn(p, "units") /\ UNCHANGED deploying
       \/ ~ok /\ Fail(p)
    /\ UNCHANGED <<disk, current, previous, file, running, recent, launch, used,
                   overtaken>>

\* sync_systemd_units: the units of S name b.
Render(S, b) == file' = [u \in Unit |-> IF u \in S THEN b ELSE file[u]]

\* When the manager refuses the reload the files are already written; the
\* previous ones are restored before the release fails.
SyncUnits(p, ok) ==
    /\ proc[p].pc = "units" /\ May(ok)
    /\ Render(Rendered(proc[p].scope), proc[p].build)
    /\ GoesOn(p, IF ok THEN "late" ELSE "restore")
    /\ UNCHANGED <<deploying, rel, running, recent, launch, used, overtaken>>

\* release_install and host_monitor_policy, the steps of a backend rebuild
\* after the unit files: _run_release_steps restores nothing when one fails.
LateSteps(p, ok) ==
    /\ proc[p].pc = "late" /\ May(ok)
    /\ ok \/ HasBackend(proc[p].scope)
    /\ \/ /\ ok
          /\ proc' = [proc EXCEPT ![p].pc = "restart",
                                  ![p].todo = InOrder(Restarted(proc[p].scope))]
          /\ UNCHANGED <<deploying, receipt>>
       \/ ~ok /\ Fail(p)
    /\ UNCHANGED <<disk, current, previous, file, running, recent, launch, used,
                   overtaken>>

\* What the manager starts for a unit: the release its file names.
Started(u) == IF file[u] \in disk THEN file[u] ELSE None

\* restart_service for a command that runs inside own: its own unit is left as
\* it is ("skipping current unit"); another is stopped, started and its process
\* attested.  A failure before the stop leaves the old process, one before the
\* start none, one of the attestation the new process.
RestartService(own, u, ok) ==
    \E r \in (IF u = own THEN {running[u]}
              ELSE IF ok THEN {Started(u)} ELSE {running[u], None, Started(u)}) :
        running' = [running EXCEPT ![u] = r]

\* _restart_services: every selected unit, whatever the others returned.
RestartOne(p, ok) ==
    LET u == Head(proc[p].todo) IN
    /\ proc[p].pc = "restart" /\ proc[p].todo # <<>> /\ May(ok)
    /\ RestartService(proc[p].own, u, ok)
    /\ proc' = [proc EXCEPT ![p].todo = Tail(@),
                            ![p].errs = @ \/ ~ok \/ (u # proc[p].own /\ running'[u] # proc[p].build)]
    /\ UNCHANGED <<deploying, rel, file, recent, launch, used, overtaken>>

\* _verify_and_seed: health attests the processes of the selected units.  The
\* unit left as it is fails this when it is the backend; of a worker only its
\* being active is asked.
Verify(p, ok) ==
    LET b == proc[p].build
        own == proc[p].own
        S == Restarted(proc[p].scope)
        healthy == \A u \in S : running[u] = b \/ (u = own /\ running[u] # None) IN
    /\ proc[p].pc = "restart" /\ proc[p].todo = <<>>
    /\ IF proc[p].errs \/ ~healthy THEN ~ok /\ NoSlip ELSE May(ok \/ own \in S)
    /\ \/ ok /\ receipt' = [receipt EXCEPT ![b].verified = TRUE] /\ GoesOn(p, "refs")
       \/ ~ok /\ GoesOn(p, "restore") /\ UNCHANGED receipt
    /\ UNCHANGED <<deploying, disk, current, previous, file, running, recent, launch,
                   used, overtaken>>

\* _restore_previous_units, then fail_release.
Restore(p, ok) ==
    LET r == receipt[proc[p].build]
        there == r.prev # None /\ r.prev \in disk
        note == IF r.prev = None THEN "unavailable"
                ELSE IF there /\ ok THEN "restored" ELSE "failed" IN
    /\ proc[p].pc = "restore"
    /\ IF there THEN May(ok) ELSE ok /\ NoSlip
    /\ IF there THEN Render(Rendered(proc[p].scope), r.prev) ELSE UNCHANGED file
    /\ FailWith(p, [r EXCEPT !.rollback = note])
    /\ UNCHANGED <<disk, current, previous, running, recent, launch, used, overtaken>>

\* release_references_for_services, process_release_references.
FileReferences == {file[u] : u \in Unit} \ {None}
ProcessReferences == {running[u] : u \in Unit} \ {None}

\* Mutant: pruning trusts the unit files alone.
ReferencesOfFiles == FileReferences

References == FileReferences \union ProcessReferences

\* A source that cannot be read protects everything.
Refer(p, ok) ==
    /\ proc[p].pc = "refs" /\ May(ok)
    /\ proc' = [proc EXCEPT ![p].pc = "previous",
                            ![p].rels = IF ok THEN References ELSE disk]
    /\ UNCHANGED <<deploying, rel, file, running, recent, launch, used, overtaken>>

\* complete_release: the previous pointer, the current one, the receipt.
PointPrevious(p) ==
    /\ proc[p].pc = "previous"
    /\ previous' = IF current = None THEN previous ELSE current
    /\ GoesOn(p, "current")
    /\ UNCHANGED <<deploying, disk, current, receipt, file, running, recent, launch,
                   used, slips, overtaken>>

PointCurrent(p) ==
    /\ proc[p].pc = "current"
    /\ current' = proc[p].build
    /\ GoesOn(p, "record")
    /\ UNCHANGED <<deploying, disk, previous, receipt, file, running, recent, launch,
                   used, slips, overtaken>>

\* What prune_old_releases may remove: nothing when a reference leads to no
\* release.
Candidates(p) ==
    IF proc[p].rels \subseteq disk
    THEN disk \ ({proc[p].build, current, previous} \union proc[p].rels)
    ELSE {}

RecordSuccess(p) ==
    /\ proc[p].pc = "record"
    /\ receipt' = [receipt EXCEPT ![proc[p].build].state = "succeeded"]
    /\ proc' = [proc EXCEPT ![p].pc = "prune", ![p].rels = Candidates(p)]
    /\ UNCHANGED <<deploying, disk, current, previous, file, running, recent, launch,
                   used, slips, overtaken>>

\* _release_in_use: some launcher holds its shared lock on b.
InUse(b) == \E l \in Launch : launch[l].at = "running" /\ launch[l].build = b

\* prune_old_releases looks at a candidate and then removes it; doom is the
\* candidate it is about to remove.
Probe(p, b) ==
    /\ proc[p].pc = "prune" /\ proc[p].doom = None /\ b \in proc[p].rels
    /\ proc' = [proc EXCEPT ![p].rels = @ \ {b},
                            ![p].doom = IF InUse(b) THEN None ELSE b]
    /\ UNCHANGED <<deploying, rel, file, running, recent, launch, used, slips,
                   overtaken>>

RemoveRelease(p, ok) ==
    /\ proc[p].pc = "prune" /\ proc[p].doom # None /\ May(ok)
    /\ disk' = disk \ {proc[p].doom}
    /\ proc' = [proc EXCEPT ![p].doom = None, ![p].rels = IF ok THEN @ ELSE {}]
    /\ UNCHANGED <<deploying, current, previous, receipt, file, running, recent,
                   launch, used, overtaken>>

EndRebuild(p) ==
    /\ proc[p].pc = "prune" /\ proc[p].doom = None /\ proc[p].rels = {}
    /\ Leaves(p)
    /\ UNCHANGED <<rel, file, running, recent, launch, used, slips, overtaken>>

-----------------------------------------------------------------------------
(* st service restart and st service heal. *)

\* _restart_in_place: what it decides from the live release, before the lock.
InPlace(p, own, scope) ==
    /\ "restart" \in Ops /\ proc[p] = Idle /\ current # None /\ Begins(own)
    /\ scope \in Scopes \ {"manual"}
    /\ HasBackend(scope) => receipt[current].migrated
    /\ proc' = [proc EXCEPT ![p] = [Idle EXCEPT !.pc = "ask", !.op = "restart", !.own = own,
                                    !.todo = InOrder(Restarted(scope))]]
    /\ UNCHANGED <<deploying, rel, file, running, recent, launch, used, slips,
                   overtaken>>

LockInPlace(p) ==
    /\ proc[p].pc = "ask"
    /\ IF deploying = None THEN deploying' = p /\ GoesOn(p, "onto") ELSE Leaves(p)
    /\ UNCHANGED <<rel, file, running, recent, launch, used, slips, overtaken>>

\* expected_on_current: the units the live release's rebuild restarted.
Expected == Restarted(receipt[current].scope) \ {"manual"}

\* _page_problem: no page, or one that answers wrongly, beside a healthy
\* backend.
PageDown(page) == running["backend"] # None /\ (running["frontend"] = None \/ page)

\* find_problems: a process on a removed release, one on another release than
\* the current one, a page that is down.
Problem(u, page) ==
    \/ running[u] # None /\ running[u] \notin disk
    \/ running[u] # None /\ running[u] # current /\ u \in Expected
    \/ u = "frontend" /\ PageDown(page)

\* migrations_cover: the backend moves only onto a release that ran them.
Restartable(u) == u # "manual" /\ (u = "backend" => receipt[current].migrated)

\* Mutant: heal decides before it has the lock, as st service restart does.
HealUnlocked(p, own, page) ==
    LET todo == {u \in Unit : Problem(u, page) /\ Restartable(u)} \ recent IN
    /\ "heal" \in Ops /\ proc[p] = Idle /\ current # None /\ Begins(own)
    /\ May(~page)
    /\ todo # {}
    /\ proc' = [proc EXCEPT ![p] = [Idle EXCEPT !.pc = "ask", !.op = "heal", !.own = own,
                                    !.todo = InOrder(todo)]]
    /\ UNCHANGED <<deploying, rel, file, running, recent, launch, used, overtaken>>

\* heal_project, to the list of units it restarts; page says that a page that
\* runs answers wrongly.
Heal(p, own, page) ==
    LET todo == {u \in Unit : Problem(u, page) /\ Restartable(u)} \ recent IN
    /\ "heal" \in Ops /\ proc[p] = Idle /\ deploying = None /\ current # None /\ Begins(own)
    /\ May(~page)
    /\ todo # {}
    /\ deploying' = p
    /\ proc' = [proc EXCEPT ![p] = [Idle EXCEPT !.pc = "onto", !.op = "heal", !.own = own,
                                    !.todo = InOrder(todo)]]
    /\ UNCHANGED <<rel, file, running, recent, launch, used, overtaken>>

\* restart_onto_current looks at the unit's file ...
NamesCurrent(u) == file[u] \in {None, current}
CheckFile(p) ==
    /\ proc[p].pc = "onto" /\ proc[p].todo # <<>>
    /\ IF NamesCurrent(Head(proc[p].todo))
       THEN GoesOn(p, "go")
       ELSE proc' = [proc EXCEPT ![p].todo = Tail(@)]
    /\ UNCHANGED <<deploying, rel, file, running, recent, launch, used, slips,
                   overtaken>>

\* ... and restarts it.
RestartOnto(p, ok) ==
    LET u == Head(proc[p].todo) IN
    /\ proc[p].pc = "go" /\ May(ok)
    /\ RestartService(proc[p].own, u, ok)
    /\ proc' = [proc EXCEPT ![p].pc = "onto", ![p].todo = Tail(@), ![p].done = @ \union {u}]
    /\ UNCHANGED <<deploying, rel, file, recent, launch, used, overtaken>>

\* The restart log, which the cooldown of later heals reads.
LogRestarts(p) ==
    /\ proc[p].pc = "onto" /\ proc[p].todo = <<>>
    /\ recent' = IF proc[p].op = "heal" THEN recent \union proc[p].done ELSE recent
    /\ Leaves(p)
    /\ UNCHANGED <<rel, file, running, launch, used, slips, overtaken>>

\* Mutant: the cooldown never ends.
CooldownNever(u) == FALSE /\ UNCHANGED releaseVars

CooldownOver(u) ==
    /\ u \in recent
    /\ recent' = recent \ {u}
    /\ UNCHANGED <<deploying, rel, file, running, proc, launch, used, slips, overtaken>>

-----------------------------------------------------------------------------
(* st service start and stop, which take no lock; the manager; st. *)

StartRead(p) ==
    /\ "start" \in Ops /\ proc[p] = Idle /\ current # None
    /\ proc' = [proc EXCEPT ![p] = [Idle EXCEPT !.pc = "render", !.op = "start",
                                    !.build = current]]
    /\ UNCHANGED <<deploying, rel, file, running, recent, launch, used, slips,
                   overtaken>>

\* A release that is gone has no templates, so nothing is rendered.
StartRender(p) ==
    /\ proc[p].pc = "render"
    /\ IF proc[p].build \in disk THEN Render(Services, proc[p].build) ELSE UNCHANGED file
    /\ overtaken' = (overtaken \/ proc[p].build \in disk \ {current})
    /\ GoesOn(p, "start")
    /\ UNCHANGED <<deploying, rel, running, recent, launch, used, slips>>

StartServices(p) ==
    /\ proc[p].pc = "start"
    /\ running' = [u \in Unit |->
                      IF u \in Services /\ running[u] = None THEN Started(u) ELSE running[u]]
    /\ Leaves(p)
    /\ UNCHANGED <<rel, file, recent, launch, used, slips, overtaken>>

StopServices(p) ==
    /\ "stop" \in Ops /\ proc[p] = Idle
    /\ \E u \in Services : running[u] # None
    /\ running' = [u \in Unit |-> IF u \in Services THEN None ELSE running[u]]
    /\ UNCHANGED <<deploying, rel, file, proc, recent, launch, used, slips, overtaken>>

\* A unit's process ends and the manager starts it again from its file.
Respawn(u) ==
    /\ running[u] # None /\ running[u] # file[u] /\ Started(u) # None
    /\ running' = [running EXCEPT ![u] = Started(u)]
    /\ UNCHANGED <<deploying, rel, file, proc, recent, launch, used, slips, overtaken>>

\* scripts/st resolves current, then locks what it resolved, then runs it.
Resolve(l) ==
    /\ launch[l] = NoLaunch /\ current # None
    /\ launch' = [launch EXCEPT ![l] = [at |-> "resolved", build |-> current, pointed |-> FALSE]]
    /\ UNCHANGED <<deploying, rel, file, running, proc, recent, used, slips, overtaken>>

Exec(l) ==
    LET b == launch[l].build IN
    /\ launch[l].at = "resolved"
    /\ launch' = [launch EXCEPT ![l] =
          IF b \in disk THEN [@ EXCEPT !.at = "running", !.pointed = b \in {current, previous}]
          ELSE NoLaunch]
    /\ UNCHANGED <<deploying, rel, file, running, proc, recent, used, slips, overtaken>>

Exit(l) ==
    /\ launch[l].at = "running"
    /\ launch' = [launch EXCEPT ![l] = NoLaunch]
    /\ UNCHANGED <<deploying, rel, file, running, proc, recent, used, slips, overtaken>>

-----------------------------------------------------------------------------
(* A process is killed, or a rebuild meets an error nobody expected. *)

\* A kill while the unit files are written leaves some of them.
Die(p) ==
    /\ proc[p] # Idle /\ Slip
    /\ \E S \in SUBSET (IF proc[p].pc = "units" THEN Rendered(proc[p].scope) ELSE {}) :
          Render(S, proc[p].build)
    /\ Leaves(p)
    /\ UNCHANGED <<rel, running, recent, launch, used, overtaken>>

\* The handler of every other exception marks the release failed.
Raise(p) ==
    /\ proc[p].op = "rebuild" /\ proc[p].pc \notin {"prepare", "receipt", "restore"} /\ Slip
    /\ Fail(p)
    /\ UNCHANGED <<disk, current, previous, file, running, recent, launch, used,
                   overtaken>>

-----------------------------------------------------------------------------

\* A host without a release, and one whose build 1 deployed the manual worker
\* and build 2 everything else.
FreshHost ==
    /\ disk = {} /\ used = 0 /\ current = None /\ previous = None
    /\ receipt = [b \in Build |-> NoReceipt]
    /\ file = [u \in Unit |-> None]
    /\ running = [u \in Unit |-> None]

Settled ==
    \E c \in Commit :
    /\ MaxBuilds > 2 /\ disk = {1, 2} /\ used = 2 /\ current = 2 /\ previous = 1
    /\ receipt = [b \in Build |->
          CASE b = 1 -> [NoReceipt EXCEPT !.state = "succeeded", !.commit = c,
                                          !.scope = "manual", !.verified = TRUE]
            [] b = 2 -> [NoReceipt EXCEPT !.state = "succeeded", !.commit = c, !.scope = "full",
                                          !.migrated = TRUE, !.verified = TRUE, !.prev = 1]
            [] OTHER -> NoReceipt]
    /\ file = [u \in Unit |-> IF u = "manual" THEN 1 ELSE 2]
    /\ running = file

ReleaseInit ==
    /\ FreshHost \/ Settled
    /\ deploying = None /\ recent = {} /\ slips = 0 /\ overtaken = FALSE
    /\ proc = [p \in Cli |-> Idle]
    /\ launch = [l \in Launch |-> NoLaunch]

RebuildStep(p) ==
    \/ Prepare(p) \/ Refuse(p) \/ WriteReceipt(p)
    \/ \E ok \in BOOLEAN : BuildSteps(p, ok) \/ Migrate(p, ok) \/ SyncUnits(p, ok)
          \/ LateSteps(p, ok) \/ RestartOne(p, ok) \/ Verify(p, ok) \/ Restore(p, ok)
          \/ Refer(p, ok) \/ RemoveRelease(p, ok)
    \/ PointPrevious(p) \/ PointCurrent(p) \/ RecordSuccess(p)
    \/ \E b \in Build : Probe(p, b)
    \/ EndRebuild(p)

OntoStep(p) ==
    \/ LockInPlace(p) \/ CheckFile(p) \/ LogRestarts(p)
    \/ \E ok \in BOOLEAN : RestartOnto(p, ok)

StartStep(p) == StartRender(p) \/ StartServices(p)

ReleaseNext ==
    \/ \E p \in Cli :
          \/ \E own \in Inside :
                \/ \E s \in Scopes, c \in Commit, back \in BOOLEAN : Rebuild(p, own, s, c, back)
                \/ \E s \in Scopes : InPlace(p, own, s)
                \/ \E page \in BOOLEAN : Heal(p, own, page)
          \/ RebuildStep(p)
          \/ OntoStep(p)
          \/ StartRead(p) \/ StartStep(p) \/ StopServices(p)
          \/ Die(p) \/ Raise(p)
    \/ \E u \in Unit : Respawn(u) \/ CooldownOver(u)
    \/ \E l \in Launch : Resolve(l) \/ Exec(l) \/ Exit(l)

ReleaseSpec == ReleaseInit /\ [][ReleaseNext]_releaseVars

\* A command that was started goes on; the schedule runs st service heal
\* again and again and does not meet a held lock every time; the cooldown
\* passes.
FairReleaseSpec ==
    /\ ReleaseSpec
    /\ \A p \in Cli : /\ WF_releaseVars(RebuildStep(p)) /\ WF_releaseVars(OntoStep(p))
                      /\ WF_releaseVars(StartStep(p))
    /\ SF_releaseVars(\E p \in Cli : Heal(p, HealsIn, FALSE))
    /\ \A u \in Unit : WF_releaseVars(CooldownOver(u))

-----------------------------------------------------------------------------
(* Properties. *)

Pcs == {"idle", "prepare", "receipt", "build", "migrate", "units", "late", "restart", "refs",
        "previous", "current", "record", "prune", "restore", "ask", "onto", "go", "render", "start"}
CliState == [pc : Pcs, op : StCommand \union {None}, build : Build \union {None},
             scope : Scope \union {None}, commit : Commit \union {None}, back : BOOLEAN,
             todo : Seq(Unit), done : SUBSET Unit, rels : SUBSET Build,
             doom : Build \union {None}, errs : BOOLEAN,
             own : Unit \union {None}]
Receipt == [state : {"none", "prepared", "failed", "succeeded"}, commit : Commit \union {None},
            scope : Scope \union {None}, migrated : BOOLEAN, verified : BOOLEAN,
            prev : Build \union {None},
            rollback : {"none", "unavailable", "restored", "failed"}]
Launcher == [at : {"idle", "resolved", "running"}, build : Build \union {None}, pointed : BOOLEAN]

ReleaseTypeOK ==
    /\ deploying \in Cli \union {None}
    /\ disk \in SUBSET Build /\ used \in 0 .. MaxBuilds
    /\ current \in Build \union {None} /\ previous \in Build \union {None}
    /\ receipt \in [Build -> Receipt]
    /\ file \in [Unit -> Build \union {None}]
    /\ running \in [Unit -> Build \union {None}]
    /\ proc \in [Cli -> CliState]
    /\ recent \in SUBSET Unit
    /\ launch \in [Launch -> Launcher]
    /\ slips \in 0 .. MaxSlips /\ overtaken \in BOOLEAN

\* Pruning never removes a release that a pointer or a unit file names or that
\* a unit's process runs from: scoped and manual rebuilds leave processes on
\* releases the files no longer name, and the references are read before the
\* pointers move.
ReleasesKept ==
    \A b \in {current, previous} \union {file[u] : u \in Unit} \union {running[u] : u \in Unit} :
        b # None => b \in disk

\* `current` is a release that passed its health check after its units were
\* restarted, however its rebuild, or one after it, failed or was killed.
CurrentVerified ==
    current # None => receipt[current].verified

\* A launcher that had its release locked while a pointer named it keeps it,
\* though two later rebuilds leave it without one.
LauncherKeepsRelease ==
    \A l \in Launch : launch[l].at = "running" /\ launch[l].pointed => launch[l].build \in disk

\* Both, as long as st service start, which takes no lock, rendered no release
\* that had stopped being the live one since it was read.
PruningKeepsReleases == (~overtaken => ReleasesKept) /\ LauncherKeepsRelease

\* The live release moves to a commit that contains the live one, unless the
\* rebuild that moves it was told to roll back: the check made when the rebuild
\* was prepared still holds when it completes.
ForwardOnly ==
    [][ current' # current /\ current # None =>
          \/ receipt[current'].commit = receipt[current].commit
          \/ <<receipt[current'].commit, receipt[current].commit>> \in Ancestry
          \/ \E p \in Cli : proc[p].build = current' /\ proc[p].back ]_releaseVars

\* A restart without a build leaves the unit on the live release or stopped,
\* never on another one, with the same proviso.
OntoCurrentOnly ==
    [][ \A p \in Cli :
          ~overtaken /\ proc[p].pc = "go" /\ proc'[p].pc = "onto" /\ running' # running =>
              running'[Head(proc[p].todo)] \in {current, None} ]_releaseVars

\* The backend is moved onto a release whose rebuild ran no migrations.
OntoUnmigrated(p) ==
    /\ proc[p].pc = "go" /\ proc'[p].pc = "onto" /\ running' # running
    /\ Head(proc[p].todo) = "backend" /\ running'["backend"] # None
    /\ ~receipt[running'["backend"]].migrated

\* Self-heal moves the backend only onto a release that ran its migrations
\* (migrations_cover), whatever rebuild came between two of its looks, with the
\* same proviso.
HealOntoMigratedOnly ==
    [][ \A p \in Cli : ~overtaken /\ proc[p].op = "heal" => ~OntoUnmigrated(p) ]_releaseVars

\* The same of st service restart, which asks before it has the lock.
OntoMigratedOnly == [][ \A p \in Cli : ~OntoUnmigrated(p) ]_releaseVars

\* "Keep the next restart recoverable after candidate activation fails": with
\* no rebuild under way no unit file names a release whose rebuild failed,
\* unless the receipt says that the files could not be restored.
NextRestartRecoverable ==
    deploying = None =>
        \A u \in Unit : file[u] # None /\ receipt[file[u]].state = "failed"
                          /\ file[u] # current
                          => receipt[file[u]].rollback # "none"

\* "A shared lock keeps release pruning from deleting this tree mid-run."
LauncherNeverLosesRelease ==
    \A l \in Launch : launch[l].at = "running" => launch[l].build \in disk

\* A unit that runs another release than the live one though the live rebuild
\* covered it, its file names the live one and self-heal may restart it.
Behind(u) ==
    /\ current # None /\ file[u] = current /\ running[u] \notin {None, current}
    /\ u \in Expected /\ Restartable(u)

\* The unit the schedule runs in was left stopped: no heal is scheduled.
HealsDown == HealsIn # None /\ running[HealsIn] = None

\* While the schedule is up, no unit but the one it runs in stays behind for
\* good, whatever failed: it is brought onto the live release or stops, unless
\* a new rebuild changes what is live or what its file names.
Healed == \A u \in Services \ {HealsIn} : []<>(~Behind(u) \/ HealsDown)

\* "Find and fix units users would see broken": the same of every unit.
HealedEverywhere == \A u \in Services : []<>(~Behind(u) \/ HealsDown)

=============================================================================
