----------------------------- MODULE HostBackup -----------------------------
(***************************************************************************)
(* The host backup: btrbk snapshots sent to the T7 with their receipts     *)
(* (app/tasks/backup_btrbk.py), the daily copy of those snapshots in the   *)
(* Drive repository (backup_offsite.py), the run that holds both together  *)
(* (backup_run.py) and the weekly read-back (backup_verify.py).            *)
(*                                                                         *)
(* "unit" is the systemd service, started by its timer or by request_run,  *)
(* one at a time; "cmd" is st backup host run, which only captures.  Runs  *)
(* and copies are numbered in the order they start.  A write that raises   *)
(* has not replaced its file (the fsync of the directory, after the        *)
(* replacement, is taken not to fail).  btrbk, restic and the root helper  *)
(* are external.                                                           *)
(***************************************************************************)
EXTENDS Integers, Sequences, FiniteSets, FiniteSetsExt

CONSTANTS Subvol,       \* subvolumes with an off-site share
          Stream,       \* required dumps
          Guest,        \* registered sources, with an old per-source copy in Drive
          JobOrder,     \* the jobs of a copy, in the order they run
          LegacyAfter,  \* LEGACY_AFTER_GOOD_RUNS
          MaxRuns, MaxCopies, MaxCommands, MaxRequests, MaxChecks, MaxFaults,
          Reserve       \* runs and copies kept for requested starts when progress is checked

Runner == {"unit", "cmd"}
Run == 1..MaxRuns
Job == Subvol \cup Stream \cup Guest

(* A copy runs each of its jobs once, at some place of its order.          *)
ASSUME BackupAssumption ==
    /\ JobOrder \in Seq(Job) /\ LegacyAfter \in Nat /\ Reserve \in Nat
    /\ MaxRuns \in Nat /\ MaxCopies \in Nat /\ MaxChecks \in Nat /\ MaxFaults \in Nat
    /\ \A i, k \in DOMAIN JobOrder : JobOrder[i] = JobOrder[k] => i = k

Required == Subvol \cup Stream
NoRun == 0
Absent == -1
OldCopy == 0   \* the copy of the retired per-source backups

VARIABLES
    lock,     \* run.lock: its holder or "none"
    where,    \* per process: where it is
    id,       \* per process: the run it captures, or NoRun
    todo,     \* captures that cleanup still has to remove
    gone,     \* the capture removed last, until the local files follow
    snaps,    \* per subvolume: runs whose snapshot is on the source
    target,   \* per subvolume: runs whose point is on the T7
    capture,  \* per run: receipt and boot copy in its directory on the T7
    local,    \* per run: status in receipts/<run>.json
    good,     \* last-good.json: run and whether its points are marked expired
    flag,     \* the force-offsite file: absent, or the copies begun when it was touched
    force,    \* the unit: whether it saw the file when it started
    source,   \* the run whose snapshots the copy reads
    plan,     \* the registered sources that were enabled when its jobs were planned
    done,     \* the outcomes of the copy's jobs so far
    state,    \* state.json
    memory,   \* the unit's copy of it while a copy runs
    repo,     \* per job: copies in Drive
    blank,    \* per job: those of its copies, forgotten ones too, that hold no data
    today,    \* whether last_success_at is of the current day
    verify,   \* verify.json
    check,    \* the verify job: where it is, and the state it read
    enabled,  \* the registered sources that are enabled
    runs, copies, commands, requests, checks, faults

captureVars == <<todo, gone, snaps, target, capture, local, good, id, runs>>
copyVars == <<source, plan, done, memory, repo, blank, copies>>
verifyVars == <<verify, check, checks>>
outside == <<commands, requests, enabled>>
backupVars == <<lock, where, flag, force, state, today, faults, captureVars, copyVars, verifyVars, outside>>

Missing == [receipt |-> "none", boot |-> FALSE]
NoState == [status |-> "none", jobs |-> [j \in Job |-> NoRun], success |-> NoRun, oks |-> 0, checked |-> 0]
Places == {"off", "lock", "recover", "admit", "boot", "btrbk", "verify", "cleanup", "remove",
           "unlist", "publish", "local", "good", "rescue", "record", "due", "offsite", "jobs",
           "retain", "final", "unlink"}

BackupTypeOK ==
    /\ lock \in Runner \cup {"none"} /\ where \in [Runner -> Places] /\ id \in [Runner -> Run \cup {NoRun}]
    /\ todo \subseteq Run /\ gone \in Run \cup {NoRun}
    /\ snaps \in [Subvol -> SUBSET Run] /\ target \in [Subvol -> SUBSET Run]
    /\ capture \in [Run -> [receipt: {"none", "failed", "completed"}, boot: BOOLEAN]]
    /\ local \in [Run -> {"none", "running", "failed", "completed"}]
    /\ good \in [run: Run \cup {NoRun}, expired: BOOLEAN]
    /\ flag \in {Absent} \cup 0..MaxCopies /\ force \in BOOLEAN /\ today \in BOOLEAN
    /\ source \in Run \cup {NoRun}
    /\ done \in Seq({"ok", "failed", "offline"}) /\ Len(done) <= Len(JobOrder)
    /\ repo \in [Job -> SUBSET (0..MaxCopies)] /\ blank \in [Job -> SUBSET (0..MaxCopies)]
    /\ enabled \subseteq Guest /\ plan \subseteq Guest
    /\ state.status \in {"none", "running", "ok", "failed"}

BackupInit ==
    /\ lock = "none" /\ where = [p \in Runner |-> "off"] /\ id = [p \in Runner |-> NoRun]
    /\ todo = {} /\ gone = NoRun
    /\ snaps = [v \in Subvol |-> {}] /\ target = [v \in Subvol |-> {}]
    /\ capture = [r \in Run |-> Missing] /\ local = [r \in Run |-> "none"]
    /\ good = [run |-> NoRun, expired |-> FALSE]
    /\ flag = Absent /\ force = FALSE /\ source = NoRun /\ done = <<>>
    /\ state = NoState /\ memory = NoState /\ today = FALSE
    /\ repo = [j \in Job |-> IF j \in Guest THEN {OldCopy} ELSE {}] /\ blank = [j \in Job |-> {}]
    /\ enabled \in SUBSET Guest /\ plan = {}
    /\ verify = [checked |-> 0, spot |-> 0]
    /\ check = [at |-> "off", jobs |-> NoState.jobs]
    /\ runs = 0 /\ copies = 0 /\ commands = 0 /\ requests = 0 /\ checks = 0 /\ faults = 0

Fault == faults < MaxFaults /\ faults' = faults + 1

To(p, place) == where' = [where EXCEPT ![p] = place]
Stands(p, place) == where[p] = place

(* The run ends: its lock goes with it.                                    *)
Ends(p) == To(p, "off") /\ lock' = "none" /\ id' = [id EXCEPT ![p] = NoRun]

-----------------------------------------------------------------------------
(* Requests, starts and the lock.                                          *)

(* request_run(with_offsite): the file, and a start that does nothing      *)
(* while the unit is active.                                               *)
Request ==
    /\ requests < MaxRequests /\ requests' = requests + 1
    /\ flag' = copies
    /\ UNCHANGED <<lock, where, force, state, today, faults, captureVars, copyVars, verifyVars, commands, enabled>>

(* A registered source is enabled or disabled, at any time: before the     *)
(* first copy the choice in BackupInit stands for it.                      *)
SetEnabled ==
    /\ copies > 0
    /\ \E j \in Guest : enabled' = IF j \in enabled THEN enabled \ {j} ELSE enabled \cup {j}
    /\ UNCHANGED <<lock, where, flag, force, state, today, faults, captureVars, copyVars, verifyVars,
                   commands, requests>>

Seen == flag # Absent

(* The timer, or the request; at the bounds only while there is something  *)
(* left to do.                                                             *)
StartUnit ==
    /\ Stands("unit", "off") /\ (runs < MaxRuns - Reserve \/ flag # Absent \/ state.status = "running")
    /\ To("unit", "lock") /\ force' = Seen
    /\ UNCHANGED <<lock, flag, state, today, faults, captureVars, copyVars, verifyVars, outside>>

(* st backup host run.                                                     *)
Command ==
    /\ Stands("cmd", "off") /\ commands < MaxCommands /\ commands' = commands + 1
    /\ To("cmd", "lock")
    /\ UNCHANGED <<lock, flag, force, state, today, faults, captureVars, copyVars, verifyVars, requests, enabled>>

(* host_run_lock does not wait: a run that finds another one ends.         *)
Lock(p) ==
    /\ Stands(p, "lock")
    /\ IF lock = "none" THEN lock' = p /\ To(p, IF p = "unit" THEN "recover" ELSE "admit")
       ELSE To(p, "off") /\ UNCHANGED lock
    /\ UNCHANGED <<flag, force, state, today, faults, captureVars, copyVars, verifyVars, outside>>

(* recover_state: whatever is marked running was interrupted.              *)
Recover ==
    /\ Stands("unit", "recover") /\ To("unit", "admit")
    /\ state' = IF state.status = "running" THEN [state EXCEPT !.status = "failed"] ELSE state
    /\ UNCHANGED <<lock, flag, force, today, faults, captureVars, copyVars, verifyVars, outside>>

-----------------------------------------------------------------------------
(* The capture.                                                            *)

(* After the capture the unit asks whether a copy is due; the command ends.*)
Captured(p) ==
    IF p = "unit" THEN To(p, "due") /\ UNCHANGED <<lock, id>> ELSE Ends(p)

(* Disabled, or the destination is not ready.                              *)
NotReady(p) ==
    /\ Stands(p, "admit")
    /\ IF runs = MaxRuns THEN UNCHANGED faults ELSE Fault
    /\ Captured(p)
    /\ UNCHANGED <<flag, force, state, today, todo, gone, snaps, target, capture, local, good, runs,
                   copyVars, verifyVars, outside>>

(* The preflight, or the last write of a receipt, raises through run().    *)
Raises(p) ==
    /\ where[p] \in {"admit", "record"} /\ Fault /\ Ends(p)
    /\ UNCHANGED <<flag, force, state, today, todo, gone, snaps, target, capture, local, good, runs,
                   copyVars, verifyVars, outside>>

Admit(p) ==
    /\ Stands(p, "admit") /\ runs < MaxRuns
    /\ runs' = runs + 1 /\ id' = [id EXCEPT ![p] = runs']
    /\ local' = [local EXCEPT ![runs'] = "running"]
    /\ To(p, "boot")
    /\ UNCHANGED <<lock, flag, force, state, today, faults, todo, gone, snaps, target, capture, good,
                   copyVars, verifyVars, outside>>

CopyBoot(p) ==
    /\ Stands(p, "boot") /\ To(p, "btrbk")
    /\ capture' = [capture EXCEPT ![id[p]].boot = TRUE]
    /\ UNCHANGED <<lock, flag, force, state, today, faults, todo, gone, snaps, target, local, good, id,
                   runs, copyVars, verifyVars, outside>>

(* btrbk snapshots, sends and then thins, one subvolume after the other;   *)
(* the source keeps the newest snapshot.  A refused preview keeps every    *)
(* point (old is empty).  It may stop anywhere.                            *)
Btrbk(p) ==
    /\ Stands(p, "btrbk")
    /\ \E taken \in SUBSET Subvol : \E sent \in SUBSET taken : \E thinned \in SUBSET sent :
       \E old \in SUBSET (1..(id[p] - 1)) :
          /\ snaps' = [v \in Subvol |-> IF v \in thinned THEN {id[p]}
                                        ELSE IF v \in taken THEN snaps[v] \cup {id[p]} ELSE snaps[v]]
          /\ target' = [v \in Subvol |-> IF v \in thinned THEN (target[v] \ old) \cup {id[p]}
                                         ELSE IF v \in sent THEN target[v] \cup {id[p]} ELSE target[v]]
          /\ IF thinned = Subvol THEN To(p, "verify") /\ UNCHANGED faults
             ELSE To(p, "rescue") /\ Fault
    /\ UNCHANGED <<lock, flag, force, state, today, todo, gone, capture, local, good, id, runs,
                   copyVars, verifyVars, outside>>

(* Package state, received points, layout and mount are as they must be;   *)
(* the receipt still says running.                                         *)
VerifyPoints(p) ==
    /\ Stands(p, "verify") /\ To(p, "cleanup")
    /\ UNCHANGED <<lock, flag, force, state, today, faults, captureVars, copyVars, verifyVars, outside>>

\* Mutant: older captures are superseded by the new one.
SupersededByAge(r) == {d \in 1..(r - 1) : capture[d].receipt = "completed"}

(* Completed captures none of whose points is left.                        *)
Superseded(r) ==
    {d \in Run \ {r} : capture[d].receipt = "completed" /\ \A v \in Subvol : d \notin target[v]}

Cleanup(p) ==
    /\ Stands(p, "cleanup") /\ To(p, "remove") /\ todo' = Superseded(id[p])
    /\ UNCHANGED <<lock, flag, force, state, today, faults, gone, snaps, target, capture, local, good,
                   id, runs, copyVars, verifyVars, outside>>

(* The helper deletes the boot copy first and the receipt last; a failed   *)
(* deletion is reported and the next capture is looked at.                 *)
RemoveCapture(p) ==
    /\ Stands(p, "remove") /\ todo # {}
    /\ LET d == Min(todo) IN
       /\ todo' = todo \ {d}
       /\ \/ /\ capture' = [capture EXCEPT ![d] = Missing] /\ gone' = d /\ To(p, "unlist")
             /\ UNCHANGED faults
          \/ /\ Fault /\ capture' = [capture EXCEPT ![d].boot = FALSE]
             /\ UNCHANGED <<gone, where>>
    /\ UNCHANGED <<lock, flag, force, state, today, snaps, target, local, good, id, runs,
                   copyVars, verifyVars, outside>>

(* Then the local files: last-good keeps the run and says it expired.  An  *)
(* error at either file is reported like a failed deletion.                *)
Unlist(p) ==
    /\ Stands(p, "unlist") /\ To(p, "remove") /\ gone' = NoRun
    /\ LET marked == IF good.run = gone THEN [good EXCEPT !.expired = TRUE] ELSE good IN
       \/ good' = marked /\ local' = [local EXCEPT ![gone] = "none"] /\ UNCHANGED faults
       \/ good' \in {good, marked} /\ Fault /\ UNCHANGED local
    /\ UNCHANGED <<lock, flag, force, state, today, todo, snaps, target, capture, id, runs,
                   copyVars, verifyVars, outside>>

CleanedUp(p) ==
    /\ Stands(p, "remove") /\ todo = {} /\ To(p, "publish")
    /\ UNCHANGED <<lock, flag, force, state, today, faults, captureVars, copyVars, verifyVars, outside>>

(* _finish_capture: the receipt on the T7, then the local one, then        *)
(* last-good.                                                              *)
Publish(p) ==
    /\ Stands(p, "publish") /\ To(p, "local")
    /\ capture' = [capture EXCEPT ![id[p]].receipt = "completed"]
    /\ UNCHANGED <<lock, flag, force, state, today, faults, todo, gone, snaps, target, local, good, id,
                   runs, copyVars, verifyVars, outside>>

WriteLocal(p) ==
    /\ Stands(p, "local") /\ To(p, "good")
    /\ local' = [local EXCEPT ![id[p]] = "completed"]
    /\ UNCHANGED <<lock, flag, force, state, today, faults, todo, gone, snaps, target, capture, good, id,
                   runs, copyVars, verifyVars, outside>>

WriteGood(p) ==
    /\ Stands(p, "good") /\ Captured(p)
    /\ good' = [run |-> id[p], expired |-> FALSE]
    /\ UNCHANGED <<flag, force, state, today, faults, todo, gone, snaps, target, capture, local, runs,
                   copyVars, verifyVars, outside>>

(* Any of these steps raises; what was done before it stays.               *)
Fails(p) ==
    /\ where[p] \in {"boot", "verify", "cleanup", "remove", "publish", "local", "good"}
    /\ Fault /\ To(p, "rescue") /\ todo' = {}
    /\ UNCHANGED <<lock, flag, force, state, today, gone, snaps, target, capture, local, good, id, runs,
                   copyVars, verifyVars, outside>>

(* The handler publishes the failure, if it can, and records it.           *)
Rescue(p) ==
    /\ Stands(p, "rescue") /\ To(p, "record")
    /\ \/ /\ capture' = [capture EXCEPT ![id[p]].receipt = "failed"] /\ UNCHANGED faults
       \/ UNCHANGED capture /\ Fault
    /\ UNCHANGED <<lock, flag, force, state, today, todo, gone, snaps, target, local, good, id, runs,
                   copyVars, verifyVars, outside>>

Record(p) ==
    /\ Stands(p, "record") /\ Captured(p)
    /\ local' = [local EXCEPT ![id[p]] = "failed"]
    /\ UNCHANGED <<flag, force, state, today, faults, todo, gone, snaps, target, capture, good, runs,
                   copyVars, verifyVars, outside>>

-----------------------------------------------------------------------------
(* The copy in Drive.                                                      *)

(* offsite_due: asked for, or not made today and not held back by the      *)
(* window or a recent failure.                                             *)
Due(held) == force \/ (~today /\ ~held)

\* Mutant: last-good is read whether or not its snapshots are still there.
PointsRecorded ==
    IF id["unit"] # NoRun /\ local[id["unit"]] = "completed" THEN id["unit"] ELSE good.run

(* This run's snapshots, or the last good run's while all of them exist.   *)
Points ==
    IF id["unit"] # NoRun /\ local[id["unit"]] = "completed" THEN id["unit"]
    ELSE IF good.run # NoRun /\ \A v \in Subvol : good.run \in snaps[v] THEN good.run ELSE NoRun

Decide ==
    /\ Stands("unit", "due")
    /\ \E held \in BOOLEAN :
         IF Due(held) /\ Points # NoRun /\ copies < MaxCopies - (IF force THEN 0 ELSE Reserve)
         THEN To("unit", "offsite") /\ source' = Points /\ UNCHANGED <<lock, id>>
         ELSE Ends("unit") /\ UNCHANGED source
    /\ UNCHANGED <<flag, force, state, today, faults, todo, gone, snaps, target, capture, local, good,
                   runs, plan, done, memory, repo, blank, copies, verifyVars, outside>>

(* write_state leaves out what the verify job records.                     *)
Written(s) == [s EXCEPT !.checked = 0]

(* read_state: the verify job's record goes over the state.                *)
Read == IF verify.checked # 0 THEN [state EXCEPT !.checked = verify.checked] ELSE state

\* Mutant: the file goes with every attempt.
NoTargetDrops ==
    /\ Stands("unit", "offsite") /\ Fault /\ Ends("unit") /\ flag' = Absent
    /\ UNCHANGED <<force, state, today, todo, gone, snaps, target, capture, local, good, runs,
                   copyVars, verifyVars, outside>>

(* The storage backend is not usable: nothing is written, the file stays.  *)
NoTarget ==
    /\ Stands("unit", "offsite") /\ Fault /\ Ends("unit")
    /\ UNCHANGED <<flag, force, state, today, todo, gone, snaps, target, capture, local, good, runs,
                   copyVars, verifyVars, outside>>

(* source_jobs: the registered sources that are enabled have a job.        *)
SourceJobs == enabled

BeginCopy ==
    /\ Stands("unit", "offsite") /\ To("unit", "jobs")
    /\ copies' = copies + 1 /\ plan' = SourceJobs /\ done' = <<>>
    /\ memory' = [Read EXCEPT !.status = "running"] /\ state' = Written(memory')
    /\ UNCHANGED <<lock, flag, force, today, faults, captureVars, source, repo, blank, verifyVars,
                   outside>>

(* One job: restic stores a snapshot or not, a source that was not enabled *)
(* has no job and a guest may be off; the state is written after it.  A    *)
(* subvolume is read from the snapshot bound over its path.  A stream that *)
(* produced no data is recorded as failed and its snapshot stays in Drive. *)
RunJob ==
    /\ Stands("unit", "jobs") /\ Len(done) < Len(JobOrder)
    /\ LET j == JobOrder[Len(done) + 1]
           stored == [repo EXCEPT ![j] = @ \cup {copies}] IN
       \/ /\ j \in Guest => j \in plan
          /\ \/ /\ j \in Subvol => source \in snaps[j]
                /\ repo' = stored /\ done' = Append(done, "ok")
                /\ UNCHANGED <<blank, faults>>
             \/ Fault /\ done' = Append(done, "failed") /\ UNCHANGED <<repo, blank>>
             \/ /\ j \notin Subvol /\ Fault /\ done' = Append(done, "failed")
                /\ repo' = stored /\ blank' = [blank EXCEPT ![j] = @ \cup {copies}]
       \/ j \in Guest /\ done' = Append(done, "offline") /\ UNCHANGED <<repo, blank, faults>>
    /\ state' = Written(memory)
    /\ UNCHANGED <<lock, where, flag, force, today, captureVars, source, plan, memory, copies, verifyVars,
                   outside>>

(* The plan of the jobs, or a write of the state between them, raises.     *)
JobsRaise ==
    /\ Stands("unit", "jobs") /\ Fault /\ To("unit", "final")
    /\ memory' = [memory EXCEPT !.status = "failed"]
    /\ UNCHANGED <<lock, flag, force, state, today, captureVars, source, plan, done, repo, blank,
                   copies, verifyVars, outside>>

Stored(j) == \E i \in DOMAIN done : JobOrder[i] = j /\ done[i] = "ok"

AllRequired == \A j \in Required : Stored(j)

Conclude ==
    /\ Stands("unit", "jobs") /\ Len(done) = Len(JobOrder)
    /\ memory' = [memory EXCEPT
           !.jobs = [j \in Job |-> IF Stored(j) THEN copies ELSE @[j]],
           !.status = IF AllRequired THEN "ok" ELSE "failed"]
    /\ To("unit", IF AllRequired THEN "retain" ELSE "final")
    /\ UNCHANGED <<lock, flag, force, state, today, faults, captureVars, source, plan, done, repo, blank,
                   copies, verifyVars, outside>>

(* restic forget --keep-daily keeps the newest copy of each group.         *)
ForgetDaily(old) == [j \in Job |-> repo[j] \ {c \in old \ {OldCopy} : c # Max(repo[j])}]

\* Mutant: old per-source copies go by their age alone.
RetentionIdsByAge(listing) == {j \in Guest : OldCopy \in listing[j]}

(* retention_ids: the old per-source copy of an enabled source goes once a *)
(* newer one is listed, that of any other source by its age alone.         *)
RetentionIds(listing) ==
    {j \in Guest : OldCopy \in listing[j] /\ (j \in enabled => \E c \in listing[j] : c # OldCopy)}

(* retain: forget, list, and forget the old copies once the daily job has  *)
(* proven itself.  An error of forget is only recorded; listing raises.    *)
Retain ==
    /\ Stands("unit", "retain") /\ To("unit", "final")
    /\ \/ \E old \in SUBSET (1..copies), aged \in BOOLEAN :
            LET listing == ForgetDaily(old) IN
            /\ repo' = [j \in Job |->
                   IF aged /\ memory.oks >= LegacyAfter /\ j \in RetentionIds(listing)
                   THEN listing[j] \ {OldCopy} ELSE listing[j]]
            /\ UNCHANGED <<memory, faults>>
       \/ Fault /\ UNCHANGED <<memory, repo>>
       \/ /\ Fault /\ memory' = [memory EXCEPT !.status = "failed"]
          /\ \E old \in SUBSET (1..copies) : repo' = ForgetDaily(old)
    /\ UNCHANGED <<lock, flag, force, state, today, captureVars, source, plan, done, blank, copies,
                   verifyVars, outside>>

(* The outcome is written.                                                 *)
Finish ==
    /\ Stands("unit", "final") /\ To("unit", "unlink")
    /\ LET ok == memory.status = "ok" IN
       /\ state' = Written(IF ok THEN [memory EXCEPT !.success = copies,
                                           !.oks = IF @ < LegacyAfter THEN @ + 1 ELSE @]
                           ELSE memory)
       /\ today' = (ok \/ today)
    /\ UNCHANGED <<lock, flag, force, faults, captureVars, copyVars, verifyVars, outside>>

(* The request is dropped whatever the outcome, and the run ends.          *)
Unlink ==
    /\ Stands("unit", "unlink") /\ Ends("unit") /\ flag' = Absent
    /\ UNCHANGED <<force, state, today, faults, todo, gone, snaps, target, capture, local, good, runs,
                   copyVars, verifyVars, outside>>

(* A stop at the unit's limit, a crash of the host or an interrupt: what   *)
(* was running goes with its process.                                      *)
StopRunner(p) ==
    /\ ~Stands(p, "off") /\ Fault
    /\ To(p, "off") /\ lock' = IF lock = p THEN "none" ELSE lock
    /\ id' = [id EXCEPT ![p] = NoRun]
    /\ IF lock = p THEN todo' = {} /\ gone' = NoRun ELSE UNCHANGED <<todo, gone>>
    /\ UNCHANGED <<flag, force, state, today, snaps, target, capture, local, good, runs,
                   copyVars, verifyVars, outside>>

NewDay ==
    /\ today /\ today' = FALSE /\ copies < MaxCopies
    /\ UNCHANGED <<lock, where, flag, force, state, faults, captureVars, copyVars, verifyVars, outside>>

-----------------------------------------------------------------------------
(* The weekly read-back, not while the unit is active or a copy is marked  *)
(* running.                                                                *)
BeginVerify ==
    /\ check.at = "off" /\ checks < MaxChecks /\ checks' = checks + 1
    /\ Stands("unit", "off") /\ state.status # "running"
    /\ check' = [at |-> "check", jobs |-> state.jobs]
    /\ UNCHANGED <<lock, where, flag, force, state, today, faults, captureVars, copyVars, verify, outside>>

\* Mutant: the record is a field of state.json.
UpdateInState(part) == state' = [state EXCEPT !.checked = part.checked] /\ UNCHANGED verify

(* update_verify: into its own file.                                       *)
Update(part) == verify' = part /\ UNCHANGED state

RunCheck ==
    /\ check.at = "check" /\ check' = [check EXCEPT !.at = "spot"]
    /\ Update([verify EXCEPT !.checked = checks])
    /\ UNCHANGED <<lock, where, flag, force, today, faults, captureVars, copyVars, checks, outside>>

(* The dump and the project files of the copies recorded at the start; the *)
(* failures of consecutive weeks are counted.                              *)
SpotRestore ==
    /\ check.at = "spot" /\ check' = [check EXCEPT !.at = "off"]
    /\ LET readable == \A j \in Required : check.jobs[j] # NoRun => check.jobs[j] \in repo[j]
       IN  Update([verify EXCEPT !.spot = IF readable THEN 0 ELSE @ + 1])
    /\ UNCHANGED <<lock, where, flag, force, today, faults, captureVars, copyVars, checks, outside>>

-----------------------------------------------------------------------------
CaptureStep(p) ==
    \/ Lock(p) \/ Admit(p) \/ CopyBoot(p) \/ Btrbk(p) \/ VerifyPoints(p) \/ Cleanup(p) \/ RemoveCapture(p)
    \/ Unlist(p) \/ CleanedUp(p) \/ Publish(p) \/ WriteLocal(p) \/ WriteGood(p) \/ Rescue(p)
    \/ Record(p) \/ NotReady(p)
CopyStep ==
    Recover \/ Decide \/ BeginCopy \/ RunJob \/ Conclude \/ Retain \/ Finish \/ Unlink
Interruption == NoTarget \/ JobsRaise \/ \E p \in Runner : Raises(p) \/ Fails(p) \/ StopRunner(p)
VerifyStep == RunCheck \/ SpotRestore

BackupNext ==
    \/ Request \/ StartUnit \/ Command \/ NewDay \/ BeginVerify \/ SetEnabled
    \/ \E p \in Runner : CaptureStep(p)
    \/ CopyStep \/ Interruption \/ VerifyStep

BackupSpec == BackupInit /\ [][BackupNext]_backupVars

(* The timer starts the unit for ever; the commands it runs are bounded.   *)
FairBackupSpec ==
    /\ BackupSpec
    /\ WF_backupVars(StartUnit \/ CopyStep \/ CaptureStep("unit"))
    /\ WF_backupVars(CaptureStep("cmd"))

-----------------------------------------------------------------------------
(* The run last-good.json names has its completed receipt and its boot     *)
(* copy on the T7 for as long as any of its points is there, whichever     *)
(* step of a later run failed (backup_btrbk.py).                           *)
LastGoodRestorable ==
    (\E v \in Subvol : good.run \in target[v]) =>
        capture[good.run] = [receipt |-> "completed", boot |-> TRUE]

(* While a copy reads the subvolumes, every one of them still has the      *)
(* snapshot of the one run the copy is of (backup_run.py, _points).        *)
ReadsOneRun ==
    Stands("unit", "jobs") => \A v \in Subvol : source \in snaps[v]

(* The copies of job j that hold data.                                     *)
Restorable(j) == repo[j] \ blank[j]

(* A success recorded in state.json stands for a copy of every required    *)
(* part, and after every step each has one with data at least as new in    *)
(* Drive, through retention, failed copies and interrupted ones.  The last *)
(* copy with data of a registered source is released only when the source  *)
(* is disabled and the daily job never copied it, or when the newest copy  *)
(* is an empty one that a failed job left (backup_offsite.py).             *)
DriveKeepsCopies ==
    [][/\ state'.success # NoRun =>
             \A j \in Required : \E c \in Restorable(j)' : c >= state'.success
       /\ \A j \in Guest : Restorable(j) # {} /\ Restorable(j)' = {} =>
             (j \notin enabled /\ repo[j] = {OldCopy}) \/ Max(repo[j]) \in blank[j]]_backupVars

(* The code does not keep this: an enabled source keeps a copy with data   *)
(* (backup_offsite.py: a failed dump is never a recovery point).           *)
SourceKeepsCopy ==
    [][\A j \in enabled : Restorable(j) # {} => Restorable(j)' # {}]_backupVars

(* What the weekly job recorded is not lost to a backup that read the      *)
(* state before it (backup_offsite.py: neither job can overwrite the       *)
(* other's record).                                                        *)
VerifyRecordKept == [][Read'.checked >= Read.checked]_backupVars

Copying == where["unit"] \in {"jobs", "retain", "final", "unlink"}

(* A request made while no copy is under way is followed by a copy that    *)
(* began after it, whatever the first run that meets it runs into, and an  *)
(* interrupted copy does not stay marked as running (backup_run.py).       *)
RequestServed ==
    /\ \A n \in 0..MaxCopies : (flag = n /\ copies = n /\ ~Copying) ~> (copies > n)
    /\ (state.status = "running") ~> (state.status # "running")

(* The code does not keep this: a request is dropped only by a copy that   *)
(* began after it and succeeded (backup_run.py).                           *)
RequestHonoured ==
    [][flag # Absent /\ flag' = Absent => flag < copies /\ state.status = "ok"]_backupVars

(* The code does not keep this: the test restore finds the copies it was   *)
(* given (backup_verify.py).                                               *)
SpotRestoreFindsCopy == verify.spot = 0

(* The code does not keep this: last-good does not offer points whose      *)
(* capture was removed (backup_btrbk.py).                                  *)
RemovedIsExpired ==
    good.run # NoRun /\ capture[good.run] = Missing /\ lock = "none" => good.expired

=============================================================================
