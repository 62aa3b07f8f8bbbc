# SummitFlow in TLA+

SummitFlow (`src/`) is a local-first control plane for one workstation: a
FastAPI backend over PostgreSQL (`backend/app`), workers of an external Hatchet
engine, the `st` command line through which agents and people share one checkout
(`backend/cli`), a web frontend and a host monitor. This directory holds TLA+
models of the parts whose correctness depends on interleavings, crashes, retries
and stale reads; TLC configurations that check them on small instances; and TLAPS
proofs that hold for every instance. `PROJECT.json` lists components, runs,
mutants, the map from definitions to source lines, findings, hazards and theorems.

Contents: [Inventory](#inventory) · [Modules](#modules-and-the-code-they-model) ·
[Runs](#runs-bounds-and-fairness) · [Disagreements](#where-code-and-documentation-disagree) ·
[Proofs](#proofs) · [Not modelled](#what-is-not-modelled) · [Plan](#plan)

## Inventory

Only the parts with a protocol of their own are described here; `PROJECT.json`
names all of them.

| Part | State it keeps | Operations | Meets | What is hard |
|---|---|---|---|---|
| Transient-work lanes, `app/utils/heavy_work.py` | two lock files per lane, depth locks, waiter files, a lease token in the environment | enter and leave a context, run a child, look at a lane | every job that runs checks, builds, backups or browsers | `flock` follows descriptors, not processes; owners die before their children; lock conversion is not atomic |
| Automation outbox, `app/services/automation_dispatch.py`, `app/storage/automation_dispatches.py`, `app/workflows/automation_dispatch.py` | one receipt row per run | accept, control, reconcile, execute, cancel, report | Agent Hub, Hatchet, the browser owner | duplicate deliveries, retries under one id, cancels that race completion, lost reports |
| Lease table and writer sets, `cli/lib/leases.py`, `cli/lib/coord_store.py` | one JSON document per project in Tether: leases and the writers of each dirty path | acquire, heartbeat, release, take, claim, record, prune, hold, op lease | every edit hook, shell hook, `st commit`, acceptance and deployment | nothing is locked between read and write; writes that time out may land later; identity is shared between threads of a process |
| Checkout, `cli/lib/coord.py`, `cli/lib/commit_workflow.py` | the working tree, its dirty set, writer sets | claim an edit, record a shell's writes, commit, prune | lease table, git | checks of writers and the commit they protect are separate steps |
| Task lifecycle, `app/storage/tasks/{claims,status,closeout}.py`, `app/services/task_closeout.py` | task row: status, claim, lock expiry, acceptance, closeout request | claim, renew, release, expire, transition, request and resume closeout | workers, CLI, acceptance, leases | expiry against late completion; a closeout in two transactions with deletions in between |
| Fleet roots, `app/storage/fleet_events.py`, `app/services/fleet_sessions.py` | one event stream per root, cursors of readers | append, read a page, wait, retain, start, instruct, close | native hosts, Redis | sequence allocation against retention, lost wakes, retried starts and closes |
| Coordination messages, `cli/lib/coord_deliver.py`, `coord_wake.py`, `scripts/lib/coord_inbox.py` | the request ledger, one queued line per recipient, the woke and seen files | send, ack, withdraw, wake, watch, show at a turn | sessions, Tether's delivery queue | a newer line replaces an undelivered one; marks are written before the line is posted |
| Native releases, `cli/lib/service_{release,ops,heal}.py`, `cli/commands/service.py`, `scripts/st` | release directories and receipts, `current` and `previous`, unit files, processes, the restart log | rebuild, restart, heal, start, stop, prune, launch | systemd, git, every user of `st` | steps that fail half way; processes on releases no file names; commands without the lock |
| Backup write window, `app/tasks/backup_write_window.py`, `scripts/summitflow-backup-window` | a count per process, a holder file per process, the mount's mode | enter, leave, guard | a privileged helper | failure to open still counts; helpers that run late |
| Host backup, `app/tasks/backup_{run,btrbk,offsite,verify}.py` | snapshots and points, captures and receipts, `last-good.json`, the copies in Drive, `state.json`, `verify.json`, the request file | capture, remove superseded captures, copy, retain, request, check, test restore | btrbk, restic, systemd, a root helper | runs of hours that stop half way; state read before and written after them; retention |
| Health cache, `app/services/health_cache.py` | one entry, one refresh task | get, refresh, invalidate | API handlers | interleaving at every `await` |

What makes each correct:

- **Lanes**: one admission per lane whatever crashes and whichever children survive;
  the stored generation is stable while anyone relies on it; siblings serialize per
  depth; light leases never carry heavy work; FIFO; waiters are served.
- **Outbox**: one worker drives the browser; a settled receipt is final; an accepted
  cancel is not swallowed; a human checkpoint is not replayed; Agent Hub hears only the
  final status; every receipt is settled, waits for a human or is in somebody's hands.
- **Lease table**: every operation is applied at most once, in one step, to the current
  document; live leases and writers go only for the reasons the code names.
- **Checkout**: nobody's uncommitted work is committed or forgotten by someone else,
  and HEAD stays where an acceptance reads it.
- **Task lifecycle**: one worker per claim; completion belongs to the claim that
  was accepted; superseded requests stay dead; a closeout is completed or resumable.
- **Fleet**: dense sequences, no silent gap, an event is seen by the deadline; one
  live root per target and facet; nothing enters a closed root.
- **Messages**: an item that was not shown has a wake queued or owed.
- **Releases**: nothing in use is pruned; `current` moves forward and onto verified
  releases; the backend is not moved past its migrations; units behind are healed,
  except the one the scheduled heal runs inside.
- **Host backup**: the last good run can be restored while its points exist; a copy is
  of one run; a recorded success has its copies; the weekly record is not lost; a
  request made while no copy is under way is served.
- **Write window, health cache**: whoever is inside can write and the target becomes
  read-only again; answers are current and come.

## Modules and the code they model

All models keep the control of the code (every statement that changes shared state
is an action or part of one) and abstract its data: a process, a path, a task, a key
or a generation is a model value; wording, timestamps for display and payloads are
left out. Local code between two accesses to shared state is part of the preceding
access.

### `HeavyWork` (lanes)

A member of `Proc` is a process up to the end of one `heavy_work()` context; `pc`
follows the function: `open` → `_inherited` (`verified`, `shared`) → `branch` for a
descendant, or `register` → `gate` → `try`/`slot0`/`spare`/`slot1` → `truncate` →
`write` → `convert` → `share` → `holder` for an owner → `active` → `done`.
`fds[q]` is the set of contexts whose lock descriptors process `q` has open, its own
and inherited ones; `CloseTo` releases exactly the locks whose last descriptor is
closed, as the kernel does. `Spawn` gives a child a token and any subset of
descriptors that `pass_fds`, `fork` and `close_fds` can leave it. `Die` is a kill at
any point, `Cancel` an exception before the context is entered. `flock` conversion
is two steps (`DropExclusive`, `TakeShared`), and `lane_activity`'s probe can fall in
between. Holder records are only displayed and are left out.

### `AutomationReceipt`, `AutomationDispatch` (outbox)

`AutomationReceipt` is the row and one operator per SQL statement of
`automation_dispatches.py`, with its WHERE clause as a guard. `AutomationDispatch`
runs them from three kinds of actors that interleave at every statement and await:
workers (Hatchet workflow runs, retried under the same id up to `MaxAttempts` times),
clients (an accept or control request, or the two-minute reconciler) and the browser
owner, which is external and known by the commands sent to it and the receipts the
code accepts from it. An inspection of the checkpoint may fail, which the code reads as
no checkpoint. `LoseAttempt`, `LoseRequest`, `SessionError`, `OwnerUnknown`,
`CallFails` and `EnqueueFails` are the faults, `MaxFaults` of them in a behaviour. A
worker id is reused once nothing refers to it, so the number of deliveries over a
run's life is not bounded.

### `Leases`, `LeaseBook`, `CoordStore` (lease table)

`Leases` has the document and, for each operation of `leases.py`, the function from
document to documents that its body computes (`Effects`). Identity follows
`self_ids`, `my_anchor` and `session_ids`: a child thread shares its process's anchor
with the main thread but not its own id. `take` is three transactions, as in the code.
`LeaseBook` is the abstract promise: each transaction of a call is applied atomically
to the current document, at most once, and a call may stop only at the end, when the
store is unavailable or when its retries are used up. `CoordStore` is the detailed
protocol of `coord_store.py`: read with a version, compute, PUT against that version,
redo on conflict up to `_ATTEMPTS` times (separately for the acquire nested in a
`take`); a PUT that times out stays in `late` and may be applied at any time after.
A process may die at any step. The store's own compare-and-set is external. The
operation's time stamp is taken at its read.

### `TaskRow`, `TaskLifecycle` (task claims, status, closeout)

`TaskRow` has one guard and one result per SQL transaction of `claims.py`, `status.py`
and `closeout.py`; `claimed_at` is the number of a claim and the lock is live or
expired. `TaskLifecycle` runs them from `st claim`, `st done` and `resume_closeout`:
a process reads the row, decides on the copy and acts in later transactions, with the
closeout's advisory lock held by its session; it may stop (`Stops`) between any two.
The status endpoint, commits recorded on the task, the release of a closeout's claim,
lock expiry and the scheduled reset act in between. Whether acceptance is required is
read from the row each time: the task declares it (`Required`) or has a commit. Ghosts
(`evidence`, `asked`, `dead`) remember which claim an acceptance and a request belong
to and which requests were superseded.

### `FleetStream`, `FleetRoot` (fleet)

`FleetStream` is one root's stream: `rows` is the retained table, `AppendEvent` and
`RemoveOld` are one step each because both hold the root's advisory lock, `PublishWake`
is the wake that may be lost, and the waiter of `wait_events` moves from await to await
with a deadline that cancels it at any of them, the closing of the subscription
(`Close`) included. A page is as many rows as the limit lets through (`Fetched`), refused
when they are not the next numbers (`Gap`). The ghost `history` has every event ever
appended, `dropped` says that a deadline threw away records already read. `FleetRoot` has the retained lifecycle rows of several roots and
callers of `start_root`, `reconcile_root`, `send_instruction` and `close_root`; each
append, each read and each host request is a step, a request may be answered, fail, or
arrive later (`HostDelivers`), and the host may restart its sessions.

### `Checkout`

The content of a path is the sequence of sessions whose edits HEAD lacks. Lease
operations are single transactions here, which is what `LeaseBook` promises and
`CoordStore` is proved to give. `st commit` is the sequence of the code: lock, select,
sweep guard, op guard, checks, `git add`, `git commit`, comparison with what was staged,
release and prune; edit and shell hooks and in-place acceptance interleave with it.

### `Inbox` (coordination messages)

One recipient: the ledger state of its requests, acks and notes, the queued line, the
woke and seen files, the senders' commands, the watcher, and turns with their hooks.
Only the class of a line (wake or ride-along) is kept. A post or a withdrawal may stay
unanswered, a command may be killed, and an eta may lapse.

### `Release` (native deployment)

One project: `disk`, the two pointers, receipts, the release each unit file names and
the one each process runs from. A rebuild goes through the steps of `rebuild`:
prepare, receipt, build, migrate, unit files, late steps, restarts, health, references,
pointers, receipt, pruning; each may fail, raise or be killed. `st service heal` and
`restart` share `restart_onto_current`; `start` and `stop` take no lock, as in the code;
the launcher resolves `current`, locks what it resolved and runs it. `doom` in a
process's record is the release pruning has looked at and is about to remove. A command
may run inside one of the units (`own`, chosen from `Inside`): `restart_service` skips
that unit and reports success, so a rebuild passes over it (its health check asks of a
worker only that it is active) and a heal leaves it where it is. `HealsIn` is the unit the
scheduled heal runs inside: a worker for summitflow itself, none for other projects. A
restart that fails leaves the old process, none, or a new one that was not attested.
"backend" stands for one unit of the backend and its workers; the migration check of
self-heal binds only the backend, which makes a difference for a worker only when its
release is gone. The ghost `overtaken` remembers that `start` rendered a release that was
no longer the live one.

### `WriteWindow`, `HealthCache`

`WriteWindow` has the count per process, the helper's holder files and the mount; a
helper run may not start, fail after it touched the holder, or finish after its caller
gave up. `HealthCache` moves from `await` to `await`: requests, the shared task, its
failure, cancellation through one of its waiters, `invalidate` and the clock.

### `HostBackup`

The systemd unit (capture, then the copy that is due) and `st backup host run` (capture
only) under `run.lock`, and the weekly job beside them. A run goes through `_capture`
step by step: boot copy, btrbk, checks, removal of superseded captures (the helper's
deletion and the local files are two steps), receipt on the T7, local receipt,
`last-good.json`; every step may raise into the handler, and the process may be stopped
anywhere. `Btrbk` may stop between snapshot, send and thinning of any subvolume.
A copy is a step per job, then retention and the outcome; `memory` is the state the code
carries through it. Runs and copies are numbers, so "newer" can be said. Registered
sources are enabled and disabled at any time (`SetEnabled`): the jobs are planned for the
ones enabled at the start of a copy, retention asks again. A stream that produced nothing
is recorded as failed while its empty snapshot stays in Drive (`blank`) and counts as the
newest of its group. A write that raises is taken not to have replaced its file; only the
directory's `fsync` at the end of `_write_json` could raise later.

### Instances and proofs

`MCHeavyWork`, `MCAutomationDispatch`, `MCCoordStore` and `MCFleetStream` instantiate
one component. `MCLeaseScenes`, `MCTaskLifecycle`, `MCAgents`, `MCHost`, `MCSettling`
and `MCProgress` instantiate a component with several sets of bounds, or several
components that do not meet. The theorems are in `HeavyWorkProofs`,
`AutomationDispatchProofs`, `CoordStoreProofs`, `TaskLifecycleProofs`, `FleetProofs`,
`AgentsProofs` (checkout and inbox), `ReleaseProofs` and `HostProofs` (backup, write
window, health cache). Where one module extends several components, the names of a
specification begin with its component's: `BackupInit`, `ReleaseInit`, `InboxInit`, `StreamInit` and so on.

*Scenes.* A behaviour of such an instance plays one scene, chosen in its initial state
and never changed: the actions of that scene's component with that scene's bounds,
while the variables of the other components keep their initial values. Nothing is
composed that interacts, and nothing is lost against separate runs, except that one
coverage report counts an operator over all its scenes. Coverage was therefore read
per action and per alternative over the scenes together: all of them fire.

## Runs, bounds and fairness

Deadlock checking is off except in `fleet_stream_pages`: processes end, calls are
bounded, and a receipt may be settled with nobody left to act. Progress is stated as
liveness.

| Run | Instance | Shows |
|---|---|---|
| `lanes` | three processes, depth 2, both classes, the heavy lane probed | `LaneExclusive`, `GenerationStable`, `OneContextPerDepth`, `NoOvertaking` |
| `lanes_progress` | three processes, light class, depth 1, fair | `WaitersProceed` |
| `dispatch` | two workers, two overlapping clients, two control keys, two attempts, one fault | `OneExecutor`, `CancelSurvives`, `BeforeExecutionIsHonest`, `ToldTheTruth`, `HumanCheckpointKept`, `TerminalIsFinal` |
| `settling` | receipts with three workers, one client, one key, one fault; closeouts of two processes with one stop; both fair | `EveryRunSettles`, `PendingCloseoutSettles` |
| `leases` | *table*: main thread, child thread and another agent on one path while time passes; *writers*: the same with one timeout or death; *marks*: two processes of one agent and another agent with holds and op leases, one fault | `OneHold`, `LiveLeaseKept`, `WriterKept`, `NoUpdateLost` (`CoordStore` implements `LeaseBook`) |
| `tasks` | two processes; *apart*: two workers, two claims, two requests, one stop; *shared*: one worker, a commit; *record*: record-only work, three claims, a commit, one stop | `SupersededStaysDead`, `AcceptanceOfThisClaim`, `RequestCompletesItsClaim`, `CleanupSparesOpenWork` |
| `agents` | two sessions, two paths; *editing*: two edits, one commit; *accepting*: two commits and acceptances; two requests with a lapsing eta (*etas*) or a turn (*turns*), a request and an ack (*answers*), one fault | `SweepOnlyByRace`, `HeadStillUnderAcceptance`, `StrandedOnlyByRace` |
| `host` | *fleet*: two leads of one target and a support root, two callers, two host generations; *pages*: four events, two to a page; releases with two processes and one fault: *deploying* (start and stop, two commits), *pruning* (backend and manual scopes, restart), *healing* (full and frontend scopes), *nested* (rebuilds and heals in a shell or inside the backend), *launching* (a launcher, five builds); backups of two subvolumes, a dump and a guest: *capturing* (three runs, one of them by command, two faults), *copying* (two runs, two copies, a command, a weekly check, one fault) | `OneAlivePerAllocation`, `NothingEntersClosed`, `EmptyMeansQuiet`, `PruningKeepsReleases`, `ForwardOnly`, `HealOntoMigratedOnly`, `LastGoodRestorable`, `ReadsOneRun`, `DriveKeepsCopies`, `VerifyRecordKept` |
| `progress` | stream, inbox, services (scheduled heals outside the project, or inside its backend), window, health and backups (one subvolume, a dump, one daily run and copy, a request, a command), each with the fairness below | `StreamDelivers`, `Heard`, `Healed`, `WindowFollowsWriters`, `AnsweredInTime`, `RequestServed`; three of them with the safety that belongs to them |
| `leases_op_fence` | two processes of one agent | violation of `OpFenced` |
| `dispatch_stranded` | as `dispatch` | violation of `NotStranded` |
| `fleet_stream_pages` | three events, one to a page | violation of `NothingSkipped` |

Every module has a type invariant, `TypeOK`; TLC found it and these properties true on
the instances above while the models were written, and no run repeats them:
`NoLightUpgrade`, `GivesUpUnderContention`, `CompletedOnEvidence`, `ClosedMeansEnded`,
`StatusOnlyAdvances`, `SuccessIsWhatWasStaged`, `CurrentVerified`, `OntoCurrentOnly` (all
of them proved) and `OnlyOwnClose`.

Why the bounds are enough for the cases that matter:

- *Lanes.* Three processes give an owner, a descendant that outlives it and a new
  owner, or an owner and two waiters; depth 2 gives siblings below an inherited
  lease. `MaxOrder` equals the number of processes, one waiter file each.
- *Outbox.* Two workers are a duplicate delivery; two attempts let a retry follow a
  lost one; two clients are the overlapping requests the code defends against. One
  fault can fall at any step of any actor. `Reserve` keeps a worker id for a requeue
  when progress is checked, so that running out of ids is never mistaken for an outage.
- *Leases.* Two attempts give a conflict and a retry, and exhaust the budget too; one
  call per process (two for the agent that marks and unmarks) still interleaves three
  read-compute-write cycles; `Ttl = 0` with one tick makes leases expire. `Ids` are
  symmetric; agents and processes are not, because identity is what is checked.
- *Tasks.* Two claims let a second worker, or the same one, follow an expired claim
  while the first still holds its copy; two requests let one supersede the other; a
  stop can fall between any two transactions. A commit that is not the accepted source
  (*shared*) makes the acceptance stale, one on a record-only task (*record*) makes one
  required. `settling` leaves commits out: one only makes a resumption block.
- *Fleet.* Three roots give two contenders for one target and a support under a lead;
  two host generations a restart; three callers' operations a start, a close and a
  sender. Four events with two to a page make a drain of two pages, with retention of
  the short-lived ones in between.
- *Checkout, messages.* Two sessions and two paths give a named and an unnamed path;
  two edits of one path an edit after `git add`. Two requests are the least that can be
  composed in one order and posted in the other.
- *Releases.* A host starts fresh or with build 1 serving the manual worker and build 2
  everything else (*deploying* and *nested*: the latter). Five builds leave a release
  without a pointer while something still runs from it; four with one fault leave unit
  files on a failed release below a later scoped one, and, when rebuilds pass over the
  unit they run inside, its process on a release that only the process names; two faults
  (in `progress`) let a heal fail and need the cooldown.
- *Backups.* Three runs let a third remove what a second superseded after the first
  became the last good one; two faults let the handler's own publication fail. Two
  copies let retention follow a success with a guest off, disabled or copied empty both
  times. In `progress` one run and one copy of four may be the timer's (`Reserve` keeps
  the other three for requested starts, so that the bounds never refuse a request), and a
  daily copy may be held back for ever: only the request itself can bring the copy about.
- *Write window, health cache.* Two processes of two threads share and split a window;
  two requests share a refresh that one of them cancels.

Fairness:

- *Lanes.* Strong fairness of each process's step: a poll or a blocking `flock` is
  served although the lock flickers, which is what repeated polling (`_wait_owner`) and
  the kernel's queue give. Weak fairness of `Leave` and of the exit of processes that
  keep old descriptors: jobs end. No fairness for `Die`, `Cancel`, `Spawn` or the probe.
- *Outbox.* Weak fairness of each worker's and client's steps (Hatchet dispatches, a
  received request runs), of the reconciler (a two-minute cron) and of the owner
  (its command has its own limit). Nothing forces a control request or a fault.
- *Leases.* No liveness is claimed: the code gives up under contention.
- *Tasks.* Weak fairness of a process that was not stopped, strong fairness of running
  `st done` again, which its messages ask for and no schedule does.
- *Stream.* The reader waits again with its cursor, deadlines pass, and the event loop
  runs it between disconnections; wakes get no fairness at all.
- *Messages.* Commands, hooks and the watcher run on, Tether delivers to an idle agent,
  turns end. Nobody is obliged to answer or to prompt.
- *Releases.* Started commands go on; `app/workflows/scheduled.py:247-253` runs heal for
  ever and does not meet a held lock every time (strong fairness); the cooldown passes.
  That heal runs inside `HealsIn`, so it is not enabled while that unit is stopped, and
  heals from a shell are not assumed: `Healed` speaks of the other units while it is up.
- *Write window.* The guard's timer fires, holders age, a late helper gets its lock.
- *Backups.* The timer starts the unit again whenever it is off, and started runs go on
  (btrbk and restic have limits). Nothing forces a command, a request or a fault.
- *Health cache.* Fetches end and the loop resumes what is ready.

## Where code and documentation disagree

Shown by a run:

1. `dispatch_stranded`. The late `mark_automation_run_queued` of one request marks
   another request's pending receipt queued; if that one dies before it has enqueued
   anything, no workflow run exists and nothing looks at the row again.
2. `leases_op_fence`. Release by glob (`leases.py:418`) has no `kind` check: releasing
   the checkout's glob removes the op lease of an operation another process of the
   same agent is still running.
3. `fleet_stream_pages`. `drain` moves the wait's cursor after every page while its
   records are local; a deadline between two pages loses the records of the first. So
   does a deadline that meets the wait while it closes its subscription
   (`pubsub.py:60`, still inside `asyncio.timeout`) after a drain that found records.

Seen while modelling. The property is a definition of the module, and a run of it with
the constants given ends in a counterexample:

| Property | Constants | What the code does |
|---|---|---|
| `HeavyWork!WaitersHoldNothing` | three processes, heavy class | a descendant that finds the generation changed (`heavy_work.py:216`) queues as an owner and keeps the shared activity lock |
| `AutomationDispatch!CancelsAlwaysSettle` | as `settling` | a cancel accepted before the owner has a checkpoint, then a failed attempt: each execution finds no checkpoint and queues the next (`automation_dispatch.py:418`) |
| `AutomationDispatch!NoReplay` | as `dispatch` | every non-zero exit of `workflow status` counts as no checkpoint (`automation_dispatch.py:116-127`): unless the session was found paused, a retry that cannot read the checkpoint sends `workflow run` over it, also over a human checkpoint reached after the look at the session; `tests/services/test_browser_automation_dispatch.py:1` says an unresolved human checkpoint is never replayed |
| `TaskLifecycle!ReleaseSparesNewerClaim` | scene *apart* | the failure path of `st claim` (`claim.py:187`) releases without naming its claim and clears a newer worker's; `docs/local-first-implementation.md:85` says release races preserve newer work |
| `TaskLifecycle!RetainedIsAccepted` | scene *apart* | the scheduled reset of an expired claim keeps the closeout and makes its acceptance stale (`claims.py:216`), as a new commit does (`status.py:215`): `st done` resumes the request and can only block it. `done.py:153` says a retained closeout resumes from its accepted source, which `release_closeout_claim` keeps true and nothing but tests calls |
| `FleetRoot!NoPostAfterVerdict` | one root, two callers | `start_root` looks once (`fleet_sessions.py:306`) and posts after a close or a failed start was retained; line 305 says such starts never create another host root |
| `FleetRoot!TombstoneTakesHold` | one root, two callers | a start's late host row hides a tombstone reconciled before it; the tombstone's digest is its key, so it is never retained again and the allocation stays taken (`fleet_sessions.py:188`) |
| `Checkout!NoSweep` | scene *editing* | writers recorded after `_require_no_sweep` looked (`commit_workflow.py:487`) are committed by someone else |
| `Checkout!WritersKept` | scene *editing* | a prune with an older dirty list drops the entry of an edit that is there (`commit_workflow.py:331`) |
| `Checkout!NoClaimUnderOp` | scene *accepting* | the look for a live op and the claim are two transactions (`coord.py:260`) |
| `Inbox!NotStranded` | one request, one note (`Fyi`) | a note's ride-along line composed before a request and posted after its wake line replaces it (`coord_deliver.py:533`) |
| `Release!NextRestartRecoverable` | scene *deploying* | only a failed unit step restores the unit files; the steps after it fail without that (`service.py:337`), though line 98 promises a recoverable next restart |
| `Release!OntoMigratedOnly` | *pruning* with scope frontend | `st service restart` asks `migrations_cover` before it has the lock (`service.py:783`); the docstring at 765-767 says such a restart rebuilds |
| `Release!ReleasesKept`, and `OntoCurrentOnly` without `~overtaken` | `start` with pruning, or with heal | `st service start` renders the files of the release it read without the lock (`service_ops.py:1108`), under a restart (`service_heal.py:206`) or a pruning rebuild |
| `Release!LauncherNeverLosesRelease` | scene *launching* | pruning probes and then removes (`service_release.py:534`, `538`), and the launcher resolves and then locks: a release without a pointer can go in between |
| `Release!HealedEverywhere` | scene *own* of `progress` | the scheduled heal of summitflow runs inside a worker, inherits its `INVOCATION_ID` and skips it as the current unit (`service_ops.py:1062-1067`), so a worker left on another release stays there (the heal reports failure to the owner); `service_heal.py:231` says it finds and fixes the units users would see broken |
| `HostBackup!RequestHonoured` | scene *copying* with a request | the request file is removed by a copy that failed or that began before the request (`backup_run.py:82`) |
| `HostBackup!SourceKeepsCopy` | scene *copying* | a stream that produced no data fails the job, but restic has stored its snapshot (`backup_offsite.py:474`); it is the newest copy of its source, and retention may release the last copy with data next to it (`532`). The comment at 471 says a failed dump is never a recovery point, the docstring at 520 that an old copy stays until there is a newer one |
| `HostBackup!SpotRestoreFindsCopy` | scene *copying* with a request | the weekly job restores the snapshots it read at its start; a copy of the same day lets retention forget them, and the restore counts as failed (`backup_verify.py:192`) |
| `HostBackup!RemovedIsExpired` | scene *capturing* | a stop between the helper's removal of a capture and the mark in `last-good.json` (`backup_btrbk.py:350`) leaves points offered that are gone, and no later cleanup sees the capture |

Also read, not modelled: when `log_task_event` fails after a closeout's cleanup was
recorded, the handler stores `blocked` over the complete closeout.

## Proofs

Each inductive invariant was checked by TLC on the instances above before it was
proved. Theorems hold for any sets of processes, workers, clients, agents, paths and
ids and any bounds that satisfy the named assumptions.

**Lanes** (`HeavyWorkProofs`; `BoundsAssumption`, `ProcAssumption`,
`RequestsAssumption`). `LaneExclusive` is not inductive: nothing in it says which
locks stand behind an admission. `IInv` adds, for every point of `heavy_work()`, the
locks its process holds (`OwnerLocks`, `DescendantLocks`), that a context's
descriptors are open while it is in use, and that an exclusive `flock` excludes shared
ones. Then a generation can only be rewritten under an exclusive activity lock, so by
nobody while an admitted context has descriptors open (`GenerationIsStable`); a
descendant is admitted only after reading its own generation under a shared lock; and
two admitted contexts of a lane therefore agree on it (`LanesAreExclusive`). The order
of the queue is an argument of its own: `QueueInv` says that every waiter has its file,
and that a process between its look at the queue and the grant holds `queue.lock` and is
the oldest live waiter of its class; no step of another process can put a smaller number
before it, so a grant overtakes nobody (`QueueIsFifo`). Also `TypeCorrect`,
`SiblingsSerialize`, `LightIsNeverUpgraded`.

**Outbox** (`AutomationDispatchProofs`; `WorkerAssumption`, `AttemptsAssumption`).
The argument is the fence: `Fenced` says a worker that drives the browser holds the
running row under its own id, or the row was settled as cancelled. `Beginnings` relates
an untouched row to an untouched browser, `Reports` says whoever is about to report
holds the final status, `Checkpoints` that a session
precedes a checkpoint and that a session found closed has an ended run.
Theorems: `DispatchTypeCorrect`, `OneWorkerDrives`, `CancelIsKept`, `BeforeExecution`,
`CompletionIsTrue`, `SettledIsFinal`, `HumanCheckpointIsKept`.

**Lease table** (`CoordStoreProofs`; the assumptions of `Leases` and `StoreAssumption`).
Its first lemmas say what one transaction may do to a document: its type, which leases
and writers it may drop, that it keeps one hold per agent. `Current` carries this to the
concurrent protocol: a computed
document, waiting or in flight, whose base is still the store's version is an effect of
its transaction on the document as it is now, seen at some time not later than now.
A write the store takes is then one atomic transaction. `Owners` and `MarkOwners` say
an id belongs to one agent wherever it appears; `Counting` that every conflict counted
is a version seen go by; `LateOK` that a call leaves at most one write behind.
Theorems: `StoreTypeCorrect`, `LiveLeasesAreKept`, `WritersAreKept`, `HoldsAreSingle`,
`GivesUpOnlyUnderContention`, and `StoreImplementsBook`, that `Spec` implies the
specification of `LeaseBook`.

**Tasks** (`TaskLifecycleProofs`; `ProcAssumption`). Neither property speaks of the
copies that processes carry across transactions, and a stale copy is what could break
them. `RowOK` says what every transaction leaves: a claim and its lock come and go
together, and only a local closeout has a request id. `RowInv` ties the row to the
counters: a superseded request is older than the stored one, the request of running work
was asked by the present claim, and a pending row that is still accepted gave up the claim
that its acceptance and its request belong to (`GivenUp`). `ProcInv` adds the
closeout lock and that whoever resumes a request has read a local one. One lemma per row
transaction, one per step of a process. Theorems: `TypeCorrect`, `AcceptanceProved`,
`SupersededProved`, and the action properties `EvidenceProved`, `RequestClaimProved` and
`CleanupProved`.

**Fleet roots** (`FleetProofs`; `RootAssumption`). The invariant is about where a
belief comes from: a tombstone in the log, in what a caller has read or in what the host
answered it, is of a root that has ended (`RowInv`, `CallerInv`), the host revives
nothing, and what the host runs was retained first (`HostInv`). An allocation then has at
most one retained root that is not closed (`AllocInv`), a closed root has ended, and two
roots of one allocation never live together (`OneAliveProved`). Also `TypeCorrect`,
`ClosedMeansEndedProved`, and as action properties `NothingEntersProved` and
`StatusProved`.

**Fleet streams** (`FleetProofs`; `StreamAssumption`). `StoreInv` says that the rows are
finitely many, each under the number its event had in `history`, and that the newest
event is among them; that is why a maximum over what retention left never reuses a number
(`SequenceNamesOneEventHolds`). `ReaderInv` says that unless records were dropped the
reader has the numbers up to `mine`, and the page collected so far those from `mine` to
the wait's cursor (`After`); only a wait with an empty page subscribes, listens or polls.
`PageFacts` is the lemma about a read: without a gap the page reaches a retained row, and
a page of no rows means there are none beyond the cursor. `Joined` puts two runs of
numbers together, for any page size and any backlog. Theorems: `StreamKept`,
`StreamTypes`, `SequenceNamesOneEventHolds`, `SkippedOnlyByDeadlineHolds` and the action
property `EmptyMeansQuietHolds`.

**Checkout** (`AgentsProofs`; `CheckoutAssumption`). `LockInv` gives a commit the
repository lock up to its end, `GateInv` says no commit is past its guard while an
acceptance with a lease checks; it is kept because acceptance passes its first look under
the lock only when no commit runs, and the guard passes only without foreign leases.
Hence `HeadStill`. For `SweepByRaceOnly` the heart is `WriterInv`: every edit in the tree,
or about to be made under a claim, has an entry in the path's writer set, or is counted
as lost, or belongs to a shell whose hook will list the path. When the sweep guard finds
no foreign writer, whatever foreign work it listed must therefore be of the last two
kinds (`Seen`). Work only grows while the commit holds the lock (`Listed`), so the
listing stays a beginning of what is staged, and that of what is committed (`Staged`).
From the same facts `SuccessIsStaged`, and `TypeCorrect`, which needs that a commit which
moves HEAD was counted (`HeadInv`).

**Messages** (`AgentsProofs`; `InboxAssumption`). `StrandedOnlyByRace` speaks of a quiet
inbox only, and what makes it true happens before. `InboxInv` therefore asks for a reason,
at every moment, behind each unheard item that the woke file counts as told and that no
counted mishap concerns (`PromiseInv`): a wake line is queued, the command that marked the
item is about to queue one, the hook's own command is under way, or the hook is about to
print the item or to look again. With nobody acting only the first is left
(`StrandedOnlyByRaceHolds`). The other parts say that an idle agent runs no hook, when
the hook's token is out, that an item not yet sent is marked by nobody, and that whoever
marks or posts has composed a line.

**Releases** (`ReleaseProofs`; `ReleaseAssumption`). A rebuild looks and acts many steps
later, so `ReleaseInv` says of the process that holds the lock what it has established
and still relies on (`CliOK`): its release is on disk and not the live one until the
pointer moves (`RebuildOK`, `LiveOK`), the forward check still holds (`ForwardOK`), only
a release found healthy is published (`VerifiedOK`), what unit files and processes use is
among the references it read or is pointed to (`ReferOK`), and what pruning is about to
look at or to remove nobody uses (`PruneOK`). The proof has two kinds of step. A step of
the holder leaves all other processes with nothing to show (`HolderStep`). A step without
the lock (`OutsideStep`) moves no pointer and writes no receipt; it gives a unit file only
the live release, a process only what its file named, and a launcher that starts to run
holds a release that is there. The one exception is a `start` that was overtaken, which
is why the theorems about unit files and processes have that proviso; those about
pointers, receipts and launchers have none. Theorems: `ReleaseKept`,
`ReleaseTypes`, `PruningKeepsReleasesHolds`, `CurrentVerifiedHolds`, `ForwardOnlyHolds`,
`HealOntoMigratedOnlyHolds`, `OntoCurrentOnlyHolds`.

**Host backup** (`HostProofs`; `BackupAssumption`). `LockInv` gives `run.lock` to
one process; `NewestRun` says the run being captured is the newest and not the last good
one; `OnDisk` what it has on the T7, on the source and in its receipts at every step, the
handler's included; `Removable` that what cleanup removes has no point left and is not
the run itself. That is what keeps `last-good.json` restorable through a failure or a
stop anywhere (`LastGoodProved`). `CopyInv` says that each job recorded as done has a
copy with data in Drive and that the jobs still to come have left nothing under the
number of this copy, that retention runs only after a success, and that the state and the
copy of it in memory name successes whose copies are kept. A group keeps its newest copy,
which for a required part is then the one just made; for a registered source the theorem
names the two ways in which its last copy with data can go. Theorems: `TypeCorrect`,
`LastGoodProved`, `ReadsOneRunProved`, `DriveKeepsCopiesProved`, `VerifyRecordProved`.

**Write window, health cache** (`HostProofs`; `WindowAssumption`, `CacheAssumption`).
`CountInv` says that `_counts` is the number of threads inside and that a dead process has
none; it needs the library's facts on cardinalities and nothing about the number of
threads. `HolderInv` says that while the helper has not failed the mount is writable just
when there are holder files and that whoever is inside and has not run out has one. Hence
`InsideCanWriteHolds`, and with the counts alone the action property `OnlyOwnCloseHolds`:
whatever fails, one process's close, death or clean-up never takes the target from
another. In the cache `Finds` says what a waiting request will see: its refresh runs, or
the entry was stored since it asked, or a failure or an invalidation came in between
(`spoilt`). A new refresh starts only when the last one has ended, so nobody who waits is
left behind on an old entry (`AnswerIsCurrentHolds`, for any TTL). Also `WindowKept` and
`CacheKept`.

Only model-checked: all liveness properties (fairness is outside the prover) and the
violations.

## What is not modelled

The parts listed as `not_modelled` in `PROJECT.json`, each with its reason. Most of the
repository's lines are of kinds a model checker has nothing to say about: a web
frontend, HTTP validation and formatting, one-statement record keeping, wrappers around
git, Docker, btrbk and Proxmox, samplers and their readers, text classification. They
keep no protocol state, so the map covers a small share of the lines and most of the
coordination code.

Of the modelled parts: payload validation that rejects without a state change; the file
store behind `ST_LEASES_DIR`, which holds one `flock` around an operation and so
is `LeaseBook` itself; legacy tmux and touch records; displayed fields; the legacy
remote closeout, which nothing calls; delivery to other hosts and native threads and
armed reply waits; the host monitor's collector, detached jobs and remote runtimes of a
deployment; the edit hook's ways out, which let an edit through without the look for an
operation or without a claim when either raises (`coord.py:363-372`), and shell commands
that go on writing in the background after the hook (`coord.py:785-800`); since when a
guest is off, optional dumps, alerts, caches and prune of a backup, the btrbk or restic a
killed run leaves behind, and the write window a capture opens (`WriteWindow` alone has
it). Tether, Hatchet, Agent Hub, the browser owner, the fleet host, systemd, the
backup helper's mount and the kernel's `flock` are external and modelled from the code
that uses them.

## Plan

1. **Abstract lanes**: a schedule with one owner and a tree of descendants per lane,
   implemented by `HeavyWork`.
2. **Publication**: the receipt of `github_publish.py` and its repair, once against
   interruption between push, pull request and receipt.
3. **Backups**: a capture inside its write window, and what a process left behind by a
   killed run can still do to the points.
