--------------------------- MODULE TaskLifecycle ---------------------------
(***************************************************************************)
(* One task, and the st processes that claim it, accept its work and close *)
(* it: cli/commands/claim.py, cli/commands/done_task.py and                *)
(* app/services/task_closeout.py over the row transactions of TaskRow.     *)
(* A process reads the task, decides on what it read and acts in later     *)
(* transactions; it may stop between any two of them.  The API's status    *)
(* endpoint, commits recorded on the task, the passage of time and the     *)
(* expiry reset of app/workflows/scheduled.py act on the row in between.   *)
(***************************************************************************)
EXTENDS TaskRow

CONSTANTS Proc,         \* st processes; two of them may be one worker's
          WorkerOf,     \* the worker identity each process runs under
          NoProc,
          MaxClaims,    \* claims that are explored
          MaxRequests,  \* closeout requests that are explored
          MaxStops      \* processes killed half way that are explored

ASSUME ProcAssumption ==
    /\ WorkerOf \in [Proc -> Worker] /\ NoProc \notin Proc
    /\ MaxClaims \in Nat /\ MaxRequests \in Nat /\ MaxStops \in Nat

VARIABLES
    task,        \* the task's row
    checkpoint,  \* the checkpoint metadata file exists
    closer,      \* process that holds the task's closeout advisory lock
    cli,         \* what each st process is doing and has read
    claims,      \* claims so far: the next claimed_at
    requests,    \* closeout requests so far: the next request_id
    evidence,    \* claimed_at of the claim the acceptance was attached under
    asked,       \* claimed_at of the claim the closeout was requested under
    dead,        \* request ids that a lifecycle change has superseded
    stops        \* processes killed so far

ghosts == <<evidence, asked, dead>>
counters == <<claims, requests, stops>>
vars == <<task, checkpoint, closer, cli, claims, requests, evidence, asked, dead, stops>>

Claiming == {"claim", "renew", "snapshot", "release", "releasing"}
Finishing == {"own", "own_record", "accept", "close", "ask", "asking", "clean", "clean_record"}
Resuming == {"resume", "validate", "complete", "finish", "log", "block"}
Locked == {"asking"} \cup (Resuming \ {"resume"})

(* What a process keeps of a row it read, and of a claim it holds.         *)
Read(t) == [status |-> t.status, acceptance |-> t.acceptance, closeout |-> t.closeout]
Held(t) == [claimed_by |-> t.claimed_by, claimed_at |-> t.claimed_at, acceptance |-> t.acceptance]

Idle == [pc |-> "idle", seen |-> Read(NewRow), claim |-> Held(NewRow), had |-> FALSE, source |-> NoSource]

TypeOK ==
    /\ task \in Row
    /\ checkpoint \in BOOLEAN
    /\ closer \in Proc \cup {NoProc}
    /\ cli \in [Proc -> [pc : {"idle"} \cup Claiming \cup Finishing \cup Resuming,
                         seen : [status : Status, acceptance : Acceptance, closeout : Closeout],
                         claim : [claimed_by : Worker \cup {NoWorker}, claimed_at : Nat,
                                  acceptance : Acceptance],
                         had : BOOLEAN,
                         source : Source \cup {NoSource}]]
    /\ claims \in 0..MaxClaims /\ requests \in 0..MaxRequests /\ stops \in 0..MaxStops
    /\ evidence \in 0..MaxClaims /\ asked \in 0..MaxClaims
    /\ dead \subseteq 1..MaxRequests
    /\ (task.claimed_by = NoWorker) = (task.claimed_at = 0)
    /\ (task.claimed_by = NoWorker) = (task.lock = "none")
    /\ \A p \in Proc : (closer = p) = (cli[p].pc \in Locked)

Init ==
    /\ task = NewRow
    /\ checkpoint = FALSE
    /\ closer = NoProc
    /\ cli = [p \in Proc |-> Idle]
    /\ claims = 0 /\ requests = 0 /\ stops = 0
    /\ evidence = 0 /\ asked = 0 /\ dead = {}

Go(p, pc) == cli' = [cli EXCEPT ![p].pc = pc]
Leave(p) == cli' = [cli EXCEPT ![p] = Idle]
\* Mutant: a session lock nobody gives back.
UnlockLater(p) == closer' = closer

Unlock(p) == closer' = IF closer = p THEN NoProc ELSE closer

(* Every write of the row; the ghosts note the claim at under which the    *)
(* writer made a new acceptance or request, and the request superseded.    *)
WriteUnder(at, t) ==
    /\ task' = t
    /\ evidence' = IF t.acceptance.state # "success" THEN 0
                   ELSE IF t.acceptance = task.acceptance THEN evidence ELSE at
    /\ asked' = IF t.closeout.kind # "local" THEN 0
                ELSE IF t.closeout.request_id = task.closeout.request_id THEN asked
                ELSE at
    /\ dead' = IF task.closeout.kind = "local" /\ t.closeout.kind # "local"
               THEN dead \cup {task.closeout.request_id} ELSE dead

Write(t) == WriteUnder(task.claimed_at, t)

---------------------------------------------------------------------------
(* st claim: read the task, claim it, create the checkpoint; when that     *)
(* fails, remove the checkpoint and release through the API, which looks   *)
(* at the claim before it clears it.                                       *)
ClaimReads(p) ==
    /\ cli[p].pc = "idle"
    /\ \E force \in BOOLEAN :
         LET mine == task.claimed_by = WorkerOf[p]
             resumes == task.status = "running" /\ checkpoint /\ mine
         IN  /\ \/ resumes
                \/ force
                \/ task.status \in Claimable \/ (task.status = "running" /\ mine)
             /\ cli' = [cli EXCEPT ![p] =
                          [Idle EXCEPT !.pc = IF resumes THEN "renew" ELSE "claim",
                                       !.had = checkpoint /\ ~force]]
    /\ UNCHANGED <<task, checkpoint, closer, counters, ghosts>>

RenewsClaim(p) ==
    /\ cli[p].pc = "renew"
    /\ Write(IF CanRenew(task, WorkerOf[p]) THEN Renewed(task) ELSE task)
    /\ Leave(p)
    /\ UNCHANGED <<checkpoint, closer, counters>>

ClaimsAgain(p) ==
    /\ cli[p].pc = "claim"
    /\ CanRenew(task, WorkerOf[p])
    /\ Write(Renewed(task))
    /\ cli' = [cli EXCEPT ![p] = IF cli[p].had THEN Idle
                                 ELSE [@ EXCEPT !.pc = "snapshot", !.claim = Held(task)]]
    /\ UNCHANGED <<checkpoint, closer, counters>>

Claims(p) ==
    /\ cli[p].pc = "claim"
    /\ CanClaim(task) /\ claims < MaxClaims
    /\ claims' = claims + 1
    /\ LET t == Claimed(task, WorkerOf[p], claims + 1)
       IN  /\ Write(t)
           /\ cli' = [cli EXCEPT ![p] = IF cli[p].had THEN Idle
                                        ELSE [@ EXCEPT !.pc = "snapshot", !.claim = Held(t)]]
    /\ UNCHANGED <<checkpoint, closer, requests, stops>>

ClaimRefused(p) ==
    /\ cli[p].pc = "claim"
    /\ ~CanRenew(task, WorkerOf[p])
    /\ ~CanClaim(task) \/ claims = MaxClaims
    /\ Leave(p)
    /\ UNCHANGED <<task, checkpoint, closer, counters, ghosts>>

(* An existing file ends the process (sys.exit is no Exception).           *)
CreatesSnapshot(p) ==
    /\ cli[p].pc = "snapshot"
    /\ checkpoint' = TRUE
    /\ Leave(p)
    /\ UNCHANGED <<task, closer, counters, ghosts>>

SnapshotFails(p) ==
    /\ cli[p].pc = "snapshot"
    /\ checkpoint' = FALSE
    /\ Go(p, "release")
    /\ UNCHANGED <<task, closer, counters, ghosts>>

ReleaseReads(p) ==
    /\ cli[p].pc = "release"
    /\ IF task.claimed_by = NoWorker THEN Leave(p) ELSE Go(p, "releasing")
    /\ UNCHANGED <<task, checkpoint, closer, counters, ghosts>>

Releases(p) ==
    /\ cli[p].pc = "releasing"
    /\ Write(Released(task))
    /\ Leave(p)
    /\ UNCHANGED <<checkpoint, closer, counters>>

---------------------------------------------------------------------------
(* st done: an active request is resumed; a completed task only loses its  *)
(* checkpoint; other work is owned, accepted, requested and resumed.  What *)
(* was read decides whether it is implementation or record-only work.      *)
DoneReads(p) ==
    /\ cli[p].pc = "idle"
    /\ \/ Active(task.closeout)
       \/ task.status \notin {"failed", "completed"}
       \/ task.status = "completed" /\ checkpoint /\ ~Gated(task)
    /\ cli' = [cli EXCEPT ![p] = [Idle EXCEPT
                 !.had = checkpoint,
                 !.seen = IF task.status = "completed" THEN Read(task) ELSE @,
                 !.pc = IF Active(task.closeout) THEN "resume"
                        ELSE IF task.status = "completed"
                        THEN IF Requires(task) THEN "clean" ELSE "clean_record"
                        ELSE IF Requires(task) THEN "own" ELSE "own_record"]]
    /\ UNCHANGED <<task, checkpoint, closer, counters, ghosts>>

Owns(p) ==
    /\ cli[p].pc \in {"own", "own_record"}
    /\ CanRenew(task, WorkerOf[p])
    /\ Write(Renewed(task))
    /\ cli' = [cli EXCEPT ![p].pc = IF cli[p].pc = "own" THEN "accept" ELSE "close",
                          ![p].claim = Held(task)]
    /\ UNCHANGED <<checkpoint, closer, counters>>

OwnRefused(p) ==
    /\ cli[p].pc \in {"own", "own_record"}
    /\ ~CanRenew(task, WorkerOf[p])
    /\ Leave(p)
    /\ UNCHANGED <<task, checkpoint, closer, counters, ghosts>>

(* Checks run for minutes before the receipt is attached to the claim.     *)
AcceptsWork(p, s) ==
    /\ cli[p].pc = "accept"
    /\ CanAttach(task, cli[p].claim)
    /\ WriteUnder(cli[p].claim.claimed_at, Attached(task, s))
    /\ cli' = [cli EXCEPT ![p].pc = "ask", ![p].source = s]
    /\ UNCHANGED <<checkpoint, closer, counters>>

AcceptFails(p) ==
    /\ cli[p].pc = "accept"
    /\ Leave(p)
    /\ UNCHANGED <<task, checkpoint, closer, counters, ghosts>>

RequestReads(p) ==
    LET held == closer # NoProc
        proved == task.status \in {"running", "pending", "completed"} /\ Accepted(task, cli[p].source)
        same == task.status = "running" /\ task.claimed_by = cli[p].claim.claimed_by
                /\ task.claimed_at = cli[p].claim.claimed_at
    IN  /\ cli[p].pc = "ask"
        /\ \/ /\ ~held /\ proved /\ Active(task.closeout)
              /\ task.closeout.source = cli[p].source
              /\ Go(p, "resume") /\ UNCHANGED closer
           \/ /\ ~held /\ proved /\ ~Active(task.closeout) /\ same
              /\ requests < MaxRequests
              /\ closer' = p
              /\ cli' = [cli EXCEPT ![p].pc = "asking", ![p].seen = Read(task)]
           \/ /\ \/ held \/ ~proved
                 \/ Active(task.closeout) /\ task.closeout.source # cli[p].source
                 \/ ~Active(task.closeout) /\ ~same
                 \/ requests = MaxRequests
              /\ Leave(p) /\ UNCHANGED closer
        /\ UNCHANGED <<task, checkpoint, counters, ghosts>>

Requests(p) ==
    /\ cli[p].pc = "asking"
    /\ CanRequest(task, cli[p].seen, cli[p].claim, cli[p].source)
    /\ requests' = requests + 1
    /\ WriteUnder(cli[p].claim.claimed_at, Requested(task, requests + 1, cli[p].source))
    /\ Go(p, "resume")
    /\ Unlock(p)
    /\ UNCHANGED <<checkpoint, claims, stops>>

RequestSuperseded(p) ==
    /\ cli[p].pc = "asking"
    /\ ~CanRequest(task, cli[p].seen, cli[p].claim, cli[p].source)
    /\ Leave(p)
    /\ Unlock(p)
    /\ UNCHANGED <<task, checkpoint, counters, ghosts>>

---------------------------------------------------------------------------
(* resume_closeout: under the advisory lock, on the task read once.        *)
ResumeReads(p) ==
    LET current == closer = NoProc /\ Active(task.closeout)
                   /\ task.status \in {"pending", "running", "completed"}
    IN  /\ cli[p].pc = "resume"
        /\ IF current
           THEN /\ closer' = p
                /\ cli' = [cli EXCEPT ![p].pc = "validate", ![p].seen = Read(task)]
           ELSE Leave(p) /\ UNCHANGED closer
        /\ UNCHANGED <<task, checkpoint, counters, ghosts>>

(* The repository lock, the receipt, the owned paths and the assessment    *)
(* either pass or raise; the acceptance is the one that was read.          *)
Validates(p) ==
    LET seen == cli[p].seen
    IN  /\ cli[p].pc = "validate"
        /\ \/ /\ Accepted(seen, seen.closeout.source)
              /\ seen.status # "completed" => ~Gated(task)
              /\ Go(p, IF seen.status = "completed" THEN "finish" ELSE "complete")
           \/ Go(p, "block")
        /\ UNCHANGED <<task, checkpoint, closer, counters, ghosts>>

CompletesRequest(p) ==
    /\ cli[p].pc = "complete"
    /\ IF CanCompleteRequest(task, cli[p].seen.closeout.request_id)
       THEN Write(Updated(task, "completed")) /\ Go(p, "finish")
       ELSE UNCHANGED <<task, ghosts>> /\ Go(p, "block")
    /\ UNCHANGED <<checkpoint, closer, counters>>

(* The cleanup runs inside the transaction that holds the row lock.        *)
FinishesCleanup(p) ==
    /\ cli[p].pc = "finish"
    /\ CanFinish(task, cli[p].seen.closeout)
    /\ checkpoint' = FALSE
    /\ Write(Finished(task))
    /\ Go(p, "log")
    /\ UNCHANGED <<closer, counters>>

CleanupSuperseded(p) ==
    /\ cli[p].pc = "finish"
    /\ ~CanFinish(task, cli[p].seen.closeout)
    /\ Leave(p)
    /\ Unlock(p)
    /\ UNCHANGED <<task, checkpoint, counters, ghosts>>

(* The cleanup raises, or the transaction fails after it: the row is       *)
(* rolled back, the file may be gone.                                      *)
CleanupFails(p) ==
    /\ cli[p].pc = "finish"
    /\ CanFinish(task, cli[p].seen.closeout)
    /\ checkpoint' \in {checkpoint, FALSE}
    /\ Go(p, "block")
    /\ UNCHANGED <<task, closer, counters, ghosts>>

(* An event that cannot be stored is an exception of the resumption.       *)
LogsCompletion(p) ==
    /\ cli[p].pc = "log"
    /\ \/ Leave(p) /\ Unlock(p)
       \/ Go(p, "block") /\ UNCHANGED closer
    /\ UNCHANGED <<task, checkpoint, counters, ghosts>>

Blocks(p) ==
    /\ cli[p].pc = "block"
    /\ Write(IF CanBlock(task, cli[p].seen.closeout) THEN Blocked(task, cli[p].seen.closeout)
             ELSE task)
    /\ Leave(p)
    /\ Unlock(p)
    /\ UNCHANGED <<checkpoint, counters>>

---------------------------------------------------------------------------
(* Record-only work is closed by its exact claim; completed tasks whose    *)
(* checkpoint remains lose it under the row lock.                          *)
ClosesOwned(p) ==
    /\ cli[p].pc = "close"
    /\ \/ /\ CanCompleteOwned(task, cli[p].claim)
          /\ Write(Updated(task, "completed"))
          /\ cli' = [cli EXCEPT ![p] = IF cli[p].had
                       THEN [@ EXCEPT !.pc = "clean_record", !.seen = Read(Updated(task, "completed"))]
                       ELSE Idle]
       \/ Leave(p) /\ UNCHANGED <<task, ghosts>>   \* claim changed, commit added or subtasks left
    /\ UNCHANGED <<checkpoint, closer, counters>>

CleansCompleted(p) ==
    /\ cli[p].pc \in {"clean", "clean_record"}
    /\ checkpoint' = IF CanCleanCompleted(task, cli[p].seen.acceptance, cli[p].pc = "clean")
                     THEN FALSE ELSE checkpoint
    /\ Leave(p)
    /\ UNCHANGED <<task, closer, counters, ghosts>>

---------------------------------------------------------------------------
(* The rest of the world.                                                  *)
UpdatesStatus(s) ==
    /\ s # "completed"
    /\ MayMove(task, s)
    /\ Write(Updated(task, s))
    /\ UNCHANGED <<checkpoint, closer, cli, counters>>

CompletesByApi(skip_gates) ==
    /\ ~Gated(task)
    /\ skip_gates \/ MayMove(task, "completed")
    /\ Write(Updated(task, "completed"))
    /\ UNCHANGED <<checkpoint, closer, cli, counters>>

(* st commit --task records what it committed, on a claim it renewed       *)
(* before; the row may be in any status by then.                           *)
AddsCommit(s) ==
    /\ Write(Committed(task, s))
    /\ UNCHANGED <<checkpoint, closer, cli, counters>>

HandsOver(r) ==
    /\ CanHandOver(task, r)
    /\ Write(HandedOver(task))
    /\ UNCHANGED <<checkpoint, closer, cli, counters>>

LockExpires ==
    /\ task.lock = "live"
    /\ task' = [task EXCEPT !.lock = "expired"]
    /\ UNCHANGED <<checkpoint, closer, cli, counters, ghosts>>

ResetsExpired ==
    /\ CanReset(task)
    /\ Write(Reset(task))
    /\ UNCHANGED <<checkpoint, closer, cli, counters>>

Stops(p) ==
    /\ cli[p].pc # "idle" /\ stops < MaxStops
    /\ stops' = stops + 1
    /\ Leave(p)
    /\ Unlock(p)
    /\ UNCHANGED <<task, checkpoint, claims, requests, ghosts>>

Starts(p) == ClaimReads(p) \/ DoneReads(p)

Step(p) ==
    \/ RenewsClaim(p) \/ ClaimsAgain(p) \/ Claims(p) \/ ClaimRefused(p)
    \/ CreatesSnapshot(p) \/ SnapshotFails(p) \/ ReleaseReads(p) \/ Releases(p)
    \/ Owns(p) \/ OwnRefused(p) \/ AcceptFails(p)
    \/ \E s \in Source : AcceptsWork(p, s)
    \/ RequestReads(p) \/ Requests(p) \/ RequestSuperseded(p)
    \/ ResumeReads(p) \/ Validates(p) \/ CompletesRequest(p)
    \/ FinishesCleanup(p) \/ CleanupSuperseded(p) \/ CleanupFails(p)
    \/ LogsCompletion(p) \/ Blocks(p)
    \/ ClosesOwned(p) \/ CleansCompleted(p)

World ==
    \/ \E s \in Status : UpdatesStatus(s)
    \/ \E skip \in BOOLEAN : CompletesByApi(skip)
    \/ \E s \in Landed : AddsCommit(s)
    \/ \E r \in 1..requests : HandsOver(r)
    \/ LockExpires
    \/ ResetsExpired

Next == World \/ \E p \in Proc : Starts(p) \/ Step(p) \/ Stops(p)

Spec == Init /\ [][Next]_vars

(* A process that is not killed goes on, and st done is run again after a  *)
(* failure, as its messages tell the user to do.                           *)
FairSpec == Spec /\ \A p \in Proc : WF_vars(Step(p)) /\ SF_vars(DoneReads(p))

---------------------------------------------------------------------------
(* A running task's successful acceptance was attached under the claim     *)
(* that runs it: no claim inherits an earlier claim's proof, whatever      *)
(* expiry, release and reclaim happened while the checks ran.              *)
AcceptanceOfThisClaim ==
    task.status = "running" /\ task.acceptance.state = "success" => evidence = task.claimed_at

(* A closeout request completes an open task on the acceptance of the      *)
(* claim that asked for it, inside that claim or after it was given up,    *)
(* and never inside another: a resumption that read the task before it was *)
(* reset or claimed again completes nothing.                               *)
RequestCompletesItsClaim ==
    [][\A p \in Proc :
         cli[p].pc = "complete" /\ task.status # "completed" /\ task'.status = "completed"
             /\ cli'[p].pc = "finish"
           => evidence = asked /\ task.claimed_at \in {asked, 0}]_vars

(* A retained request can be resumed from its accepted source.             *)
RetainedIsAccepted == Active(task.closeout) => Accepted(task, task.closeout.source)

(* A request that a lifecycle change turned into history is never the      *)
(* task's closeout again: a late blocked write does not bring it back.     *)
SupersededStaysDead == task.closeout.kind = "local" => task.closeout.request_id \notin dead

(* A task with implementation work becomes completed only on a successful  *)
(* acceptance, by whichever of the four ways, and a completed row is       *)
(* without one only because a commit was recorded on it later.             *)
CompletedOnEvidence ==
    [][task'.status = "completed" /\ Gated(task')
         => task.status = "completed" /\ (Gated(task) \/ task'.commits # task.commits)]_vars

(* Completion's cleanup never takes the checkpoint of open work: only a    *)
(* completed row loses it, or a claim that failed to create it.            *)
CleanupSparesOpenWork ==
    [][checkpoint /\ ~checkpoint' =>
         task.status = "completed" \/ \E p \in Proc : cli[p].pc = "snapshot"]_vars

(* A pending closeout does not stay pending: it is completed, blocked with *)
(* a reason or superseded, through kills half way and a contended lock.    *)
PendingCloseoutSettles == []<>(task.closeout.state # "pending")

(* A process whose claim failed releases that claim and no newer one.      *)
ReleaseSparesNewerClaim ==
    [][\A p \in Proc :
         cli[p].pc = "releasing" /\ cli'[p].pc = "idle" /\ task' # task
           => task.claimed_at = cli[p].claim.claimed_at]_vars
============================================================================
