------------------------ MODULE AutomationDispatch ------------------------
(***************************************************************************)
(* The outbox of backend/app/services/automation_dispatch.py: Agent Hub    *)
(* hands a browser run to SummitFlow, a receipt row records it, a Hatchet  *)
(* workflow run claims the row, drives the browser owner and reports the   *)
(* outcome back.  Three kinds of actors interleave between any two         *)
(* database statements:                                                    *)
(*                                                                         *)
(*  - workers: Hatchet workflow runs of automation_owner_run_wf, retried   *)
(*    under the same id after an exception, a timeout or a lost process;   *)
(*  - clients: a callback request, a control request or the two-minute     *)
(*    reconciler, each of which may die at any await;                      *)
(*  - the browser owner, a program outside this repository, known here by  *)
(*    the commands it is sent and the receipts the code accepts from it.   *)
(*                                                                         *)
(* A worker id is used again once nothing refers to it any more, so the    *)
(* number of deliveries over a run's life is not bounded.                  *)
(***************************************************************************)
EXTENDS AutomationReceipt, Integers, FiniteSets

CONSTANTS Client,       \* requests and reconciler runs in progress at once
          MaxAttempts,  \* attempts Hatchet gives a workflow run (6 in the code)
          MaxFaults,    \* crashes, timeouts and failed calls that are explored
          Reserve       \* worker ids that clients leave to the workers' requeues

ASSUME AttemptsAssumption ==
    MaxAttempts \in Nat \ {0} /\ MaxFaults \in Nat /\ Reserve \in Nat

VARIABLES
    pc,      \* where each worker is; "free" ids are unknown to Hatchet
    ctl,     \* control action in the receipt the worker last executed with
    res,     \* owner status the worker got, or the exception it handles
    seen,    \* status of the receipt the worker's last write returned
    existing, \* state of the session the worker found instead of creating it
    tries,   \* attempts Hatchet has started for this workflow run
    cpc,     \* where each client is
    role,    \* the handler the client runs
    fence,   \* worker id the client read before settling a cancellation
    session, \* the automation's browser session exists
    ckpt,    \* the owner's checkpoint of the run
    marker,  \* the owner's durable cancellation marker
    told,    \* completion statuses Agent Hub has been sent
    faults   \* faults so far

hatchet == <<pc, existing, tries>>
local == <<ctl, res, seen>>
client == <<cpc, role, fence>>
owner == <<session, ckpt, marker>>
vars == <<row, pc, ctl, res, seen, existing, tries, client, owner, told, faults>>

Outcome == {"complete", "cancelled", "waiting_human", "failed"}
Raised == {"outcome_unknown", "error"}
SessionState == {"active", "paused", "closed"}
Ended == {"complete", "cancelled", "failed"}
Driving == {"open", "inspect", "run", "resume", "await", "recheck", "settle"}
Handling == {"except", "except_wait", "except_finish"}
Telling == {"tell_waiting", "tell_wait", "tell_wait_x"}
Requeuing == {"enqueue_try", "enqueue_x", "mark"}
Reporting == {"report", "report_raise", "stamp", "stamp_raise"}
Active == {"claim"} \cup Driving \cup Handling \cup Telling \cup Requeuing \cup Reporting

WorkerType ==
    /\ pc \in [Worker -> {"free", "ready"} \cup Active]
    /\ ctl \in [Worker -> Action \cup {"none"}]
    /\ res \in [Worker -> Outcome \cup Raised \cup {"none"}]
    /\ seen \in [Worker -> Status]
    /\ existing \in [Worker -> SessionState \cup {"none"}]
    /\ tries \in [Worker -> 0..MaxAttempts]
    /\ \A w \in Worker : pc[w] \in {"free", "ready"} => tries[w] < MaxAttempts

ClientType ==
    /\ cpc \in [Client -> {"idle", "enqueue", "mark", "cancels", "deliver", "read",
                           "finish", "report", "stamp"}]
    /\ role \in [Client -> {"none", "accept", "control", "reconcile"}]
    /\ fence \in [Client -> Worker \cup {NoWorker}]

OwnerType ==
    /\ session \in BOOLEAN
    /\ ckpt \in Outcome \cup {"none", "running"}
    /\ marker \in BOOLEAN

(* Values of all variables; Hatchet never starts more attempts than it has *)
(* (automation_owner_run_wf), and faults stay within their bound.          *)
TypeOK ==
    /\ RowType /\ WorkerType /\ ClientType /\ OwnerType
    /\ told \subseteq Status
    /\ faults \in 0..MaxFaults

Init ==
    /\ RowInit
    /\ pc = [w \in Worker |-> "free"]
    /\ ctl = [w \in Worker |-> "none"]
    /\ res = [w \in Worker |-> "none"]
    /\ seen = [w \in Worker |-> "absent"]
    /\ existing = [w \in Worker |-> "none"]
    /\ tries = [w \in Worker |-> 0]
    /\ cpc = [c \in Client |-> "idle"]
    /\ role = [c \in Client |-> "none"]
    /\ fence = [c \in Client |-> NoWorker]
    /\ session = FALSE
    /\ ckpt = "none"
    /\ marker = FALSE
    /\ told = {}
    /\ faults = 0

-----------------------------------------------------------------------------
(* Hatchet *)

Fault == faults < MaxFaults /\ faults' = faults + 1

(* A uuid that neither the row nor a reader of the row still holds. *)
Fresh(w) == pc[w] = "free" /\ worker # w /\ \A c \in Client : fence[c] # w

Forget(w) ==
    /\ ctl' = [ctl EXCEPT ![w] = "none"]
    /\ res' = [res EXCEPT ![w] = "none"]
    /\ seen' = [seen EXCEPT ![w] = "absent"]
    /\ existing' = [existing EXCEPT ![w] = "none"]

(* The task returned: Hatchet is done with the workflow run. *)
Return(w) ==
    /\ pc' = [pc EXCEPT ![w] = "free"]
    /\ tries' = [tries EXCEPT ![w] = 0]
    /\ Forget(w)

(* The task raised or was lost: Hatchet retries it under the same id. *)
Raise(w) ==
    /\ pc' = [pc EXCEPT ![w] = IF tries[w] < MaxAttempts THEN "ready" ELSE "free"]
    /\ tries' = [tries EXCEPT ![w] = IF tries[w] < MaxAttempts THEN tries[w] ELSE 0]
    /\ Forget(w)

(* What the worker read of the session is of use until workflow run.       *)
Goto(w, l) ==
    /\ pc' = [pc EXCEPT ![w] = l]
    /\ existing' = [existing EXCEPT ![w] = IF l = "run" THEN existing[w] ELSE "none"]
    /\ UNCHANGED tries

(* A worker process dies, or Hatchet's ten-minute limit cancels the attempt. *)
LoseAttempt(w) ==
    /\ pc[w] \in Active
    /\ Fault
    /\ Raise(w)
    /\ UNCHANGED <<row, client, owner, told>>

(* enqueue_automation_run accepted by Hatchet, called by worker u. *)
WorkerEnqueue(u) ==
    \E w \in Worker :
        /\ Fresh(w)
        /\ pc' = [pc EXCEPT ![w] = "ready", ![u] = "mark"]
        /\ tries' = [tries EXCEPT ![w] = 0]
        /\ UNCHANGED existing

-----------------------------------------------------------------------------
(* execute_automation_run *)

(* The attempt reads the receipt and decides what is left to do. *)
Begin(w) ==
    /\ pc[w] = "ready"
    /\ LET next == IF status = "waiting" THEN "tell_waiting"
                   ELSE IF status \in Terminal THEN "report" ELSE "claim" IN
       IF status \in Terminal /\ reported
       THEN Return(w)
       ELSE /\ pc' = [pc EXCEPT ![w] = next]
            /\ tries' = [tries EXCEPT ![w] = tries[w] + 1]
            /\ seen' = [seen EXCEPT ![w] = IF next = "claim" THEN seen[w] ELSE status]
            /\ UNCHANGED <<ctl, res, existing>>
    /\ UNCHANGED <<row, client, owner, told, faults>>

ClaimRun(w) ==
    /\ pc[w] = "claim"
    /\ Claim(w)
    /\ ctl' = [ctl EXCEPT ![w] = control]
    /\ Goto(w, "open")
    /\ UNCHANGED <<res, seen, client, owner, told, faults>>

ClaimedElsewhere(w) ==
    /\ pc[w] = "claim"
    /\ ~Claimable(w)
    /\ Return(w)
    /\ UNCHANGED <<row, client, owner, told, faults>>

(* The state of an existing session: paused at a human checkpoint, closed  *)
(* at the earliest when the run has ended.                                 *)
Shows(state) ==
    \/ state = "paused" /\ ckpt = "waiting_human"
    \/ state = "active" /\ ckpt # "waiting_human"
    \/ state = "closed" /\ ckpt \in Ended

(* execute_browser_workflow without a control: create the session, or look *)
(* at the one that an earlier attempt left behind.                         *)
OpenSession(w) ==
    /\ pc[w] = "open"
    /\ ctl[w] = "none"
    /\ UNCHANGED tries
    /\ \/ /\ ~session
          /\ session' = TRUE
          /\ pc' = [pc EXCEPT ![w] = "run"]
          /\ existing' = [existing EXCEPT ![w] = "none"]
       \/ /\ session
          /\ pc' = [pc EXCEPT ![w] = "inspect"]
          /\ \E state \in SessionState : Shows(state) /\ existing' = [existing EXCEPT ![w] = state]
          /\ UNCHANGED session
    /\ UNCHANGED <<row, local, client, ckpt, marker, told, faults>>

(* Session create, status or resume fails or cannot be verified. *)
SessionError(w) ==
    /\ pc[w] \in {"open", "inspect"}
    /\ ctl[w] = "none"
    /\ Fault
    /\ res' = [res EXCEPT ![w] = "error"]
    /\ Goto(w, "except")
    /\ UNCHANGED <<row, ctl, seen, client, owner, told>>

InspectUnread(w) ==
    /\ pc[w] = "inspect"
    /\ Goto(w, "run")
    /\ UNCHANGED <<row, local, client, owner, told, faults>>

(* workflow status succeeds only on a checkpoint, and may fail on one too: *)
(* any failure is taken for the absence of a checkpoint, unless the        *)
(* session was found paused.                                               *)
InspectCheckpoint(w) ==
    /\ pc[w] = "inspect"
    /\ \/ ckpt = "running" /\ Goto(w, "resume") /\ UNCHANGED res
       \/ /\ ckpt \in Outcome
          /\ res' = [res EXCEPT ![w] = ckpt]
          /\ Goto(w, "recheck")
       \/ existing[w] # "paused" /\ Goto(w, "run") /\ UNCHANGED res
       \/ /\ existing[w] = "paused"
          /\ res' = [res EXCEPT ![w] = "error"]
          /\ Goto(w, "except")
    /\ UNCHANGED <<row, ctl, seen, client, owner, told, faults>>

(* workflow run: the owner saves a checkpoint before it acts, and starts   *)
(* over if it had one under the run's id.                                  *)
RunWorkflow(w) ==
    /\ pc[w] = "run"
    /\ ckpt' = "running"
    /\ Goto(w, "await")
    /\ UNCHANGED <<row, local, client, session, marker, told, faults>>

(* workflow resume, on a human's decision or of an interrupted run. *)
ResumeWorkflow(w) ==
    /\ pc[w] = "resume" \/ (pc[w] = "open" /\ ctl[w] = "resume")
    /\ ckpt # "none"
    /\ ckpt' = IF ckpt \in {"complete", "cancelled"} THEN ckpt ELSE "running"
    /\ Goto(w, "await")
    /\ UNCHANGED <<row, local, client, session, marker, told, faults>>

(* workflow cancel: the owner settles a run that nobody is driving, leaves *)
(* a marker for one that is, and knows nothing of a run without checkpoint.*)
CancelSettles ==
    /\ ckpt \notin {"none", "complete"}
    /\ ckpt' = "cancelled"
    /\ UNCHANGED <<session, marker>>
CancelMarks ==
    /\ ckpt = "running"
    /\ marker' = TRUE
    /\ UNCHANGED <<session, ckpt>>

CancelWorkflow(w) ==
    /\ pc[w] = "open"
    /\ ctl[w] = "cancel"
    /\ \/ CancelSettles /\ res' = [res EXCEPT ![w] = "cancelled"] /\ Goto(w, "recheck")
       \/ /\ ckpt = "complete"
          /\ res' = [res EXCEPT ![w] = "complete"]
          /\ Goto(w, "recheck")
          /\ UNCHANGED owner
       \/ CancelMarks /\ res' = [res EXCEPT ![w] = "outcome_unknown"] /\ Goto(w, "except")
    /\ UNCHANGED <<row, ctl, seen, client, told, faults>>

(* A control on a run without checkpoint gets no acceptable receipt. *)
NoCheckpoint(w) ==
    /\ pc[w] = "open"
    /\ ctl[w] # "none"
    /\ ckpt = "none"
    /\ \E e \in Raised : res' = [res EXCEPT ![w] = e]
    /\ Goto(w, "except")
    /\ UNCHANGED <<row, ctl, seen, client, owner, told, faults>>

(* The owner's command ends; _validated_browser_result accepts its receipt. *)
OwnerReturns(w) ==
    /\ pc[w] = "await"
    /\ ckpt # "running"
    /\ res' = [res EXCEPT ![w] = ckpt]
    /\ Goto(w, "recheck")
    /\ UNCHANGED <<row, ctl, seen, client, owner, told, faults>>

(* It times out, or returns a receipt that proves nothing. *)
OwnerUnknown(w) ==
    /\ pc[w] = "await"
    /\ Fault
    /\ res' = [res EXCEPT ![w] = "outcome_unknown"]
    /\ Goto(w, "except")
    /\ UNCHANGED <<row, ctl, seen, client, owner, told>>

(* The browser owner works through the definition. *)
OwnerAdvances ==
    /\ ckpt = "running"
    /\ \E o \in Outcome : (o = "cancelled" => marker) /\ ckpt' = o
    /\ UNCHANGED <<row, pc, ctl, res, seen, existing, tries, client, session, marker, told, faults>>

(* A cancel that arrived while the owner was driven is executed now. *)
Recheck(w) ==
    /\ pc[w] = "recheck"
    /\ IF status = "running" /\ control = "cancel" /\ ctl[w] # "cancel"
       THEN ctl' = [ctl EXCEPT ![w] = "cancel"] /\ Goto(w, "open")
       ELSE UNCHANGED ctl /\ Goto(w, "settle")
    /\ UNCHANGED <<row, res, seen, client, owner, told, faults>>

TerminalStatus(o) ==
    IF o = "failed" THEN "failed" ELSE IF o = "cancelled" THEN "cancelled" ELSE "succeeded"

SettleWaiting(w) ==
    /\ pc[w] = "settle"
    /\ res[w] = "waiting_human"
    /\ Wait(w)
    /\ seen' = [seen EXCEPT ![w] = status']
    /\ Goto(w, "tell_wait")
    /\ UNCHANGED <<ctl, res, client, owner, told, faults>>

AfterFinishReporting == "report"

(* A failure that kept a pending cancel is queued again, not reported. *)
AfterFinish == IF status' = "pending" THEN "enqueue_x" ELSE "report"

SettleTerminal(w) ==
    /\ pc[w] = "settle"
    /\ res[w] # "waiting_human"
    /\ Finish(w, TerminalStatus(res[w]), "owner")
    /\ seen' = [seen EXCEPT ![w] = status']
    /\ Goto(w, AfterFinish)
    /\ UNCHANGED <<ctl, res, client, owner, told, faults>>

(* The write finds the row no longer running under this worker. *)
SettleLost(w) ==
    /\ pc[w] = "settle"
    /\ ~Owns(w)
    /\ res' = [res EXCEPT ![w] = "error"]
    /\ Goto(w, "except")
    /\ UNCHANGED <<row, ctl, seen, client, owner, told, faults>>

(* except Exception: read the receipt again before deciding. *)
HandleException(w) ==
    /\ pc[w] = "except"
    /\ UNCHANGED <<ctl, res>>
    /\ \/ /\ status \in Terminal /\ ~reported
          /\ seen' = [seen EXCEPT ![w] = status]
          /\ Goto(w, "report")
       \/ /\ status = "pending" /\ control = "cancel"
          /\ UNCHANGED seen
          /\ Goto(w, "enqueue_x")
       \/ /\ \/ status = "running"
             \/ status \in {"pending", "queued"} /\ control # "cancel"
          /\ UNCHANGED seen
          /\ Goto(w, IF res[w] = "outcome_unknown" THEN "except_wait" ELSE "except_finish")
    /\ UNCHANGED <<row, client, owner, told, faults>>

HandleSettled(w) ==
    /\ pc[w] = "except"
    /\ \/ status \in Terminal /\ reported /\ Return(w)
       \/ status = "queued" /\ control = "cancel" /\ Return(w)
       \/ status = "waiting" /\ Raise(w)
    /\ UNCHANGED <<row, client, owner, told, faults>>

ExceptWait(w) ==
    /\ pc[w] = "except_wait"
    /\ Wait(w)
    /\ seen' = [seen EXCEPT ![w] = status']
    /\ Goto(w, "tell_wait_x")
    /\ UNCHANGED <<ctl, res, client, owner, told, faults>>

ExceptFinish(w) ==
    /\ pc[w] = "except_finish"
    /\ Finish(w, "failed", "none")
    /\ seen' = [seen EXCEPT ![w] = status']
    /\ Goto(w, IF status' = "pending" THEN "enqueue_x" ELSE "report_raise")
    /\ UNCHANGED <<ctl, res, client, owner, told, faults>>

ExceptLost(w) ==
    /\ pc[w] \in {"except_wait", "except_finish"}
    /\ ~Owns(w)
    /\ Raise(w)
    /\ UNCHANGED <<row, client, owner, told, faults>>

(* _report_browser_wait, then _enqueue_pending_browser_cancel if the wait  *)
(* came back as a pending cancellation.                                    *)
TellWait(w) ==
    /\ pc[w] \in Telling
    /\ IF seen[w] = "pending"
       THEN /\ Goto(w, IF pc[w] = "tell_wait" THEN "enqueue_try" ELSE "enqueue_x")
            /\ UNCHANGED local
       ELSE Return(w)
    /\ UNCHANGED <<row, client, owner, told, faults>>

(* Agent Hub or Hatchet does not answer: inside the try block the handler  *)
(* takes over, elsewhere the attempt ends and is retried.                  *)
CallFails(w) ==
    /\ pc[w] \in Telling \cup {"enqueue_try", "enqueue_x", "report", "report_raise"}
    /\ Fault
    /\ IF pc[w] \in {"tell_wait", "enqueue_try"}
       THEN /\ res' = [res EXCEPT ![w] = "error"]
            /\ Goto(w, "except")
            /\ UNCHANGED <<ctl, seen>>
       ELSE Raise(w)
    /\ UNCHANGED <<row, client, owner, told>>

RequeueCancel(w) ==
    /\ pc[w] \in {"enqueue_try", "enqueue_x"}
    /\ WorkerEnqueue(w)
    /\ UNCHANGED <<row, local, client, owner, told, faults>>

MarkRequeued(w) ==
    /\ pc[w] = "mark"
    /\ MarkQueued
    /\ Return(w)
    /\ UNCHANGED <<client, owner, told, faults>>

(* _report_completion: tell Agent Hub, then stamp the row. *)
ReportCompletion(w) ==
    /\ pc[w] \in {"report", "report_raise"}
    /\ told' = told \cup {seen[w]}
    /\ Goto(w, IF pc[w] = "report" THEN "stamp" ELSE "stamp_raise")
    /\ UNCHANGED <<row, local, client, owner, faults>>

StampReport(w) ==
    /\ pc[w] \in {"stamp", "stamp_raise"}
    /\ MarkReported
    /\ IF pc[w] = "stamp" THEN Return(w) ELSE Raise(w)
    /\ UNCHANGED <<client, owner, told, faults>>

-----------------------------------------------------------------------------
(* Requests and the reconciler *)

CGoto(c, l) == cpc' = [cpc EXCEPT ![c] = l]

(* The handler returns, or dies with its process. *)
CDone(c) ==
    /\ CGoto(c, "idle")
    /\ role' = [role EXCEPT ![c] = "none"]
    /\ fence' = [fence EXCEPT ![c] = NoWorker]

LoseRequest(c) ==
    /\ cpc[c] # "idle"
    /\ Fault
    /\ CDone(c)
    /\ UNCHANGED <<row, hatchet, local, owner, told>>

(* accept_automation_dispatch, first call or Agent Hub's retry. *)
Accept(c) ==
    /\ cpc[c] = "idle"
    /\ CreateOrGet
    /\ status' = "pending"
    /\ role' = [role EXCEPT ![c] = "accept"]
    /\ CGoto(c, "enqueue")
    /\ UNCHANGED <<fence, hatchet, local, owner, told, faults>>

(* What control_browser_automation_run does with the receipt it got. *)
AfterControl(c) ==
    /\ CGoto(c, IF status' = "pending" /\ cpc[c] = "idle" THEN "enqueue"
                ELSE IF status' = "running" /\ control' = "cancel" THEN "deliver"
                ELSE IF status' = "cancelled" /\ ~reported' THEN "report" ELSE "idle")
    /\ role' = [role EXCEPT ![c] = IF cpc'[c] = "idle" THEN "none" ELSE "control"]
    /\ UNCHANGED fence

Control(c) ==
    /\ cpc[c] = "idle"
    /\ status # "absent"
    /\ \E k \in Key, a \in Action : RequestControl(k, a)
    /\ AfterControl(c)
    /\ UNCHANGED <<hatchet, local, owner, told, faults>>

ReconcileCancelsOnly(c) ==
    /\ cpc[c] = "idle"
    /\ status = "running" /\ control = "cancel" /\ CGoto(c, "cancels")
    /\ role' = [role EXCEPT ![c] = "reconcile"]
    /\ UNCHANGED <<row, fence, hatchet, local, owner, told, faults>>

(* reconcile_pending_automation_runs: pending rows, then running cancels.  *)
(* Rows younger than a minute are left to a later run of the cron.         *)
Reconcile(c) ==
    /\ cpc[c] = "idle"
    /\ \/ status = "pending" /\ CGoto(c, "enqueue")
       \/ status = "running" /\ control = "cancel" /\ CGoto(c, "cancels")
    /\ role' = [role EXCEPT ![c] = "reconcile"]
    /\ UNCHANGED <<row, fence, hatchet, local, owner, told, faults>>

ClientEnqueue(c) ==
    /\ cpc[c] = "enqueue"
    /\ Cardinality({w \in Worker : Fresh(w)}) > Reserve
    /\ \E w \in Worker : Fresh(w) /\ Goto(w, "ready")
    /\ CGoto(c, "mark")
    /\ UNCHANGED <<row, role, fence, local, owner, told, faults>>

(* Hatchet refuses: 503 for a request, defer_pending_automation_run and on *)
(* to the cancellations for the reconciler.                                *)
EnqueueFails(c) ==
    /\ cpc[c] = "enqueue"
    /\ Fault
    /\ IF role[c] = "reconcile" THEN CGoto(c, "cancels") /\ UNCHANGED <<role, fence>>
                                ELSE CDone(c)
    /\ UNCHANGED <<row, hatchet, local, owner, told>>

ClientMark(c) ==
    /\ cpc[c] = "mark"
    /\ MarkQueued
    /\ \/ role[c] = "accept" /\ CDone(c)
       \/ role[c] = "control" /\ AfterControl(c)
       \/ role[c] = "reconcile" /\ CGoto(c, "cancels") /\ UNCHANGED <<role, fence>>
    /\ UNCHANGED <<hatchet, local, owner, told, faults>>

(* list_browser_cancellation_requests *)
ListCancellations(c) ==
    /\ cpc[c] = "cancels"
    /\ IF status = "running" /\ control = "cancel"
       THEN CGoto(c, "deliver") /\ UNCHANGED <<role, fence>>
       ELSE CDone(c)
    /\ UNCHANGED <<row, hatchet, local, owner, told, faults>>

(* _deliver_running_browser_cancel: send the marker; if the owner confirms *)
(* a closed, cancelled session, settle the row under the claim it has now. *)
Deliver(c) ==
    /\ cpc[c] = "deliver"
    /\ \/ CancelSettles /\ CGoto(c, "read") /\ UNCHANGED <<role, fence>>
       \/ CancelMarks /\ CDone(c)
       \/ ckpt \in {"none", "complete"} /\ CDone(c) /\ UNCHANGED owner
    /\ UNCHANGED <<row, hatchet, local, told, faults>>

ReadFence(c) ==
    /\ cpc[c] = "read"
    /\ IF status = "running" /\ worker # NoWorker
       THEN /\ fence' = [fence EXCEPT ![c] = worker]
            /\ CGoto(c, "finish")
            /\ UNCHANGED role
       ELSE CDone(c)
    /\ UNCHANGED <<row, hatchet, local, owner, told, faults>>

FinishCancelled(c) ==
    /\ cpc[c] = "finish"
    /\ \/ /\ Finish(fence[c], "cancelled", "owner")
          /\ CGoto(c, "report")
          /\ UNCHANGED <<role, fence>>
       \/ ~Owns(fence[c]) /\ CDone(c) /\ UNCHANGED row
    /\ UNCHANGED <<hatchet, local, owner, told, faults>>

(* Every receipt a client reports is a cancelled one. *)
ClientReport(c) ==
    /\ cpc[c] = "report"
    /\ told' = told \cup {"cancelled"}
    /\ CGoto(c, "stamp")
    /\ UNCHANGED <<row, role, fence, hatchet, local, owner, faults>>

ClientStamp(c) ==
    /\ cpc[c] = "stamp"
    /\ MarkReported
    /\ CDone(c)
    /\ UNCHANGED <<hatchet, local, owner, told, faults>>

-----------------------------------------------------------------------------
WorkerStep(w) ==
    \/ Begin(w) \/ ClaimRun(w) \/ ClaimedElsewhere(w)
    \/ OpenSession(w) \/ InspectCheckpoint(w) \/ RunWorkflow(w)
    \/ ResumeWorkflow(w) \/ CancelWorkflow(w) \/ NoCheckpoint(w) \/ OwnerReturns(w)
    \/ Recheck(w) \/ SettleWaiting(w) \/ SettleTerminal(w) \/ SettleLost(w)
    \/ HandleException(w) \/ HandleSettled(w) \/ ExceptWait(w) \/ ExceptFinish(w)
    \/ ExceptLost(w) \/ TellWait(w) \/ RequeueCancel(w) \/ MarkRequeued(w)
    \/ ReportCompletion(w) \/ StampReport(w)

WorkerFault(w) == LoseAttempt(w) \/ SessionError(w) \/ OwnerUnknown(w) \/ CallFails(w)

ClientStep(c) ==
    \/ ClientEnqueue(c) \/ ClientMark(c) \/ ListCancellations(c) \/ Deliver(c)
    \/ ReadFence(c) \/ FinishCancelled(c) \/ ClientReport(c) \/ ClientStamp(c)

ClientFault(c) == LoseRequest(c) \/ EnqueueFails(c)

Next ==
    \/ \E w \in Worker : WorkerStep(w) \/ WorkerFault(w)
    \/ \E c \in Client : Accept(c) \/ Control(c) \/ Reconcile(c)
    \/ \E c \in Client : ClientStep(c) \/ ClientFault(c)
    \/ OwnerAdvances

Spec == Init /\ [][Next]_vars

(* Hatchet keeps dispatching and the cron keeps firing, a request that was *)
(* received runs to its end unless it is lost, and the owner's command is  *)
(* bounded by its own limits.                                              *)
FairSpec ==
    /\ Spec
    /\ \A w \in Worker : WF_vars(WorkerStep(w))
    /\ \A c \in Client : WF_vars(ClientStep(c)) /\ WF_vars(Reconcile(c))
    /\ WF_vars(OwnerAdvances)
-----------------------------------------------------------------------------
(* Properties *)

CancelRequested == \E k \in Key : history[k] = "cancel"

(* Duplicate Hatchet deliveries compete for one claim: at most one worker  *)
(* drives the browser owner, however deliveries, retries and lost attempts *)
(* of claim_automation_run interleave.                                     *)
OneExecutor == \A v, w \in Worker : pc[v] \in Driving /\ pc[w] \in Driving => v = w

(* A settled receipt keeps its status and result: no late worker, control  *)
(* request, delivery or requeue writes over it (finish_automation_run).    *)
TerminalIsFinal ==
    [][(status \in Terminal) => (status' = status /\ result' = result)]_vars

(* A cancel that was accepted stays in control_action until the run is     *)
(* settled, and then the run is cancelled or had already succeeded: wait,  *)
(* finish and a later control never swallow it.                            *)
CancelSurvives ==
    CancelRequested =>
        \/ status \in {"cancelled", "succeeded"}
        \/ control = "cancel" /\ status \in {"pending", "queued", "running"}

(* A run reported as cancelled before execution never had a session, a     *)
(* checkpoint or a worker driving it, then or later.                       *)
BeforeExecutionIsHonest ==
    result = "before_execution" =>
        /\ ~session
        /\ ckpt = "none"
        /\ \A w \in Worker : pc[w] \notin Driving

(* Agent Hub is only ever told the status the receipt ends with, and the   *)
(* row is stamped as reported only after it was told.                      *)
ToldTheTruth ==
    /\ told \subseteq {status} \cap Terminal
    /\ reported => status \in told

(* workflow run, which starts the definition over, is sent over a          *)
(* checkpoint only when a retry could not read it, and then never over a   *)
(* human checkpoint that stood when the retry looked at the session: a     *)
(* session it created has no checkpoint, a closed one an ended run at most *)
(* (execute_browser_workflow).                                             *)
HumanCheckpointKept ==
    \A w \in Worker : pc[w] = "run" =>
        \/ ckpt = "none"
        \/ existing[w] = "active"
        \/ existing[w] = "closed" /\ ckpt \in Ended

(* Without the proviso: no retry starts over a run that has a checkpoint.  *)
NoReplay == \A w \in Worker : pc[w] = "run" => ckpt = "none"

(* A receipt that waits for Hatchet or for its worker is in somebody's     *)
(* hands: a queued or running row with no workflow run and no request in   *)
(* progress would stay as it is for ever (mark_automation_run_queued).     *)
NotStranded ==
    status \in {"queued", "running"} =>
        (\E w \in Worker : pc[w] # "free") \/ (\E c \in Client : cpc[c] # "idle")

(* An accepted run that nobody cancels reaches a human checkpoint or is    *)
(* settled, through lost attempts, lost requests and refused enqueues.     *)
RunsSettle ==
    []<>(status \in Terminal \cup {"absent", "waiting"} \/ CancelRequested)

(* A cancelled run with an owner checkpoint is settled in the end.         *)
CancelsSettle == []<>(CancelRequested /\ ckpt # "none" => status \in Terminal)

(* The same without the proviso: an intent delivered before the checkpoint *)
(* existed is reconciled by the executing worker or the outbox.            *)
CancelsAlwaysSettle == []<>(CancelRequested => status \in Terminal)

(* A run that a worker settled is reported to Agent Hub in the end.        *)
OutcomesReported ==
    []<>(status \in Terminal /\ result # "before_execution" => reported)

(* Accepted runs settle or wait for a human, cancelled runs with a         *)
(* checkpoint settle, and outcomes are reported, through a lost attempt,   *)
(* request or call.                                                        *)
EveryRunSettles == RunsSettle /\ CancelsSettle /\ OutcomesReported
=============================================================================
