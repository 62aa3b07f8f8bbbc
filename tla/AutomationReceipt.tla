------------------------- MODULE AutomationReceipt -------------------------
(***************************************************************************)
(* One row of automation_dispatch_receipts and the statements of           *)
(* backend/app/storage/automation_dispatches.py that change it.  Each      *)
(* function is one transaction on the row of its run_id, so each is one    *)
(* step here; the service module says when the steps are taken.  Rows of   *)
(* different runs never meet in a statement, so one row is enough.         *)
(*                                                                         *)
(* result keeps what the code tells apart: no result, the synthetic result *)
(* of a run cancelled before execution, or a receipt of the browser owner. *)
(***************************************************************************)
CONSTANTS Worker,  \* Hatchet workflow run ids
          Key      \* idempotency keys of control requests

NoWorker == "no worker"
ASSUME WorkerAssumption == NoWorker \notin Worker

Terminal == {"succeeded", "failed", "skipped", "cancelled"}
Status == {"absent", "pending", "queued", "running", "waiting"} \cup Terminal
Action == {"resume", "cancel"}

VARIABLES
    status,   \* status of the receipt, "absent" before it is inserted
    worker,   \* worker_run_id
    control,  \* action of control_action, "none" for NULL
    result,   \* "none" for NULL, "before_execution" or "owner"
    reported, \* completion_reported_at is set
    history   \* control_history: the action recorded under each key

row == <<status, worker, control, result, reported, history>>

RowType ==
    /\ status \in Status
    /\ worker \in Worker \cup {NoWorker}
    /\ control \in Action \cup {"none"}
    /\ result \in {"none", "before_execution", "owner"}
    /\ reported \in BOOLEAN
    /\ history \in [Key -> Action \cup {"none"}]

RowInit ==
    /\ status = "absent"
    /\ worker = NoWorker
    /\ control = "none"
    /\ result = "none"
    /\ reported = FALSE
    /\ history = [k \in Key |-> "none"]

(* create_or_get_automation_run: INSERT ... ON CONFLICT DO NOTHING. *)
CreateOrGet ==
    /\ status' = IF status = "absent" THEN "pending" ELSE status
    /\ UNCHANGED <<worker, control, result, reported, history>>

(* mark_automation_run_queued: only a pending row changes. *)
MarkQueued ==
    /\ status' = IF status = "pending" THEN "queued" ELSE status
    /\ UNCHANGED <<worker, control, result, reported, history>>

ClaimableByAny(w) == status \in {"pending", "queued", "running"}

(* The statements below change a row for its claimant only. *)
Owns(w) == status = "running" /\ worker = w
Claimable(w) == status \in {"pending", "queued"} \/ Owns(w)

(* claim_automation_run *)
Claim(w) ==
    /\ Claimable(w)
    /\ status' = "running"
    /\ worker' = w
    /\ UNCHANGED <<control, result, reported, history>>

FinishForgetting(w, s, r) ==
    /\ Owns(w)
    /\ status' = s
    /\ worker' = w
    /\ control' = "none"
    /\ result' = r
    /\ UNCHANGED <<reported, history>>

(* finish_automation_run: a failure does not swallow a pending cancel. *)
Finish(w, s, r) ==
    LET pendingCancel == control = "cancel" /\ s \in {"failed", "skipped"} IN
    /\ Owns(w)
    /\ status' = IF pendingCancel THEN "pending" ELSE s
    /\ worker' = IF pendingCancel THEN NoWorker ELSE w
    /\ control' = IF pendingCancel THEN "cancel" ELSE "none"
    /\ result' = r
    /\ UNCHANGED <<reported, history>>

(* wait_automation_run: release the claim, unless a cancel must still run. *)
Wait(w) ==
    /\ Owns(w)
    /\ status' = IF control = "cancel" THEN "pending" ELSE "waiting"
    /\ worker' = NoWorker
    /\ control' = IF control = "cancel" THEN "cancel" ELSE "none"
    /\ result' = "owner"
    /\ UNCHANGED <<reported, history>>

(* request_browser_workflow_control for key k and action a: the repeated   *)
(* key returns the receipt, the other three write it.                      *)
Known(k, a) == history[k] = a /\ UNCHANGED row

CancelRunning(k) ==
    /\ history[k] = "none"
    /\ status = "running"
    /\ control' = "cancel"
    /\ history' = [history EXCEPT ![k] = "cancel"]
    /\ UNCHANGED <<status, worker, result, reported>>

UntouchedByResult == status \in {"pending", "queued"} /\ result = "none"

(* An initial queued run has never claimed a session. *)
Untouched == status \in {"pending", "queued"} /\ result = "none" /\ control = "none"

CancelUntouched(k) ==
    /\ history[k] = "none"
    /\ Untouched
    /\ status' = "cancelled"
    /\ result' = "before_execution"
    /\ history' = [history EXCEPT ![k] = "cancel"]
    /\ UNCHANGED <<worker, control, reported>>

RequeueSettled(k, a) ==
    /\ history[k] = "none"
    /\ status = "waiting" \/ (a = "cancel" /\ status # "running" /\ ~Untouched)
    /\ status' = "pending"
    /\ worker' = NoWorker
    /\ control' = a
    /\ history' = [history EXCEPT ![k] = a]
    /\ UNCHANGED <<result, reported>>

Requeue(k, a) ==
    /\ history[k] = "none"
    /\ \/ status = "waiting"
       \/ a = "cancel" /\ status \in {"pending", "queued"} /\ ~Untouched
    /\ status' = "pending"
    /\ worker' = NoWorker
    /\ control' = a
    /\ history' = [history EXCEPT ![k] = a]
    /\ UNCHANGED <<result, reported>>

RequestControl(k, a) ==
    \/ Known(k, a)
    \/ a = "cancel" /\ CancelRunning(k)
    \/ a = "cancel" /\ CancelUntouched(k)
    \/ Requeue(k, a)

(* mark_automation_completion_reported *)
MarkReported ==
    /\ reported' = (reported \/ status \in Terminal)
    /\ UNCHANGED <<status, worker, control, result, history>>
=============================================================================
