----------------------- MODULE AutomationDispatchProofs -----------------------
(***************************************************************************)
(* Safety of the automation outbox for any number of deliveries, requests, *)
(* control keys and attempts.  The argument rests on the fence: a worker   *)
(* that drives the browser either still holds the running row under its    *)
(* own id or has been overtaken by a confirmed cancellation, after which   *)
(* no statement changes the row's status again.                            *)
(***************************************************************************)
EXTENDS AutomationDispatch, TLAPS

(* A worker that drives the owner holds the claim, or lost it to a cancel. *)
Fenced ==
    /\ OneExecutor
    /\ \A w \in Worker : pc[w] \in Driving => Owns(w) \/ status = "cancelled"

(* A row that has not been claimed and carries no control is as it was     *)
(* created, and so is the browser; a run cancelled in that state stays so. *)
Beginnings ==
    /\ status \in {"absent", "pending", "queued"} /\ control = "none" =>
           ~session /\ ckpt = "none" /\ result = "none"
    /\ result = "before_execution" => status = "cancelled"
    /\ BeforeExecutionIsHonest

(* Whoever is about to report holds the status the row ends with.          *)
Reports ==
    /\ ToldTheTruth
    /\ \A w \in Worker :
        /\ pc[w] \in {"report", "report_raise"} => seen[w] = status /\ status \in Terminal
        /\ pc[w] \in {"stamp", "stamp_raise"} => status \in told
    /\ \A c \in Client :
        /\ cpc[c] = "report" => status = "cancelled"
        /\ cpc[c] = "stamp" => "cancelled" \in told

(* A checkpoint belongs to a session, a session that was found closed to   *)
(* an ended run, and workflow run comes before them or over an unread one. *)
Checkpoints ==
    /\ HumanCheckpointKept
    /\ \A w \in Worker : pc[w] = "inspect" =>
        existing[w] \in SessionState /\ (existing[w] = "closed" => ckpt \in Ended)
    /\ ~session => ckpt = "none"
    /\ \A w \in Worker : pc[w] \in {"run", "inspect"} => session

IInv == TypeOK /\ Fenced /\ CancelSurvives /\ Beginnings /\ Reports /\ Checkpoints

(* Reading the receipt decides on a report only of a settled row. *)
LEMMA BeginInv == ASSUME IInv, NEW w \in Worker, Begin(w) PROVE IInv'
<1> USE DEF IInv, TypeOK, Begin, Forget, Return, row, client, owner
<1>1. TypeOK'
  <2>1. RowType'
    BY WorkerAssumption DEF RowType, WorkerType, ClientType, Status, Action, Terminal, Outcome, Raised,
       NoWorker
  <2>2. WorkerType'
    BY AttemptsAssumption DEF WorkerType, SessionState, RowType, OwnerType, Status, Action, Terminal, Outcome, Raised,
       Driving, Handling, Telling, Requeuing, Reporting, Active
  <2>3. ClientType' /\ OwnerType'
    BY DEF ClientType, OwnerType, RowType, Status, Outcome
  <2>4. told' \subseteq Status /\ faults' \in 0..MaxFaults
    BY AttemptsAssumption DEF WorkerType, Status, Terminal
  <2> QED BY <2>1, <2>2, <2>3, <2>4
<1>2. Fenced'
  BY DEF Fenced, OneExecutor, Owns, RowType, WorkerType, Driving, Handling, Telling,
     Requeuing, Reporting
<1>3. CancelSurvives'
  BY DEF CancelSurvives, CancelRequested, RowType, Action
<1>4. Beginnings'
  BY DEF Beginnings, BeforeExecutionIsHonest, Fenced, Owns, RowType, WorkerType,
     Action, Terminal, Driving, Handling, Telling, Requeuing, Reporting
<1>5. Reports'
  BY DEF Reports, ToldTheTruth, RowType, WorkerType, ClientType, Terminal, Status,
     Driving, Handling, Telling, Requeuing, Reporting
<1>6. Checkpoints'
  BY DEF Checkpoints, HumanCheckpointKept, Ended, Fenced, Owns, WorkerType, OwnerType, Outcome, Driving,
     Handling, Telling, Requeuing, Reporting
<1> QED BY <1>1, <1>2, <1>3, <1>4, <1>5, <1>6

(* Only a row that nobody drives can be claimed by another worker. *)
LEMMA ClaimRunInv == ASSUME IInv, NEW w \in Worker, ClaimRun(w) PROVE IInv'
<1> USE DEF IInv, TypeOK, ClaimRun, Goto, Owns, Claimable, Claim, client, owner
<1>1. TypeOK'
  <2>1. RowType'
    BY WorkerAssumption DEF RowType, WorkerType, ClientType, Status, Action, Terminal, Outcome, Raised,
       NoWorker
  <2>2. WorkerType'
    BY AttemptsAssumption DEF WorkerType, SessionState, RowType, OwnerType, Status, Action, Terminal, Outcome, Raised,
       Driving, Handling, Telling, Requeuing, Reporting, Active
  <2>3. ClientType' /\ OwnerType'
    BY DEF ClientType, OwnerType, RowType, Status, Outcome
  <2>4. told' \subseteq Status /\ faults' \in 0..MaxFaults
    BY AttemptsAssumption DEF WorkerType, Status, Terminal
  <2> QED BY <2>1, <2>2, <2>3, <2>4
<1>2. Fenced'
  BY DEF Fenced, OneExecutor, RowType, WorkerType, Driving, Handling, Telling,
     Requeuing, Reporting
<1>3. CancelSurvives'
  BY DEF CancelSurvives, CancelRequested, RowType, Action
<1>4. Beginnings'
  BY DEF Beginnings, BeforeExecutionIsHonest, Fenced, RowType, WorkerType, Action,
     Terminal, Driving, Handling, Telling, Requeuing, Reporting
<1>5. Reports'
  BY DEF Reports, ToldTheTruth, RowType, WorkerType, ClientType, Terminal, Status,
     Driving, Handling, Telling, Requeuing, Reporting
<1>6. Checkpoints'
  BY DEF Checkpoints, HumanCheckpointKept, Ended, Fenced, WorkerType, OwnerType, Outcome, Driving,
     Handling, Telling, Requeuing, Reporting
<1> QED BY <1>1, <1>2, <1>3, <1>4, <1>5, <1>6

(* A lost claim changes nothing. *)
LEMMA ClaimedElsewhereInv == ASSUME IInv, NEW w \in Worker, ClaimedElsewhere(w) PROVE IInv'
<1> USE DEF IInv, TypeOK, ClaimedElsewhere, Forget, Return, Owns, Claimable, row, client,
            owner
<1>1. TypeOK'
  <2>1. RowType'
    BY WorkerAssumption DEF RowType, WorkerType, ClientType, Status, Action, Terminal, Outcome, Raised,
       NoWorker
  <2>2. WorkerType'
    BY AttemptsAssumption DEF WorkerType, SessionState, RowType, OwnerType, Status, Action, Terminal, Outcome, Raised,
       Driving, Handling, Telling, Requeuing, Reporting, Active
  <2>3. ClientType' /\ OwnerType'
    BY DEF ClientType, OwnerType, RowType, Status, Outcome
  <2>4. told' \subseteq Status /\ faults' \in 0..MaxFaults
    BY AttemptsAssumption DEF WorkerType, Status, Terminal
  <2> QED BY <2>1, <2>2, <2>3, <2>4
<1>2. Fenced'
  BY DEF Fenced, OneExecutor, RowType, WorkerType, Driving, Handling, Telling,
     Requeuing, Reporting
<1>3. CancelSurvives'
  BY DEF CancelSurvives, CancelRequested, RowType, Action
<1>4. Beginnings'
  BY DEF Beginnings, BeforeExecutionIsHonest, Fenced, RowType, WorkerType, Action,
     Terminal, Driving, Handling, Telling, Requeuing, Reporting
<1>5. Reports'
  BY DEF Reports, ToldTheTruth, RowType, WorkerType, ClientType, Terminal, Status,
     Driving, Handling, Telling, Requeuing, Reporting
<1>6. Checkpoints'
  BY DEF Checkpoints, HumanCheckpointKept, Ended, Fenced, WorkerType, OwnerType, Outcome, Driving,
     Handling, Telling, Requeuing, Reporting
<1> QED BY <1>1, <1>2, <1>3, <1>4, <1>5, <1>6

(* The worker that holds the claim creates the session. *)
LEMMA OpenSessionInv == ASSUME IInv, NEW w \in Worker, OpenSession(w) PROVE IInv'
<1> USE DEF IInv, TypeOK, OpenSession, Goto, row, local, client
<1>1. TypeOK'
  <2>1. RowType'
    BY WorkerAssumption DEF RowType, WorkerType, ClientType, Status, Action, Terminal, Outcome, Raised,
       NoWorker
  <2>2. WorkerType'
    BY AttemptsAssumption DEF WorkerType, SessionState, RowType, OwnerType, Status, Action, Terminal, Outcome, Raised,
       Driving, Handling, Telling, Requeuing, Reporting, Active
  <2>3. ClientType' /\ OwnerType'
    BY DEF ClientType, OwnerType, RowType, Status, Outcome
  <2>4. told' \subseteq Status /\ faults' \in 0..MaxFaults
    BY AttemptsAssumption DEF WorkerType, Status, Terminal
  <2> QED BY <2>1, <2>2, <2>3, <2>4
<1>2. Fenced'
  BY DEF Fenced, OneExecutor, Owns, RowType, WorkerType, Driving, Handling, Telling,
     Requeuing, Reporting
<1>3. CancelSurvives'
  BY DEF CancelSurvives, CancelRequested, RowType, Action
<1>4. Beginnings'
  BY DEF Beginnings, BeforeExecutionIsHonest, Fenced, Owns, RowType, WorkerType,
     Action, Terminal, Driving, Handling, Telling, Requeuing, Reporting
<1>5. Reports'
  BY DEF Reports, ToldTheTruth, RowType, WorkerType, ClientType, Terminal, Status,
     Driving, Handling, Telling, Requeuing, Reporting
<1>6. Checkpoints'
  <2>1. \A v \in Worker : v # w => pc'[v] = pc[v] /\ existing'[v] = existing[v]
    BY DEF WorkerType
  <2>2. ckpt' = ckpt /\ session'
    BY DEF OwnerType
  <2>3. pc'[w] = "run" => ckpt = "none"
    BY DEF WorkerType, Checkpoints
  <2>4. pc'[w] = "inspect" =>
          existing'[w] \in SessionState /\ (existing'[w] = "closed" => ckpt \in Ended)
    BY DEF WorkerType, Shows
  <2>5. HumanCheckpointKept'
    BY <2>1, <2>2, <2>3 DEF Checkpoints, HumanCheckpointKept, Ended
  <2> QED BY <2>1, <2>2, <2>4, <2>5 DEF Checkpoints, Ended
<1> QED BY <1>1, <1>2, <1>3, <1>4, <1>5, <1>6

(* A human checkpoint seen as a paused session is not followed by workflow *)
(* run.                                                                    *)
LEMMA InspectCheckpointInv == ASSUME IInv, NEW w \in Worker, InspectCheckpoint(w) PROVE IInv'
<1> USE DEF IInv, TypeOK, InspectCheckpoint, Goto, row, client, owner
<1>1. TypeOK'
  <2>1. RowType'
    BY WorkerAssumption DEF RowType, WorkerType, ClientType, Status, Action, Terminal, Outcome, Raised,
       NoWorker
  <2>2. WorkerType'
    BY AttemptsAssumption DEF WorkerType, SessionState, RowType, OwnerType, Status, Action, Terminal, Outcome, Raised,
       Driving, Handling, Telling, Requeuing, Reporting, Active
  <2>3. ClientType' /\ OwnerType'
    BY DEF ClientType, OwnerType, RowType, Status, Outcome
  <2>4. told' \subseteq Status /\ faults' \in 0..MaxFaults
    BY AttemptsAssumption DEF WorkerType, Status, Terminal
  <2> QED BY <2>1, <2>2, <2>3, <2>4
<1>2. Fenced'
  BY DEF Fenced, OneExecutor, Owns, RowType, WorkerType, Driving, Handling, Telling,
     Requeuing, Reporting
<1>3. CancelSurvives'
  BY DEF CancelSurvives, CancelRequested, RowType, Action
<1>4. Beginnings'
  BY DEF Beginnings, BeforeExecutionIsHonest, Fenced, Owns, RowType, WorkerType,
     Action, Terminal, Driving, Handling, Telling, Requeuing, Reporting
<1>5. Reports'
  BY DEF Reports, ToldTheTruth, RowType, WorkerType, ClientType, Terminal, Status,
     Driving, Handling, Telling, Requeuing, Reporting
<1>6. Checkpoints'
  <2>1. \A v \in Worker : v # w => pc'[v] = pc[v] /\ existing'[v] = existing[v]
    BY DEF WorkerType
  <2>2. pc'[w] # "inspect" /\ session' = session /\ ckpt' = ckpt /\ session
    BY DEF WorkerType, Checkpoints
  <2>3. pc'[w] = "run" => existing'[w] = existing[w] /\ existing[w] # "paused"
    BY DEF WorkerType
  <2>4. existing[w] \in SessionState /\ (existing[w] = "closed" => ckpt \in Ended)
    BY DEF Checkpoints
  <2>5. HumanCheckpointKept'
    BY <2>1, <2>2, <2>3, <2>4 DEF Checkpoints, HumanCheckpointKept, SessionState, Ended
  <2> QED BY <2>1, <2>2, <2>5 DEF Checkpoints, Ended
<1> QED BY <1>1, <1>2, <1>3, <1>4, <1>5, <1>6

(* The first checkpoint comes from the only driving worker. *)
LEMMA RunWorkflowInv == ASSUME IInv, NEW w \in Worker, RunWorkflow(w) PROVE IInv'
<1> USE DEF IInv, TypeOK, RunWorkflow, Goto, row, local, client
<1>1. TypeOK'
  <2>1. RowType'
    BY WorkerAssumption DEF RowType, WorkerType, ClientType, Status, Action, Terminal, Outcome, Raised,
       NoWorker
  <2>2. WorkerType'
    BY AttemptsAssumption DEF WorkerType, SessionState, RowType, OwnerType, Status, Action, Terminal, Outcome, Raised,
       Driving, Handling, Telling, Requeuing, Reporting, Active
  <2>3. ClientType' /\ OwnerType'
    BY DEF ClientType, OwnerType, RowType, Status, Outcome
  <2>4. told' \subseteq Status /\ faults' \in 0..MaxFaults
    BY AttemptsAssumption DEF WorkerType, Status, Terminal
  <2> QED BY <2>1, <2>2, <2>3, <2>4
<1>2. Fenced'
  BY DEF Fenced, OneExecutor, Owns, RowType, WorkerType, Driving, Handling, Telling,
     Requeuing, Reporting
<1>3. CancelSurvives'
  BY DEF CancelSurvives, CancelRequested, RowType, Action
<1>4. Beginnings'
  BY DEF Beginnings, BeforeExecutionIsHonest, Fenced, Owns, RowType, WorkerType,
     Action, Terminal, Driving, Handling, Telling, Requeuing, Reporting
<1>5. Reports'
  BY DEF Reports, ToldTheTruth, RowType, WorkerType, ClientType, Terminal, Status,
     Driving, Handling, Telling, Requeuing, Reporting
<1>6. Checkpoints'
  <2>1. \A v \in Worker : pc[v] \in {"run", "inspect"} => v = w
    BY DEF Fenced, OneExecutor, Driving
  <2>2. pc'[w] = "await" /\ session' = session
    BY DEF WorkerType
  <2>3. \A v \in Worker : v # w => pc'[v] = pc[v]
    BY DEF WorkerType
  <2>4. \A v \in Worker : pc'[v] \notin {"run", "inspect"}
    BY <2>1, <2>2, <2>3
  <2>5. session
    BY DEF Checkpoints
  <2> QED BY <2>2, <2>4, <2>5 DEF Checkpoints, HumanCheckpointKept
<1> QED BY <1>1, <1>2, <1>3, <1>4, <1>5, <1>6

(* Resuming needs a checkpoint. *)
LEMMA ResumeWorkflowInv == ASSUME IInv, NEW w \in Worker, ResumeWorkflow(w) PROVE IInv'
<1> USE DEF IInv, TypeOK, ResumeWorkflow, Goto, row, local, client
<1>1. TypeOK'
  <2>1. RowType'
    BY WorkerAssumption DEF RowType, WorkerType, ClientType, Status, Action, Terminal, Outcome, Raised,
       NoWorker
  <2>2. WorkerType'
    BY AttemptsAssumption DEF WorkerType, SessionState, RowType, OwnerType, Status, Action, Terminal, Outcome, Raised,
       Driving, Handling, Telling, Requeuing, Reporting, Active
  <2>3. ClientType' /\ OwnerType'
    BY DEF ClientType, OwnerType, RowType, Status, Outcome
  <2>4. told' \subseteq Status /\ faults' \in 0..MaxFaults
    BY AttemptsAssumption DEF WorkerType, Status, Terminal
  <2> QED BY <2>1, <2>2, <2>3, <2>4
<1>2. Fenced'
  BY DEF Fenced, OneExecutor, Owns, RowType, WorkerType, Driving, Handling, Telling,
     Requeuing, Reporting
<1>3. CancelSurvives'
  BY DEF CancelSurvives, CancelRequested, RowType, Action
<1>4. Beginnings'
  BY DEF Beginnings, BeforeExecutionIsHonest, Fenced, Owns, RowType, WorkerType,
     Action, Terminal, Driving, Handling, Telling, Requeuing, Reporting
<1>5. Reports'
  BY DEF Reports, ToldTheTruth, RowType, WorkerType, ClientType, Terminal, Status,
     Driving, Handling, Telling, Requeuing, Reporting
<1>6. Checkpoints'
  <2>1. \A v \in Worker : pc[v] \in {"run", "inspect"} => v = w
    BY DEF Fenced, OneExecutor, Driving
  <2>2. pc'[w] = "await" /\ session' = session
    BY DEF WorkerType
  <2>3. \A v \in Worker : v # w => pc'[v] = pc[v]
    BY DEF WorkerType
  <2>4. \A v \in Worker : pc'[v] \notin {"run", "inspect"}
    BY <2>1, <2>2, <2>3
  <2>5. session
    BY DEF Checkpoints
  <2> QED BY <2>2, <2>4, <2>5 DEF Checkpoints, HumanCheckpointKept
<1> QED BY <1>1, <1>2, <1>3, <1>4, <1>5, <1>6

(* So does cancelling. *)
LEMMA CancelWorkflowInv == ASSUME IInv, NEW w \in Worker, CancelWorkflow(w) PROVE IInv'
<1> USE DEF IInv, TypeOK, CancelWorkflow, Goto, CancelSettles, CancelMarks, row, client,
            owner
<1>1. TypeOK'
  <2>1. RowType'
    BY WorkerAssumption DEF RowType, WorkerType, ClientType, Status, Action, Terminal, Outcome, Raised,
       NoWorker
  <2>2. WorkerType'
    BY AttemptsAssumption DEF WorkerType, SessionState, RowType, OwnerType, Status, Action, Terminal, Outcome, Raised,
       Driving, Handling, Telling, Requeuing, Reporting, Active
  <2>3. ClientType' /\ OwnerType'
    BY DEF ClientType, OwnerType, RowType, Status, Outcome
  <2>4. told' \subseteq Status /\ faults' \in 0..MaxFaults
    BY AttemptsAssumption DEF WorkerType, Status, Terminal
  <2> QED BY <2>1, <2>2, <2>3, <2>4
<1>2. Fenced'
  BY DEF Fenced, OneExecutor, Owns, RowType, WorkerType, Driving, Handling, Telling,
     Requeuing, Reporting
<1>3. CancelSurvives'
  BY DEF CancelSurvives, CancelRequested, RowType, Action
<1>4. Beginnings'
  BY DEF Beginnings, BeforeExecutionIsHonest, Fenced, Owns, RowType, WorkerType,
     Action, Terminal, Driving, Handling, Telling, Requeuing, Reporting
<1>5. Reports'
  BY DEF Reports, ToldTheTruth, RowType, WorkerType, ClientType, Terminal, Status,
     Driving, Handling, Telling, Requeuing, Reporting
<1>6. Checkpoints'
  BY DEF Checkpoints, HumanCheckpointKept, Ended, Fenced, Owns, WorkerType, OwnerType, Outcome, Driving,
     Handling, Telling, Requeuing, Reporting
<1> QED BY <1>1, <1>2, <1>3, <1>4, <1>5, <1>6

(* A control without checkpoint only raises. *)
LEMMA NoCheckpointInv == ASSUME IInv, NEW w \in Worker, NoCheckpoint(w) PROVE IInv'
<1> USE DEF IInv, TypeOK, NoCheckpoint, Goto, row, client, owner
<1>1. TypeOK'
  <2>1. RowType'
    BY WorkerAssumption DEF RowType, WorkerType, ClientType, Status, Action, Terminal, Outcome, Raised,
       NoWorker
  <2>2. WorkerType'
    BY AttemptsAssumption DEF WorkerType, SessionState, RowType, OwnerType, Status, Action, Terminal, Outcome, Raised,
       Driving, Handling, Telling, Requeuing, Reporting, Active
  <2>3. ClientType' /\ OwnerType'
    BY DEF ClientType, OwnerType, RowType, Status, Outcome
  <2>4. told' \subseteq Status /\ faults' \in 0..MaxFaults
    BY AttemptsAssumption DEF WorkerType, Status, Terminal
  <2> QED BY <2>1, <2>2, <2>3, <2>4
<1>2. Fenced'
  BY DEF Fenced, OneExecutor, Owns, RowType, WorkerType, Driving, Handling, Telling,
     Requeuing, Reporting
<1>3. CancelSurvives'
  BY DEF CancelSurvives, CancelRequested, RowType, Action
<1>4. Beginnings'
  BY DEF Beginnings, BeforeExecutionIsHonest, Fenced, Owns, RowType, WorkerType,
     Action, Terminal, Driving, Handling, Telling, Requeuing, Reporting
<1>5. Reports'
  BY DEF Reports, ToldTheTruth, RowType, WorkerType, ClientType, Terminal, Status,
     Driving, Handling, Telling, Requeuing, Reporting
<1>6. Checkpoints'
  BY DEF Checkpoints, HumanCheckpointKept, Ended, Fenced, Owns, WorkerType, OwnerType, Outcome, Driving,
     Handling, Telling, Requeuing, Reporting
<1> QED BY <1>1, <1>2, <1>3, <1>4, <1>5, <1>6

(* The owner's receipt changes nothing but the worker's result. *)
LEMMA OwnerReturnsInv == ASSUME IInv, NEW w \in Worker, OwnerReturns(w) PROVE IInv'
<1> USE DEF IInv, TypeOK, OwnerReturns, Goto, row, client, owner
<1>1. TypeOK'
  <2>1. RowType'
    BY WorkerAssumption DEF RowType, WorkerType, ClientType, Status, Action, Terminal, Outcome, Raised,
       NoWorker
  <2>2. WorkerType'
    BY AttemptsAssumption DEF WorkerType, SessionState, RowType, OwnerType, Status, Action, Terminal, Outcome, Raised,
       Driving, Handling, Telling, Requeuing, Reporting, Active
  <2>3. ClientType' /\ OwnerType'
    BY DEF ClientType, OwnerType, RowType, Status, Outcome
  <2>4. told' \subseteq Status /\ faults' \in 0..MaxFaults
    BY AttemptsAssumption DEF WorkerType, Status, Terminal
  <2> QED BY <2>1, <2>2, <2>3, <2>4
<1>2. Fenced'
  BY DEF Fenced, OneExecutor, Owns, RowType, WorkerType, Driving, Handling, Telling,
     Requeuing, Reporting
<1>3. CancelSurvives'
  BY DEF CancelSurvives, CancelRequested, RowType, Action
<1>4. Beginnings'
  BY DEF Beginnings, BeforeExecutionIsHonest, Fenced, Owns, RowType, WorkerType,
     Action, Terminal, Driving, Handling, Telling, Requeuing, Reporting
<1>5. Reports'
  BY DEF Reports, ToldTheTruth, RowType, WorkerType, ClientType, Terminal, Status,
     Driving, Handling, Telling, Requeuing, Reporting
<1>6. Checkpoints'
  BY DEF Checkpoints, HumanCheckpointKept, Ended, Fenced, Owns, WorkerType, OwnerType, Outcome, Driving,
     Handling, Telling, Requeuing, Reporting
<1> QED BY <1>1, <1>2, <1>3, <1>4, <1>5, <1>6

(* Reading the row again changes nothing but the control to execute. *)
LEMMA RecheckInv == ASSUME IInv, NEW w \in Worker, Recheck(w) PROVE IInv'
<1> USE DEF IInv, TypeOK, Recheck, Goto, row, client, owner
<1>1. TypeOK'
  <2>1. RowType'
    BY WorkerAssumption DEF RowType, WorkerType, ClientType, Status, Action, Terminal, Outcome, Raised,
       NoWorker
  <2>2. WorkerType'
    BY AttemptsAssumption DEF WorkerType, SessionState, RowType, OwnerType, Status, Action, Terminal, Outcome, Raised,
       Driving, Handling, Telling, Requeuing, Reporting, Active
  <2>3. ClientType' /\ OwnerType'
    BY DEF ClientType, OwnerType, RowType, Status, Outcome
  <2>4. told' \subseteq Status /\ faults' \in 0..MaxFaults
    BY AttemptsAssumption DEF WorkerType, Status, Terminal
  <2> QED BY <2>1, <2>2, <2>3, <2>4
<1>2. Fenced'
  BY DEF Fenced, OneExecutor, Owns, RowType, WorkerType, Driving, Handling, Telling,
     Requeuing, Reporting
<1>3. CancelSurvives'
  BY DEF CancelSurvives, CancelRequested, RowType, Action
<1>4. Beginnings'
  BY DEF Beginnings, BeforeExecutionIsHonest, Fenced, Owns, RowType, WorkerType,
     Action, Terminal, Driving, Handling, Telling, Requeuing, Reporting
<1>5. Reports'
  BY DEF Reports, ToldTheTruth, RowType, WorkerType, ClientType, Terminal, Status,
     Driving, Handling, Telling, Requeuing, Reporting
<1>6. Checkpoints'
  BY DEF Checkpoints, HumanCheckpointKept, Ended, Fenced, Owns, WorkerType, OwnerType, Outcome, Driving,
     Handling, Telling, Requeuing, Reporting
<1> QED BY <1>1, <1>2, <1>3, <1>4, <1>5, <1>6

(* Waiting releases the claim and keeps a cancel. *)
LEMMA SettleWaitingInv == ASSUME IInv, NEW w \in Worker, SettleWaiting(w) PROVE IInv'
<1> USE DEF IInv, TypeOK, SettleWaiting, Goto, Owns, Wait, client, owner
<1>1. TypeOK'
  <2>1. RowType'
    BY WorkerAssumption DEF RowType, WorkerType, ClientType, Status, Action, Terminal, Outcome, Raised,
       NoWorker
  <2>2. WorkerType'
    BY AttemptsAssumption DEF WorkerType, SessionState, RowType, OwnerType, Status, Action, Terminal, Outcome, Raised,
       Driving, Handling, Telling, Requeuing, Reporting, Active
  <2>3. ClientType' /\ OwnerType'
    BY DEF ClientType, OwnerType, RowType, Status, Outcome
  <2>4. told' \subseteq Status /\ faults' \in 0..MaxFaults
    BY AttemptsAssumption DEF WorkerType, Status, Terminal
  <2> QED BY <2>1, <2>2, <2>3, <2>4
<1>2. Fenced'
  BY DEF Fenced, OneExecutor, RowType, WorkerType, Driving, Handling, Telling,
     Requeuing, Reporting
<1>3. CancelSurvives'
  BY DEF CancelSurvives, CancelRequested, RowType, Action
<1>4. Beginnings'
  BY DEF Beginnings, BeforeExecutionIsHonest, Fenced, RowType, WorkerType, Action,
     Terminal, Driving, Handling, Telling, Requeuing, Reporting
<1>5. Reports'
  BY DEF Reports, ToldTheTruth, RowType, WorkerType, ClientType, Terminal, Status,
     Driving, Handling, Telling, Requeuing, Reporting
<1>6. Checkpoints'
  BY DEF Checkpoints, HumanCheckpointKept, Ended, Fenced, WorkerType, OwnerType, Outcome, Driving,
     Handling, Telling, Requeuing, Reporting
<1> QED BY <1>1, <1>2, <1>3, <1>4, <1>5, <1>6

(* Finishing settles the row or keeps a cancel pending. *)
LEMMA SettleTerminalInv == ASSUME IInv, NEW w \in Worker, SettleTerminal(w) PROVE IInv'
<1> USE DEF IInv, TypeOK, SettleTerminal, Goto, Owns, Finish, TerminalStatus,
            AfterFinish, client, owner
<1>1. TypeOK'
  <2>1. RowType'
    BY WorkerAssumption DEF RowType, WorkerType, ClientType, Status, Action, Terminal, Outcome, Raised,
       NoWorker
  <2>2. WorkerType'
    BY AttemptsAssumption DEF WorkerType, SessionState, RowType, OwnerType, Status, Action, Terminal, Outcome, Raised,
       Driving, Handling, Telling, Requeuing, Reporting, Active
  <2>3. ClientType' /\ OwnerType'
    BY DEF ClientType, OwnerType, RowType, Status, Outcome
  <2>4. told' \subseteq Status /\ faults' \in 0..MaxFaults
    BY AttemptsAssumption DEF WorkerType, Status, Terminal
  <2> QED BY <2>1, <2>2, <2>3, <2>4
<1>2. Fenced'
  BY DEF Fenced, OneExecutor, RowType, WorkerType, Driving, Handling, Telling,
     Requeuing, Reporting
<1>3. CancelSurvives'
  BY DEF CancelSurvives, CancelRequested, RowType, Action
<1>4. Beginnings'
  BY DEF Beginnings, BeforeExecutionIsHonest, Fenced, RowType, WorkerType, Action,
     Terminal, Driving, Handling, Telling, Requeuing, Reporting
<1>5. Reports'
  BY DEF Reports, ToldTheTruth, RowType, WorkerType, ClientType, Terminal, Status,
     Driving, Handling, Telling, Requeuing, Reporting
<1>6. Checkpoints'
  BY DEF Checkpoints, HumanCheckpointKept, Ended, Fenced, WorkerType, OwnerType, Outcome, Driving,
     Handling, Telling, Requeuing, Reporting
<1> QED BY <1>1, <1>2, <1>3, <1>4, <1>5, <1>6

(* A refused write leaves the row alone. *)
LEMMA SettleLostInv == ASSUME IInv, NEW w \in Worker, SettleLost(w) PROVE IInv'
<1> USE DEF IInv, TypeOK, SettleLost, Goto, Owns, row, client, owner
<1>1. TypeOK'
  <2>1. RowType'
    BY WorkerAssumption DEF RowType, WorkerType, ClientType, Status, Action, Terminal, Outcome, Raised,
       NoWorker
  <2>2. WorkerType'
    BY AttemptsAssumption DEF WorkerType, SessionState, RowType, OwnerType, Status, Action, Terminal, Outcome, Raised,
       Driving, Handling, Telling, Requeuing, Reporting, Active
  <2>3. ClientType' /\ OwnerType'
    BY DEF ClientType, OwnerType, RowType, Status, Outcome
  <2>4. told' \subseteq Status /\ faults' \in 0..MaxFaults
    BY AttemptsAssumption DEF WorkerType, Status, Terminal
  <2> QED BY <2>1, <2>2, <2>3, <2>4
<1>2. Fenced'
  BY DEF Fenced, OneExecutor, RowType, WorkerType, Driving, Handling, Telling,
     Requeuing, Reporting
<1>3. CancelSurvives'
  BY DEF CancelSurvives, CancelRequested, RowType, Action
<1>4. Beginnings'
  BY DEF Beginnings, BeforeExecutionIsHonest, Fenced, RowType, WorkerType, Action,
     Terminal, Driving, Handling, Telling, Requeuing, Reporting
<1>5. Reports'
  BY DEF Reports, ToldTheTruth, RowType, WorkerType, ClientType, Terminal, Status,
     Driving, Handling, Telling, Requeuing, Reporting
<1>6. Checkpoints'
  BY DEF Checkpoints, HumanCheckpointKept, Ended, Fenced, WorkerType, OwnerType, Outcome, Driving,
     Handling, Telling, Requeuing, Reporting
<1> QED BY <1>1, <1>2, <1>3, <1>4, <1>5, <1>6

(* The handler reports only a settled row. *)
LEMMA HandleExceptionInv == ASSUME IInv, NEW w \in Worker, HandleException(w) PROVE IInv'
<1> USE DEF IInv, TypeOK, HandleException, Goto, row, client, owner
<1>1. TypeOK'
  <2>1. RowType'
    BY WorkerAssumption DEF RowType, WorkerType, ClientType, Status, Action, Terminal, Outcome, Raised,
       NoWorker
  <2>2. WorkerType'
    BY AttemptsAssumption DEF WorkerType, SessionState, RowType, OwnerType, Status, Action, Terminal, Outcome, Raised,
       Driving, Handling, Telling, Requeuing, Reporting, Active
  <2>3. ClientType' /\ OwnerType'
    BY DEF ClientType, OwnerType, RowType, Status, Outcome
  <2>4. told' \subseteq Status /\ faults' \in 0..MaxFaults
    BY AttemptsAssumption DEF WorkerType, Status, Terminal
  <2> QED BY <2>1, <2>2, <2>3, <2>4
<1>2. Fenced'
  BY DEF Fenced, OneExecutor, Owns, RowType, WorkerType, Driving, Handling, Telling,
     Requeuing, Reporting
<1>3. CancelSurvives'
  BY DEF CancelSurvives, CancelRequested, RowType, Action
<1>4. Beginnings'
  BY DEF Beginnings, BeforeExecutionIsHonest, Fenced, Owns, RowType, WorkerType,
     Action, Terminal, Driving, Handling, Telling, Requeuing, Reporting
<1>5. Reports'
  BY DEF Reports, ToldTheTruth, RowType, WorkerType, ClientType, Terminal, Status,
     Driving, Handling, Telling, Requeuing, Reporting
<1>6. Checkpoints'
  BY DEF Checkpoints, HumanCheckpointKept, Ended, Fenced, Owns, WorkerType, OwnerType, Outcome, Driving,
     Handling, Telling, Requeuing, Reporting
<1> QED BY <1>1, <1>2, <1>3, <1>4, <1>5, <1>6

(* It leaves a settled, waiting or requeued row alone. *)
LEMMA HandleSettledInv == ASSUME IInv, NEW w \in Worker, HandleSettled(w) PROVE IInv'
<1> USE DEF IInv, TypeOK, HandleSettled, Forget, Return, Raise, row, client, owner
<1>1. TypeOK'
  <2>1. RowType'
    BY WorkerAssumption DEF RowType, WorkerType, ClientType, Status, Action, Terminal, Outcome, Raised,
       NoWorker
  <2>2. WorkerType'
    BY AttemptsAssumption DEF WorkerType, SessionState, RowType, OwnerType, Status, Action, Terminal, Outcome, Raised,
       Driving, Handling, Telling, Requeuing, Reporting, Active
  <2>3. ClientType' /\ OwnerType'
    BY DEF ClientType, OwnerType, RowType, Status, Outcome
  <2>4. told' \subseteq Status /\ faults' \in 0..MaxFaults
    BY AttemptsAssumption DEF WorkerType, Status, Terminal
  <2> QED BY <2>1, <2>2, <2>3, <2>4
<1>2. Fenced'
  BY DEF Fenced, OneExecutor, Owns, RowType, WorkerType, Driving, Handling, Telling,
     Requeuing, Reporting
<1>3. CancelSurvives'
  BY DEF CancelSurvives, CancelRequested, RowType, Action
<1>4. Beginnings'
  BY DEF Beginnings, BeforeExecutionIsHonest, Fenced, Owns, RowType, WorkerType,
     Action, Terminal, Driving, Handling, Telling, Requeuing, Reporting
<1>5. Reports'
  BY DEF Reports, ToldTheTruth, RowType, WorkerType, ClientType, Terminal, Status,
     Driving, Handling, Telling, Requeuing, Reporting
<1>6. Checkpoints'
  BY DEF Checkpoints, HumanCheckpointKept, Ended, Fenced, Owns, WorkerType, OwnerType, Outcome, Driving,
     Handling, Telling, Requeuing, Reporting
<1> QED BY <1>1, <1>2, <1>3, <1>4, <1>5, <1>6

(* An unknown outcome waits for a human and keeps a cancel. *)
LEMMA ExceptWaitInv == ASSUME IInv, NEW w \in Worker, ExceptWait(w) PROVE IInv'
<1> USE DEF IInv, TypeOK, ExceptWait, Goto, Owns, Wait, client, owner
<1>1. TypeOK'
  <2>1. RowType'
    BY WorkerAssumption DEF RowType, WorkerType, ClientType, Status, Action, Terminal, Outcome, Raised,
       NoWorker
  <2>2. WorkerType'
    BY AttemptsAssumption DEF WorkerType, SessionState, RowType, OwnerType, Status, Action, Terminal, Outcome, Raised,
       Driving, Handling, Telling, Requeuing, Reporting, Active
  <2>3. ClientType' /\ OwnerType'
    BY DEF ClientType, OwnerType, RowType, Status, Outcome
  <2>4. told' \subseteq Status /\ faults' \in 0..MaxFaults
    BY AttemptsAssumption DEF WorkerType, Status, Terminal
  <2> QED BY <2>1, <2>2, <2>3, <2>4
<1>2. Fenced'
  BY DEF Fenced, OneExecutor, RowType, WorkerType, Driving, Handling, Telling,
     Requeuing, Reporting
<1>3. CancelSurvives'
  BY DEF CancelSurvives, CancelRequested, RowType, Action
<1>4. Beginnings'
  BY DEF Beginnings, BeforeExecutionIsHonest, Fenced, RowType, WorkerType, Action,
     Terminal, Driving, Handling, Telling, Requeuing, Reporting
<1>5. Reports'
  BY DEF Reports, ToldTheTruth, RowType, WorkerType, ClientType, Terminal, Status,
     Driving, Handling, Telling, Requeuing, Reporting
<1>6. Checkpoints'
  BY DEF Checkpoints, HumanCheckpointKept, Ended, Fenced, WorkerType, OwnerType, Outcome, Driving,
     Handling, Telling, Requeuing, Reporting
<1> QED BY <1>1, <1>2, <1>3, <1>4, <1>5, <1>6

(* A failure settles the row or keeps a cancel pending. *)
LEMMA ExceptFinishInv == ASSUME IInv, NEW w \in Worker, ExceptFinish(w) PROVE IInv'
<1> USE DEF IInv, TypeOK, ExceptFinish, Goto, Owns, Finish, client, owner
<1>1. TypeOK'
  <2>1. RowType'
    BY WorkerAssumption DEF RowType, WorkerType, ClientType, Status, Action, Terminal, Outcome, Raised,
       NoWorker
  <2>2. WorkerType'
    BY AttemptsAssumption DEF WorkerType, SessionState, RowType, OwnerType, Status, Action, Terminal, Outcome, Raised,
       Driving, Handling, Telling, Requeuing, Reporting, Active
  <2>3. ClientType' /\ OwnerType'
    BY DEF ClientType, OwnerType, RowType, Status, Outcome
  <2>4. told' \subseteq Status /\ faults' \in 0..MaxFaults
    BY AttemptsAssumption DEF WorkerType, Status, Terminal
  <2> QED BY <2>1, <2>2, <2>3, <2>4
<1>2. Fenced'
  BY DEF Fenced, OneExecutor, RowType, WorkerType, Driving, Handling, Telling,
     Requeuing, Reporting
<1>3. CancelSurvives'
  BY DEF CancelSurvives, CancelRequested, RowType, Action
<1>4. Beginnings'
  BY DEF Beginnings, BeforeExecutionIsHonest, Fenced, RowType, WorkerType, Action,
     Terminal, Driving, Handling, Telling, Requeuing, Reporting
<1>5. Reports'
  BY DEF Reports, ToldTheTruth, RowType, WorkerType, ClientType, Terminal, Status,
     Driving, Handling, Telling, Requeuing, Reporting
<1>6. Checkpoints'
  BY DEF Checkpoints, HumanCheckpointKept, Ended, Fenced, WorkerType, OwnerType, Outcome, Driving,
     Handling, Telling, Requeuing, Reporting
<1> QED BY <1>1, <1>2, <1>3, <1>4, <1>5, <1>6

(* A refused write leaves the row alone. *)
LEMMA ExceptLostInv == ASSUME IInv, NEW w \in Worker, ExceptLost(w) PROVE IInv'
<1> USE DEF IInv, TypeOK, ExceptLost, Forget, Raise, Owns, row, client, owner
<1>1. TypeOK'
  <2>1. RowType'
    BY WorkerAssumption DEF RowType, WorkerType, ClientType, Status, Action, Terminal, Outcome, Raised,
       NoWorker
  <2>2. WorkerType'
    BY AttemptsAssumption DEF WorkerType, SessionState, RowType, OwnerType, Status, Action, Terminal, Outcome, Raised,
       Driving, Handling, Telling, Requeuing, Reporting, Active
  <2>3. ClientType' /\ OwnerType'
    BY DEF ClientType, OwnerType, RowType, Status, Outcome
  <2>4. told' \subseteq Status /\ faults' \in 0..MaxFaults
    BY AttemptsAssumption DEF WorkerType, Status, Terminal
  <2> QED BY <2>1, <2>2, <2>3, <2>4
<1>2. Fenced'
  BY DEF Fenced, OneExecutor, RowType, WorkerType, Driving, Handling, Telling,
     Requeuing, Reporting
<1>3. CancelSurvives'
  BY DEF CancelSurvives, CancelRequested, RowType, Action
<1>4. Beginnings'
  BY DEF Beginnings, BeforeExecutionIsHonest, Fenced, RowType, WorkerType, Action,
     Terminal, Driving, Handling, Telling, Requeuing, Reporting
<1>5. Reports'
  BY DEF Reports, ToldTheTruth, RowType, WorkerType, ClientType, Terminal, Status,
     Driving, Handling, Telling, Requeuing, Reporting
<1>6. Checkpoints'
  BY DEF Checkpoints, HumanCheckpointKept, Ended, Fenced, WorkerType, OwnerType, Outcome, Driving,
     Handling, Telling, Requeuing, Reporting
<1> QED BY <1>1, <1>2, <1>3, <1>4, <1>5, <1>6

(* Telling Agent Hub of a wait changes no row. *)
LEMMA TellWaitInv == ASSUME IInv, NEW w \in Worker, TellWait(w) PROVE IInv'
<1> USE DEF IInv, TypeOK, TellWait, Forget, Return, Goto, row, local, client, owner
<1>1. TypeOK'
  <2>1. RowType'
    BY WorkerAssumption DEF RowType, WorkerType, ClientType, Status, Action, Terminal, Outcome, Raised,
       NoWorker
  <2>2. WorkerType'
    BY AttemptsAssumption DEF WorkerType, SessionState, RowType, OwnerType, Status, Action, Terminal, Outcome, Raised,
       Driving, Handling, Telling, Requeuing, Reporting, Active
  <2>3. ClientType' /\ OwnerType'
    BY DEF ClientType, OwnerType, RowType, Status, Outcome
  <2>4. told' \subseteq Status /\ faults' \in 0..MaxFaults
    BY AttemptsAssumption DEF WorkerType, Status, Terminal
  <2> QED BY <2>1, <2>2, <2>3, <2>4
<1>2. Fenced'
  BY DEF Fenced, OneExecutor, Owns, RowType, WorkerType, Driving, Handling, Telling,
     Requeuing, Reporting
<1>3. CancelSurvives'
  BY DEF CancelSurvives, CancelRequested, RowType, Action
<1>4. Beginnings'
  BY DEF Beginnings, BeforeExecutionIsHonest, Fenced, Owns, RowType, WorkerType,
     Action, Terminal, Driving, Handling, Telling, Requeuing, Reporting
<1>5. Reports'
  BY DEF Reports, ToldTheTruth, RowType, WorkerType, ClientType, Terminal, Status,
     Driving, Handling, Telling, Requeuing, Reporting
<1>6. Checkpoints'
  BY DEF Checkpoints, HumanCheckpointKept, Ended, Fenced, Owns, WorkerType, OwnerType, Outcome, Driving,
     Handling, Telling, Requeuing, Reporting
<1> QED BY <1>1, <1>2, <1>3, <1>4, <1>5, <1>6

(* Queueing another delivery starts nobody driving. *)
LEMMA RequeueCancelInv == ASSUME IInv, NEW w \in Worker, RequeueCancel(w) PROVE IInv'
<1> USE DEF IInv, TypeOK, RequeueCancel, Fresh, WorkerEnqueue, row, local, client, owner
<1>1. TypeOK'
  <2>1. RowType'
    BY WorkerAssumption DEF RowType, WorkerType, ClientType, Status, Action, Terminal, Outcome, Raised,
       NoWorker
  <2>2. WorkerType'
    BY AttemptsAssumption DEF WorkerType, SessionState, RowType, OwnerType, Status, Action, Terminal, Outcome, Raised,
       Driving, Handling, Telling, Requeuing, Reporting, Active
  <2>3. ClientType' /\ OwnerType'
    BY DEF ClientType, OwnerType, RowType, Status, Outcome
  <2>4. told' \subseteq Status /\ faults' \in 0..MaxFaults
    BY AttemptsAssumption DEF WorkerType, Status, Terminal
  <2> QED BY <2>1, <2>2, <2>3, <2>4
<1>2. Fenced'
  BY DEF Fenced, OneExecutor, Owns, RowType, WorkerType, Driving, Handling, Telling,
     Requeuing, Reporting
<1>3. CancelSurvives'
  BY DEF CancelSurvives, CancelRequested, RowType, Action
<1>4. Beginnings'
  BY DEF Beginnings, BeforeExecutionIsHonest, Fenced, Owns, RowType, WorkerType,
     Action, Terminal, Driving, Handling, Telling, Requeuing, Reporting
<1>5. Reports'
  BY DEF Reports, ToldTheTruth, RowType, WorkerType, ClientType, Terminal, Status,
     Driving, Handling, Telling, Requeuing, Reporting
<1>6. Checkpoints'
  BY DEF Checkpoints, HumanCheckpointKept, Ended, Fenced, Owns, WorkerType, OwnerType, Outcome, Driving,
     Handling, Telling, Requeuing, Reporting
<1> QED BY <1>1, <1>2, <1>3, <1>4, <1>5, <1>6

(* Marking a row queued keeps its control. *)
LEMMA MarkRequeuedInv == ASSUME IInv, NEW w \in Worker, MarkRequeued(w) PROVE IInv'
<1> USE DEF IInv, TypeOK, MarkRequeued, Forget, Return, MarkQueued, client, owner
<1>1. TypeOK'
  <2>1. RowType'
    BY WorkerAssumption DEF RowType, WorkerType, ClientType, Status, Action, Terminal, Outcome, Raised,
       NoWorker
  <2>2. WorkerType'
    BY AttemptsAssumption DEF WorkerType, SessionState, RowType, OwnerType, Status, Action, Terminal, Outcome, Raised,
       Driving, Handling, Telling, Requeuing, Reporting, Active
  <2>3. ClientType' /\ OwnerType'
    BY DEF ClientType, OwnerType, RowType, Status, Outcome
  <2>4. told' \subseteq Status /\ faults' \in 0..MaxFaults
    BY AttemptsAssumption DEF WorkerType, Status, Terminal
  <2> QED BY <2>1, <2>2, <2>3, <2>4
<1>2. Fenced'
  BY DEF Fenced, OneExecutor, Owns, RowType, WorkerType, Driving, Handling, Telling,
     Requeuing, Reporting
<1>3. CancelSurvives'
  BY DEF CancelSurvives, CancelRequested, RowType, Action
<1>4. Beginnings'
  BY DEF Beginnings, BeforeExecutionIsHonest, Fenced, Owns, RowType, WorkerType,
     Action, Terminal, Driving, Handling, Telling, Requeuing, Reporting
<1>5. Reports'
  BY DEF Reports, ToldTheTruth, RowType, WorkerType, ClientType, Terminal, Status,
     Driving, Handling, Telling, Requeuing, Reporting
<1>6. Checkpoints'
  BY DEF Checkpoints, HumanCheckpointKept, Ended, Fenced, Owns, WorkerType, OwnerType, Outcome, Driving,
     Handling, Telling, Requeuing, Reporting
<1> QED BY <1>1, <1>2, <1>3, <1>4, <1>5, <1>6

(* The status told is the one the row ends with. *)
LEMMA ReportCompletionInv == ASSUME IInv, NEW w \in Worker, ReportCompletion(w) PROVE IInv'
<1> USE DEF IInv, TypeOK, ReportCompletion, Goto, row, local, client, owner
<1>1. TypeOK'
  <2>1. RowType'
    BY WorkerAssumption DEF RowType, WorkerType, ClientType, Status, Action, Terminal, Outcome, Raised,
       NoWorker
  <2>2. WorkerType'
    BY AttemptsAssumption DEF WorkerType, SessionState, RowType, OwnerType, Status, Action, Terminal, Outcome, Raised,
       Driving, Handling, Telling, Requeuing, Reporting, Active
  <2>3. ClientType' /\ OwnerType'
    BY DEF ClientType, OwnerType, RowType, Status, Outcome
  <2>4. told' \subseteq Status /\ faults' \in 0..MaxFaults
    BY AttemptsAssumption DEF WorkerType, Status, Terminal
  <2> QED BY <2>1, <2>2, <2>3, <2>4
<1>2. Fenced'
  BY DEF Fenced, OneExecutor, Owns, RowType, WorkerType, Driving, Handling, Telling,
     Requeuing, Reporting
<1>3. CancelSurvives'
  BY DEF CancelSurvives, CancelRequested, RowType, Action
<1>4. Beginnings'
  BY DEF Beginnings, BeforeExecutionIsHonest, Fenced, Owns, RowType, WorkerType,
     Action, Terminal, Driving, Handling, Telling, Requeuing, Reporting
<1>5. Reports'
  BY DEF Reports, ToldTheTruth, RowType, WorkerType, ClientType, Terminal, Status,
     Driving, Handling, Telling, Requeuing, Reporting
<1>6. Checkpoints'
  BY DEF Checkpoints, HumanCheckpointKept, Ended, Fenced, Owns, WorkerType, OwnerType, Outcome, Driving,
     Handling, Telling, Requeuing, Reporting
<1> QED BY <1>1, <1>2, <1>3, <1>4, <1>5, <1>6

(* The stamp follows the report. *)
LEMMA StampReportInv == ASSUME IInv, NEW w \in Worker, StampReport(w) PROVE IInv'
<1> USE DEF IInv, TypeOK, StampReport, Forget, Return, Raise, MarkReported, client,
            owner
<1>1. TypeOK'
  <2>1. RowType'
    BY WorkerAssumption DEF RowType, WorkerType, ClientType, Status, Action, Terminal, Outcome, Raised,
       NoWorker
  <2>2. WorkerType'
    BY AttemptsAssumption DEF WorkerType, SessionState, RowType, OwnerType, Status, Action, Terminal, Outcome, Raised,
       Driving, Handling, Telling, Requeuing, Reporting, Active
  <2>3. ClientType' /\ OwnerType'
    BY DEF ClientType, OwnerType, RowType, Status, Outcome
  <2>4. told' \subseteq Status /\ faults' \in 0..MaxFaults
    BY AttemptsAssumption DEF WorkerType, Status, Terminal
  <2> QED BY <2>1, <2>2, <2>3, <2>4
<1>2. Fenced'
  BY DEF Fenced, OneExecutor, Owns, RowType, WorkerType, Driving, Handling, Telling,
     Requeuing, Reporting
<1>3. CancelSurvives'
  BY DEF CancelSurvives, CancelRequested, RowType, Action
<1>4. Beginnings'
  BY DEF Beginnings, BeforeExecutionIsHonest, Fenced, Owns, RowType, WorkerType,
     Action, Terminal, Driving, Handling, Telling, Requeuing, Reporting
<1>5. Reports'
  BY DEF Reports, ToldTheTruth, RowType, WorkerType, ClientType, Terminal, Status,
     Driving, Handling, Telling, Requeuing, Reporting
<1>6. Checkpoints'
  BY DEF Checkpoints, HumanCheckpointKept, Ended, Fenced, Owns, WorkerType, OwnerType, Outcome, Driving,
     Handling, Telling, Requeuing, Reporting
<1> QED BY <1>1, <1>2, <1>3, <1>4, <1>5, <1>6

(* A lost attempt changes no row. *)
LEMMA LoseAttemptInv == ASSUME IInv, NEW w \in Worker, LoseAttempt(w) PROVE IInv'
<1> USE DEF IInv, TypeOK, LoseAttempt, Fault, Forget, Raise, row, client, owner
<1>1. TypeOK'
  <2>1. RowType'
    BY WorkerAssumption DEF RowType, WorkerType, ClientType, Status, Action, Terminal, Outcome, Raised,
       NoWorker
  <2>2. WorkerType'
    BY AttemptsAssumption DEF WorkerType, SessionState, RowType, OwnerType, Status, Action, Terminal, Outcome, Raised,
       Driving, Handling, Telling, Requeuing, Reporting, Active
  <2>3. ClientType' /\ OwnerType'
    BY DEF ClientType, OwnerType, RowType, Status, Outcome
  <2>4. told' \subseteq Status /\ faults' \in 0..MaxFaults
    BY AttemptsAssumption DEF WorkerType, Status, Terminal
  <2> QED BY <2>1, <2>2, <2>3, <2>4
<1>2. Fenced'
  BY DEF Fenced, OneExecutor, Owns, RowType, WorkerType, Driving, Handling, Telling,
     Requeuing, Reporting
<1>3. CancelSurvives'
  BY DEF CancelSurvives, CancelRequested, RowType, Action
<1>4. Beginnings'
  BY DEF Beginnings, BeforeExecutionIsHonest, Fenced, Owns, RowType, WorkerType,
     Action, Terminal, Driving, Handling, Telling, Requeuing, Reporting
<1>5. Reports'
  BY DEF Reports, ToldTheTruth, RowType, WorkerType, ClientType, Terminal, Status,
     Driving, Handling, Telling, Requeuing, Reporting
<1>6. Checkpoints'
  BY DEF Checkpoints, HumanCheckpointKept, Ended, Fenced, Owns, WorkerType, OwnerType, Outcome, Driving,
     Handling, Telling, Requeuing, Reporting
<1> QED BY <1>1, <1>2, <1>3, <1>4, <1>5, <1>6

(* A session error changes no row. *)
LEMMA SessionErrorInv == ASSUME IInv, NEW w \in Worker, SessionError(w) PROVE IInv'
<1> USE DEF IInv, TypeOK, SessionError, Fault, Goto, row, client, owner
<1>1. TypeOK'
  <2>1. RowType'
    BY WorkerAssumption DEF RowType, WorkerType, ClientType, Status, Action, Terminal, Outcome, Raised,
       NoWorker
  <2>2. WorkerType'
    BY AttemptsAssumption DEF WorkerType, SessionState, RowType, OwnerType, Status, Action, Terminal, Outcome, Raised,
       Driving, Handling, Telling, Requeuing, Reporting, Active
  <2>3. ClientType' /\ OwnerType'
    BY DEF ClientType, OwnerType, RowType, Status, Outcome
  <2>4. told' \subseteq Status /\ faults' \in 0..MaxFaults
    BY AttemptsAssumption DEF WorkerType, Status, Terminal
  <2> QED BY <2>1, <2>2, <2>3, <2>4
<1>2. Fenced'
  BY DEF Fenced, OneExecutor, Owns, RowType, WorkerType, Driving, Handling, Telling,
     Requeuing, Reporting
<1>3. CancelSurvives'
  BY DEF CancelSurvives, CancelRequested, RowType, Action
<1>4. Beginnings'
  BY DEF Beginnings, BeforeExecutionIsHonest, Fenced, Owns, RowType, WorkerType,
     Action, Terminal, Driving, Handling, Telling, Requeuing, Reporting
<1>5. Reports'
  BY DEF Reports, ToldTheTruth, RowType, WorkerType, ClientType, Terminal, Status,
     Driving, Handling, Telling, Requeuing, Reporting
<1>6. Checkpoints'
  BY DEF Checkpoints, HumanCheckpointKept, Ended, Fenced, Owns, WorkerType, OwnerType, Outcome, Driving,
     Handling, Telling, Requeuing, Reporting
<1> QED BY <1>1, <1>2, <1>3, <1>4, <1>5, <1>6

(* An unknown outcome changes no row. *)
LEMMA OwnerUnknownInv == ASSUME IInv, NEW w \in Worker, OwnerUnknown(w) PROVE IInv'
<1> USE DEF IInv, TypeOK, OwnerUnknown, Fault, Goto, row, client, owner
<1>1. TypeOK'
  <2>1. RowType'
    BY WorkerAssumption DEF RowType, WorkerType, ClientType, Status, Action, Terminal, Outcome, Raised,
       NoWorker
  <2>2. WorkerType'
    BY AttemptsAssumption DEF WorkerType, SessionState, RowType, OwnerType, Status, Action, Terminal, Outcome, Raised,
       Driving, Handling, Telling, Requeuing, Reporting, Active
  <2>3. ClientType' /\ OwnerType'
    BY DEF ClientType, OwnerType, RowType, Status, Outcome
  <2>4. told' \subseteq Status /\ faults' \in 0..MaxFaults
    BY AttemptsAssumption DEF WorkerType, Status, Terminal
  <2> QED BY <2>1, <2>2, <2>3, <2>4
<1>2. Fenced'
  BY DEF Fenced, OneExecutor, Owns, RowType, WorkerType, Driving, Handling, Telling,
     Requeuing, Reporting
<1>3. CancelSurvives'
  BY DEF CancelSurvives, CancelRequested, RowType, Action
<1>4. Beginnings'
  BY DEF Beginnings, BeforeExecutionIsHonest, Fenced, Owns, RowType, WorkerType,
     Action, Terminal, Driving, Handling, Telling, Requeuing, Reporting
<1>5. Reports'
  BY DEF Reports, ToldTheTruth, RowType, WorkerType, ClientType, Terminal, Status,
     Driving, Handling, Telling, Requeuing, Reporting
<1>6. Checkpoints'
  BY DEF Checkpoints, HumanCheckpointKept, Ended, Fenced, Owns, WorkerType, OwnerType, Outcome, Driving,
     Handling, Telling, Requeuing, Reporting
<1> QED BY <1>1, <1>2, <1>3, <1>4, <1>5, <1>6

(* A failed call changes no row. *)
LEMMA CallFailsInv == ASSUME IInv, NEW w \in Worker, CallFails(w) PROVE IInv'
<1> USE DEF IInv, TypeOK, CallFails, Fault, Forget, Raise, Goto, row, client, owner
<1>1. TypeOK'
  <2>1. RowType'
    BY WorkerAssumption DEF RowType, WorkerType, ClientType, Status, Action, Terminal, Outcome, Raised,
       NoWorker
  <2>2. WorkerType'
    BY AttemptsAssumption DEF WorkerType, SessionState, RowType, OwnerType, Status, Action, Terminal, Outcome, Raised,
       Driving, Handling, Telling, Requeuing, Reporting, Active
  <2>3. ClientType' /\ OwnerType'
    BY DEF ClientType, OwnerType, RowType, Status, Outcome
  <2>4. told' \subseteq Status /\ faults' \in 0..MaxFaults
    BY AttemptsAssumption DEF WorkerType, Status, Terminal
  <2> QED BY <2>1, <2>2, <2>3, <2>4
<1>2. Fenced'
  BY DEF Fenced, OneExecutor, Owns, RowType, WorkerType, Driving, Handling, Telling,
     Requeuing, Reporting
<1>3. CancelSurvives'
  BY DEF CancelSurvives, CancelRequested, RowType, Action
<1>4. Beginnings'
  BY DEF Beginnings, BeforeExecutionIsHonest, Fenced, Owns, RowType, WorkerType,
     Action, Terminal, Driving, Handling, Telling, Requeuing, Reporting
<1>5. Reports'
  BY DEF Reports, ToldTheTruth, RowType, WorkerType, ClientType, Terminal, Status,
     Driving, Handling, Telling, Requeuing, Reporting
<1>6. Checkpoints'
  BY DEF Checkpoints, HumanCheckpointKept, Ended, Fenced, Owns, WorkerType, OwnerType, Outcome, Driving,
     Handling, Telling, Requeuing, Reporting
<1> QED BY <1>1, <1>2, <1>3, <1>4, <1>5, <1>6

(* Accepting creates the row once. *)
LEMMA AcceptInv == ASSUME IInv, NEW c \in Client, Accept(c) PROVE IInv'
<1> USE DEF IInv, TypeOK, Accept, CreateOrGet, CGoto, hatchet, local, owner
<1>1. TypeOK'
  <2>1. RowType'
    BY WorkerAssumption DEF RowType, WorkerType, ClientType, Status, Action, Terminal, Outcome, Raised,
       NoWorker
  <2>2. WorkerType'
    BY AttemptsAssumption DEF WorkerType, SessionState, RowType, OwnerType, Status, Action, Terminal, Outcome, Raised,
       Driving, Handling, Telling, Requeuing, Reporting, Active
  <2>3. ClientType' /\ OwnerType'
    BY DEF ClientType, OwnerType, RowType, Status, Outcome
  <2>4. told' \subseteq Status /\ faults' \in 0..MaxFaults
    BY AttemptsAssumption DEF WorkerType, Status, Terminal
  <2> QED BY <2>1, <2>2, <2>3, <2>4
<1>2. Fenced'
  BY DEF Fenced, OneExecutor, Owns, RowType, WorkerType, Driving, Handling, Telling,
     Requeuing, Reporting
<1>3. CancelSurvives'
  BY DEF CancelSurvives, CancelRequested, RowType, Action
<1>4. Beginnings'
  BY DEF Beginnings, BeforeExecutionIsHonest, Fenced, Owns, RowType, WorkerType,
     Action, Terminal, Driving, Handling, Telling, Requeuing, Reporting
<1>5. Reports'
  BY DEF Reports, ToldTheTruth, RowType, WorkerType, ClientType, Terminal, Status,
     Driving, Handling, Telling, Requeuing, Reporting
<1>6. Checkpoints'
  BY DEF Checkpoints, HumanCheckpointKept, Ended, Fenced, Owns, WorkerType, OwnerType, Outcome, Driving,
     Handling, Telling, Requeuing, Reporting
<1> QED BY <1>1, <1>2, <1>3, <1>4, <1>5, <1>6

(* A control request keeps an accepted cancel and settles only an untouched row. *)
LEMMA ControlInv == ASSUME IInv, NEW c \in Client, Control(c) PROVE IInv'
<1> USE DEF IInv, TypeOK, Control, Known, CancelRunning, Untouched, CancelUntouched,
            Requeue, RequestControl, AfterControl, CGoto, row, hatchet, local, owner
<1>1. TypeOK'
  <2>1. RowType'
    <3>1. PICK k \in Key, a \in Action : RequestControl(k, a)
      OBVIOUS
    <3>2. history' \in [Key -> Action \cup {"none"}]
      BY <3>1 DEF RowType, Action
    <3>3. /\ status' \in Status /\ worker' \in Worker \cup {NoWorker} /\ reported' = reported
          /\ control' \in Action \cup {"none"} /\ result' \in {"none", "before_execution", "owner"}
      BY <3>1 DEF RowType, Status, Action, Terminal
    <3> QED BY <3>2, <3>3 DEF RowType
  <2>2. WorkerType'
    BY AttemptsAssumption DEF WorkerType, SessionState, RowType, OwnerType, Status, Action, Terminal, Outcome, Raised,
       Driving, Handling, Telling, Requeuing, Reporting, Active
  <2>3. ClientType' /\ OwnerType'
    BY DEF ClientType, OwnerType, RowType, Status, Outcome
  <2>4. told' \subseteq Status /\ faults' \in 0..MaxFaults
    BY AttemptsAssumption DEF WorkerType, Status, Terminal
  <2> QED BY <2>1, <2>2, <2>3, <2>4
<1>2. Fenced'
  BY DEF Fenced, OneExecutor, Owns, RowType, WorkerType, Driving, Handling, Telling,
     Requeuing, Reporting
<1>3. CancelSurvives'
  BY DEF CancelSurvives, CancelRequested, RowType, Action
<1>4. Beginnings'
  BY DEF Beginnings, BeforeExecutionIsHonest, Fenced, Owns, RowType, WorkerType,
     Action, Terminal, Driving, Handling, Telling, Requeuing, Reporting
<1>5. Reports'
  BY DEF Reports, ToldTheTruth, RowType, WorkerType, ClientType, Terminal, Status,
     Driving, Handling, Telling, Requeuing, Reporting
<1>6. Checkpoints'
  BY DEF Checkpoints, HumanCheckpointKept, Ended, Fenced, Owns, WorkerType, OwnerType, Outcome, Driving,
     Handling, Telling, Requeuing, Reporting
<1> QED BY <1>1, <1>2, <1>3, <1>4, <1>5, <1>6

(* Listing rows changes none. *)
LEMMA ReconcileInv == ASSUME IInv, NEW c \in Client, Reconcile(c) PROVE IInv'
<1> USE DEF IInv, TypeOK, Reconcile, CGoto, row, hatchet, local, owner
<1>1. TypeOK'
  <2>1. RowType'
    BY WorkerAssumption DEF RowType, WorkerType, ClientType, Status, Action, Terminal, Outcome, Raised,
       NoWorker
  <2>2. WorkerType'
    BY AttemptsAssumption DEF WorkerType, SessionState, RowType, OwnerType, Status, Action, Terminal, Outcome, Raised,
       Driving, Handling, Telling, Requeuing, Reporting, Active
  <2>3. ClientType' /\ OwnerType'
    BY DEF ClientType, OwnerType, RowType, Status, Outcome
  <2>4. told' \subseteq Status /\ faults' \in 0..MaxFaults
    BY AttemptsAssumption DEF WorkerType, Status, Terminal
  <2> QED BY <2>1, <2>2, <2>3, <2>4
<1>2. Fenced'
  BY DEF Fenced, OneExecutor, Owns, RowType, WorkerType, Driving, Handling, Telling,
     Requeuing, Reporting
<1>3. CancelSurvives'
  BY DEF CancelSurvives, CancelRequested, RowType, Action
<1>4. Beginnings'
  BY DEF Beginnings, BeforeExecutionIsHonest, Fenced, Owns, RowType, WorkerType,
     Action, Terminal, Driving, Handling, Telling, Requeuing, Reporting
<1>5. Reports'
  BY DEF Reports, ToldTheTruth, RowType, WorkerType, ClientType, Terminal, Status,
     Driving, Handling, Telling, Requeuing, Reporting
<1>6. Checkpoints'
  BY DEF Checkpoints, HumanCheckpointKept, Ended, Fenced, Owns, WorkerType, OwnerType, Outcome, Driving,
     Handling, Telling, Requeuing, Reporting
<1> QED BY <1>1, <1>2, <1>3, <1>4, <1>5, <1>6

(* Queueing a delivery starts nobody driving. *)
LEMMA ClientEnqueueInv == ASSUME IInv, NEW c \in Client, ClientEnqueue(c) PROVE IInv'
<1> USE DEF IInv, TypeOK, ClientEnqueue, Fresh, Goto, CGoto, row, local, owner
<1>1. TypeOK'
  <2>1. RowType'
    BY WorkerAssumption DEF RowType, WorkerType, ClientType, Status, Action, Terminal, Outcome, Raised,
       NoWorker
  <2>2. WorkerType'
    BY AttemptsAssumption DEF WorkerType, SessionState, RowType, OwnerType, Status, Action, Terminal, Outcome, Raised,
       Driving, Handling, Telling, Requeuing, Reporting, Active
  <2>3. ClientType' /\ OwnerType'
    BY DEF ClientType, OwnerType, RowType, Status, Outcome
  <2>4. told' \subseteq Status /\ faults' \in 0..MaxFaults
    BY AttemptsAssumption DEF WorkerType, Status, Terminal
  <2> QED BY <2>1, <2>2, <2>3, <2>4
<1>2. Fenced'
  BY DEF Fenced, OneExecutor, Owns, RowType, WorkerType, Driving, Handling, Telling,
     Requeuing, Reporting
<1>3. CancelSurvives'
  BY DEF CancelSurvives, CancelRequested, RowType, Action
<1>4. Beginnings'
  BY DEF Beginnings, BeforeExecutionIsHonest, Fenced, Owns, RowType, WorkerType,
     Action, Terminal, Driving, Handling, Telling, Requeuing, Reporting
<1>5. Reports'
  BY DEF Reports, ToldTheTruth, RowType, WorkerType, ClientType, Terminal, Status,
     Driving, Handling, Telling, Requeuing, Reporting
<1>6. Checkpoints'
  BY DEF Checkpoints, HumanCheckpointKept, Ended, Fenced, Owns, WorkerType, OwnerType, Outcome, Driving,
     Handling, Telling, Requeuing, Reporting
<1> QED BY <1>1, <1>2, <1>3, <1>4, <1>5, <1>6

(* Marking a row queued keeps its control. *)
LEMMA ClientMarkInv == ASSUME IInv, NEW c \in Client, ClientMark(c) PROVE IInv'
<1> USE DEF IInv, TypeOK, ClientMark, MarkQueued, AfterControl, CGoto, CDone, hatchet,
            local, owner
<1>1. TypeOK'
  <2>1. RowType'
    BY WorkerAssumption DEF RowType, WorkerType, ClientType, Status, Action, Terminal, Outcome, Raised,
       NoWorker
  <2>2. WorkerType'
    BY AttemptsAssumption DEF WorkerType, SessionState, RowType, OwnerType, Status, Action, Terminal, Outcome, Raised,
       Driving, Handling, Telling, Requeuing, Reporting, Active
  <2>3. ClientType' /\ OwnerType'
    BY DEF ClientType, OwnerType, RowType, Status, Outcome
  <2>4. told' \subseteq Status /\ faults' \in 0..MaxFaults
    BY AttemptsAssumption DEF WorkerType, Status, Terminal
  <2> QED BY <2>1, <2>2, <2>3, <2>4
<1>2. Fenced'
  BY DEF Fenced, OneExecutor, Owns, RowType, WorkerType, Driving, Handling, Telling,
     Requeuing, Reporting
<1>3. CancelSurvives'
  BY DEF CancelSurvives, CancelRequested, RowType, Action
<1>4. Beginnings'
  BY DEF Beginnings, BeforeExecutionIsHonest, Fenced, Owns, RowType, WorkerType,
     Action, Terminal, Driving, Handling, Telling, Requeuing, Reporting
<1>5. Reports'
  BY DEF Reports, ToldTheTruth, RowType, WorkerType, ClientType, Terminal, Status,
     Driving, Handling, Telling, Requeuing, Reporting
<1>6. Checkpoints'
  BY DEF Checkpoints, HumanCheckpointKept, Ended, Fenced, Owns, WorkerType, OwnerType, Outcome, Driving,
     Handling, Telling, Requeuing, Reporting
<1> QED BY <1>1, <1>2, <1>3, <1>4, <1>5, <1>6

(* Listing cancellations changes nothing. *)
LEMMA ListCancellationsInv == ASSUME IInv, NEW c \in Client, ListCancellations(c) PROVE IInv'
<1> USE DEF IInv, TypeOK, ListCancellations, CGoto, CDone, row, hatchet, local, owner
<1>1. TypeOK'
  <2>1. RowType'
    BY WorkerAssumption DEF RowType, WorkerType, ClientType, Status, Action, Terminal, Outcome, Raised,
       NoWorker
  <2>2. WorkerType'
    BY AttemptsAssumption DEF WorkerType, SessionState, RowType, OwnerType, Status, Action, Terminal, Outcome, Raised,
       Driving, Handling, Telling, Requeuing, Reporting, Active
  <2>3. ClientType' /\ OwnerType'
    BY DEF ClientType, OwnerType, RowType, Status, Outcome
  <2>4. told' \subseteq Status /\ faults' \in 0..MaxFaults
    BY AttemptsAssumption DEF WorkerType, Status, Terminal
  <2> QED BY <2>1, <2>2, <2>3, <2>4
<1>2. Fenced'
  BY DEF Fenced, OneExecutor, Owns, RowType, WorkerType, Driving, Handling, Telling,
     Requeuing, Reporting
<1>3. CancelSurvives'
  BY DEF CancelSurvives, CancelRequested, RowType, Action
<1>4. Beginnings'
  BY DEF Beginnings, BeforeExecutionIsHonest, Fenced, Owns, RowType, WorkerType,
     Action, Terminal, Driving, Handling, Telling, Requeuing, Reporting
<1>5. Reports'
  BY DEF Reports, ToldTheTruth, RowType, WorkerType, ClientType, Terminal, Status,
     Driving, Handling, Telling, Requeuing, Reporting
<1>6. Checkpoints'
  BY DEF Checkpoints, HumanCheckpointKept, Ended, Fenced, Owns, WorkerType, OwnerType, Outcome, Driving,
     Handling, Telling, Requeuing, Reporting
<1> QED BY <1>1, <1>2, <1>3, <1>4, <1>5, <1>6

(* The marker is delivered to an existing checkpoint only. *)
LEMMA DeliverInv == ASSUME IInv, NEW c \in Client, Deliver(c) PROVE IInv'
<1> USE DEF IInv, TypeOK, Deliver, CancelSettles, CancelMarks, CGoto, CDone, row,
            hatchet, local, owner
<1>1. TypeOK'
  <2>1. RowType'
    BY WorkerAssumption DEF RowType, WorkerType, ClientType, Status, Action, Terminal, Outcome, Raised,
       NoWorker
  <2>2. WorkerType'
    BY AttemptsAssumption DEF WorkerType, SessionState, RowType, OwnerType, Status, Action, Terminal, Outcome, Raised,
       Driving, Handling, Telling, Requeuing, Reporting, Active
  <2>3. ClientType' /\ OwnerType'
    BY DEF ClientType, OwnerType, RowType, Status, Outcome
  <2>4. told' \subseteq Status /\ faults' \in 0..MaxFaults
    BY AttemptsAssumption DEF WorkerType, Status, Terminal
  <2> QED BY <2>1, <2>2, <2>3, <2>4
<1>2. Fenced'
  BY DEF Fenced, OneExecutor, Owns, RowType, WorkerType, Driving, Handling, Telling,
     Requeuing, Reporting
<1>3. CancelSurvives'
  BY DEF CancelSurvives, CancelRequested, RowType, Action
<1>4. Beginnings'
  BY DEF Beginnings, BeforeExecutionIsHonest, Fenced, Owns, RowType, WorkerType,
     Action, Terminal, Driving, Handling, Telling, Requeuing, Reporting
<1>5. Reports'
  BY DEF Reports, ToldTheTruth, RowType, WorkerType, ClientType, Terminal, Status,
     Driving, Handling, Telling, Requeuing, Reporting
<1>6. Checkpoints'
  BY DEF Checkpoints, HumanCheckpointKept, Ended, Fenced, Owns, WorkerType, OwnerType, Outcome, Driving,
     Handling, Telling, Requeuing, Reporting
<1> QED BY <1>1, <1>2, <1>3, <1>4, <1>5, <1>6

(* Reading the claim changes nothing. *)
LEMMA ReadFenceInv == ASSUME IInv, NEW c \in Client, ReadFence(c) PROVE IInv'
<1> USE DEF IInv, TypeOK, ReadFence, CGoto, CDone, row, hatchet, local, owner
<1>1. TypeOK'
  <2>1. RowType'
    BY WorkerAssumption DEF RowType, WorkerType, ClientType, Status, Action, Terminal, Outcome, Raised,
       NoWorker
  <2>2. WorkerType'
    BY AttemptsAssumption DEF WorkerType, SessionState, RowType, OwnerType, Status, Action, Terminal, Outcome, Raised,
       Driving, Handling, Telling, Requeuing, Reporting, Active
  <2>3. ClientType' /\ OwnerType'
    BY DEF ClientType, OwnerType, RowType, Status, Outcome
  <2>4. told' \subseteq Status /\ faults' \in 0..MaxFaults
    BY AttemptsAssumption DEF WorkerType, Status, Terminal
  <2> QED BY <2>1, <2>2, <2>3, <2>4
<1>2. Fenced'
  BY DEF Fenced, OneExecutor, Owns, RowType, WorkerType, Driving, Handling, Telling,
     Requeuing, Reporting
<1>3. CancelSurvives'
  BY DEF CancelSurvives, CancelRequested, RowType, Action
<1>4. Beginnings'
  BY DEF Beginnings, BeforeExecutionIsHonest, Fenced, Owns, RowType, WorkerType,
     Action, Terminal, Driving, Handling, Telling, Requeuing, Reporting
<1>5. Reports'
  BY DEF Reports, ToldTheTruth, RowType, WorkerType, ClientType, Terminal, Status,
     Driving, Handling, Telling, Requeuing, Reporting
<1>6. Checkpoints'
  BY DEF Checkpoints, HumanCheckpointKept, Ended, Fenced, Owns, WorkerType, OwnerType, Outcome, Driving,
     Handling, Telling, Requeuing, Reporting
<1> QED BY <1>1, <1>2, <1>3, <1>4, <1>5, <1>6

(* A confirmed cancellation settles the row that is still claimed. *)
LEMMA FinishCancelledInv == ASSUME IInv, NEW c \in Client, FinishCancelled(c) PROVE IInv'
<1> USE DEF IInv, TypeOK, FinishCancelled, Owns, Finish, CGoto, CDone, row, hatchet,
            local, owner
<1>1. TypeOK'
  <2>1. RowType'
    <3>1. CASE Finish(fence[c], "cancelled", "owner")
      <4>1. worker' = worker /\ status' = "cancelled" /\ control' = "none" /\ result' = "owner"
        BY <3>1
      <4> QED BY <3>1, <4>1 DEF RowType, Status, Terminal
    <3>2. CASE UNCHANGED row
      BY <3>2 DEF RowType
    <3> QED BY <3>1, <3>2
  <2>2. WorkerType'
    BY AttemptsAssumption DEF WorkerType, SessionState, RowType, OwnerType, Status, Action, Terminal, Outcome, Raised,
       Driving, Handling, Telling, Requeuing, Reporting, Active
  <2>3. ClientType' /\ OwnerType'
    BY DEF ClientType, OwnerType, RowType, Status, Outcome
  <2>4. told' \subseteq Status /\ faults' \in 0..MaxFaults
    BY AttemptsAssumption DEF WorkerType, Status, Terminal
  <2> QED BY <2>1, <2>2, <2>3, <2>4
<1>2. Fenced'
  BY DEF Fenced, OneExecutor, RowType, WorkerType, Driving, Handling, Telling,
     Requeuing, Reporting
<1>3. CancelSurvives'
  BY DEF CancelSurvives, CancelRequested, RowType, Action
<1>4. Beginnings'
  BY DEF Beginnings, BeforeExecutionIsHonest, Fenced, RowType, WorkerType, Action,
     Terminal, Driving, Handling, Telling, Requeuing, Reporting
<1>5. Reports'
  BY DEF Reports, ToldTheTruth, RowType, WorkerType, ClientType, Terminal, Status,
     Driving, Handling, Telling, Requeuing, Reporting
<1>6. Checkpoints'
  BY DEF Checkpoints, HumanCheckpointKept, Ended, Fenced, WorkerType, OwnerType, Outcome, Driving,
     Handling, Telling, Requeuing, Reporting
<1> QED BY <1>1, <1>2, <1>3, <1>4, <1>5, <1>6

(* A client reports only a cancelled row. *)
LEMMA ClientReportInv == ASSUME IInv, NEW c \in Client, ClientReport(c) PROVE IInv'
<1> USE DEF IInv, TypeOK, ClientReport, CGoto, row, hatchet, local, owner
<1>1. TypeOK'
  <2>1. RowType'
    BY WorkerAssumption DEF RowType, WorkerType, ClientType, Status, Action, Terminal, Outcome, Raised,
       NoWorker
  <2>2. WorkerType'
    BY AttemptsAssumption DEF WorkerType, SessionState, RowType, OwnerType, Status, Action, Terminal, Outcome, Raised,
       Driving, Handling, Telling, Requeuing, Reporting, Active
  <2>3. ClientType' /\ OwnerType'
    BY DEF ClientType, OwnerType, RowType, Status, Outcome
  <2>4. told' \subseteq Status /\ faults' \in 0..MaxFaults
    BY AttemptsAssumption DEF WorkerType, Status, Terminal
  <2> QED BY <2>1, <2>2, <2>3, <2>4
<1>2. Fenced'
  BY DEF Fenced, OneExecutor, Owns, RowType, WorkerType, Driving, Handling, Telling,
     Requeuing, Reporting
<1>3. CancelSurvives'
  BY DEF CancelSurvives, CancelRequested, RowType, Action
<1>4. Beginnings'
  BY DEF Beginnings, BeforeExecutionIsHonest, Fenced, Owns, RowType, WorkerType,
     Action, Terminal, Driving, Handling, Telling, Requeuing, Reporting
<1>5. Reports'
  BY DEF Reports, ToldTheTruth, RowType, WorkerType, ClientType, Terminal, Status,
     Driving, Handling, Telling, Requeuing, Reporting
<1>6. Checkpoints'
  BY DEF Checkpoints, HumanCheckpointKept, Ended, Fenced, Owns, WorkerType, OwnerType, Outcome, Driving,
     Handling, Telling, Requeuing, Reporting
<1> QED BY <1>1, <1>2, <1>3, <1>4, <1>5, <1>6

(* The stamp follows the report. *)
LEMMA ClientStampInv == ASSUME IInv, NEW c \in Client, ClientStamp(c) PROVE IInv'
<1> USE DEF IInv, TypeOK, ClientStamp, MarkReported, CGoto, CDone, hatchet, local, owner
<1>1. TypeOK'
  <2>1. RowType'
    BY WorkerAssumption DEF RowType, WorkerType, ClientType, Status, Action, Terminal, Outcome, Raised,
       NoWorker
  <2>2. WorkerType'
    BY AttemptsAssumption DEF WorkerType, SessionState, RowType, OwnerType, Status, Action, Terminal, Outcome, Raised,
       Driving, Handling, Telling, Requeuing, Reporting, Active
  <2>3. ClientType' /\ OwnerType'
    BY DEF ClientType, OwnerType, RowType, Status, Outcome
  <2>4. told' \subseteq Status /\ faults' \in 0..MaxFaults
    BY AttemptsAssumption DEF WorkerType, Status, Terminal
  <2> QED BY <2>1, <2>2, <2>3, <2>4
<1>2. Fenced'
  BY DEF Fenced, OneExecutor, Owns, RowType, WorkerType, Driving, Handling, Telling,
     Requeuing, Reporting
<1>3. CancelSurvives'
  BY DEF CancelSurvives, CancelRequested, RowType, Action
<1>4. Beginnings'
  BY DEF Beginnings, BeforeExecutionIsHonest, Fenced, Owns, RowType, WorkerType,
     Action, Terminal, Driving, Handling, Telling, Requeuing, Reporting
<1>5. Reports'
  BY DEF Reports, ToldTheTruth, RowType, WorkerType, ClientType, Terminal, Status,
     Driving, Handling, Telling, Requeuing, Reporting
<1>6. Checkpoints'
  BY DEF Checkpoints, HumanCheckpointKept, Ended, Fenced, Owns, WorkerType, OwnerType, Outcome, Driving,
     Handling, Telling, Requeuing, Reporting
<1> QED BY <1>1, <1>2, <1>3, <1>4, <1>5, <1>6

(* A lost request changes no row. *)
LEMMA LoseRequestInv == ASSUME IInv, NEW c \in Client, LoseRequest(c) PROVE IInv'
<1> USE DEF IInv, TypeOK, LoseRequest, Fault, CGoto, CDone, row, hatchet, local, owner
<1>1. TypeOK'
  <2>1. RowType'
    BY WorkerAssumption DEF RowType, WorkerType, ClientType, Status, Action, Terminal, Outcome, Raised,
       NoWorker
  <2>2. WorkerType'
    BY AttemptsAssumption DEF WorkerType, SessionState, RowType, OwnerType, Status, Action, Terminal, Outcome, Raised,
       Driving, Handling, Telling, Requeuing, Reporting, Active
  <2>3. ClientType' /\ OwnerType'
    BY DEF ClientType, OwnerType, RowType, Status, Outcome
  <2>4. told' \subseteq Status /\ faults' \in 0..MaxFaults
    BY AttemptsAssumption DEF WorkerType, Status, Terminal
  <2> QED BY <2>1, <2>2, <2>3, <2>4
<1>2. Fenced'
  BY DEF Fenced, OneExecutor, Owns, RowType, WorkerType, Driving, Handling, Telling,
     Requeuing, Reporting
<1>3. CancelSurvives'
  BY DEF CancelSurvives, CancelRequested, RowType, Action
<1>4. Beginnings'
  BY DEF Beginnings, BeforeExecutionIsHonest, Fenced, Owns, RowType, WorkerType,
     Action, Terminal, Driving, Handling, Telling, Requeuing, Reporting
<1>5. Reports'
  BY DEF Reports, ToldTheTruth, RowType, WorkerType, ClientType, Terminal, Status,
     Driving, Handling, Telling, Requeuing, Reporting
<1>6. Checkpoints'
  BY DEF Checkpoints, HumanCheckpointKept, Ended, Fenced, Owns, WorkerType, OwnerType, Outcome, Driving,
     Handling, Telling, Requeuing, Reporting
<1> QED BY <1>1, <1>2, <1>3, <1>4, <1>5, <1>6

(* A refused enqueue changes no row. *)
LEMMA EnqueueFailsInv == ASSUME IInv, NEW c \in Client, EnqueueFails(c) PROVE IInv'
<1> USE DEF IInv, TypeOK, EnqueueFails, Fault, CGoto, CDone, row, hatchet, local, owner
<1>1. TypeOK'
  <2>1. RowType'
    BY WorkerAssumption DEF RowType, WorkerType, ClientType, Status, Action, Terminal, Outcome, Raised,
       NoWorker
  <2>2. WorkerType'
    BY AttemptsAssumption DEF WorkerType, SessionState, RowType, OwnerType, Status, Action, Terminal, Outcome, Raised,
       Driving, Handling, Telling, Requeuing, Reporting, Active
  <2>3. ClientType' /\ OwnerType'
    BY DEF ClientType, OwnerType, RowType, Status, Outcome
  <2>4. told' \subseteq Status /\ faults' \in 0..MaxFaults
    BY AttemptsAssumption DEF WorkerType, Status, Terminal
  <2> QED BY <2>1, <2>2, <2>3, <2>4
<1>2. Fenced'
  BY DEF Fenced, OneExecutor, Owns, RowType, WorkerType, Driving, Handling, Telling,
     Requeuing, Reporting
<1>3. CancelSurvives'
  BY DEF CancelSurvives, CancelRequested, RowType, Action
<1>4. Beginnings'
  BY DEF Beginnings, BeforeExecutionIsHonest, Fenced, Owns, RowType, WorkerType,
     Action, Terminal, Driving, Handling, Telling, Requeuing, Reporting
<1>5. Reports'
  BY DEF Reports, ToldTheTruth, RowType, WorkerType, ClientType, Terminal, Status,
     Driving, Handling, Telling, Requeuing, Reporting
<1>6. Checkpoints'
  BY DEF Checkpoints, HumanCheckpointKept, Ended, Fenced, Owns, WorkerType, OwnerType, Outcome, Driving,
     Handling, Telling, Requeuing, Reporting
<1> QED BY <1>1, <1>2, <1>3, <1>4, <1>5, <1>6

(* The owner moves an existing checkpoint only. *)
LEMMA OwnerAdvancesInv == ASSUME IInv, OwnerAdvances PROVE IInv'
<1> USE DEF IInv, TypeOK, OwnerAdvances, row, client
<1>1. TypeOK'
  <2>1. RowType'
    BY WorkerAssumption DEF RowType, WorkerType, ClientType, Status, Action, Terminal, Outcome, Raised,
       NoWorker
  <2>2. WorkerType'
    BY AttemptsAssumption DEF WorkerType, SessionState, RowType, OwnerType, Status, Action, Terminal, Outcome, Raised,
       Driving, Handling, Telling, Requeuing, Reporting, Active
  <2>3. ClientType' /\ OwnerType'
    BY DEF ClientType, OwnerType, RowType, Status, Outcome
  <2>4. told' \subseteq Status /\ faults' \in 0..MaxFaults
    BY AttemptsAssumption DEF WorkerType, Status, Terminal
  <2> QED BY <2>1, <2>2, <2>3, <2>4
<1>2. Fenced'
  BY DEF Fenced, OneExecutor, Owns, RowType, WorkerType, Driving, Handling, Telling,
     Requeuing, Reporting
<1>3. CancelSurvives'
  BY DEF CancelSurvives, CancelRequested, RowType, Action
<1>4. Beginnings'
  BY DEF Beginnings, BeforeExecutionIsHonest, Fenced, Owns, RowType, WorkerType,
     Action, Terminal, Driving, Handling, Telling, Requeuing, Reporting
<1>5. Reports'
  BY DEF Reports, ToldTheTruth, RowType, WorkerType, ClientType, Terminal, Status,
     Driving, Handling, Telling, Requeuing, Reporting
<1>6. Checkpoints'
  BY DEF Checkpoints, HumanCheckpointKept, Ended, Fenced, Owns, WorkerType, OwnerType, Outcome, Driving,
     Handling, Telling, Requeuing, Reporting
<1> QED BY <1>1, <1>2, <1>3, <1>4, <1>5, <1>6

(* Nothing has happened when the row does not exist. *)
LEMMA InitInv == Init => IInv
<1> SUFFICES ASSUME Init PROVE IInv
  OBVIOUS
<1> USE DEF Init, RowInit
<1>1. TypeOK
  <2>1. RowType
    BY DEF RowType, Status, Action
  <2>2. WorkerType
    BY AttemptsAssumption DEF WorkerType, Status, Active
  <2>3. ClientType
    BY DEF ClientType
  <2>4. OwnerType
    BY DEF OwnerType
  <2>5. told \subseteq Status /\ faults \in 0..MaxFaults
    BY AttemptsAssumption
  <2> QED BY <2>1, <2>2, <2>3, <2>4, <2>5 DEF TypeOK
<1>2. Fenced /\ Checkpoints
  BY DEF Fenced, OneExecutor, Checkpoints, HumanCheckpointKept, Driving
<1>3. CancelSurvives /\ Beginnings
  BY DEF CancelSurvives, CancelRequested, Beginnings, BeforeExecutionIsHonest
<1>4. Reports
  BY DEF Reports, ToldTheTruth
<1> QED BY <1>1, <1>2, <1>3, <1>4 DEF IInv

(* Every step of every actor preserves the invariant. *)
LEMMA NextInv == IInv /\ [Next]_vars => IInv'
<1> SUFFICES ASSUME IInv, [Next]_vars PROVE IInv'
  OBVIOUS
<1>1. CASE UNCHANGED vars
  BY <1>1 DEF IInv, TypeOK, RowType, WorkerType, ClientType, OwnerType, Fenced, OneExecutor,
     Owns, CancelSurvives, CancelRequested, Beginnings,
     BeforeExecutionIsHonest, Reports, ToldTheTruth, Checkpoints, HumanCheckpointKept, vars, row, client, owner
<1>2. ASSUME NEW w \in Worker, WorkerStep(w) PROVE IInv'
  BY <1>2, BeginInv, ClaimRunInv, ClaimedElsewhereInv, OpenSessionInv,
     InspectCheckpointInv, RunWorkflowInv, ResumeWorkflowInv, CancelWorkflowInv,
     NoCheckpointInv, OwnerReturnsInv, RecheckInv, SettleWaitingInv,
     SettleTerminalInv, SettleLostInv, HandleExceptionInv, HandleSettledInv,
     ExceptWaitInv, ExceptFinishInv, ExceptLostInv, TellWaitInv, RequeueCancelInv,
     MarkRequeuedInv, ReportCompletionInv, StampReportInv
     DEF WorkerStep
<1>3. ASSUME NEW w \in Worker, WorkerFault(w) PROVE IInv'
  BY <1>3, LoseAttemptInv, SessionErrorInv, OwnerUnknownInv, CallFailsInv DEF WorkerFault
<1>4. ASSUME NEW c \in Client, Accept(c) \/ Control(c) \/ Reconcile(c) PROVE IInv'
  BY <1>4, AcceptInv, ControlInv, ReconcileInv
<1>5. ASSUME NEW c \in Client, ClientStep(c) PROVE IInv'
  BY <1>5, ClientEnqueueInv, ClientMarkInv, ListCancellationsInv, DeliverInv,
     ReadFenceInv, FinishCancelledInv, ClientReportInv, ClientStampInv
     DEF ClientStep
<1>6. ASSUME NEW c \in Client, ClientFault(c) PROVE IInv'
  BY <1>6, LoseRequestInv, EnqueueFailsInv DEF ClientFault
<1> QED BY <1>1, <1>2, <1>3, <1>4, <1>5, <1>6, OwnerAdvancesInv DEF Next

(* The inductive invariant holds in every reachable state. *)
THEOREM DispatchInvariance == Spec => []IInv
BY InitInv, NextInv, PTL DEF Spec

(* Every variable keeps its type, for any number of workers and requests. *)
THEOREM DispatchTypeCorrect == Spec => []TypeOK
<1>1. IInv => TypeOK
  BY DEF IInv
<1> QED BY <1>1, DispatchInvariance, PTL

(* Whatever Hatchet delivers, repeats or loses, one worker at a time       *)
(* drives the browser.                                                     *)
THEOREM OneWorkerDrives == Spec => []OneExecutor
<1>1. IInv => OneExecutor
  BY DEF IInv, Fenced
<1> QED BY <1>1, DispatchInvariance, PTL

(* An accepted cancel is never swallowed by a wait, a failure or another   *)
(* control, however late it arrives.                                       *)
THEOREM CancelIsKept == Spec => []CancelSurvives
<1>1. IInv => CancelSurvives
  BY DEF IInv
<1> QED BY <1>1, DispatchInvariance, PTL

(* "cancelled_before_execution" is true when it is written and stays so.   *)
THEOREM BeforeExecution == Spec => []BeforeExecutionIsHonest
<1>1. IInv => BeforeExecutionIsHonest
  BY DEF IInv, Beginnings
<1> QED BY <1>1, DispatchInvariance, PTL

(* Agent Hub is told one completion, the one the row ends with. *)
THEOREM CompletionIsTrue == Spec => []ToldTheTruth
<1>1. IInv => ToldTheTruth
  BY DEF IInv, Reports
<1> QED BY <1>1, DispatchInvariance, PTL

(* A terminal row is written by nobody: each statement that changes status *)
(* or result asks for a status that is not terminal.                       *)
THEOREM SettledIsFinal == Spec => TerminalIsFinal
<1> DEFINE Kept == status' = status /\ result' = result
<1>1. ASSUME NEW w \in Worker, WorkerStep(w), status \in Terminal PROVE Kept
  <2>1. CASE ClaimRun(w)
    BY <1>1, <2>1 DEF ClaimRun, Claim, Claimable, Owns, Terminal
  <2>2. CASE SettleWaiting(w)
    BY <1>1, <2>2 DEF SettleWaiting, Wait, Owns, Terminal
  <2>3. CASE SettleTerminal(w)
    BY <1>1, <2>3 DEF SettleTerminal, Finish, Owns, Terminal
  <2>4. CASE ExceptWait(w)
    BY <1>1, <2>4 DEF ExceptWait, Wait, Owns, Terminal
  <2>5. CASE ExceptFinish(w)
    BY <1>1, <2>5 DEF ExceptFinish, Finish, Owns, Terminal
  <2>6. CASE MarkRequeued(w)
    BY <1>1, <2>6 DEF MarkRequeued, MarkQueued, Terminal
  <2>7. CASE StampReport(w)
    BY <1>1, <2>7 DEF StampReport, MarkReported, Terminal
  <2>8. CASE Begin(w) \/ ClaimedElsewhere(w) \/ OpenSession(w) \/ InspectCheckpoint(w)
            \/ RunWorkflow(w) \/ ResumeWorkflow(w) \/ CancelWorkflow(w) \/ NoCheckpoint(w)
    BY <2>8 DEF row, Begin, ClaimedElsewhere, OpenSession, InspectCheckpoint,
       RunWorkflow, ResumeWorkflow, CancelWorkflow, NoCheckpoint
  <2>9. CASE OwnerReturns(w) \/ Recheck(w) \/ SettleLost(w) \/ HandleException(w) \/ HandleSettled(w)
            \/ ExceptLost(w) \/ TellWait(w) \/ RequeueCancel(w) \/ ReportCompletion(w)
    BY <2>9 DEF row, OwnerReturns, Recheck, SettleLost, HandleException, HandleSettled,
       ExceptLost, TellWait, RequeueCancel, ReportCompletion
  <2> QED BY <1>1, <2>1, <2>2, <2>3, <2>4, <2>5, <2>6, <2>7, <2>8, <2>9 DEF WorkerStep
<1>2. ASSUME NEW w \in Worker, WorkerFault(w) PROVE Kept
  BY <1>2 DEF WorkerFault, LoseAttempt, SessionError, OwnerUnknown, CallFails, row
<1>3. ASSUME NEW c \in Client, Accept(c) \/ Control(c) \/ Reconcile(c), status \in Terminal PROVE Kept
  <2>1. CASE Accept(c)
    BY <1>3, <2>1 DEF Accept, CreateOrGet, Terminal
  <2>2. CASE Control(c)
    BY <1>3, <2>2 DEF Control, RequestControl, Known, CancelRunning, CancelUntouched, Untouched,
       Requeue, Terminal, row
  <2>3. CASE Reconcile(c)
    BY <2>3 DEF Reconcile, row
  <2> QED BY <1>3, <2>1, <2>2, <2>3
<1>4. ASSUME NEW c \in Client, ClientStep(c), status \in Terminal PROVE Kept
  <2>1. CASE FinishCancelled(c)
    BY <1>4, <2>1 DEF FinishCancelled, Finish, Owns, Terminal, row
  <2>2. CASE ClientMark(c) \/ ClientStamp(c)
    BY <1>4, <2>2 DEF ClientMark, ClientStamp, MarkQueued, MarkReported, Terminal
  <2>3. CASE ClientEnqueue(c) \/ ListCancellations(c) \/ Deliver(c) \/ ReadFence(c) \/ ClientReport(c)
    BY <2>3 DEF ClientEnqueue, ListCancellations, Deliver, ReadFence, ClientReport, row
  <2> QED BY <1>4, <2>1, <2>2, <2>3 DEF ClientStep
<1>5. ASSUME NEW c \in Client, ClientFault(c) PROVE Kept
  BY <1>5 DEF ClientFault, LoseRequest, EnqueueFails, row
<1>6. OwnerAdvances => Kept
  BY DEF OwnerAdvances, row
<1>7. [Next]_vars => [(status \in Terminal) => Kept]_vars
  BY <1>1, <1>2, <1>3, <1>4, <1>5, <1>6 DEF Next
<1> QED BY <1>7, PTL DEF Spec, TerminalIsFinal

(* A retry starts the definition over only where it could not read the     *)
(* checkpoint, and never over a human checkpoint that it saw as a paused   *)
(* session.                                                                *)
THEOREM HumanCheckpointIsKept == Spec => []HumanCheckpointKept
<1>1. IInv => HumanCheckpointKept
  BY DEF IInv, Checkpoints
<1> QED BY <1>1, DispatchInvariance, PTL
=============================================================================
