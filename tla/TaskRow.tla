------------------------------ MODULE TaskRow ------------------------------
(***************************************************************************)
(* The task row of backend/app/storage/tasks: each operator below is one   *)
(* transaction of claims.py, status.py or closeout.py, as a guard on the   *)
(* row it locks and the row it leaves behind.  PostgreSQL's row lock makes *)
(* each of them atomic.                                                    *)
(*                                                                         *)
(* claimed_at is a claim's number instead of its timestamp, the lock is    *)
(* live or expired instead of an instant, and verification_result keeps    *)
(* the two receipts that decide control: acceptance and closeout.          *)
(***************************************************************************)
EXTENDS Naturals

CONSTANTS Worker,     \* worker identities (claimed_by)
          Source,     \* source commits that are accepted
          Landed,     \* source commits that are recorded on the task
          Required    \* the task declares implementation work or acceptance

CONSTANTS NoWorker, NoSource

ASSUME RowAssumption ==
    Required \in BOOLEAN /\ NoWorker \notin Worker /\ NoSource \notin Source

Status == {"pending", "running", "paused", "completed", "failed", "cancelled"}
Claimable == {"pending", "paused", "failed"}
Terminal == {"completed", "failed", "cancelled", "paused"}

VALID_TRANSITIONS ==
    [pending   |-> {"running", "paused", "cancelled"},
     running   |-> {"completed", "failed", "cancelled", "pending", "paused"},
     paused    |-> {"pending", "running", "cancelled"},
     completed |-> {"pending", "cancelled"},
     failed    |-> {"pending", "running", "cancelled", "completed"},
     cancelled |-> {"pending"}]

Acceptance == [state : {"none", "success", "stale"}, source : Source \cup {NoSource}]
Closeout == [kind : {"none", "local", "history"}, request_id : Nat,
             state : {"none", "pending", "blocked", "complete", "historical"},
             source : Source \cup {NoSource}]
Row == [status : Status, claimed_by : Worker \cup {NoWorker}, claimed_at : Nat,
        lock : {"none", "live", "expired"}, commits : SUBSET Landed,
        acceptance : Acceptance, closeout : Closeout]

NoAcceptance == [state |-> "none", source |-> NoSource]
NoCloseout == [kind |-> "none", request_id |-> 0, state |-> "none", source |-> NoSource]
History == [NoCloseout EXCEPT !.kind = "history", !.state = "historical"]
NewRow == [status |-> "pending", claimed_by |-> NoWorker, claimed_at |-> 0,
           lock |-> "none", commits |-> {}, acceptance |-> NoAcceptance, closeout |-> NoCloseout]

Active(c) == c.kind = "local" /\ c.state \in {"pending", "blocked"}
Accepted(t, s) == t.acceptance.state = "success" /\ t.acceptance.source = s

(* A lifecycle change makes the acceptance stale and, unless the change    *)
(* keeps an active request, turns a local closeout into history.           *)
Preserved(t, keep) ==
    [t EXCEPT
       !.acceptance = IF @ = NoAcceptance THEN @ ELSE [@ EXCEPT !.state = "stale"],
       !.closeout = IF @.kind = "local" /\ ~(keep /\ Active(@)) THEN History ELSE @]

Unclaimed(t) == [t EXCEPT !.claimed_by = NoWorker, !.claimed_at = 0, !.lock = "none"]
HasValidLock(t) == t.claimed_by # NoWorker /\ t.lock = "live"

(* The exact claim a worker captured earlier, still active.                *)
SameClaim(t, claim) ==
    /\ t.status = "running" /\ t.lock = "live"
    /\ t.claimed_by = claim.claimed_by /\ t.claimed_at = claim.claimed_at

---------------------------------------------------------------------------
(* claims.py                                                               *)
CanRenew(t, w) == t.status = "running" /\ t.claimed_by = w
Renewed(t) == [t EXCEPT !.lock = "live"]

CanClaim(t) == t.status \in Claimable /\ ~HasValidLock(t)
\* Mutant: the new claim inherits the evidence and the request.
ClaimedKeeping(t, w, n) ==
    [t EXCEPT !.status = "running", !.claimed_by = w, !.claimed_at = n, !.lock = "live"]

Claimed(t, w, n) ==
    [Preserved(t, FALSE) EXCEPT
       !.status = "running", !.claimed_by = w, !.claimed_at = n, !.lock = "live"]

Released(t) == [Unclaimed(Preserved(t, FALSE)) EXCEPT !.status = "pending"]

CanReset(t) == t.status = "running" /\ t.lock = "expired" /\ t.claimed_by # NoWorker
Reset(t) == [Unclaimed(Preserved(t, TRUE)) EXCEPT !.status = "pending"]

---------------------------------------------------------------------------
(* status.py: the gates read the row's evidence under its lock; a task     *)
(* with a commit needs acceptance whatever it declares.                    *)
Requires(t) == Required \/ t.commits # {}
Gated(t) == Requires(t) /\ t.acceptance.state # "success"
MayMove(t, s) == t.status = s \/ s \in VALID_TRANSITIONS[t.status]

Updated(t, s) ==
    LET kept == IF s = "completed" THEN t ELSE Preserved(t, FALSE)
    IN  [(IF s \in Terminal THEN Unclaimed(kept) ELSE kept) EXCEPT !.status = s]

CanCompleteOwned(t, claim) == SameClaim(t, claim) /\ ~Gated(t)

CanCompleteRequest(t, r) ==
    /\ ~Gated(t)
    /\ t.status \in {"pending", "running", "completed"}
    /\ t.closeout.kind = "local" /\ t.closeout.request_id = r
    /\ Accepted(t, t.closeout.source)

(* add_commit, on a row of any status: a source that is new to the task    *)
(* and is not the accepted one makes the acceptance stale.                 *)
Committed(t, s) ==
    [t EXCEPT !.commits = @ \cup {s},
              !.acceptance = IF @ = NoAcceptance \/ s \in t.commits \/ @.source = s
                             THEN @ ELSE [@ EXCEPT !.state = "stale"]]

---------------------------------------------------------------------------
(* closeout.py                                                             *)
\* Mutant: the owner is compared, not the claim.
CanAttachByOwner(t, claim) ==
    t.status = "running" /\ t.claimed_by = claim.claimed_by /\ t.acceptance = claim.acceptance

CanAttach(t, claim) == SameClaim(t, claim) /\ t.acceptance = claim.acceptance
Attached(t, s) == [t EXCEPT !.acceptance = [state |-> "success", source |-> s]]

CanRequest(t, seen, claim, s) ==
    /\ t.closeout = seen.closeout
    /\ Accepted(t, s)
    /\ SameClaim(t, claim)
Requested(t, r, s) ==
    [t EXCEPT !.closeout = [kind |-> "local", request_id |-> r, state |-> "pending", source |-> s]]

(* release_closeout_claim gives the claim up and keeps request and proof.  *)
CanHandOver(t, r) ==
    /\ t.status \in {"pending", "running"}
    /\ t.closeout.request_id = r /\ t.closeout.state \in {"pending", "blocked"}
HandedOver(t) == [Unclaimed(t) EXCEPT !.status = "pending"]

\* Mutant: the blocked state is stored whatever the row says by then.
CanBlockAlways(t, intent) == t.closeout.kind \in {"local", "history"}

CanBlock(t, intent) == t.closeout.request_id = intent.request_id
Blocked(t, intent) == [t EXCEPT !.closeout = [intent EXCEPT !.state = "blocked"]]

\* Mutant: the cleanup trusts that the task is still completed.
CanFinishUnlocked(t, intent) ==
    t.closeout.kind \in {"local", "history"} /\ t.acceptance.source = intent.source

CanFinish(t, intent) ==
    /\ t.status = "completed"
    /\ t.closeout.kind = "local" /\ t.closeout.request_id = intent.request_id
    /\ t.closeout.source = intent.source
    /\ Accepted(t, intent.source)
Finished(t) == [t EXCEPT !.closeout.state = "complete"]

CanCleanCompleted(t, acceptance, require_acceptance) ==
    /\ t.status = "completed" /\ t.acceptance = acceptance
    /\ require_acceptance => acceptance.state = "success"
============================================================================
