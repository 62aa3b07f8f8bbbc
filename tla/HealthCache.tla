---------------------------- MODULE HealthCache ----------------------------
(***************************************************************************)
(* app/services/health_cache.py: requests on one event loop share a cached *)
(* health snapshot and the task that refreshes it.  An action runs from    *)
(* one await to the next; a request that waits resumes some time after the *)
(* task it awaits has ended, and reads the cache only then.                *)
(***************************************************************************)
EXTENDS Integers, FiniteSets

CONSTANTS Client,    \* requests that are explored
          TTL,       \* HEALTH_CACHE_TTL_SECONDS, in ticks of the clock
          MaxTime    \* ticks that are explored

ASSUME CacheAssumption == TTL \in Int /\ MaxTime \in Nat

Unset == -1

VARIABLES
    now,      \* time.time()
    cache,    \* when the cached snapshot was stored, or Unset
    task,     \* _refresh_task: none, running or done, and its number
    req,      \* requests: idle, waiting for a task, answered, cancelled
    served,   \* the snapshot each request was answered with
    spoilt    \* requests that waited while a refresh failed or the cache was invalidated

cacheVars == <<now, cache, task, req, served, spoilt>>

CacheTypeOK ==
    /\ now \in 0..MaxTime
    /\ cache \in {Unset} \cup 0..MaxTime
    /\ task \in [n : Nat, state : {"none", "running", "cancelling", "done"}]
    /\ req \in [Client -> [state : {"idle", "waiting", "answered", "cancelled"},
                            on : Nat, at : 0..MaxTime]]
    /\ served \in [Client -> {Unset} \cup 0..MaxTime]
    /\ spoilt \subseteq Client

CacheInit ==
    /\ now = 0 /\ cache = Unset
    /\ task = [n |-> 0, state |-> "none"]
    /\ req = [r \in Client |-> [state |-> "idle", on |-> 0, at |-> 0]]
    /\ served = [r \in Client |-> Unset]
    /\ spoilt = {}

---------------------------------------------------------------------------
Waiting == {r \in Client : req[r].state = "waiting"}

IsFresh(c) == c # Unset /\ now - c < TTL

(* _schedule_refresh: a new task unless one has not ended.                 *)
Schedule(t) == IF t.state \in {"running", "cancelling"} THEN t ELSE [n |-> t.n + 1, state |-> "running"]

Get(r, force) ==
    /\ req[r].state = "idle"
    /\ task' = Schedule(task)
    /\ IF force \/ ~IsFresh(cache)
       THEN /\ req' = [req EXCEPT ![r] = [state |-> "waiting", on |-> task'.n, at |-> now]]
            /\ UNCHANGED served
       ELSE /\ req' = [req EXCEPT ![r] = [state |-> "answered", on |-> 0, at |-> now]]
            /\ served' = [served EXCEPT ![r] = cache]
    /\ UNCHANGED <<now, cache, spoilt>>

\* Mutant: a failing fetch leaves the task pending for ever.
FailHangs(ok) == IF ok THEN "done" ELSE "hung"

TaskEnds(ok) == "done"

NewEntry(ok) == IF ok THEN now ELSE cache

(* _do_refresh after its await: a failure keeps the stale cache.           *)
FetchEnds(ok) ==
    /\ task.state = "running"
    /\ task' = [task EXCEPT !.state = TaskEnds(ok)]
    /\ cache' = NewEntry(ok)
    /\ spoilt' = IF ok THEN spoilt ELSE spoilt \cup Waiting
    /\ UNCHANGED <<now, req, served>>

Ended(n) == task.n # n \/ task.state = "done"

(* The await returns: the request is answered with what is cached now.     *)
Resume(r) ==
    /\ r \in Waiting /\ Ended(req[r].on)
    /\ req' = [req EXCEPT ![r].state = "answered"]
    /\ served' = [served EXCEPT ![r] = cache]
    /\ UNCHANGED <<now, cache, task, spoilt>>

(* A waiting request is cancelled, and with it the task it awaits, if that *)
(* has not ended.                                                          *)
Cancel(r) ==
    /\ r \in Waiting
    /\ IF Ended(req[r].on)
       THEN req' = [req EXCEPT ![r].state = "cancelled"] /\ UNCHANGED task
       ELSE task.state = "running" /\ task' = [task EXCEPT !.state = "cancelling"] /\ UNCHANGED req
    /\ UNCHANGED <<now, cache, served, spoilt>>

(* CancelledError is no Exception: it leaves the task, and every request   *)
(* that waits for it, those that asked after the cancellation too.         *)
CancelEnds ==
    /\ task.state = "cancelling"
    /\ task' = [task EXCEPT !.state = "done"]
    /\ req' = [q \in Client |-> IF q \in Waiting /\ req[q].on = task.n
                                 THEN [req[q] EXCEPT !.state = "cancelled"] ELSE req[q]]
    /\ UNCHANGED <<now, cache, served, spoilt>>

Invalidate ==
    /\ cache # Unset
    /\ cache' = Unset
    /\ spoilt' = spoilt \cup Waiting
    /\ UNCHANGED <<now, task, req, served>>

Tick ==
    /\ now < MaxTime
    /\ now' = now + 1
    /\ UNCHANGED <<cache, task, req, served, spoilt>>

CacheNext ==
    \/ \E r \in Client : \/ \E force \in BOOLEAN : Get(r, force)
                          \/ Resume(r) \/ Cancel(r)
    \/ \E ok \in BOOLEAN : FetchEnds(ok)
    \/ CancelEnds \/ Invalidate \/ Tick

CacheSpec == CacheInit /\ [][CacheNext]_cacheVars

(* The event loop resumes what is ready, and a fetch ends.                 *)
FairCacheSpec ==
    /\ CacheSpec /\ WF_cacheVars(\E ok \in BOOLEAN : FetchEnds(ok)) /\ WF_cacheVars(CancelEnds)
    /\ \A r \in Client : WF_cacheVars(Resume(r))

---------------------------------------------------------------------------
(* A request is answered with a snapshot within the TTL when it asked, or  *)
(* with one stored after it asked; anything older, or nothing, only when a *)
(* refresh failed or the cache was invalidated while it waited.            *)
AnswerIsCurrent ==
    \A r \in Client : req[r].state = "answered" /\ r \notin spoilt =>
        served[r] # Unset /\ (req[r].at - served[r] < TTL \/ served[r] >= req[r].at)

(* A request that is not cancelled is answered, however the refresh ends.  *)
Answered == \A r \in Client : []<>(req[r].state # "waiting")
============================================================================
