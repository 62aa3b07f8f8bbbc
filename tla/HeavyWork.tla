----------------------------- MODULE HeavyWork -----------------------------
(***************************************************************************)
(* The transient-work lanes of backend/app/utils/heavy_work.py: advisory   *)
(* admission of CPU- and memory-heavy jobs built from Linux flock locks,   *)
(* waiter files and a lease token handed to child processes.               *)
(*                                                                         *)
(* A lane has two lock files.  admission.lock is held exclusively by the   *)
(* owner and stores the generation of the admission; activity.lock is held *)
(* shared by the owner and by every admitted descendant.  flock belongs to *)
(* an open file description, so a lock survives for as long as ANY process *)
(* keeps a descriptor of it: fds[q] is the set of contexts whose           *)
(* descriptors process q has open, and a context's locks go when the last  *)
(* such process closes them.                                               *)
(*                                                                         *)
(* A member of Proc is a process up to the end of one context, and names   *)
(* that context and, for an owner, its generation (pid, start time and a   *)
(* uuid4 of its own).  A process that queues again is another member.      *)
(***************************************************************************)
EXTENDS Integers

CONSTANTS Proc,      \* processes of the user
          Requests,  \* work classes callers ask for
          Probed,    \* lanes that lane_activity looks at
          MaxDepth,  \* deepest nesting of contexts that is explored
          MaxOrder   \* largest waiter number, at least one per process

ASSUME BoundsAssumption == MaxDepth \in Nat /\ MaxOrder \in Nat

NoProc == "no process"
Probe == "lane_activity"   \* the read-only snapshot's own description
ASSUME ProcAssumption == NoProc \notin Proc /\ Probe \notin Proc

Lanes == {"heavy", "heavy2", "light"}
Classes == {"heavy", "light"}
ASSUME RequestsAssumption == Requests \subseteq Classes /\ Probed \subseteq Lanes

(* _lane_class: the spare lane serves the heavy class. *)
LaneClass(l) == IF l = "light" THEN "light" ELSE "heavy"

Empty == NoProc            \* content of a truncated or new admission.lock
NoToken == [ctx |-> NoProc, gen |-> Empty, lane |-> "heavy", depth |-> 0]

Waiting == {"gate", "try", "slot0", "spare", "slot1"}
Granted == {"truncate", "write", "convert", "share"}
Alive == {"out", "done", "open", "verified", "shared", "rejoin", "branch", "register",
          "holder", "active"} \cup Waiting \cup Granted

VARIABLES
    pc,        \* where each process is; "out" and "done" are outside the context
    parent,    \* parent[p]: the live parent, NoProc once reparented to init
    token,     \* ST_HEAVY_LEASE in the environment of p
    want,      \* the work class p asked for
    lane,      \* the lane whose files p has open
    gen,       \* generation p runs under
    depth,     \* nesting depth of p's context
    fds,       \* fds[q]: contexts whose lock descriptors q has open
    admission, \* holder of the exclusive lock on each lane's admission.lock
    exclusive, \* holder of the exclusive lock on each lane's activity.lock
    sharers,   \* holders of the shared lock on each lane's activity.lock
    branch,    \* holder of each lane's depth-N.lock
    file,      \* generation stored in each lane's admission.lock
    order,     \* number in the name of p's waiter file, 0 without one
    meta,      \* holder of queue.lock
    admitted   \* contexts admitted to a lane whose descriptors are still open

job == <<pc, want, lane, gen, depth>>
tree == <<parent, token>>
locks == <<admission, exclusive, sharers, branch>>
vars == <<pc, parent, token, want, lane, gen, depth, fds, admission,
          exclusive, sharers, branch, file, order, meta, admitted>>

Init ==
    /\ pc \in [Proc -> {"unborn", "out"}]
    /\ parent = [p \in Proc |-> NoProc]
    /\ token = [p \in Proc |-> NoToken]
    /\ want = [p \in Proc |-> "heavy"]
    /\ lane = [p \in Proc |-> "heavy"]
    /\ gen = [p \in Proc |-> Empty]
    /\ depth = [p \in Proc |-> 0]
    /\ fds = [p \in Proc |-> {}]
    /\ admission = [l \in Lanes |-> NoProc]
    /\ exclusive = [l \in Lanes |-> NoProc]
    /\ sharers = [l \in Lanes |-> {}]
    /\ branch = [l \in Lanes |-> [d \in 1..MaxDepth |-> NoProc]]
    /\ file = [l \in Lanes |-> Empty]
    /\ order = [p \in Proc |-> 0]
    /\ meta = NoProc
    /\ admitted = {}

-----------------------------------------------------------------------------
(* flock(2) as the code uses it (external). *)

(* No other open file description conflicts with an exclusive request of p. *)
CanExclusive(p, l) ==
    /\ exclusive[l] = NoProc
    /\ sharers[l] \subseteq {p}

(* No open file description conflicts with a shared request. *)
CanShare(l) == exclusive[l] = NoProc

(* Contexts with at least one open descriptor, given the descriptor tables. *)
OpenContexts(f) == UNION {f[q] : q \in Proc}

KeepIfOpen(holder, open) == IF holder \in open \cup {Probe} THEN holder ELSE NoProc

Kept(value, default, open) == [p \in Proc |-> IF p \in open THEN value[p] ELSE default]

(* os.close / process exit: descriptor tables become f and every lock whose *)
(* open file description has no descriptor left is gone, and with it what   *)
(* there was to know about the context.                                     *)
CloseTo(f) ==
    LET open == OpenContexts(f)
    IN  /\ fds' = f
        /\ lane' = Kept(lane, "heavy", open)
        /\ gen' = Kept(gen, Empty, open)
        /\ depth' = Kept(depth, 0, open)
        /\ admission' = [l \in Lanes |-> KeepIfOpen(admission[l], open)]
        /\ exclusive' = [l \in Lanes |-> KeepIfOpen(exclusive[l], open)]
        /\ sharers' = [l \in Lanes |-> sharers[l] \cap open]
        /\ branch' = [l \in Lanes |-> [d \in 1..MaxDepth |->
                                         KeepIfOpen(branch[l][d], open)]]
        /\ admitted' = admitted \cap open
        /\ UNCHANGED want

At(p, here, there) == pc[p] = here /\ pc' = [pc EXCEPT ![p] = there]

-----------------------------------------------------------------------------
(* Processes. *)

(* HeavyWork.run / fork / any subprocess: the child's environment carries   *)
(* the lease of the context it was started in, or the one its parent was    *)
(* started with.  pass_fds, fork and close_fds decide which of the parent's *)
(* lock descriptors the child keeps.                                        *)
Spawn(p, q) ==
    /\ \/ pc[p] \in {"out", "done"}
       \/ pc[p] = "active" /\ depth[p] < MaxDepth
    /\ pc[q] = "unborn"
    /\ pc' = [pc EXCEPT ![q] = "out"]
    /\ parent' = [parent EXCEPT ![q] = p]
    /\ token' = [token EXCEPT ![q] =
                   IF pc[p] = "active"
                   THEN [ctx |-> p, gen |-> gen[p], lane |-> lane[p], depth |-> depth[p]]
                   ELSE token[p]]
    /\ \E kept \in SUBSET fds[p] : fds' = [fds EXCEPT ![q] = kept]
    /\ UNCHANGED <<want, lane, gen, depth, locks, file, order, meta, admitted>>

(* A process ends at any point: normal exit, SIGTERM or SIGKILL.  Its        *)
(* waiter file stays behind until someone reclaims it.                       *)
Die(p) ==
    /\ pc[p] \in Alive
    /\ pc' = [pc EXCEPT ![p] = "dead"]
    /\ parent' = [q \in Proc |-> IF parent[q] = p \/ q = p THEN NoProc ELSE parent[q]]
    /\ meta' = IF meta = p THEN NoProc ELSE meta
    /\ token' = [token EXCEPT ![p] = NoToken]
    /\ CloseTo([fds EXCEPT ![p] = {}])
    /\ UNCHANGED <<file, order>>

-----------------------------------------------------------------------------
(* heavy_work(): entry and reentry through a verified ancestor. *)

(* Open the lock files of the token's lane, or of the requested class. *)
Enter(p, class) ==
    /\ At(p, "out", "open")
    /\ want' = [want EXCEPT ![p] = class]
    /\ lane' = [lane EXCEPT ![p] =
                  IF token[p] = NoToken THEN class ELSE token[p].lane]
    /\ fds' = [fds EXCEPT ![p] = @ \cup {p}]
    /\ UNCHANGED <<tree, gen, depth, locks, file, order, meta, admitted>>

(* The ancestors _inherited walks, p itself first: the least set that holds  *)
(* p and the live parent of each of its members.                             *)
Ancestors(p) ==
    LET closed(S) == p \in S /\ \A q \in S : parent[q] \in S \cup {NoProc}
    IN  {a \in Proc : \A S \in SUBSET Proc : closed(S) => a \in S}

(* The lock that proves the branch of a token: admission.lock for an owner,  *)
(* depth-N.lock for a descendant.                                            *)
BranchHeld(t) ==
    IF t.depth = 0 THEN admission[t.lane] = t.ctx
    ELSE branch[t.lane][t.depth] = t.ctx

(* Some live ancestor still has the token's descriptors open, with a READ    *)
(* lock on activity and a WRITE lock on the branch.                          *)
AncestorHolds(p) ==
    LET t == token[p]
    IN  /\ \E a \in Ancestors(p) : t.ctx \in fds[a]
        /\ t.ctx \in sharers[t.lane]
        /\ BranchHeld(t)

(* _inherited up to its flock: the stored generation is the token's and an   *)
(* ancestor vouches for it.  A token of one's own process is never used.     *)
VerifyAncestor(p) ==
    /\ At(p, "open", "verified")
    /\ token[p] # NoToken
    /\ token[p].ctx # p
    /\ file[lane[p]] = token[p].gen
    /\ AncestorHolds(p)
    /\ UNCHANGED <<tree, want, lane, gen, depth, fds, locks, file, order, meta, admitted>>

(* _inherited returns None before taking any lock. *)
NotInherited(p) ==
    /\ pc[p] = "open"
    /\ \/ token[p] = NoToken
       \/ token[p].ctx = p
       \/ file[lane[p]] # token[p].gen
       \/ ~AncestorHolds(p)
    /\ pc' = [pc EXCEPT ![p] = "rejoin"]
    /\ UNCHANGED <<tree, want, lane, gen, depth, fds, locks, file, order, meta, admitted>>

(* flock(descriptor, LOCK_SH | LOCK_NB) ...                                  *)
JoinActivity(p) ==
    /\ At(p, "verified", "shared")
    /\ CanShare(lane[p])
    /\ sharers' = [sharers EXCEPT ![lane[p]] = @ \cup {p}]
    /\ UNCHANGED <<tree, want, lane, gen, depth, fds, admission, exclusive,
                   branch, file, order, meta, admitted>>

(* ... whose failure ends the walk with None: the ancestor was gone.         *)
JoinRefused(p) ==
    /\ At(p, "verified", "rejoin")
    /\ ~CanShare(lane[p])
    /\ UNCHANGED <<tree, want, lane, gen, depth, fds, locks, file, order, meta, admitted>>

(* Mutant of AdmitDescendant: no second look at the generation.              *)
AdmitUnchecked(p) ==
    /\ At(p, "shared", "branch")
    /\ gen' = [gen EXCEPT ![p] = token[p].gen]
    /\ depth' = [depth EXCEPT ![p] = token[p].depth + 1]
    /\ admitted' = admitted \cup {p}
    /\ UNCHANGED <<tree, want, lane, fds, locks, file, order, meta>>

(* The generation is read again under the shared lock: admitted.             *)
AdmitDescendant(p) ==
    /\ At(p, "shared", "branch")
    /\ file[lane[p]] = token[p].gen
    /\ gen' = [gen EXCEPT ![p] = token[p].gen]
    /\ depth' = [depth EXCEPT ![p] = token[p].depth + 1]
    /\ admitted' = admitted \cup {p}
    /\ UNCHANGED <<tree, want, lane, fds, locks, file, order, meta>>

(* It changed meanwhile: None, and the shared lock stays on the descriptor.  *)
GenerationChanged(p) ==
    /\ At(p, "shared", "rejoin")
    /\ file[lane[p]] # token[p].gen
    /\ UNCHANGED <<tree, want, lane, gen, depth, fds, locks, file, order, meta, admitted>>

(* A verified light ancestor cannot authorize heavy work: HeavyWorkError. *)
RefuseUpgrade(p) ==
    /\ At(p, "branch", "done")
    /\ LaneClass(lane[p]) = "light" /\ want[p] = "heavy"
    /\ CloseTo([fds EXCEPT ![p] = @ \ {p}])
    /\ UNCHANGED <<tree, file, order, meta>>

(* Mutant of TakeBranch: a held depth lock is ignored.                       *)
TakeBranchUnlocked(p) ==
    /\ At(p, "branch", "active")
    /\ ~(LaneClass(lane[p]) = "light" /\ want[p] = "heavy")
    /\ branch' = [branch EXCEPT ![lane[p]][depth[p]] = p]
    /\ UNCHANGED <<tree, want, lane, gen, depth, fds, admission, exclusive,
                   sharers, file, order, meta, admitted>>

(* _wait_lock: siblings serialize on the lock of their depth. *)
TakeBranch(p) ==
    /\ At(p, "branch", "active")
    /\ ~(LaneClass(lane[p]) = "light" /\ want[p] = "heavy")
    /\ branch[lane[p]][depth[p]] = NoProc
    /\ branch' = [branch EXCEPT ![lane[p]][depth[p]] = p]
    /\ UNCHANGED <<tree, want, lane, gen, depth, fds, admission, exclusive,
                   sharers, file, order, meta, admitted>>

(* Not inherited: the open lock files are the ones to queue for ...          *)
KeepLane(p) ==
    /\ At(p, "rejoin", "register")
    /\ lane[p] = want[p]
    /\ UNCHANGED <<tree, want, lane, gen, depth, fds, locks, file, order, meta, admitted>>

(* ... or, when the token named another lane, are closed and replaced.       *)
ReopenLane(p) ==
    /\ At(p, "rejoin", "register")
    /\ lane[p] # want[p]
    /\ lane' = [lane EXCEPT ![p] = want[p]]
    /\ sharers' = [sharers EXCEPT ![lane[p]] = @ \ {p}]
    /\ UNCHANGED <<tree, want, gen, depth, fds, admission, exclusive, branch,
                   file, order, meta, admitted>>

-----------------------------------------------------------------------------
(* _wait_owner: FIFO per class; the head takes slot zero or the spare. *)

(* Mutant of LiveWaiters: files of dead processes are kept. *)
AllWaiters(c) == {q \in Proc : order[q] # 0 /\ want[q] = c}

(* Waiter files that _waiters keeps; one that is not locked, or whose         *)
(* process is gone, is abandoned.                                            *)
LiveWaiters(c) == {q \in Proc : order[q] # 0 /\ want[q] = c /\ pc[q] \in Waiting}

(* _waiters unlinks the abandoned files of the class. *)
Reclaimed(c) ==
    [q \in Proc |-> IF want[q] = c /\ q \notin LiveWaiters(c) THEN 0 ELSE order[q]]

(* A waiter file numbered after every live one, created under queue.lock.    *)
Register(p) ==
    /\ At(p, "register", "gate")
    /\ meta = NoProc
    /\ \E n \in 1..MaxOrder :
         /\ \A q \in LiveWaiters(want[p]) : order[q] < n
         /\ n = 1 \/ \E q \in LiveWaiters(want[p]) : order[q] = n - 1
         /\ order' = [Reclaimed(want[p]) EXCEPT ![p] = n]
    /\ UNCHANGED <<tree, want, lane, gen, depth, fds, locks, file, meta, admitted>>

(* admission_state() lets a heavy waiter through (light ones are not gated). *)
(* A closed gate only sleeps and reads again.                                *)
PassGate(p) ==
    /\ At(p, "gate", "try")
    /\ UNCHANGED <<tree, want, lane, gen, depth, fds, locks, file, order, meta, admitted>>

(* Mutant of IsHead: the newest waiter goes first. *)
IsNewest(p) == \A q \in LiveWaiters(want[p]) : order[p] >= order[q]

(* The waiter file of p is the first live one of its class. *)
IsHead(p) == \A q \in LiveWaiters(want[p]) : order[p] <= order[q]

(* Under queue.lock: abandoned files go; unless p is the head, poll again.   *)
NotHead(p) ==
    /\ At(p, "try", "gate")
    /\ meta = NoProc
    /\ ~IsHead(p)
    /\ order' = Reclaimed(want[p])
    /\ UNCHANGED <<tree, want, lane, gen, depth, fds, locks, file, meta, admitted>>

(* The head, keeping queue.lock, starts _try_lane on its lane:               *)
(* flock(admission, LOCK_EX | LOCK_NB) succeeds ...                          *)
TakeAdmission(p) ==
    /\ At(p, "try", "slot0")
    /\ meta = NoProc /\ meta' = p
    /\ IsHead(p)
    /\ order' = Reclaimed(want[p])
    /\ admission[lane[p]] = NoProc
    /\ admission' = [admission EXCEPT ![lane[p]] = p]
    /\ UNCHANGED <<tree, want, lane, gen, depth, fds, exclusive, sharers,
                   branch, file, admitted>>

(* ... or the lane has an owner. *)
AdmissionBusy(p) ==
    /\ At(p, "try", "spare")
    /\ meta = NoProc /\ meta' = p
    /\ IsHead(p)
    /\ order' = Reclaimed(want[p])
    /\ admission[lane[p]] # NoProc
    /\ UNCHANGED <<tree, want, lane, gen, depth, fds, locks, file, admitted>>

(* _try_lane then asks flock(activity, LOCK_EX | LOCK_NB).  On success the   *)
(* waiter file is unlinked, the lane's descriptors are kept and the other    *)
(* lane's are closed.                                                        *)
TakeActivity(p, here, l) ==
    /\ At(p, here, "truncate")
    /\ CanExclusive(p, l)
    /\ exclusive' = [exclusive EXCEPT ![l] = p]
    /\ sharers' = [k \in Lanes |-> sharers[k] \ {p}]
    /\ lane' = [lane EXCEPT ![p] = l]
    /\ order' = [order EXCEPT ![p] = 0]
    /\ meta' = NoProc
    /\ UNCHANGED <<tree, want, gen, depth, fds, admission, branch, file, admitted>>

(* On failure LOCK_UN on admission; a failed conversion also loses a shared  *)
(* lock that the same description had.                                       *)
ActivityBusy(p, here, l, there) ==
    /\ At(p, here, there)
    /\ ~CanExclusive(p, l)
    /\ admission' = [admission EXCEPT ![l] = NoProc]
    /\ sharers' = [sharers EXCEPT ![l] = @ \ {p}]
    /\ UNCHANGED <<tree, want, lane, gen, depth, fds, exclusive, branch, file,
                   order, admitted>>

TakeSlotZero(p) == TakeActivity(p, "slot0", lane[p])
SlotZeroBusy(p) == ActivityBusy(p, "slot0", lane[p], "spare") /\ UNCHANGED meta

(* A heavy head that sees spare capacity (_spare_capacity) tries the other   *)
(* heavy lane in the same way ...                                            *)
TrySpare(p) ==
    /\ At(p, "spare", "slot1")
    /\ want[p] = "heavy"
    /\ admission["heavy2"] = NoProc
    /\ admission' = [admission EXCEPT !["heavy2"] = p]
    /\ UNCHANGED <<tree, want, lane, gen, depth, fds, exclusive, sharers,
                   branch, file, order, meta, admitted>>

(* ... a light one, one without spare capacity, or one that finds the spare  *)
(* lane owned, releases queue.lock and polls again.                          *)
SkipSpare(p) ==
    /\ At(p, "spare", "gate")
    /\ meta' = NoProc
    /\ UNCHANGED <<tree, want, lane, gen, depth, fds, locks, file, order, admitted>>

TakeSpare(p) == TakeActivity(p, "slot1", "heavy2")
SpareBusy(p) == ActivityBusy(p, "slot1", "heavy2", "gate") /\ meta' = NoProc

-----------------------------------------------------------------------------
(* heavy_work(): the granted owner publishes its generation and runs. *)

(* os.ftruncate(admission, 0). *)
Truncate(p) ==
    /\ At(p, "truncate", "write")
    /\ file' = [file EXCEPT ![lane[p]] = Empty]
    /\ UNCHANGED <<tree, want, lane, gen, depth, fds, locks, order, meta, admitted>>

(* os.pwrite(admission, generation). *)
WriteGeneration(p) ==
    /\ At(p, "write", "convert")
    /\ file' = [file EXCEPT ![lane[p]] = p]
    /\ gen' = [gen EXCEPT ![p] = p]
    /\ depth' = [depth EXCEPT ![p] = 0]
    /\ UNCHANGED <<tree, want, lane, fds, locks, order, meta, admitted>>

(* flock(descriptor, LOCK_SH): a conversion is not atomic, the kernel first  *)
(* drops the exclusive lock ...                                              *)
DropExclusive(p) ==
    /\ At(p, "convert", "share")
    /\ exclusive' = [exclusive EXCEPT ![lane[p]] = NoProc]
    /\ UNCHANGED <<tree, want, lane, gen, depth, fds, admission, sharers,
                   branch, file, order, meta, admitted>>

(* ... and then waits for the shared one. *)
TakeShared(p) ==
    /\ At(p, "share", "holder")
    /\ CanShare(lane[p])
    /\ sharers' = [sharers EXCEPT ![lane[p]] = @ \cup {p}]
    /\ admitted' = admitted \cup {p}
    /\ UNCHANGED <<tree, want, lane, gen, depth, fds, admission, exclusive,
                   branch, file, order, meta>>

(* _write_holder waits for queue.lock; the record itself is only displayed. *)
WriteHolder(p) ==
    /\ At(p, "holder", "active")
    /\ meta = NoProc
    /\ UNCHANGED <<tree, want, lane, gen, depth, fds, locks, file, order, meta, admitted>>

(* Mutant of Leave: LOCK_UN, which also releases what a child inherited. *)
LeaveUnlocking(p) ==
    /\ At(p, "active", "done")
    /\ fds' = [fds EXCEPT ![p] = @ \ {p}]
    /\ admission' = [l \in Lanes |-> IF admission[l] = p THEN NoProc ELSE admission[l]]
    /\ sharers' = [l \in Lanes |-> sharers[l] \ {p}]
    /\ admitted' = admitted \cap OpenContexts(fds')
    /\ UNCHANGED <<tree, want, lane, gen, depth, exclusive, branch, file, order, meta>>

(* The context ends: descriptors are closed, never LOCK_UN. *)
Leave(p) ==
    /\ At(p, "active", "done")
    /\ CloseTo([fds EXCEPT ![p] = @ \ {p}])
    /\ UNCHANGED <<tree, file, order, meta>>

(* An exception (Ctrl-C) before the context is entered: _wait_owner removes  *)
(* its waiter file under queue.lock, heavy_work closes the descriptors.      *)
Cancel(p) ==
    /\ pc[p] \in Alive \ {"out", "done", "active"}
    /\ pc[p] \in Waiting => meta \in {NoProc, p}
    /\ pc' = [pc EXCEPT ![p] = "done"]
    /\ order' = [order EXCEPT ![p] = 0]
    /\ meta' = IF meta = p THEN NoProc ELSE meta
    /\ CloseTo([fds EXCEPT ![p] = @ \ {p}])
    /\ UNCHANGED <<tree, file>>

-----------------------------------------------------------------------------
(* lane_activity: another process's momentary exclusive probe. *)

ProbeLock(l) ==
    /\ exclusive[l] = NoProc /\ sharers[l] = {}
    /\ exclusive' = [exclusive EXCEPT ![l] = Probe]
    /\ UNCHANGED <<job, tree, fds, admission, sharers, branch, file, order,
                   meta, admitted>>

ProbeUnlock(l) ==
    /\ exclusive[l] = Probe
    /\ exclusive' = [exclusive EXCEPT ![l] = NoProc]
    /\ UNCHANGED <<job, tree, fds, admission, sharers, branch, file, order,
                   meta, admitted>>

-----------------------------------------------------------------------------
Step(p) ==
    \/ VerifyAncestor(p) \/ NotInherited(p) \/ JoinActivity(p) \/ JoinRefused(p)
    \/ AdmitDescendant(p) \/ GenerationChanged(p) \/ RefuseUpgrade(p)
    \/ TakeBranch(p) \/ KeepLane(p) \/ ReopenLane(p) \/ Register(p)
    \/ PassGate(p) \/ NotHead(p) \/ TakeAdmission(p) \/ AdmissionBusy(p)
    \/ TakeSlotZero(p) \/ SlotZeroBusy(p) \/ TrySpare(p) \/ SkipSpare(p)
    \/ TakeSpare(p) \/ SpareBusy(p) \/ Truncate(p) \/ WriteGeneration(p)
    \/ DropExclusive(p) \/ TakeShared(p) \/ WriteHolder(p)

Next ==
    \/ \E p \in Proc : \/ Step(p) \/ Leave(p) \/ Cancel(p) \/ Die(p)
    \/ \E p \in Proc, class \in Requests : Enter(p, class)
    \/ \E p, q \in Proc : Spawn(p, q)
    \/ \E l \in Probed : ProbeLock(l) \/ ProbeUnlock(l)

Spec == Init /\ [][Next]_vars

-----------------------------------------------------------------------------
(* Fairness.  The scheduler runs every process, and a process that waits in  *)
(* a blocking flock (or polls a depth lock) is served although the lock      *)
(* flickers; the host admits heavy work again and again; jobs end, and so do *)
(* processes that keep an old context's descriptors.                         *)
Ends(p) == Leave(p) \/ (pc[p] \in {"out", "done"} /\ fds[p] # {} /\ Die(p))

Fairness == \A p \in Proc : SF_vars(Step(p)) /\ WF_vars(Ends(p))

FairSpec == Spec /\ Fairness

-----------------------------------------------------------------------------
(* Properties. *)

(* Every variable keeps its type. *)
TypeOK ==
    /\ pc \in [Proc -> Alive \cup {"unborn", "dead"}]
    /\ parent \in [Proc -> Proc \cup {NoProc}]
    /\ token \in [Proc -> [ctx : Proc \cup {NoProc}, gen : Proc \cup {Empty},
                            lane : Lanes, depth : 0..MaxDepth]]
    /\ want \in [Proc -> Classes]
    /\ lane \in [Proc -> Lanes]
    /\ gen \in [Proc -> Proc \cup {Empty}]
    /\ depth \in [Proc -> 0..MaxDepth]
    /\ fds \in [Proc -> SUBSET Proc]
    /\ admission \in [Lanes -> Proc \cup {NoProc}]
    /\ exclusive \in [Lanes -> Proc \cup {NoProc, Probe}]
    /\ sharers \in [Lanes -> SUBSET Proc]
    /\ branch \in [Lanes -> [1..MaxDepth -> Proc \cup {NoProc}]]
    /\ file \in [Lanes -> Proc \cup {Empty}]
    /\ order \in [Proc -> 0..MaxOrder]
    /\ meta \in Proc \cup {NoProc}
    /\ admitted \subseteq Proc

(* One admission per lane: whatever owners exit or crash, whatever children  *)
(* survive them and whenever descendants join, all contexts admitted to a    *)
(* lane whose descriptors are still open belong to one generation.           *)
LaneExclusive ==
    \A p, q \in admitted : lane[p] = lane[q] => gen[p] = gen[q]

(* _inherited relies on it: "The generation cannot change until all existing *)
(* shared holders release it", so none of them is ever outlived by its name. *)
GenerationStable ==
    \A p \in admitted : file[lane[p]] = gen[p] /\ p \in sharers[lane[p]]

(* Siblings serialize at each depth: no two contexts work at one nesting     *)
(* depth of a lane at once, the owners' depth zero included.                 *)
OneContextPerDepth ==
    \A p, q \in Proc :
        /\ pc[p] = "active" /\ pc[q] = "active"
        /\ lane[p] = lane[q] /\ depth[p] = depth[q]
        => p = q

(* Light admission is never upgraded: work that asked for the heavy class    *)
(* runs in a heavy lane, also when its lease names a light one.              *)
NoLightUpgrade ==
    \A p \in Proc : pc[p] = "active" /\ want[p] = "heavy" => LaneClass(lane[p]) = "heavy"

(* FIFO: an owner is admitted only when no live waiter of its class arrived  *)
(* before it; dead waiters do not count.                                     *)
NoOvertaking ==
    [][\A p, q \in Proc :
          /\ pc[p] \in Waiting /\ pc'[p] = "truncate"
          /\ pc[q] \in Waiting /\ want[q] = want[p]
          => order[p] <= order[q]]_vars

(* "Owners and admitted descendants hold activity shared": a process that is *)
(* only queued for a lane holds none of the lane's activity.                 *)
WaitersHoldNothing ==
    \A p \in Proc : pc[p] = "gate" => \A l \in Lanes : p \notin sharers[l]

(* As long as no queued process keeps a lane's activity lock, every waiter   *)
(* is admitted, gives up or dies: the FIFO neither deadlocks nor starves.    *)
WaitersProceed ==
    \A p \in Proc : []<>(pc[p] \notin Waiting \/ ~WaitersHoldNothing)
=============================================================================
