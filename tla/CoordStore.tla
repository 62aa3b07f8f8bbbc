----------------------------- MODULE CoordStore -----------------------------
(***************************************************************************)
(* The lease operations of cli/lib/leases.py over the compare-and-set      *)
(* document store of cli/lib/coord_store.py.  A process reads the document *)
(* and its version, computes the new document, and writes it against that  *)
(* version; the store (Tether, external) refuses the write when anyone     *)
(* saved first, and the operation runs again on a fresh read.  Nothing is  *)
(* held between read and write.  A request may time out: the caller then   *)
(* reports the store unavailable while its write can still arrive.         *)
(***************************************************************************)
EXTENDS Leases

CONSTANTS
    Requests,   \* per process: what it may ask
    Attempts,   \* _ATTEMPTS
    MaxCalls,   \* per process: bound on the calls it makes
    MaxTime,    \* bound on the time that passes
    MaxFaults   \* bound on the timeouts and deaths together

ASSUME StoreAssumption ==
    /\ Requests \in [Procs -> SUBSET Request]
    /\ Attempts \in Nat \ {0}
    /\ MaxCalls \in [Procs -> Nat]
    /\ MaxTime \in Nat /\ MaxFaults \in Nat

VARIABLES
    doc,      \* the store: the document
    version,  \* the store: its version
    now,      \* time, in the unit of Ttl
    alive,    \* the processes that run
    used,     \* lease ids generated so far
    issued,   \* per process: number of calls it has made
    mark,     \* per process: the op lease it was told it has, or None
    pc,       \* per process: "idle", "read", "put" or "done"
    req,      \* per process: the request it has called
    step,     \* per process: the transaction of that request it is at
    tries,    \* per process: conflicts of the call so far (retrying)
    inner,    \* per process: conflicts of the acquire inside a take
    base,     \* per process: the version it read (_Change.version)
    want,     \* per process: the document it computed
    fresh,    \* per process: the id it generated for a lease, or None
    began,    \* per process: the version when it called (history)
    late,     \* writes in flight whose caller gave up
    faults    \* number of timeouts and deaths so far

storeVars == <<doc, version>>
worldVars == <<now, alive>>
callVars == <<req, step, tries, inner, began>>
changeVars == <<base, want, fresh>>
sessionVars == <<used, issued, mark>>
vars == <<storeVars, worldVars, callVars, changeVars, sessionVars, pc, late, faults>>

Txn(p) == Txns(req[p])[step[p]]

View == [now |-> now, alive |-> alive]

-----------------------------------------------------------------------------
Init ==
    /\ doc = EmptyDoc /\ version = 0
    /\ now = 0 /\ alive = Procs
    /\ used = {}
    /\ issued = [p \in Procs |-> 0]
    /\ mark = [p \in Procs |-> None]
    /\ pc = [p \in Procs |-> "idle"]
    /\ req = [p \in Procs |-> None]
    /\ step = [p \in Procs |-> 1]
    /\ tries = [p \in Procs |-> 0]
    /\ inner = [p \in Procs |-> 0]
    /\ began = [p \in Procs |-> 0]
    /\ base = [p \in Procs |-> 0]
    /\ want = [p \in Procs |-> EmptyDoc]
    /\ fresh = [p \in Procs |-> None]
    /\ late = {}
    /\ faults = 0

\* op_lease is a context manager: one mark per process, given up when the
\* operation ends, whether or not the store answers.
MayCall(p, r) ==
    /\ r.op = "unmark" => r.id = mark[p]
    /\ r.op = "mark" /\ r.kind = "op" => mark[p] = None
    /\ r.op = "record" => r.since <= now

Call(p) ==
    /\ p \in alive /\ pc[p] = "idle" /\ issued[p] < MaxCalls[p]
    /\ \E r \in Requests[p] \cup Unmark :
          /\ MayCall(p, r)
          /\ req' = [req EXCEPT ![p] = r]
          /\ mark' = [mark EXCEPT ![p] = IF r.op = "unmark" THEN None ELSE @]
    /\ pc' = [pc EXCEPT ![p] = "read"]
    /\ began' = [began EXCEPT ![p] = version]
    /\ issued' = [issued EXCEPT ![p] = @ + 1]
    /\ UNCHANGED <<storeVars, worldVars, changeVars, used, step, tries, inner, late, faults>>

\* The change is over: its copy, its counters and its locals are gone.
Leave(p) ==
    /\ pc' = [pc EXCEPT ![p] = "idle"]
    /\ req' = [req EXCEPT ![p] = None]
    /\ step' = [step EXCEPT ![p] = 1]
    /\ tries' = [tries EXCEPT ![p] = 0]
    /\ inner' = [inner EXCEPT ![p] = 0]
    /\ began' = [began EXCEPT ![p] = 0]
    /\ base' = [base EXCEPT ![p] = 0]
    /\ want' = [want EXCEPT ![p] = EmptyDoc]
    /\ fresh' = [fresh EXCEPT ![p] = None]

\* lock() reads the document, and the body computes the new one from that
\* copy.  The operation stamps what it writes with the time of the read.
Read(p) ==
    /\ pc[p] = "read"
    /\ \E id \in Ids \ used : \E d \in Effects(Txn(p), p, id, View, doc) :
          /\ want' = [want EXCEPT ![p] = d]
          /\ used' = used \cup (IdsOf(d) \cap {id})
          /\ fresh' = [fresh EXCEPT ![p] = IF id \in IdsOf(d) THEN id ELSE None]
          /\ pc' = [pc EXCEPT ![p] = IF Saves(Txn(p), doc, d) THEN "put" ELSE "done"]
    /\ base' = [base EXCEPT ![p] = version]
    /\ UNCHANGED <<storeVars, worldVars, callVars, issued, mark, late, faults>>

\* Unavailable: no answer, or a bad one.  Nothing was written.
ReadFails(p) ==
    /\ pc[p] = "read"
    /\ Leave(p)
    /\ UNCHANGED <<storeVars, worldVars, sessionVars, late, faults>>

\* Mutant: the version is not compared.
StoreBlindly(d, b) ==
    /\ doc' = d
    /\ version' = version + 1

\* The store takes a write against the current version.
Store(d, b) ==
    /\ b = version
    /\ doc' = d
    /\ version' = version + 1

Put(p) ==
    /\ pc[p] = "put"
    /\ Store(want[p], base[p])
    /\ pc' = [pc EXCEPT ![p] = "done"]
    /\ UNCHANGED <<worldVars, callVars, changeVars, sessionVars, late, faults>>

\* A conflict belongs to the innermost @retrying function that made the
\* change: to acquire in the middle of a take, else to the operation itself.
Nested(p) == req[p].op = "take" /\ step[p] = 2

LastTry(p) == (IF Nested(p) THEN inner[p] ELSE tries[p]) + 1 = Attempts

\* 409: someone saved first.  That function runs again, from its start.
Conflict(p) ==
    /\ pc[p] = "put" /\ base[p] # version /\ ~LastTry(p)
    /\ pc' = [pc EXCEPT ![p] = "read"]
    /\ step' = [step EXCEPT ![p] = IF Nested(p) THEN @ ELSE 1]
    /\ inner' = [inner EXCEPT ![p] = IF Nested(p) THEN @ + 1 ELSE 0]
    /\ tries' = [tries EXCEPT ![p] = IF Nested(p) THEN @ ELSE @ + 1]
    /\ UNCHANGED <<storeVars, worldVars, req, began, changeVars, sessionVars, late, faults>>

\* Unavailable: the document kept changing.
GiveUp(p) ==
    /\ pc[p] = "put" /\ base[p] # version /\ LastTry(p)
    /\ Leave(p)
    /\ UNCHANGED <<storeVars, worldVars, sessionVars, late, faults>>

\* The write p has sent, should p stop waiting for its answer.
Sent(p) == [proc |-> p, call |-> issued[p], txn |-> Txn(p), base |-> base[p], want |-> want[p]]

\* The request times out (3 s): Unavailable, though the write may arrive.
TimeOut(p) ==
    /\ pc[p] = "put" /\ faults < MaxFaults
    /\ faults' = faults + 1
    /\ Leave(p)
    /\ late' = late \cup {Sent(p)}
    /\ UNCHANGED <<storeVars, worldVars, sessionVars>>

Land(m) ==
    /\ Store(m.want, m.base)
    /\ late' = late \ {m}
    /\ UNCHANGED <<worldVars, callVars, changeVars, sessionVars, pc, faults>>

\* The write never reached the store, or is refused: nobody reads the answer.
Vanish(m) ==
    /\ late' = late \ {m}
    /\ UNCHANGED <<storeVars, worldVars, callVars, changeVars, sessionVars, pc, faults>>

\* take goes on to its next transaction.
Proceed(p) ==
    /\ pc[p] = "done" /\ step[p] < Len(Txns(req[p]))
    /\ pc' = [pc EXCEPT ![p] = "read"]
    /\ step' = [step EXCEPT ![p] = @ + 1]
    /\ UNCHANGED <<storeVars, worldVars, req, tries, inner, began, changeVars, sessionVars, late, faults>>

Return(p) ==
    /\ pc[p] = "done" /\ step[p] = Len(Txns(req[p]))
    /\ mark' = [mark EXCEPT ![p] = IF req[p].op = "mark" /\ req[p].kind = "op" THEN fresh[p] ELSE @]
    /\ Leave(p)
    /\ UNCHANGED <<storeVars, worldVars, used, issued, late, faults>>

\* A process may be killed at any point; a write it has sent stays in flight.
Die(p) ==
    /\ p \in alive /\ faults < MaxFaults
    /\ faults' = faults + 1
    /\ alive' = alive \ {p}
    /\ Leave(p)
    /\ late' = IF pc[p] = "put" THEN late \cup {Sent(p)} ELSE late
    /\ UNCHANGED <<storeVars, now, sessionVars>>

Tick ==
    /\ now < MaxTime
    /\ now' = now + 1
    /\ UNCHANGED <<storeVars, alive, callVars, changeVars, sessionVars, pc, late, faults>>

Next ==
    \/ \E p \in Procs : \/ Call(p) \/ Read(p) \/ ReadFails(p) \/ Put(p) \/ Conflict(p)
                        \/ GiveUp(p) \/ TimeOut(p) \/ Proceed(p) \/ Return(p) \/ Die(p)
    \/ \E m \in late : Land(m) \/ Vanish(m)
    \/ Tick

Spec == Init /\ [][Next]_vars

-----------------------------------------------------------------------------
(* Properties.                                                             *)

Write == [proc: Procs, call: Nat, txn: Transaction, base: Nat, want: Doc]

\* Types of every variable; a version read is never ahead of the store's,
\* and a process never counts more conflicts than it is allowed tries.
TypeOK ==
    /\ doc \in Doc /\ version \in Nat
    /\ now \in 0..MaxTime /\ alive \subseteq Procs
    /\ used \subseteq Ids
    /\ issued \in [Procs -> Nat]
    /\ mark \in [Procs -> Ids \cup {None}]
    /\ pc \in [Procs -> {"idle", "read", "put", "done"}]
    /\ req \in [Procs -> Request \cup Unmark \cup {None}]
    /\ step \in [Procs -> 1..3]
    /\ tries \in [Procs -> 0..Attempts] /\ inner \in [Procs -> 0..Attempts]
    /\ base \in [Procs -> Nat] /\ want \in [Procs -> Doc]
    /\ fresh \in [Procs -> Ids \cup {None}]
    /\ began \in [Procs -> Nat]
    /\ late \subseteq Write
    /\ faults \in 0..MaxFaults
    /\ \A p \in Procs : base[p] <= version

\* No update is lost: read, compute and write against a version implements
\* a book in which every transaction is applied in one step to the document
\* as it is, once, whatever conflicts, times out, arrives late or dies.
Stage == [p \in Procs |-> CASE pc[p] = "idle" -> "idle"
                            [] pc[p] = "done" -> "applied"
                            [] OTHER -> "pending"]
Orphans == {[proc |-> m.proc, call |-> m.call, txn |-> m.txn] : m \in late}
Book == INSTANCE LeaseBook WITH stage <- Stage, orphans <- Orphans
NoUpdateLost == Book!Spec

\* a and b are one agent to the lease table: equal, or main-thread
\* identities of one harness process.
Kin(a, b) ==
    \/ a = b
    \/ AnchorOf[a] # None /\ AnchorOf[a] = AnchorOf[b] /\ ~Child(a) /\ ~Child(b)

\* The step writes transaction t of process p.
WrittenBy(p, t) ==
    \/ pc[p] = "put" /\ pc'[p] = "done" /\ t = Txn(p)
    \/ version' # version /\ \E m \in late \ late' : m.proc = p /\ m.txn = t

\* A transaction in progress or in flight.
Txn0 == {Txn(p) : p \in {q \in Procs : pc[q] = "put"}} \cup {m.txn : m \in late}

\* The step takes (part of) lease l away.
Loses(l) == ~\E m \in doc'.leases : m.id = l.id /\ l.globs \subseteq m.globs

\* A lease its holder keeps alive is safe from everyone else: file leases
\* and holds go only to their own agent (a child thread acts for itself
\* alone), to a take of a path they cover or to the end of their task; the
\* op lease of a running process only to that agent.  A copy read before
\* the lease was taken, or a write that arrives late, never removes it.
LiveLeaseKept ==
    [][\A l \in doc.leases : ~IsStale(l, View) /\ Loses(l) =>
          \E p \in Procs, t \in Txn0 :
             /\ WrittenBy(p, t)
             /\ \/ Kin(AgentOf[p], l.agent) /\ t.op \in {"release", "release_paths", "mark", "unmark"}
                \/ l.kind # "op" /\ t.op = "drop" /\ Matches(l, t.path)
                \/ l.kind # "op" /\ t.op = "release_task" /\ t.task = l.task]_vars

\* A session stays in the writer set of a path until someone reports the
\* path clean (committed or reverted) or takes the path: st commit relies
\* on it to refuse another session's work.
WriterKept ==
    [][\A x \in Paths : \A e \in doc.writers[x] :
          (\A f \in doc'.writers[x] : f.agent # e.agent) =>
             \E p \in Procs, t \in Txn0 :
                /\ WrittenBy(p, t)
                /\ \/ t.op = "adopt" /\ t.path = x
                   \/ t.op \in {"record", "prune"} /\ x \notin t.dirty]_vars

\* An agent holds a project at most once: a second hold replaces the first,
\* also when two of its processes ask at the same time.
OneHold ==
    \A l, m \in doc.leases : l.kind = "hold" /\ m.kind = "hold" /\ l.agent = m.agent => l = m

\* A call gives up ("kept changing under 40 tries") only when the document
\* did change that often since the call began: each conflict it counts is a
\* write of someone else that succeeded.
GivesUpUnderContention ==
    [][\A p \in Procs : pc[p] = "put" /\ pc'[p] = "idle" /\ faults' = faults =>
          version - began[p] >= Attempts]_vars

\* "op" is pid-fenced and blocks every editor while its process is alive:
\* a running process's op lease leaves the book only when that process
\* gives it up.
OpFenced ==
    [][\A l \in doc.leases : l.kind = "op" /\ ~IsStale(l, View) /\ Loses(l) =>
          \E t \in Txn0 : WrittenBy(l.proc, t) /\ t.op = "unmark"]_vars

=============================================================================
