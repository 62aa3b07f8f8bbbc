------------------------------- MODULE Leases -------------------------------
(***************************************************************************)
(* The coordination document of one project (cli/lib/leases.py): the       *)
(* leases the agents hold on its checkout and, for each dirty path, the    *)
(* sessions that wrote it.  This module has no state of its own.  It says  *)
(* who an agent acts for and what each operation makes of the document it  *)
(* has read; LeaseBook and CoordStore say how documents change hands.      *)
(*                                                                         *)
(* Left out: the legacy tmux alias and "touches" records, the fields that  *)
(* are only displayed (slug, session, provider, purpose, taken_over_by,    *)
(* sensitive) and the file store behind ST_LEASES_DIR, whose flock makes   *)
(* every operation atomic.                                                 *)
(***************************************************************************)
EXTENDS Integers, Sequences

CONSTANTS
    Agents,     \* agent identities (identify_agent)
    AnchorOf,   \* the live harness process an identity is registered on, or None
    Marked,     \* identities whose SessionStart hook ran: main threads
    Procs,      \* the processes (hooks, st commands) that run operations
    AgentOf,    \* the identity a process runs under
    Paths,      \* files of the checkout
    Root,       \* the glob <checkout>/**
    Tasks,
    Ids,        \* lease ids
    Ttl,        \* DEFAULT_IDLE_TTL
    Unknown,    \* the unknown writer
    None

ASSUME IdentityAssumption ==
    /\ AgentOf \in [Procs -> Agents]
    /\ DOMAIN AnchorOf = Agents
    /\ Marked \subseteq Agents
    /\ Unknown \notin Agents
    /\ None \notin Agents /\ None \notin Tasks /\ None \notin Ids /\ None \notin Procs

ASSUME ScopeAssumption ==
    /\ Root \notin Paths
    /\ (Paths \cup {Root}) \cap Ids = {}
    /\ None \notin Paths \cup {Root}
    /\ Ttl \in Nat

-----------------------------------------------------------------------------
(* Identity: context resets and child threads of one harness process.      *)

\* Every identity registered on the live harness process of a.
Family(a) == IF AnchorOf[a] = None THEN {} ELSE {b \in Agents : AnchorOf[b] = AnchorOf[a]}

\* Once a process has a main thread, an unmarked identity on it is a child.
Child(a) == Family(a) \cap Marked # {} /\ a \notin Marked

MainsOf(a) == IF Family(a) \cap Marked = {} THEN Family(a) ELSE Family(a) \cap Marked

\* The lease owners a acts for.
SelfIds(a) == {a} \cup (IF Child(a) THEN {} ELSE MainsOf(a))

MyAnchor(a) == IF Child(a) THEN None ELSE AnchorOf[a]

\* The identities of a's whole session, for the attribution of writes.
SessionIds(a) == {a} \cup Family(a)

\* A child thread writes in the name of a main thread of its process.
RootKey(a) == IF Child(a) THEN CHOOSE m \in MainsOf(a) : TRUE ELSE a

IsMine(row, mine, anchor) == row.agent \in mine \/ (anchor # None /\ row.anchor = anchor)

\* The lease is one of those p acts for.
Own(l, p) == IsMine(l, SelfIds(AgentOf[p]), MyAnchor(AgentOf[p]))

-----------------------------------------------------------------------------
(* The document.                                                           *)

Globs == Paths \cup {Root}

Covers(g) == IF g = Root THEN Paths ELSE {g}

Lease == [id: Ids, agent: Agents, anchor: {AnchorOf[a] : a \in Agents} \cup {None},
          globs: SUBSET Globs, task: Tasks \cup {None}, kind: {"file", "hold", "op"},
          heartbeat: Nat, acquired: Nat, proc: Procs \cup {None}]

Entry == [agent: Agents \cup {Unknown}, anchor: {AnchorOf[a] : a \in Agents} \cup {None}, at: Nat]

Doc == [leases: SUBSET Lease, writers: [Paths -> SUBSET Entry]]

EmptyDoc == [leases |-> {}, writers |-> [x \in Paths |-> {}]]

IdsOf(d) == {l.id : l \in d.leases}

\* A view is what a process can tell about the world when it looks at a
\* document: the time, and which processes are alive.
IsStale(l, v) == IF l.kind = "op" THEN l.proc \notin v.alive ELSE v.now - l.heartbeat > Ttl

Matches(l, x) == \E g \in l.globs : x \in Covers(g)

Purge(S, v) == {l \in S : ~IsStale(l, v)}

NewLease(p, kind, globs, task, id, v) ==
    [id |-> id, agent |-> AgentOf[p], anchor |-> MyAnchor(AgentOf[p]), globs |-> globs,
     task |-> task, kind |-> kind, heartbeat |-> v.now, acquired |-> v.now,
     proc |-> IF kind = "op" THEN p ELSE None]

WriterEntry(p, unknown, v) ==
    [agent |-> IF unknown THEN Unknown ELSE RootKey(AgentOf[p]),
     anchor |-> AnchorOf[AgentOf[p]], at |-> v.now]

\* Mutant: the latest writer replaces the others.
AddLastWriter(S, e) == {e}

AddWriter(S, e) == {o \in S : o.agent # e.agent} \cup {e}

IsOwnWriter(e, a) == e.agent # Unknown /\ IsMine(e, SessionIds(a), AnchorOf[a])

\* The writer sets of paths no longer dirty are dropped.
Pruned(w, dirty) == [x \in Paths |-> IF x \in dirty THEN w[x] ELSE {}]

-----------------------------------------------------------------------------
(* What each operation makes of document d, run by p with view v.  An      *)
(* operation that finds several equal rows touches the first in the list:  *)
(* the rows are a set here, so any of them.                                *)

Extended(l, task, v) ==
    [l EXCEPT !.heartbeat = v.now, !.task = IF l.task = None THEN task ELSE l.task]

Acquire(d, p, globs, task, id, v) ==
    LET kept == Purge(d.leases, v)
        same == {l \in kept : l.kind = "file" /\ l.agent = AgentOf[p] /\ l.globs = globs}
    IN  IF same = {}
        THEN {[d EXCEPT !.leases = kept \cup {NewLease(p, "file", globs, task, id, v)}]}
        ELSE {[d EXCEPT !.leases = (kept \ {l}) \cup {Extended(l, task, v)}] : l \in same}

ListActive(d, v) == [d EXCEPT !.leases = Purge(d.leases, v)]

\* The leases M of S get a heartbeat.
Touched(S, M, v) == (S \ M) \cup {[l EXCEPT !.heartbeat = v.now] : l \in M}

Heartbeat(d, p, v) ==
    LET kept == Purge(d.leases, v)
    IN  [d EXCEPT !.leases = Touched(kept, {l \in kept : Own(l, p)}, v)]

\* Mutant: a lease is named by its glob, whoever holds it.
ReleaseAnyones(d, p, target, v) ==
    [d EXCEPT !.leases = {l \in Purge(d.leases, v) : target \notin l.globs}]

\* None releases everything but ops; else one lease id, else one glob.
Release(d, p, target, v) ==
    LET kept == Purge(d.leases, v)
        Named(l) == Own(l, p) /\ target \in l.globs
        byId == \E l \in kept : l.id = target /\ l.kind # "op" /\ Own(l, p)
        narrowed == {[l EXCEPT !.globs = @ \ {target}] : l \in {m \in kept : Named(m)}}
    IN  [d EXCEPT !.leases =
            IF target = None THEN {l \in kept : ~(l.kind # "op" /\ Own(l, p))}
            ELSE IF byId THEN {l \in kept : l.id # target}
            ELSE {l \in kept : ~Named(l)} \cup {l \in narrowed : l.globs # {}}]

ReleaseTask(d, task, v) ==
    [d EXCEPT !.leases = {l \in Purge(d.leases, v) : l.task # task}]

TakeDrop(d, p, path, v) ==
    [d EXCEPT !.leases = {l \in Purge(d.leases, v) :
                              ~(l.kind # "op" /\ Matches(l, path) /\ ~Own(l, p))}]

\* Taking a path adopts its dirty change: its other writers are forgotten.
TakeAdopt(d, p, path, v) ==
    [d EXCEPT !.writers = [@ EXCEPT ![path] = {WriterEntry(p, FALSE, v)}]]

Claim(d, p, path, id, v) ==
    LET kept == Purge(d.leases, v)
        mine == {l \in kept : l.kind # "op" /\ Own(l, p)}
        own == \E l \in mine : l.kind = "file" /\ Matches(l, path)
    IN  [leases |-> Touched(kept, mine, v)
                    \cup (IF own THEN {} ELSE {NewLease(p, "file", {path}, None, id, v)}),
         writers |-> [d.writers EXCEPT ![path] = AddWriter(@, WriterEntry(p, FALSE, v))]]

\* A path another session wrote, or newly leased, since the shell command
\* started gets an unknown writer: either session may own the change.
RecordWrites(d, p, r, v) ==
    LET a == AgentOf[p]
        kept == Purge(d.leases, v)
        w == Pruned(d.writers, r.dirty)
        Contested(x) ==
            \/ \E e \in w[x] : ~IsOwnWriter(e, a) /\ e.at >= r.since
            \/ \E l \in kept : /\ l.kind = "file" /\ Matches(l, x)
                               /\ ~Own(l, p) /\ l.acquired >= r.since
    IN  [leases |-> kept,
         writers |-> [x \in Paths |-> IF x \in r.paths
                                      THEN AddWriter(w[x], WriterEntry(p, r.unknown \/ Contested(x), v))
                                      ELSE w[x]]]

PruneWriters(d, dirty) == [d EXCEPT !.writers = Pruned(d.writers, dirty)]

ReleasePaths(d, p, paths, v) ==
    [d EXCEPT !.leases = {l \in Purge(d.leases, v) :
                              ~(l.kind = "file" /\ Own(l, p) /\ l.globs \subseteq paths)}]

\* Mutant: a hold does not replace the one the agent has.
AcquireAnotherMark(d, p, kind, id, v) ==
    [d EXCEPT !.leases = Purge(d.leases, v) \cup {NewLease(p, kind, {Root}, None, id, v)}]

AcquireMark(d, p, kind, id, v) ==
    [d EXCEPT !.leases = {l \in Purge(d.leases, v) : ~(kind = "hold" /\ l.kind = "hold" /\ Own(l, p))}
                         \cup {NewLease(p, kind, {Root}, None, id, v)}]

ReleaseMark(d, id) == [d EXCEPT !.leases = {l \in @ : l.id # id}]

-----------------------------------------------------------------------------
(* Requests and the transactions they consist of.                          *)

Request ==
    [op: {"acquire"}, globs: (SUBSET Globs) \ {{}}, task: Tasks \cup {None}]
    \cup [op: {"list", "heartbeat"}]
    \cup [op: {"release"}, target: Globs \cup Ids \cup {None}]
    \cup [op: {"release_task"}, task: Tasks]
    \cup [op: {"take", "claim"}, path: Paths]
    \cup [op: {"record"}, paths: SUBSET Paths, since: Nat, unknown: BOOLEAN, dirty: SUBSET Paths]
    \cup [op: {"prune"}, dirty: SUBSET Paths]
    \cup [op: {"release_paths"}, paths: SUBSET Paths]
    \cup [op: {"mark"}, kind: {"hold", "op"}]

\* release_mark is given the id acquire_mark returned.
Unmark == [op: {"unmark"}, id: Ids]

Transaction ==
    {r \in Request : r.op # "take"} \cup Unmark \cup [op: {"drop", "adopt"}, path: Paths]

\* take is three transactions, the second an acquire.
Txns(r) ==
    IF r.op = "take"
    THEN << [op |-> "drop", path |-> r.path],
            [op |-> "acquire", globs |-> {r.path}, task |-> None],
            [op |-> "adopt", path |-> r.path] >>
    ELSE << r >>

Effects(t, p, id, v, d) ==
    CASE t.op = "acquire"       -> Acquire(d, p, t.globs, t.task, id, v)
      [] t.op = "list"          -> {ListActive(d, v)}
      [] t.op = "heartbeat"     -> {Heartbeat(d, p, v)}
      [] t.op = "release"       -> {Release(d, p, t.target, v)}
      [] t.op = "release_task"  -> {ReleaseTask(d, t.task, v)}
      [] t.op = "drop"          -> {TakeDrop(d, p, t.path, v)}
      [] t.op = "adopt"         -> {TakeAdopt(d, p, t.path, v)}
      [] t.op = "claim"         -> {Claim(d, p, t.path, id, v)}
      [] t.op = "record"        -> {RecordWrites(d, p, t, v)}
      [] t.op = "prune"         -> {PruneWriters(d, t.dirty)}
      [] t.op = "release_paths" -> {ReleasePaths(d, p, t.paths, v)}
      [] t.op = "mark"          -> {AcquireMark(d, p, t.kind, id, v)}
      [] t.op = "unmark"        -> {ReleaseMark(d, t.id)}

\* list_active and prune_writers save only a document they changed.
Saves(t, d, e) == t.op \in {"list", "prune"} => e # d

=============================================================================
