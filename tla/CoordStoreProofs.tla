-------------------------- MODULE CoordStoreProofs --------------------------
(***************************************************************************)
(* Safety of the coordination store for any processes, identities, paths   *)
(* and requests.  The heart of the inductive invariant is Current: a       *)
(* computed document whose base is still the store's version is the effect *)
(* of its transaction on the document as it is now, because ids are fresh  *)
(* and every save changes the version.  A write the store takes is then    *)
(* one atomic transaction, and what the lemmas about Effects say of a      *)
(* transaction holds of every step.                                        *)
(***************************************************************************)
EXTENDS CoordStore, TLAPS

-----------------------------------------------------------------------------
(* What every transaction on the coordination document preserves, whoever  *)
(* runs it and whatever it is asked: facts about the operators of Leases.  *)

ViewType == [now: Nat, alive: SUBSET Procs]

\* The parts of a lease no operation ever changes.
SameLease(l, m) ==
    /\ m.id = l.id /\ m.agent = l.agent /\ m.anchor = l.anchor
    /\ m.kind = l.kind /\ m.proc = l.proc
    /\ l.kind = "op" => m.task = l.task

\* A lease id has one owner.
OneOwner(d) ==
    \A l, m \in d.leases : l.id = m.id => l.agent = m.agent /\ l.anchor = m.anchor

\* A root key is an agent (root_key of a child thread is a main thread).
LEMMA RootKeyType ==
    ASSUME NEW a \in Agents
    PROVE  RootKey(a) \in Agents
<1>1. CASE Child(a)
  <2>1. MainsOf(a) \subseteq Agents /\ MainsOf(a) # {}
    BY <1>1 DEF MainsOf, Child, Family
  <2>2. PICK m \in MainsOf(a) : TRUE
    BY <2>1
  <2>3. (CHOOSE n \in MainsOf(a) : TRUE) \in MainsOf(a)
    BY <2>2
  <2> QED BY <1>1, <2>1, <2>3 DEF RootKey
<1>2. CASE ~Child(a)
  BY <1>2 DEF RootKey
<1> QED BY <1>1, <1>2

\* A lease an operation creates is well formed.
LEMMA NewLeaseType ==
    ASSUME NEW p \in Procs, NEW kind \in {"file", "hold", "op"}, NEW globs \in SUBSET Globs,
           NEW task \in Tasks \cup {None}, NEW id \in Ids, NEW v \in ViewType
    PROVE  NewLease(p, kind, globs, task, id, v) \in Lease
BY IdentityAssumption DEF NewLease, Lease, MyAnchor, ViewType

\* So is a writer entry.
LEMMA WriterEntryType ==
    ASSUME NEW p \in Procs, NEW unknown \in BOOLEAN, NEW v \in ViewType
    PROVE  WriterEntry(p, unknown, v) \in Entry
<1>1. AgentOf[p] \in Agents
  BY IdentityAssumption
<1>2. RootKey(AgentOf[p]) \in Agents
  BY <1>1, RootKeyType
<1> QED BY <1>1, <1>2 DEF WriterEntry, Entry, ViewType

\* A heartbeat keeps the table well formed.
LEMMA TouchedType ==
    ASSUME NEW S \in SUBSET Lease, NEW M \in SUBSET S, NEW v \in ViewType
    PROVE  Touched(S, M, v) \in SUBSET Lease
BY DEF Touched, Lease, ViewType

\* Every transaction yields a document.
LEMMA EffectsType ==
    ASSUME NEW t \in Transaction, NEW p \in Procs, NEW id \in Ids, NEW v \in ViewType,
           NEW d \in Doc, NEW e \in Effects(t, p, id, v, d)
    PROVE  e \in Doc
<1> DEFINE kept == Purge(d.leases, v)
<1>0. /\ kept \in SUBSET Lease /\ d.leases \in SUBSET Lease
      /\ d.writers \in [Paths -> SUBSET Entry]
  BY DEF Purge, Doc
<1>1. CASE t.op = "acquire"
  <2>1. t.globs \in SUBSET Globs /\ t.task \in Tasks \cup {None}
    BY <1>1 DEF Transaction, Request, Unmark
  <2>2. e \in Acquire(d, p, t.globs, t.task, id, v)
    BY <1>1 DEF Effects
  <2>3. NewLease(p, "file", t.globs, t.task, id, v) \in Lease
    BY <2>1, NewLeaseType
  <2>4. \A l \in kept : Extended(l, t.task, v) \in Lease
    BY <1>0, <2>1 DEF Lease, ViewType, Extended
  <2>5. \/ e = [d EXCEPT !.leases = kept \cup {NewLease(p, "file", t.globs, t.task, id, v)}]
        \/ \E l \in kept : e = [d EXCEPT !.leases = (kept \ {l}) \cup {Extended(l, t.task, v)}]
    BY <2>2 DEF Acquire
  <2> QED BY <1>0, <2>3, <2>4, <2>5 DEF Doc
<1>2. CASE t.op = "list"
  BY <1>0, <1>2 DEF Effects, ListActive, Doc
<1>3. CASE t.op = "heartbeat"
  <2>1. Touched(kept, {l \in kept : Own(l, p)}, v) \in SUBSET Lease
    BY <1>0, TouchedType
  <2> QED BY <1>0, <1>3, <2>1 DEF Effects, Heartbeat, Doc
<1>4. CASE t.op = "release"
  <2>1. e = Release(d, p, t.target, v)
    BY <1>4 DEF Effects
  <2>2. \A l \in kept : [l EXCEPT !.globs = @ \ {t.target}] \in Lease
    BY <1>0 DEF Lease
  <2> QED BY <1>0, <2>1, <2>2 DEF Release, Doc
<1>5. CASE t.op = "release_task"
  BY <1>0, <1>5 DEF Effects, ReleaseTask, Doc
<1>6. CASE t.op = "drop"
  BY <1>0, <1>6 DEF Effects, TakeDrop, Doc
<1>7. CASE t.op = "adopt"
  <2>1. t.path \in Paths
    BY <1>7 DEF Transaction, Request, Unmark
  <2>2. WriterEntry(p, FALSE, v) \in Entry
    BY WriterEntryType
  <2>3. e = [d EXCEPT !.writers = [d.writers EXCEPT ![t.path] = {WriterEntry(p, FALSE, v)}]]
    BY <1>0, <1>7 DEF Effects, TakeAdopt, Doc
  <2>4. [d.writers EXCEPT ![t.path] = {WriterEntry(p, FALSE, v)}] \in [Paths -> SUBSET Entry]
    BY <1>0, <2>1, <2>2
  <2> QED BY <1>0, <2>3, <2>4 DEF Doc
<1>8. CASE t.op = "claim"
  <2>1. t.path \in Paths
    BY <1>8 DEF Transaction, Request, Unmark
  <2>2. WriterEntry(p, FALSE, v) \in Entry
    BY WriterEntryType
  <2>3. NewLease(p, "file", {t.path}, None, id, v) \in Lease
    BY <2>1, NewLeaseType DEF Globs
  <2>4. Touched(kept, {l \in kept : l.kind # "op" /\ Own(l, p)}, v) \in SUBSET Lease
    BY <1>0, TouchedType
  <2>5. e = Claim(d, p, t.path, id, v)
    BY <1>8 DEF Effects
  <2> QED BY <1>0, <2>1, <2>2, <2>3, <2>4, <2>5 DEF Claim, Doc, AddWriter
<1>9. CASE t.op = "record"
  <2>1. e = RecordWrites(d, p, t, v)
    BY <1>9 DEF Effects
  <2>2. t.unknown \in BOOLEAN
    BY <1>9 DEF Transaction, Request, Unmark
  <2>3. \A b \in BOOLEAN : WriterEntry(p, b, v) \in Entry
    BY WriterEntryType
  <2>4. Pruned(d.writers, t.dirty) \in [Paths -> SUBSET Entry]
    BY <1>0 DEF Pruned
  <2>5. \A x \in Paths, b \in BOOLEAN :
           AddWriter(Pruned(d.writers, t.dirty)[x], WriterEntry(p, b, v)) \in SUBSET Entry
    BY <2>3, <2>4 DEF AddWriter
  <2> QED BY <1>0, <2>1, <2>2, <2>4, <2>5 DEF RecordWrites, Doc
<1>10. CASE t.op = "prune"
  BY <1>0, <1>10 DEF Effects, PruneWriters, Pruned, Doc
<1>11. CASE t.op = "release_paths"
  BY <1>0, <1>11 DEF Effects, ReleasePaths, Doc
<1>12. CASE t.op = "mark"
  <2>1. t.kind \in {"hold", "op"}
    BY <1>12 DEF Transaction, Request, Unmark
  <2>2. NewLease(p, t.kind, {Root}, None, id, v) \in Lease
    BY <2>1, NewLeaseType DEF Globs
  <2> QED BY <1>0, <1>12, <2>2 DEF Effects, AcquireMark, Doc
<1>13. CASE t.op = "unmark"
  BY <1>0, <1>13 DEF Effects, ReleaseMark, Doc
<1>14. t.op \in {"acquire", "list", "heartbeat", "release", "release_task", "drop", "adopt",
                 "claim", "record", "prune", "release_paths", "mark", "unmark"}
  BY DEF Transaction, Request, Unmark
<1> QED BY <1>1, <1>2, <1>3, <1>4, <1>5, <1>6, <1>7, <1>8, <1>9, <1>10, <1>11, <1>12, <1>13, <1>14

(***************************************************************************)
(* The four things a transaction can do to the lease table: drop rows and  *)
(* touch or narrow some, without changing whose they are; and, when it     *)
(* acquires, claims or marks, add one row.                                 *)
(***************************************************************************)

\* What is known of the row an operation of p adds under id.
NewRow(l, p, id) ==
    /\ l.id = id /\ l.agent = AgentOf[p] /\ l.anchor = MyAnchor(AgentOf[p])
    /\ l.kind = "op" => l.proc = p /\ l.task = None

\* Every lease after a transaction is one from before it, its owner
\* unchanged, or the one the transaction adds.
LEMMA EffectsRows ==
    ASSUME NEW t \in Transaction, NEW p \in Procs, NEW id \in Ids, NEW v \in ViewType,
           NEW d \in Doc, NEW e \in Effects(t, p, id, v, d),
           NEW m \in e.leases
    PROVE  (\E l \in d.leases : SameLease(l, m)) \/ NewRow(m, p, id)
<1> DEFINE kept == Purge(d.leases, v)
<1>0. kept \subseteq d.leases /\ d.leases \subseteq Lease /\ d = [leases |-> d.leases, writers |-> d.writers]
  BY DEF Purge, Doc
<1>n. \A kind, globs, task : (kind = "op" => task = None) =>
         NewRow(NewLease(p, kind, globs, task, id, v), p, id)
  BY DEF NewRow, NewLease
<1>t. \A l \in kept : SameLease(l, [l EXCEPT !.heartbeat = v.now])
  BY <1>0 DEF Lease, SameLease
<1>s. SameLease(m, m)
  BY <1>0 DEF SameLease
<1>1. CASE t.op = "acquire"
  <2>1. \/ e = [d EXCEPT !.leases = kept \cup {NewLease(p, "file", t.globs, t.task, id, v)}]
        \/ \E l \in kept : /\ l.kind = "file"
                          /\ e = [d EXCEPT !.leases = (kept \ {l}) \cup {Extended(l, t.task, v)}]
    BY <1>1 DEF Effects, Acquire
  <2>2. \A l \in kept : l.kind = "file" => SameLease(l, Extended(l, t.task, v))
    BY <1>0 DEF Extended, Lease, SameLease
  <2> QED BY <1>0, <1>n, <1>s, <2>1, <2>2
<1>2. CASE t.op = "list"
  BY <1>0, <1>s, <1>2 DEF Effects, ListActive
<1>3. CASE t.op = "heartbeat"
  <2> DEFINE M == {k \in kept : Own(k, p)}
  <2>1. e.leases = (kept \ M) \cup {[k EXCEPT !.heartbeat = v.now] : k \in M}
    BY <1>0, <1>3 DEF Effects, Heartbeat, Touched
  <2>2. m \in kept \/ \E k \in kept : m = [k EXCEPT !.heartbeat = v.now]
    BY <2>1
  <2> QED BY <1>0, <1>s, <1>t, <2>2
<1>4. CASE t.op = "release"
  <2>1. e = Release(d, p, t.target, v)
    BY <1>4 DEF Effects
  <2>2. \A l \in kept : SameLease(l, [l EXCEPT !.globs = @ \ {t.target}])
    BY <1>0 DEF Lease, SameLease
  <2>3. \/ e.leases \subseteq kept
        \/ e.leases \subseteq kept \cup {[l EXCEPT !.globs = @ \ {t.target}] : l \in kept}
    BY <1>0, <2>1 DEF Release
  <2>4. m \in kept \/ \E k \in kept : m = [k EXCEPT !.globs = @ \ {t.target}]
    BY <2>3
  <2> QED BY <1>0, <1>s, <2>2, <2>4
<1>5. CASE t.op = "release_task"
  BY <1>0, <1>s, <1>5 DEF Effects, ReleaseTask
<1>6. CASE t.op = "drop"
  BY <1>0, <1>s, <1>6 DEF Effects, TakeDrop
<1>7. CASE t.op = "adopt"
  BY <1>0, <1>s, <1>7 DEF Effects, TakeAdopt
<1>8. CASE t.op = "claim"
  <2> DEFINE M == {k \in kept : k.kind # "op" /\ Own(k, p)}
             T == (kept \ M) \cup {[k EXCEPT !.heartbeat = v.now] : k \in M}
  <2>1. e = Claim(d, p, t.path, id, v)
    BY <1>8 DEF Effects
  <2>2. e.leases = T \/ e.leases = T \cup {NewLease(p, "file", {t.path}, None, id, v)}
    BY <2>1 DEF Claim, Touched
  <2>3. \/ m \in kept \/ \E k \in kept : m = [k EXCEPT !.heartbeat = v.now]
        \/ m = NewLease(p, "file", {t.path}, None, id, v)
    BY <2>2
  <2> QED BY <1>0, <1>t, <1>n, <1>s, <2>3
<1>9. CASE t.op = "record"
  BY <1>0, <1>s, <1>9 DEF Effects, RecordWrites
<1>10. CASE t.op = "prune"
  BY <1>0, <1>s, <1>10 DEF Effects, PruneWriters
<1>11. CASE t.op = "release_paths"
  BY <1>0, <1>s, <1>11 DEF Effects, ReleasePaths
<1>12. CASE t.op = "mark"
  BY <1>0, <1>s, <1>12, <1>n DEF Effects, AcquireMark
<1>13. CASE t.op = "unmark"
  BY <1>0, <1>s, <1>13 DEF Effects, ReleaseMark
<1>14. t.op \in {"acquire", "list", "heartbeat", "release", "release_task", "drop", "adopt",
                 "claim", "record", "prune", "release_paths", "mark", "unmark"}
  BY DEF Transaction, Request, Unmark
<1> QED BY <1>1, <1>2, <1>3, <1>4, <1>5, <1>6, <1>7, <1>8, <1>9, <1>10, <1>11, <1>12, <1>13, <1>14

\* A lease that is not stale keeps its globs, unless the transaction is one
\* that is meant to take it: its owner releases or replaces it, a take of a
\* path it covers, the end of its task, or the end of its operation.
LEMMA EffectsKeep ==
    ASSUME NEW t \in Transaction, NEW p \in Procs, NEW id \in Ids, NEW v \in ViewType,
           NEW d \in Doc, NEW e \in Effects(t, p, id, v, d),
           OneOwner(d), NEW l \in d.leases, ~IsStale(l, v),
           ~\E m \in e.leases : m.id = l.id /\ l.globs \subseteq m.globs
    PROVE  \/ Own(l, p) /\ t.op \in {"release", "release_paths", "mark"}
           \/ l.kind # "op" /\ t.op = "drop" /\ Matches(l, t.path)
           \/ t.op = "release_task" /\ t.task = l.task
           \/ t.op = "unmark" /\ t.id = l.id
<1> DEFINE kept == Purge(d.leases, v)
<1>0. l \in kept /\ l \in Lease /\ kept \subseteq Lease /\ d = [leases |-> d.leases, writers |-> d.writers]
  BY DEF Purge, Doc
<1>t. LET m == [l EXCEPT !.heartbeat = v.now] IN m.id = l.id /\ m.globs = l.globs
  BY <1>0 DEF Lease
<1>1. CASE t.op = "acquire"
  <2>1. \/ e = [d EXCEPT !.leases = kept \cup {NewLease(p, "file", t.globs, t.task, id, v)}]
        \/ \E k \in kept : e = [d EXCEPT !.leases = (kept \ {k}) \cup {Extended(k, t.task, v)}]
    BY <1>1 DEF Effects, Acquire
  <2>2. Extended(l, t.task, v).id = l.id /\ Extended(l, t.task, v).globs = l.globs
    BY <1>0 DEF Extended, Lease
  <2> QED BY <1>0, <2>1, <2>2
<1>2. CASE t.op = "list"
  BY <1>0, <1>2 DEF Effects, ListActive
<1>3. CASE t.op = "heartbeat"
  <2> DEFINE M == {k \in kept : Own(k, p)}
  <2>1. e.leases = (kept \ M) \cup {[k EXCEPT !.heartbeat = v.now] : k \in M}
    BY <1>0, <1>3 DEF Effects, Heartbeat, Touched
  <2> QED BY <1>0, <1>t, <2>1
<1>4. CASE t.op = "release"
  <2>1. e = Release(d, p, t.target, v)
    BY <1>4 DEF Effects
  <2>2. CASE t.target = None
    BY <1>0, <1>4, <2>1, <2>2 DEF Release
  <2>3. CASE t.target # None /\ Own(l, p)
    BY <1>4, <2>3
  <2>4. CASE t.target # None /\ ~Own(l, p)
    <3>1. CASE \E k \in kept : k.id = t.target /\ k.kind # "op" /\ Own(k, p)
      <4>1. l.id # t.target
        BY <1>0, <2>4, <3>1 DEF OneOwner, Own, IsMine, Purge
      <4> QED BY <1>0, <2>1, <2>4, <3>1, <4>1 DEF Release
    <3>2. CASE ~\E k \in kept : k.id = t.target /\ k.kind # "op" /\ Own(k, p)
      BY <1>0, <2>1, <2>4, <3>2 DEF Release
    <3> QED BY <3>1, <3>2
  <2> QED BY <2>2, <2>3, <2>4
<1>5. CASE t.op = "release_task"
  BY <1>0, <1>5 DEF Effects, ReleaseTask
<1>6. CASE t.op = "drop"
  BY <1>0, <1>6 DEF Effects, TakeDrop
<1>7. CASE t.op = "adopt"
  BY <1>0, <1>7 DEF Effects, TakeAdopt
<1>8. CASE t.op = "claim"
  <2> DEFINE M == {k \in kept : k.kind # "op" /\ Own(k, p)}
             T == (kept \ M) \cup {[k EXCEPT !.heartbeat = v.now] : k \in M}
  <2>1. e = Claim(d, p, t.path, id, v)
    BY <1>8 DEF Effects
  <2>2. T \subseteq e.leases
    BY <2>1 DEF Claim, Touched
  <2> QED BY <1>0, <1>t, <2>2
<1>9. CASE t.op = "record"
  BY <1>0, <1>9 DEF Effects, RecordWrites
<1>10. CASE t.op = "prune"
  BY <1>0, <1>10 DEF Effects, PruneWriters
<1>11. CASE t.op = "release_paths"
  BY <1>0, <1>11 DEF Effects, ReleasePaths
<1>12. CASE t.op = "mark"
  BY <1>0, <1>12 DEF Effects, AcquireMark
<1>13. CASE t.op = "unmark"
  BY <1>0, <1>13 DEF Effects, ReleaseMark
<1>14. t.op \in {"acquire", "list", "heartbeat", "release", "release_task", "drop", "adopt",
                 "claim", "record", "prune", "release_paths", "mark", "unmark"}
  BY DEF Transaction, Request, Unmark
<1> QED BY <1>1, <1>2, <1>3, <1>4, <1>5, <1>6, <1>7, <1>8, <1>9, <1>10, <1>11, <1>12, <1>13, <1>14

\* A transaction names no lease id but the old ones and its own.
LEMMA EffectsIds ==
    ASSUME NEW t \in Transaction, NEW p \in Procs, NEW id \in Ids, NEW v \in ViewType,
           NEW d \in Doc, NEW e \in Effects(t, p, id, v, d)
    PROVE  IdsOf(e) \subseteq IdsOf(d) \cup {id}
<1> SUFFICES ASSUME NEW m \in e.leases
             PROVE  m.id \in IdsOf(d) \cup {id}
  BY DEF IdsOf
<1>1. (\E l \in d.leases : SameLease(l, m)) \/ NewRow(m, p, id)
  BY EffectsRows
<1> QED BY <1>1 DEF SameLease, NewRow, IdsOf

\* At most one hold per agent in a document.
SingleHolds(d) ==
    \A l, m \in d.leases : l.kind = "hold" /\ m.kind = "hold" /\ l.agent = m.agent => l = m

\* No transaction gives an agent a second hold.
LEMMA EffectsHolds ==
    ASSUME NEW t \in Transaction, NEW p \in Procs, NEW id \in Ids, NEW v \in ViewType,
           NEW d \in Doc, NEW e \in Effects(t, p, id, v, d),
           SingleHolds(d)
    PROVE  SingleHolds(e)
<1> DEFINE kept == Purge(d.leases, v)
<1>0. /\ kept \subseteq d.leases /\ d.leases \subseteq Lease /\ kept \subseteq Lease
      /\ d = [leases |-> d.leases, writers |-> d.writers]
  BY DEF Purge, Doc
<1>k. \A l, m \in kept : l.kind = "hold" /\ m.kind = "hold" /\ l.agent = m.agent => l = m
  BY <1>0 DEF SingleHolds
<1>t. \A l \in kept : LET m == [l EXCEPT !.heartbeat = v.now] IN m.kind = l.kind /\ m.agent = l.agent
  BY <1>0 DEF Lease
<1>1. CASE t.op = "acquire"
  <2>1. \/ e = [d EXCEPT !.leases = kept \cup {NewLease(p, "file", t.globs, t.task, id, v)}]
        \/ \E l \in kept : l.kind = "file" /\ e = [d EXCEPT !.leases = (kept \ {l}) \cup {Extended(l, t.task, v)}]
    BY <1>1 DEF Effects, Acquire
  <2>2. \A l \in kept : Extended(l, t.task, v).kind = l.kind
    BY <1>0 DEF Extended, Lease
  <2>3. NewLease(p, "file", t.globs, t.task, id, v).kind = "file"
    BY DEF NewLease
  <2> QED BY <1>0, <1>k, <2>1, <2>2, <2>3 DEF SingleHolds
<1>2. CASE t.op = "list"
  BY <1>0, <1>k, <1>2 DEF Effects, ListActive, SingleHolds
<1>3. CASE t.op = "heartbeat"
  <2> DEFINE F(k) == [k EXCEPT !.heartbeat = v.now]
             M == {k \in kept : Own(k, p)}
  <2>5. M \subseteq kept /\ \A k \in M : F(k).kind = k.kind /\ F(k).agent = k.agent
    BY <1>t
  <2>1. e.leases = (kept \ M) \cup {[k EXCEPT !.heartbeat = v.now] : k \in M}
    BY <1>0, <1>3 DEF Effects, Heartbeat, Touched
  <2>2. \A n \in e.leases : \/ n \in kept \ M
                            \/ \E k \in M : n = [k EXCEPT !.heartbeat = v.now]
    BY <2>1
  <2>9. \A n \in e.leases : n.kind = "hold" => n \in kept \ M \/ \E k \in M : n = F(k)
    BY <2>2
  <2> HIDE DEF F, M
  <2> QED BY <1>k, <2>5, <2>9 DEF SingleHolds
<1>4. CASE t.op = "release"
  <2> DEFINE F(k) == [k EXCEPT !.globs = @ \ {t.target}]
             M == {k \in kept : Own(k, p) /\ t.target \in k.globs}
  <2>1. e = Release(d, p, t.target, v)
    BY <1>4 DEF Effects
  <2>5. M \subseteq kept /\ \A k \in M : F(k).kind = k.kind /\ F(k).agent = k.agent
    BY <1>0 DEF Lease
  <2>3. \/ e.leases \subseteq kept
        \/ \A n \in e.leases : \/ n \in kept \ M
                               \/ \E k \in M : n = [k EXCEPT !.globs = @ \ {t.target}]
    BY <1>0, <2>1 DEF Release
  <2>4. CASE e.leases \subseteq kept
    BY <1>k, <2>4 DEF SingleHolds
  <2>6. CASE \A n \in e.leases : n \in kept \ M \/ \E k \in M : n = F(k)
    <3> HIDE DEF F, M
    <3> QED BY <1>k, <2>5, <2>6 DEF SingleHolds
  <2> QED BY <2>3, <2>4, <2>6
<1>5. CASE t.op = "release_task"
  BY <1>0, <1>k, <1>5 DEF Effects, ReleaseTask, SingleHolds
<1>6. CASE t.op = "drop"
  BY <1>0, <1>k, <1>6 DEF Effects, TakeDrop, SingleHolds
<1>7. CASE t.op = "adopt"
  BY <1>0, <1>7 DEF Effects, TakeAdopt, SingleHolds
<1>8. CASE t.op = "claim"
  <2> DEFINE F(k) == [k EXCEPT !.heartbeat = v.now]
             M == {k \in kept : k.kind # "op" /\ Own(k, p)}
             T == (kept \ M) \cup {[k EXCEPT !.heartbeat = v.now] : k \in M}
  <2>1. e = Claim(d, p, t.path, id, v)
    BY <1>8 DEF Effects
  <2>2. e.leases = T \/ e.leases = T \cup {NewLease(p, "file", {t.path}, None, id, v)}
    BY <2>1 DEF Claim, Touched
  <2>3. NewLease(p, "file", {t.path}, None, id, v).kind = "file"
    BY DEF NewLease
  <2>5. M \subseteq kept /\ \A k \in M : F(k).kind = k.kind /\ F(k).agent = k.agent
    BY <1>t
  <2>9. \A n \in e.leases : n.kind = "hold" => n \in kept \ M \/ \E k \in M : n = F(k)
    BY <2>2, <2>3
  <2> HIDE DEF F, M
  <2> QED BY <1>k, <2>5, <2>9 DEF SingleHolds
<1>9. CASE t.op = "record"
  BY <1>0, <1>k, <1>9 DEF Effects, RecordWrites, SingleHolds
<1>10. CASE t.op = "prune"
  BY <1>0, <1>10 DEF Effects, PruneWriters, SingleHolds
<1>11. CASE t.op = "release_paths"
  BY <1>0, <1>k, <1>11 DEF Effects, ReleasePaths, SingleHolds
<1>12. CASE t.op = "mark"
  <2>1. e.leases = {l \in kept : ~(t.kind = "hold" /\ l.kind = "hold" /\ Own(l, p))}
                   \cup {NewLease(p, t.kind, {Root}, None, id, v)}
    BY <1>0, <1>12 DEF Effects, AcquireMark
  <2>2. LET n == NewLease(p, t.kind, {Root}, None, id, v) IN n.kind = t.kind /\ n.agent = AgentOf[p]
    BY DEF NewLease
  <2>3. \A l \in kept : l.agent = AgentOf[p] => Own(l, p)
    BY DEF Own, IsMine, SelfIds
  <2> QED BY <1>k, <2>1, <2>2, <2>3 DEF SingleHolds
<1>13. CASE t.op = "unmark"
  BY <1>0, <1>13 DEF Effects, ReleaseMark, SingleHolds
<1>14. t.op \in {"acquire", "list", "heartbeat", "release", "release_task", "drop", "adopt",
                 "claim", "record", "prune", "release_paths", "mark", "unmark"}
  BY DEF Transaction, Request, Unmark
<1> QED BY <1>1, <1>2, <1>3, <1>4, <1>5, <1>6, <1>7, <1>8, <1>9, <1>10, <1>11, <1>12, <1>13, <1>14

\* A session's entry in a writer set survives every transaction but a take
\* of the path and a report that the path is clean.
LEMMA EffectsWriters ==
    ASSUME NEW t \in Transaction, NEW p \in Procs, NEW id \in Ids, NEW v \in ViewType,
           NEW d \in Doc, NEW e \in Effects(t, p, id, v, d),
           NEW x \in Paths, NEW w \in d.writers[x],
           \A f \in e.writers[x] : f.agent # w.agent
    PROVE  \/ t.op = "adopt" /\ t.path = x
           \/ t.op \in {"record", "prune"} /\ x \notin t.dirty
<1>0. /\ d = [leases |-> d.leases, writers |-> d.writers]
      /\ d.writers \in [Paths -> SUBSET Entry]
  BY DEF Doc
<1>a. \A S, f : w \in S => \E g \in AddWriter(S, f) : g.agent = w.agent
  BY DEF AddWriter
<1>1. CASE t.op = "acquire"
  <2>1. e.writers = d.writers
    BY <1>0, <1>1 DEF Effects, Acquire
  <2> QED BY <2>1
<1>2. CASE t.op = "list"
  BY <1>0, <1>2 DEF Effects, ListActive
<1>3. CASE t.op = "heartbeat"
  BY <1>0, <1>3 DEF Effects, Heartbeat
<1>4. CASE t.op = "release"
  BY <1>0, <1>4 DEF Effects, Release
<1>5. CASE t.op = "release_task"
  BY <1>0, <1>5 DEF Effects, ReleaseTask
<1>6. CASE t.op = "drop"
  BY <1>0, <1>6 DEF Effects, TakeDrop
<1>7. CASE t.op = "adopt"
  <2>1. e.writers = [d.writers EXCEPT ![t.path] = {WriterEntry(p, FALSE, v)}]
    BY <1>0, <1>7 DEF Effects, TakeAdopt
  <2> QED BY <1>0, <1>7, <2>1
<1>8. CASE t.op = "claim"
  <2>0. e = Claim(d, p, t.path, id, v)
    BY <1>8 DEF Effects
  <2>1. e.writers = [d.writers EXCEPT ![t.path] = AddWriter(@, WriterEntry(p, FALSE, v))]
    BY <2>0 DEF Claim
  <2>2. e.writers[x] = d.writers[x] \/ e.writers[x] = AddWriter(d.writers[x], WriterEntry(p, FALSE, v))
    BY <1>0, <2>1
  <2> QED BY <1>a, <2>2
<1>9. CASE t.op = "record"
  <2>1. e = RecordWrites(d, p, t, v)
    BY <1>9 DEF Effects
  <2>2. x \in t.dirty => Pruned(d.writers, t.dirty)[x] = d.writers[x]
    BY DEF Pruned
  <2>3. \/ e.writers[x] = Pruned(d.writers, t.dirty)[x]
        \/ \E f : e.writers[x] = AddWriter(Pruned(d.writers, t.dirty)[x], f)
    BY <2>1 DEF RecordWrites
  <2> QED BY <1>9, <1>a, <2>2, <2>3
<1>10. CASE t.op = "prune"
  BY <1>0, <1>10 DEF Effects, PruneWriters, Pruned
<1>11. CASE t.op = "release_paths"
  BY <1>0, <1>11 DEF Effects, ReleasePaths
<1>12. CASE t.op = "mark"
  BY <1>0, <1>12 DEF Effects, AcquireMark
<1>13. CASE t.op = "unmark"
  BY <1>0, <1>13 DEF Effects, ReleaseMark
<1>14. t.op \in {"acquire", "list", "heartbeat", "release", "release_task", "drop", "adopt",
                 "claim", "record", "prune", "release_paths", "mark", "unmark"}
  BY DEF Transaction, Request, Unmark
<1> QED BY <1>1, <1>2, <1>3, <1>4, <1>5, <1>6, <1>7, <1>8, <1>9, <1>10, <1>11, <1>12, <1>13, <1>14

-----------------------------------------------------------------------------
(* The store: the inductive invariant, its proof and what follows.         *)

\* A process in a call has a request and is at one of its transactions;
\* an idle one has left nothing of its last call.
CallOK ==
    \A p \in Procs :
        /\ pc[p] = "idle" => tries[p] = 0 /\ inner[p] = 0 /\ step[p] = 1
        /\ pc[p] # "idle" => /\ req[p] \in Request \cup Unmark
                             /\ step[p] \in 1..Len(Txns(req[p]))

\* Every conflict a call counts is a version it has seen go by.
Counting ==
    \A p \in Procs :
        /\ tries[p] < Attempts /\ inner[p] < Attempts
        /\ pc[p] = "read" => began[p] + tries[p] + inner[p] <= version
        /\ pc[p] \in {"put", "done"} => began[p] + tries[p] + inner[p] <= base[p]

\* A call leaves at most one write in flight, and only when it is over.
LateOK ==
    /\ \A m \in late : /\ m.call <= issued[m.proc]
                       /\ pc[m.proc] # "idle" => m.call < issued[m.proc]
    /\ \A m, n \in late : m.proc = n.proc /\ m.call = n.call => m = n

\* The views processes have had: time grows, the living get fewer.
Views == {v \in [now: 0..now, alive: SUBSET Procs] : alive \subseteq v.alive}

\* d is what transaction t of p makes of document e, seen with one of S.
Fits(d, t, p, S, e) ==
    \E v \in S, id \in Ids \ IdsOf(e) : d \in Effects(t, p, id, v, e)

\* A write that will be taken is the effect of its transaction.
Current ==
    /\ \A p \in Procs : pc[p] = "put" /\ base[p] = version => Fits(want[p], Txn(p), p, Views, doc)
    /\ \A m \in late : /\ m.base <= version
                       /\ m.base = version => Fits(m.want, m.txn, m.proc, Views, doc)

\* Every lease in the store or on its way there.
Known ==
    {l \in Lease : \/ l \in doc.leases
                   \/ \E p \in Procs : l \in want[p].leases
                   \/ \E m \in late : l \in m.want.leases}

\* A lease id belongs to one owner wherever it appears, and never recurs;
\* an op lease has no task.
Owners ==
    /\ \A l \in Known : l.id \in used /\ l.anchor = MyAnchor(l.agent)
    /\ \A l \in Known : l.kind = "op" => l.task = None
    /\ \A l, m \in Known : l.id = m.id => l.agent = m.agent

\* The id p was given for its op lease, is about to get or gives up is p's.
MarkOwners ==
    /\ \A p \in Procs : /\ mark[p] # None => mark[p] \in used
                        /\ fresh[p] # None => fresh[p] \in used
                        /\ pc[p] # "idle" /\ req[p].op = "unmark" => req[p].id \in used
    /\ \A m \in late : m.txn.op = "unmark" => m.txn.id \in used
    /\ \A l \in Known, p \in Procs :
          \/ l.id = mark[p]
          \/ l.id = fresh[p]
          \/ pc[p] # "idle" /\ req[p].op = "unmark" /\ req[p].id = l.id
          => l.agent = AgentOf[p]
    /\ \A l \in Known, m \in late :
          m.txn.op = "unmark" /\ m.txn.id = l.id => l.agent = AgentOf[m.proc]

IInv ==
    /\ TypeOK /\ CallOK /\ Counting /\ LateOK /\ Current
    /\ Owners /\ MarkOwners /\ SingleHolds(doc)

\* Read, once the id and the document are chosen.
ReadTo(p, id, d) ==
    /\ want' = [want EXCEPT ![p] = d]
    /\ used' = used \cup (IdsOf(d) \cap {id})
    /\ fresh' = [fresh EXCEPT ![p] = IF id \in IdsOf(d) THEN id ELSE None]
    /\ pc' = [pc EXCEPT ![p] = IF Saves(Txn(p), doc, d) THEN "put" ELSE "done"]

\* Every transaction of a request is one the store can be asked for.
LEMMA TxnsType ==
    ASSUME NEW r \in Request \cup Unmark
    PROVE  /\ Len(Txns(r)) \in 1..3
           /\ \A i \in 1..Len(Txns(r)) : Txns(r)[i] \in Transaction
<1>1. CASE r.op = "take"
  <2>1. r.path \in Paths
    BY <1>1 DEF Request, Unmark
  <2>2. Len(Txns(r)) = 3
    BY <1>1 DEF Txns
  <2>3. /\ Txns(r)[1] = [op |-> "drop", path |-> r.path]
        /\ Txns(r)[2] = [op |-> "acquire", globs |-> {r.path}, task |-> None]
        /\ Txns(r)[3] = [op |-> "adopt", path |-> r.path]
    BY <1>1 DEF Txns
  <2>4. Txns(r)[1] \in Transaction /\ Txns(r)[3] \in Transaction
    BY <2>1, <2>3 DEF Transaction
  <2>5. Txns(r)[2] \in Request /\ Txns(r)[2].op # "take"
    <3>0. r.path \in Globs
      BY <2>1 DEF Globs
    <3>1. {r.path} \in (SUBSET Globs) \ {{}}
      <4> DEFINE S == {r.path}
      <4>1. S \subseteq Globs /\ r.path \in S
        BY <3>0
      <4> HIDE DEF S
      <4>2. S \in (SUBSET Globs) \ {{}}
        BY <4>1
      <4> QED BY <4>2 DEF S
    <3>2. [op |-> "acquire", globs |-> {r.path}, task |-> None]
             \in [op: {"acquire"}, globs: (SUBSET Globs) \ {{}}, task: Tasks \cup {None}]
      BY <3>1
    <3> QED BY <2>3, <3>2 DEF Request
  <2>6. \A i \in 1..3 : i = 1 \/ i = 2 \/ i = 3
    OBVIOUS
  <2> QED BY <2>2, <2>4, <2>5, <2>6 DEF Transaction
<1>2. CASE r.op # "take"
  <2>1. Txns(r) = << r >>
    BY <1>2 DEF Txns
  <2>2. r \in Transaction
    BY <1>2 DEF Transaction
  <2> QED BY <2>1, <2>2
<1> QED BY <1>1, <1>2

\* The transaction a process in a call is at.
LEMMA TxnType ==
    ASSUME CallOK, NEW p \in Procs, pc[p] # "idle"
    PROVE  Txn(p) \in Transaction
BY TxnsType DEF CallOK, Txn

\* What a process sees now is one of the views.
LEMMA ViewsType ==
    ASSUME TypeOK
    PROVE  View \in Views /\ Views \subseteq ViewType
<1>1. now \in Nat /\ alive \subseteq Procs /\ now \in 0..now
  BY StoreAssumption DEF TypeOK
<1> QED BY <1>1 DEF View, Views, ViewType

\* A document that fits is well formed.
LEMMA FitsType ==
    ASSUME TypeOK, NEW t \in Transaction, NEW p \in Procs, NEW d,
           Fits(d, t, p, Views, doc)
    PROVE  d \in Doc
BY ViewsType, EffectsType DEF Fits, TypeOK

\* Leaving a call, whatever its reason.
LEMMA LeaveType ==
    ASSUME TypeOK, NEW p \in Procs, Leave(p)
    PROVE  /\ pc' \in [Procs -> {"idle", "read", "put", "done"}]
           /\ req' \in [Procs -> Request \cup Unmark \cup {None}]
           /\ step' \in [Procs -> 1..3]
           /\ tries' \in [Procs -> 0..Attempts] /\ inner' \in [Procs -> 0..Attempts]
           /\ base' \in [Procs -> Nat] /\ want' \in [Procs -> Doc]
           /\ fresh' \in [Procs -> Ids \cup {None}]
           /\ began' \in [Procs -> Nat]
           /\ version \in Nat => \A q \in Procs : base'[q] <= version
<1>1. EmptyDoc \in Doc
  BY DEF EmptyDoc, Doc
<1>2. 0 \in 0..Attempts
  BY StoreAssumption
<1> QED BY <1>1, <1>2 DEF TypeOK, Leave

\* Types are preserved.
LEMMA TypeStep == IInv /\ [Next]_vars => TypeOK'
<1> SUFFICES ASSUME IInv, [Next]_vars
             PROVE  TypeOK'
  OBVIOUS
<1> USE DEF IInv
<1>1. ASSUME NEW p \in Procs, Call(p)
      PROVE  TypeOK'
  <2>1. PICK r \in Requests[p] \cup Unmark :
           /\ req' = [req EXCEPT ![p] = r]
           /\ mark' = [mark EXCEPT ![p] = IF r.op = "unmark" THEN None ELSE @]
    BY <1>1 DEF Call
  <2>2. r \in Request \cup Unmark
    BY StoreAssumption
  <2>3. /\ pc' = [pc EXCEPT ![p] = "read"]
        /\ began' = [began EXCEPT ![p] = version]
        /\ issued' = [issued EXCEPT ![p] = @ + 1]
        /\ UNCHANGED <<storeVars, worldVars, changeVars, used, step, tries, inner, late, faults>>
    BY <1>1 DEF Call
  <2> QED BY <2>1, <2>2, <2>3 DEF TypeOK, storeVars, worldVars, changeVars
<1>2. ASSUME NEW p \in Procs, Read(p)
      PROVE  TypeOK'
  <2>0. PICK id \in Ids \ used : \E d \in Effects(Txn(p), p, id, View, doc) : ReadTo(p, id, d)
    BY <1>2 DEF Read, ReadTo
  <2>1. PICK d \in Effects(Txn(p), p, id, View, doc) : ReadTo(p, id, d)
    BY <2>0
  <2>2. d \in Doc
    BY <1>2, TxnType, ViewsType, EffectsType DEF Read, TypeOK
  <2>3. /\ base' = [base EXCEPT ![p] = version]
        /\ UNCHANGED <<storeVars, worldVars, callVars, issued, mark, late, faults>>
    BY <1>2 DEF Read
  <2> QED BY <2>1, <2>2, <2>3 DEF ReadTo, TypeOK, storeVars, worldVars, callVars
<1>3. ASSUME NEW p \in Procs, ReadFails(p)
      PROVE  TypeOK'
  <2>1. Leave(p) /\ UNCHANGED <<doc, version, now, alive, used, issued, late, faults>>
    BY <1>3 DEF ReadFails, storeVars, worldVars, sessionVars
  <2>2. mark' \in [Procs -> Ids \cup {None}]
    BY <1>3 DEF ReadFails, sessionVars, TypeOK
  <2> QED BY <2>1, <2>2, LeaveType DEF TypeOK
<1>4. ASSUME NEW p \in Procs, Put(p)
      PROVE  TypeOK'
  BY <1>4 DEF Put, Store, TypeOK, worldVars, callVars, changeVars, sessionVars
<1>5. ASSUME NEW p \in Procs, Conflict(p)
      PROVE  TypeOK'
  <2>1. tries[p] + 1 \in 0..Attempts /\ inner[p] + 1 \in 0..Attempts
    BY StoreAssumption DEF TypeOK, Counting, IInv
  <2>2. 1 \in 1..3 /\ 0 \in 0..Attempts
    BY StoreAssumption
  <2> QED BY <1>5, <2>1, <2>2 DEF Conflict, TypeOK, storeVars, worldVars, changeVars, sessionVars
<1>6. ASSUME NEW p \in Procs, GiveUp(p)
      PROVE  TypeOK'
  <2>1. Leave(p) /\ UNCHANGED <<doc, version, now, alive, used, issued, late, faults>>
    BY <1>6 DEF GiveUp, storeVars, worldVars, sessionVars
  <2>2. mark' \in [Procs -> Ids \cup {None}]
    BY <1>6 DEF GiveUp, sessionVars, TypeOK
  <2> QED BY <2>1, <2>2, LeaveType DEF TypeOK
<1>7. ASSUME NEW p \in Procs, TimeOut(p)
      PROVE  TypeOK'
  <2>1. Leave(p) /\ UNCHANGED <<doc, version, now, alive, used, issued, mark>>
    BY <1>7 DEF TimeOut, storeVars, worldVars, sessionVars
  <2>2. pc[p] = "put" => Sent(p) \in Write
    BY TxnType DEF Sent, Write, TypeOK, IInv
  <2>3. faults' \in 0..MaxFaults /\ late' \subseteq Write
    BY <1>7, <2>2, StoreAssumption DEF TimeOut, TypeOK
  <2> QED BY <2>1, <2>3, LeaveType DEF TypeOK
<1>8. ASSUME NEW p \in Procs, Proceed(p)
      PROVE  TypeOK'
  <2>1. step[p] + 1 \in 1..3
    BY <1>8, TxnsType DEF Proceed, CallOK, IInv
  <2> QED BY <1>8, <2>1 DEF Proceed, TypeOK, storeVars, worldVars, changeVars, sessionVars
<1>9. ASSUME NEW p \in Procs, Return(p)
      PROVE  TypeOK'
  <2>1. Leave(p) /\ UNCHANGED <<doc, version, now, alive, used, issued, late, faults>>
    BY <1>9 DEF Return, storeVars, worldVars
  <2>2. mark' \in [Procs -> Ids \cup {None}]
    BY <1>9 DEF Return, TypeOK
  <2> QED BY <2>1, <2>2, LeaveType DEF TypeOK
<1>10. ASSUME NEW p \in Procs, Die(p)
      PROVE  TypeOK'
  <2>1. Leave(p) /\ UNCHANGED <<doc, version, now, used, issued, mark>>
    BY <1>10 DEF Die, storeVars, sessionVars
  <2>2. pc[p] = "put" => Sent(p) \in Write
    BY TxnType DEF Sent, Write, TypeOK, IInv
  <2>3. faults' \in 0..MaxFaults /\ late' \subseteq Write /\ alive' \subseteq Procs
    BY <1>10, <2>2, StoreAssumption DEF Die, TypeOK
  <2> QED BY <2>1, <2>3, LeaveType DEF TypeOK
<1>11. ASSUME NEW m \in late, Land(m)
      PROVE  TypeOK'
  BY <1>11 DEF Land, Store, TypeOK, Write, worldVars, callVars, changeVars, sessionVars
<1>12. ASSUME NEW m \in late, Vanish(m)
      PROVE  TypeOK'
  BY <1>12 DEF Vanish, TypeOK, storeVars, worldVars, callVars, changeVars, sessionVars
<1>13. CASE Tick
  BY <1>13, StoreAssumption DEF Tick, TypeOK, storeVars, callVars, changeVars, sessionVars
<1>14. CASE UNCHANGED vars
  BY <1>14 DEF TypeOK, vars, storeVars, worldVars, callVars, changeVars, sessionVars
<1> QED BY <1>1, <1>2, <1>3, <1>4, <1>5, <1>6, <1>7, <1>8, <1>9, <1>10, <1>11, <1>12, <1>13, <1>14 DEF Next

\* A call stays at a transaction of its request until it is over.
LEMMA CallStep == IInv /\ [Next]_vars => CallOK'
<1> SUFFICES ASSUME IInv, [Next]_vars
             PROVE  CallOK'
  OBVIOUS
<1> USE DEF IInv
<1>1. ASSUME NEW p \in Procs, Call(p)
      PROVE  CallOK'
  <2>1. PICK r \in Requests[p] \cup Unmark : req' = [req EXCEPT ![p] = r]
    BY <1>1 DEF Call
  <2>2. r \in Request \cup Unmark /\ Len(Txns(r)) \in 1..3
    BY StoreAssumption, TxnsType
  <2>3. pc[p] = "idle" /\ pc' = [pc EXCEPT ![p] = "read"] /\ UNCHANGED <<step, tries, inner>>
    BY <1>1 DEF Call
  <2>4. 1 \in 1..Len(Txns(r))
    BY <2>2
  <2> QED BY <2>1, <2>2, <2>3, <2>4 DEF CallOK, TypeOK
<1>2. ASSUME NEW p \in Procs, Read(p)
      PROVE  CallOK'
  <2>1. UNCHANGED <<req, step, tries, inner>>
    BY <1>2 DEF Read, callVars
  <2>2. pc[p] = "read" /\ \A q \in Procs : q # p => pc'[q] = pc[q]
    BY <1>2 DEF Read, TypeOK
  <2>3. pc'[p] # "idle"
    BY <1>2 DEF Read, TypeOK
  <2> QED BY <2>1, <2>2, <2>3 DEF CallOK
<1>3. ASSUME NEW p \in Procs, ReadFails(p)
      PROVE  CallOK'
  <2>1. Leave(p)
    BY <1>3 DEF ReadFails
  <2> QED BY <2>1 DEF Leave, CallOK, TypeOK
<1>4. ASSUME NEW p \in Procs, Put(p)
      PROVE  CallOK'
  BY <1>4 DEF Put, CallOK, TypeOK, callVars
<1>5. ASSUME NEW p \in Procs, Conflict(p)
      PROVE  CallOK'
  <2>1. 1 \in 1..Len(Txns(req[p]))
    BY <1>5, TxnsType DEF Conflict, CallOK
  <2> QED BY <1>5, <2>1 DEF Conflict, CallOK, TypeOK
<1>6. ASSUME NEW p \in Procs, GiveUp(p)
      PROVE  CallOK'
  <2>1. Leave(p)
    BY <1>6 DEF GiveUp
  <2> QED BY <2>1 DEF Leave, CallOK, TypeOK
<1>7. ASSUME NEW p \in Procs, TimeOut(p)
      PROVE  CallOK'
  <2>1. Leave(p)
    BY <1>7 DEF TimeOut
  <2> QED BY <2>1 DEF Leave, CallOK, TypeOK
<1>8. ASSUME NEW p \in Procs, Proceed(p)
      PROVE  CallOK'
  <2>1. step[p] + 1 \in 1..Len(Txns(req[p]))
    BY <1>8, TxnsType DEF Proceed, CallOK
  <2> QED BY <1>8, <2>1 DEF Proceed, CallOK, TypeOK
<1>9. ASSUME NEW p \in Procs, Return(p)
      PROVE  CallOK'
  <2>1. Leave(p)
    BY <1>9 DEF Return
  <2> QED BY <2>1 DEF Leave, CallOK, TypeOK
<1>10. ASSUME NEW p \in Procs, Die(p)
      PROVE  CallOK'
  <2>1. Leave(p)
    BY <1>10 DEF Die
  <2> QED BY <2>1 DEF Leave, CallOK, TypeOK
<1>11. ASSUME NEW m \in late, Land(m)
      PROVE  CallOK'
  BY <1>11 DEF Land, CallOK, callVars
<1>12. ASSUME NEW m \in late, Vanish(m)
      PROVE  CallOK'
  BY <1>12 DEF Vanish, CallOK, callVars
<1>13. CASE Tick
  BY <1>13 DEF Tick, CallOK, callVars
<1>14. CASE UNCHANGED vars
  BY <1>14 DEF vars, CallOK, callVars
<1> QED BY <1>1, <1>2, <1>3, <1>4, <1>5, <1>6, <1>7, <1>8, <1>9, <1>10, <1>11, <1>12, <1>13, <1>14 DEF Next

\* A conflict is counted only when the version has moved on.
LEMMA CountingStep == IInv /\ [Next]_vars => Counting'
<1> SUFFICES ASSUME IInv, [Next]_vars
             PROVE  Counting'
  OBVIOUS
<1> USE DEF IInv
<1>1. ASSUME NEW p \in Procs, Call(p)
      PROVE  Counting'
  <2>1. /\ pc' = [pc EXCEPT ![p] = "read"] /\ began' = [began EXCEPT ![p] = version]
        /\ UNCHANGED <<version, base, tries, inner>> /\ tries[p] = 0 /\ inner[p] = 0
    BY <1>1 DEF Call, CallOK, storeVars, changeVars
  <2> QED BY <2>1 DEF Counting, TypeOK
<1>2. ASSUME NEW p \in Procs, Read(p)
      PROVE  Counting'
  <2>1. /\ pc[p] = "read" /\ pc'[p] \in {"put", "done"}
        /\ \A q \in Procs : q # p => pc'[q] = pc[q]
    BY <1>2 DEF Read, TypeOK
  <2>2. base' = [base EXCEPT ![p] = version] /\ UNCHANGED <<version, tries, inner, began>>
    BY <1>2 DEF Read, storeVars, callVars
  <2> QED BY <2>1, <2>2 DEF Counting, TypeOK
<1>3. ASSUME NEW p \in Procs, ReadFails(p)
      PROVE  Counting'
  <2>1. Leave(p) /\ version' = version
    BY <1>3 DEF ReadFails, storeVars
  <2> QED BY <2>1, StoreAssumption DEF Leave, Counting, TypeOK
<1>4. ASSUME NEW p \in Procs, Put(p)
      PROVE  Counting'
  <2>1. pc[p] = "put" /\ pc' = [pc EXCEPT ![p] = "done"]
    BY <1>4 DEF Put
  <2>2. version' = version + 1 /\ UNCHANGED <<tries, inner, began, base>>
    BY <1>4 DEF Put, Store, callVars, changeVars
  <2> QED BY <2>1, <2>2 DEF Counting, TypeOK
<1>5. ASSUME NEW p \in Procs, Conflict(p)
      PROVE  Counting'
  <2>1. /\ pc[p] = "put" /\ base[p] < version
        /\ Nested(p) => inner[p] + 1 # Attempts
        /\ ~Nested(p) => tries[p] + 1 # Attempts
    BY <1>5 DEF Conflict, LastTry, TypeOK
  <2>2. /\ pc' = [pc EXCEPT ![p] = "read"] /\ UNCHANGED <<version, began, base>>
        /\ Nested(p) => inner'[p] = inner[p] + 1 /\ tries'[p] = tries[p]
        /\ ~Nested(p) => inner'[p] = 0 /\ tries'[p] = tries[p] + 1
        /\ \A q \in Procs : q # p => inner'[q] = inner[q] /\ tries'[q] = tries[q]
    BY <1>5 DEF Conflict, storeVars, changeVars, TypeOK
  <2>3. /\ tries[p] \in Nat /\ inner[p] \in Nat /\ version \in Nat /\ base[p] \in Nat /\ began[p] \in Nat
        /\ tries[p] < Attempts /\ inner[p] < Attempts /\ Attempts \in Nat
        /\ began[p] + tries[p] + inner[p] <= base[p]
    BY <2>1, StoreAssumption DEF Counting, TypeOK
  <2>4. /\ tries'[p] < Attempts /\ inner'[p] < Attempts
        /\ began[p] + tries'[p] + inner'[p] <= version
    <3>1. CASE Nested(p)
      BY <2>1, <2>2, <2>3, <3>1
    <3>2. CASE ~Nested(p)
      BY <2>1, <2>2, <2>3, <3>2
    <3> QED BY <3>1, <3>2
  <2> QED BY <2>2, <2>4 DEF Counting, TypeOK
<1>6. ASSUME NEW p \in Procs, GiveUp(p)
      PROVE  Counting'
  <2>1. Leave(p) /\ version' = version
    BY <1>6 DEF GiveUp, storeVars
  <2> QED BY <2>1, StoreAssumption DEF Leave, Counting, TypeOK
<1>7. ASSUME NEW p \in Procs, TimeOut(p)
      PROVE  Counting'
  <2>1. Leave(p) /\ version' = version
    BY <1>7 DEF TimeOut, storeVars
  <2> QED BY <2>1, StoreAssumption DEF Leave, Counting, TypeOK
<1>8. ASSUME NEW p \in Procs, Proceed(p)
      PROVE  Counting'
  <2>1. /\ pc[p] = "done" /\ pc' = [pc EXCEPT ![p] = "read"]
        /\ UNCHANGED <<version, base, began, tries, inner>>
    BY <1>8 DEF Proceed, storeVars, changeVars
  <2> QED BY <2>1 DEF Counting, TypeOK
<1>9. ASSUME NEW p \in Procs, Return(p)
      PROVE  Counting'
  <2>1. Leave(p) /\ version' = version
    BY <1>9 DEF Return, storeVars
  <2> QED BY <2>1, StoreAssumption DEF Leave, Counting, TypeOK
<1>10. ASSUME NEW p \in Procs, Die(p)
      PROVE  Counting'
  <2>1. Leave(p) /\ version' = version
    BY <1>10 DEF Die, storeVars
  <2> QED BY <2>1, StoreAssumption DEF Leave, Counting, TypeOK
<1>11. ASSUME NEW m \in late, Land(m)
      PROVE  Counting'
  BY <1>11 DEF Land, Store, Counting, TypeOK, callVars, changeVars
<1>12. ASSUME NEW m \in late, Vanish(m)
      PROVE  Counting'
  BY <1>12 DEF Vanish, Counting, storeVars, callVars, changeVars
<1>13. CASE Tick
  BY <1>13 DEF Tick, Counting, storeVars, callVars, changeVars
<1>14. CASE UNCHANGED vars
  BY <1>14 DEF vars, Counting, storeVars, callVars, changeVars
<1> QED BY <1>1, <1>2, <1>3, <1>4, <1>5, <1>6, <1>7, <1>8, <1>9, <1>10, <1>11, <1>12, <1>13, <1>14 DEF Next

\* A call that is over leaves at most one write behind.
LEMMA LateStep == IInv /\ [Next]_vars => LateOK'
<1> SUFFICES ASSUME IInv, [Next]_vars
             PROVE  LateOK'
  OBVIOUS
<1> USE DEF IInv
<1>1. ASSUME NEW p \in Procs, Call(p)
      PROVE  LateOK'
  <2>1. /\ late' = late /\ issued' = [issued EXCEPT ![p] = issued[p] + 1]
        /\ pc' = [pc EXCEPT ![p] = "read"] /\ pc[p] = "idle"
    BY <1>1 DEF Call, TypeOK
  <2>2. \A m \in late : m.proc \in Procs /\ m.call \in Nat
    BY DEF TypeOK, Write
  <2> QED BY <2>1, <2>2 DEF LateOK, TypeOK
<1>2. ASSUME NEW p \in Procs, Read(p)
      PROVE  LateOK'
  <2>1. UNCHANGED <<late, issued>> /\ \A q \in Procs : pc'[q] # "idle" => pc[q] # "idle"
    BY <1>2 DEF Read, TypeOK, sessionVars
  <2> QED BY <2>1 DEF LateOK, TypeOK, Write
<1>3. ASSUME NEW p \in Procs, ReadFails(p)
      PROVE  LateOK'
  <2>1. UNCHANGED <<late, issued>> /\ pc' = [pc EXCEPT ![p] = "idle"]
    BY <1>3 DEF ReadFails, Leave, sessionVars
  <2> QED BY <2>1 DEF LateOK, TypeOK, Write
<1>4. ASSUME NEW p \in Procs, Put(p)
      PROVE  LateOK'
  <2>1. UNCHANGED <<late, issued>> /\ \A q \in Procs : pc'[q] # "idle" => pc[q] # "idle"
    BY <1>4 DEF Put, TypeOK, sessionVars
  <2> QED BY <2>1 DEF LateOK, TypeOK, Write
<1>5. ASSUME NEW p \in Procs, Conflict(p)
      PROVE  LateOK'
  <2>1. UNCHANGED <<late, issued>> /\ \A q \in Procs : pc'[q] # "idle" => pc[q] # "idle"
    BY <1>5 DEF Conflict, TypeOK, sessionVars
  <2> QED BY <2>1 DEF LateOK, TypeOK, Write
<1>6. ASSUME NEW p \in Procs, GiveUp(p)
      PROVE  LateOK'
  <2>1. UNCHANGED <<late, issued>> /\ pc' = [pc EXCEPT ![p] = "idle"]
    BY <1>6 DEF GiveUp, Leave, sessionVars
  <2> QED BY <2>1 DEF LateOK, TypeOK, Write
<1>7. ASSUME NEW p \in Procs, TimeOut(p)
      PROVE  LateOK'
  <2>1. late' = late \cup {Sent(p)} /\ issued' = issued /\ pc' = [pc EXCEPT ![p] = "idle"] /\ pc[p] = "put"
    BY <1>7 DEF TimeOut, Leave, sessionVars
  <2>2. \A m \in late : m.proc \in Procs /\ m.call \in Nat /\ (m.proc = p => m.call < issued[p])
    BY <2>1 DEF TypeOK, Write, LateOK
  <2>3. Sent(p).proc = p /\ Sent(p).call = issued[p]
    BY DEF Sent
  <2> QED BY <2>1, <2>2, <2>3 DEF LateOK, TypeOK
<1>8. ASSUME NEW p \in Procs, Proceed(p)
      PROVE  LateOK'
  <2>1. UNCHANGED <<late, issued>> /\ \A q \in Procs : pc'[q] # "idle" => pc[q] # "idle"
    BY <1>8 DEF Proceed, TypeOK, sessionVars
  <2> QED BY <2>1 DEF LateOK, TypeOK, Write
<1>9. ASSUME NEW p \in Procs, Return(p)
      PROVE  LateOK'
  <2>1. UNCHANGED <<late, issued>> /\ pc' = [pc EXCEPT ![p] = "idle"]
    BY <1>9 DEF Return, Leave, sessionVars
  <2> QED BY <2>1 DEF LateOK, TypeOK, Write
<1>10. ASSUME NEW p \in Procs, Die(p)
      PROVE  LateOK'
  <2>1. /\ issued' = issued /\ pc' = [pc EXCEPT ![p] = "idle"]
        /\ late' = late \/ (pc[p] = "put" /\ late' = late \cup {Sent(p)})
    BY <1>10 DEF Die, Leave, sessionVars
  <2>2. \A m \in late : m.proc \in Procs /\ m.call \in Nat
    BY DEF TypeOK, Write
  <2>3. Sent(p).proc = p /\ Sent(p).call = issued[p]
    BY DEF Sent
  <2>4. pc[p] = "put" => \A m \in late : m.proc = p => m.call < issued[p]
    BY DEF LateOK
  <2> QED BY <2>1, <2>2, <2>3, <2>4 DEF LateOK, TypeOK
<1>11. ASSUME NEW m \in late, Land(m)
      PROVE  LateOK'
  BY <1>11 DEF Land, LateOK, sessionVars
<1>12. ASSUME NEW m \in late, Vanish(m)
      PROVE  LateOK'
  BY <1>12 DEF Vanish, LateOK, sessionVars
<1>13. CASE Tick
  BY <1>13 DEF Tick, LateOK, sessionVars
<1>14. CASE UNCHANGED vars
  BY <1>14 DEF vars, LateOK, sessionVars
<1> QED BY <1>1, <1>2, <1>3, <1>4, <1>5, <1>6, <1>7, <1>8, <1>9, <1>10, <1>11, <1>12, <1>13, <1>14 DEF Next

\* A write the store would take still is what its transaction makes of the document.
LEMMA CurrentStep == IInv /\ [Next]_vars => Current'
<1> SUFFICES ASSUME IInv, [Next]_vars
             PROVE  Current'
  OBVIOUS
<1> USE DEF IInv
<1>t. now \in Nat /\ alive \subseteq Procs /\ version \in Nat
  BY StoreAssumption DEF TypeOK
<1>f. ASSUME UNCHANGED <<doc, version>>, now' = now \/ now' = now + 1, alive' \subseteq alive,
             \A q \in Procs : pc'[q] = "put" =>
                 /\ pc[q] = "put" /\ base'[q] = base[q] /\ want'[q] = want[q]
                 /\ req'[q] = req[q] /\ step'[q] = step[q],
             \/ late' \subseteq late
             \/ \E q \in Procs : pc[q] = "put" /\ late' = late \cup {Sent(q)}
      PROVE  Current'
  <2>1. Views \subseteq Views'
    BY <1>f, <1>t DEF Views
  <2>2. \A d, t, q : Fits(d, t, q, Views, doc) => Fits(d, t, q, Views', doc')
    BY <1>f, <2>1 DEF Fits
  <2>3. ASSUME NEW q \in Procs, pc'[q] = "put", base'[q] = version'
        PROVE  Fits(want'[q], Txns(req'[q])[step'[q]], q, Views', doc')
    BY <1>f, <2>2, <2>3 DEF Current, Txn
  <2>4. \A n \in late : /\ n.base <= version'
                        /\ n.base = version' => Fits(n.want, n.txn, n.proc, Views', doc')
    BY <1>f, <2>2 DEF Current
  <2>5. ASSUME NEW q \in Procs, pc[q] = "put"
        PROVE  /\ Sent(q).base <= version'
               /\ Sent(q).base = version' => Fits(Sent(q).want, Sent(q).txn, Sent(q).proc, Views', doc')
    BY <1>f, <2>2, <2>5 DEF Current, Sent, TypeOK
  <2> QED BY <1>f, <2>3, <2>4, <2>5 DEF Current, Txn
<1>w. ASSUME version' = version + 1, base' = base, late' \subseteq late
      PROVE  Current'
  <2>1. \A q \in Procs : base'[q] <= version
    BY <1>w DEF TypeOK
  <2>2. \A n \in late' : n.base <= version /\ n.base \in Nat
    BY <1>w DEF Current, TypeOK, Write
  <2> QED BY <1>t, <1>w, <2>1, <2>2 DEF Current, TypeOK
<1>1. ASSUME NEW p \in Procs, Call(p)
      PROVE  Current'
  <2>1. UNCHANGED <<doc, version, now, alive>>
    BY <1>1 DEF Call, storeVars, worldVars
  <2>2. /\ late' \subseteq late
        /\ \A q \in Procs : pc'[q] = "put" =>
              /\ pc[q] = "put" /\ base'[q] = base[q] /\ want'[q] = want[q]
              /\ req'[q] = req[q] /\ step'[q] = step[q]
    BY <1>1 DEF Call, TypeOK, callVars, changeVars, storeVars, worldVars
  <2> QED BY <2>1, <2>2, <1>f
<1>2. ASSUME NEW p \in Procs, Read(p)
      PROVE  Current'
  <2>0. PICK id \in Ids \ used : \E d \in Effects(Txn(p), p, id, View, doc) : ReadTo(p, id, d)
    BY <1>2 DEF Read, ReadTo
  <2>1. PICK d \in Effects(Txn(p), p, id, View, doc) : ReadTo(p, id, d)
    BY <2>0
  <2>2. IdsOf(doc) \subseteq used
    BY DEF Owners, Known, IdsOf, TypeOK, Doc
  <2>3. Fits(d, Txn(p), p, Views, doc)
    BY <2>1, <2>2, ViewsType DEF Fits
  <2>4. UNCHANGED <<doc, version, now, alive, req, step, late>> /\ base' = [base EXCEPT ![p] = version]
    BY <1>2 DEF Read, storeVars, worldVars, callVars
  <2>5. Views' = Views
    BY <2>4 DEF Views
  <2>6. /\ want'[p] = d
        /\ \A q \in Procs : q # p => want'[q] = want[q] /\ pc'[q] = pc[q] /\ base'[q] = base[q]
    BY <2>1, <2>4 DEF ReadTo, TypeOK
  <2> QED BY <2>3, <2>4, <2>5, <2>6 DEF Current, Txn
<1>3. ASSUME NEW p \in Procs, ReadFails(p)
      PROVE  Current'
  <2>1. UNCHANGED <<doc, version, now, alive>>
    BY <1>3 DEF ReadFails, storeVars, worldVars
  <2>2. /\ late' \subseteq late
        /\ \A q \in Procs : pc'[q] = "put" =>
              /\ pc[q] = "put" /\ base'[q] = base[q] /\ want'[q] = want[q]
              /\ req'[q] = req[q] /\ step'[q] = step[q]
    BY <1>3 DEF ReadFails, Leave, TypeOK, callVars, changeVars, storeVars, worldVars
  <2> QED BY <2>1, <2>2, <1>f
<1>4. ASSUME NEW p \in Procs, Put(p)
      PROVE  Current'
  <2>1. version' = version + 1 /\ UNCHANGED <<base, late>>
    BY <1>4 DEF Put, Store, changeVars
  <2> QED BY <2>1, <1>w
<1>5. ASSUME NEW p \in Procs, Conflict(p)
      PROVE  Current'
  <2>1. UNCHANGED <<doc, version, now, alive>>
    BY <1>5 DEF Conflict, storeVars, worldVars
  <2>2. /\ late' \subseteq late
        /\ \A q \in Procs : pc'[q] = "put" =>
              /\ pc[q] = "put" /\ base'[q] = base[q] /\ want'[q] = want[q]
              /\ req'[q] = req[q] /\ step'[q] = step[q]
    BY <1>5 DEF Conflict, TypeOK, callVars, changeVars, storeVars, worldVars
  <2> QED BY <2>1, <2>2, <1>f
<1>6. ASSUME NEW p \in Procs, GiveUp(p)
      PROVE  Current'
  <2>1. UNCHANGED <<doc, version, now, alive>>
    BY <1>6 DEF GiveUp, storeVars, worldVars
  <2>2. /\ late' \subseteq late
        /\ \A q \in Procs : pc'[q] = "put" =>
              /\ pc[q] = "put" /\ base'[q] = base[q] /\ want'[q] = want[q]
              /\ req'[q] = req[q] /\ step'[q] = step[q]
    BY <1>6 DEF GiveUp, Leave, TypeOK, callVars, changeVars, storeVars, worldVars
  <2> QED BY <2>1, <2>2, <1>f
<1>7. ASSUME NEW p \in Procs, TimeOut(p)
      PROVE  Current'
  <2>1. UNCHANGED <<doc, version, now, alive>> /\ pc[p] = "put"
    BY <1>7 DEF TimeOut, storeVars, worldVars
  <2>2. /\ late' = late \cup {Sent(p)}
        /\ \A q \in Procs : pc'[q] = "put" =>
              /\ pc[q] = "put" /\ base'[q] = base[q] /\ want'[q] = want[q]
              /\ req'[q] = req[q] /\ step'[q] = step[q]
    BY <1>7 DEF TimeOut, Leave, TypeOK
  <2> QED BY <2>1, <2>2, <1>f
<1>8. ASSUME NEW p \in Procs, Proceed(p)
      PROVE  Current'
  <2>1. UNCHANGED <<doc, version, now, alive>>
    BY <1>8 DEF Proceed, storeVars, worldVars
  <2>2. /\ late' \subseteq late
        /\ \A q \in Procs : pc'[q] = "put" =>
              /\ pc[q] = "put" /\ base'[q] = base[q] /\ want'[q] = want[q]
              /\ req'[q] = req[q] /\ step'[q] = step[q]
    BY <1>8 DEF Proceed, TypeOK, callVars, changeVars, storeVars, worldVars
  <2> QED BY <2>1, <2>2, <1>f
<1>9. ASSUME NEW p \in Procs, Return(p)
      PROVE  Current'
  <2>1. UNCHANGED <<doc, version, now, alive>>
    BY <1>9 DEF Return, storeVars, worldVars
  <2>2. /\ late' \subseteq late
        /\ \A q \in Procs : pc'[q] = "put" =>
              /\ pc[q] = "put" /\ base'[q] = base[q] /\ want'[q] = want[q]
              /\ req'[q] = req[q] /\ step'[q] = step[q]
    BY <1>9 DEF Return, Leave, TypeOK, callVars, changeVars, storeVars, worldVars
  <2> QED BY <2>1, <2>2, <1>f
<1>10. ASSUME NEW p \in Procs, Die(p)
      PROVE  Current'
  <2>1. UNCHANGED <<doc, version, now>> /\ alive' \subseteq alive
    BY <1>10 DEF Die, storeVars
  <2>2. /\ late' \subseteq late \/ (pc[p] = "put" /\ late' = late \cup {Sent(p)})
        /\ \A q \in Procs : pc'[q] = "put" =>
              /\ pc[q] = "put" /\ base'[q] = base[q] /\ want'[q] = want[q]
              /\ req'[q] = req[q] /\ step'[q] = step[q]
    BY <1>10 DEF Die, Leave, TypeOK
  <2> QED BY <2>1, <2>2, <1>f
<1>11. ASSUME NEW m \in late, Land(m)
      PROVE  Current'
  <2>1. version' = version + 1 /\ base' = base /\ late' \subseteq late
    BY <1>11 DEF Land, Store, changeVars
  <2> QED BY <2>1, <1>w
<1>12. ASSUME NEW m \in late, Vanish(m)
      PROVE  Current'
  <2>1. UNCHANGED <<doc, version, now, alive>>
    BY <1>12 DEF Vanish, storeVars, worldVars
  <2>2. /\ late' \subseteq late
        /\ \A q \in Procs : pc'[q] = "put" =>
              /\ pc[q] = "put" /\ base'[q] = base[q] /\ want'[q] = want[q]
              /\ req'[q] = req[q] /\ step'[q] = step[q]
    BY <1>12 DEF Vanish, TypeOK, callVars, changeVars, storeVars, worldVars
  <2> QED BY <2>1, <2>2, <1>f
<1>13. CASE Tick
  <2>1. UNCHANGED <<doc, version, alive>> /\ now' = now + 1
    BY <1>13 DEF Tick, storeVars
  <2>2. UNCHANGED <<late, pc, base, want, req, step>>
    BY <1>13 DEF Tick, callVars, changeVars
  <2> QED BY <2>1, <2>2, <1>f
<1>14. CASE UNCHANGED vars
  <2>1. UNCHANGED <<doc, version, now, alive>>
    BY <1>14 DEF vars, storeVars, worldVars, callVars, changeVars, sessionVars
  <2>2. /\ late' \subseteq late
        /\ \A q \in Procs : pc'[q] = "put" =>
              /\ pc[q] = "put" /\ base'[q] = base[q] /\ want'[q] = want[q]
              /\ req'[q] = req[q] /\ step'[q] = step[q]
    BY <1>14 DEF vars, storeVars, worldVars, callVars, changeVars, sessionVars, TypeOK
  <2> QED BY <2>1, <2>2, <1>f
<1> QED BY <1>1, <1>2, <1>3, <1>4, <1>5, <1>6, <1>7, <1>8, <1>9, <1>10, <1>11, <1>12, <1>13, <1>14 DEF Next

\* Only a read brings new leases into the world.
LEMMA KnownStep == IInv /\ [Next]_vars =>
    (Known' \subseteq Known /\ used' = used) \/ \E r \in Procs : Read(r)
<1> SUFFICES ASSUME IInv, [Next]_vars
             PROVE  (Known' \subseteq Known /\ used' = used) \/ \E r \in Procs : Read(r)
  OBVIOUS
<1> USE DEF IInv
<1>1. ASSUME NEW p \in Procs, Call(p)
      PROVE  (Known' \subseteq Known /\ used' = used) \/ \E r \in Procs : Read(r)
  <2>1. UNCHANGED <<doc, want, used, late>>
    BY <1>1 DEF Call, storeVars, changeVars, sessionVars
  <2> QED BY <2>1 DEF Known
<1>2. ASSUME NEW p \in Procs, Read(p)
      PROVE  (Known' \subseteq Known /\ used' = used) \/ \E r \in Procs : Read(r)
  BY <1>2
<1>3. ASSUME NEW p \in Procs, ReadFails(p)
      PROVE  (Known' \subseteq Known /\ used' = used) \/ \E r \in Procs : Read(r)
  <2>1. UNCHANGED <<doc, used, late>> /\ want' = [want EXCEPT ![p] = EmptyDoc]
    BY <1>3 DEF ReadFails, Leave, storeVars, sessionVars
  <2>2. \A q \in Procs : want'[q].leases \subseteq want[q].leases
    BY <2>1 DEF EmptyDoc, TypeOK
  <2> QED BY <2>1, <2>2 DEF Known
<1>4. ASSUME NEW p \in Procs, Put(p)
      PROVE  (Known' \subseteq Known /\ used' = used) \/ \E r \in Procs : Read(r)
  <2>1. doc' = want[p] /\ UNCHANGED <<want, used, late>>
    BY <1>4 DEF Put, Store, changeVars, sessionVars
  <2> QED BY <2>1 DEF Known
<1>5. ASSUME NEW p \in Procs, Conflict(p)
      PROVE  (Known' \subseteq Known /\ used' = used) \/ \E r \in Procs : Read(r)
  <2>1. UNCHANGED <<doc, want, used, late>>
    BY <1>5 DEF Conflict, storeVars, changeVars, sessionVars
  <2> QED BY <2>1 DEF Known
<1>6. ASSUME NEW p \in Procs, GiveUp(p)
      PROVE  (Known' \subseteq Known /\ used' = used) \/ \E r \in Procs : Read(r)
  <2>1. UNCHANGED <<doc, used, late>> /\ want' = [want EXCEPT ![p] = EmptyDoc]
    BY <1>6 DEF GiveUp, Leave, storeVars, sessionVars
  <2>2. \A q \in Procs : want'[q].leases \subseteq want[q].leases
    BY <2>1 DEF EmptyDoc, TypeOK
  <2> QED BY <2>1, <2>2 DEF Known
<1>7. ASSUME NEW p \in Procs, TimeOut(p)
      PROVE  (Known' \subseteq Known /\ used' = used) \/ \E r \in Procs : Read(r)
  <2>1. /\ UNCHANGED <<doc, used>> /\ want' = [want EXCEPT ![p] = EmptyDoc]
        /\ late' \subseteq late \cup {Sent(p)}
    BY <1>7 DEF TimeOut, Leave, storeVars, sessionVars
  <2>2. \A q \in Procs : want'[q].leases \subseteq want[q].leases
    BY <2>1 DEF EmptyDoc, TypeOK
  <2>3. \A n \in late' : n \in late \/ n.want = want[p]
    BY <2>1 DEF Sent
  <2>4. ASSUME NEW l \in Known'
        PROVE  l \in Known
    <3>1. CASE l \in doc'.leases
      BY <2>1, <3>1 DEF Known
    <3>2. CASE \E q \in Procs : l \in want'[q].leases
      BY <2>2, <3>2 DEF Known
    <3>3. CASE \E n \in late' : l \in n.want.leases
      BY <2>3, <3>3 DEF Known
    <3> QED BY <3>1, <3>2, <3>3 DEF Known
  <2> QED BY <2>1, <2>4
<1>8. ASSUME NEW p \in Procs, Proceed(p)
      PROVE  (Known' \subseteq Known /\ used' = used) \/ \E r \in Procs : Read(r)
  <2>1. UNCHANGED <<doc, want, used, late>>
    BY <1>8 DEF Proceed, storeVars, changeVars, sessionVars
  <2> QED BY <2>1 DEF Known
<1>9. ASSUME NEW p \in Procs, Return(p)
      PROVE  (Known' \subseteq Known /\ used' = used) \/ \E r \in Procs : Read(r)
  <2>1. UNCHANGED <<doc, used, late>> /\ want' = [want EXCEPT ![p] = EmptyDoc]
    BY <1>9 DEF Return, Leave, storeVars, sessionVars
  <2>2. \A q \in Procs : want'[q].leases \subseteq want[q].leases
    BY <2>1 DEF EmptyDoc, TypeOK
  <2> QED BY <2>1, <2>2 DEF Known
<1>10. ASSUME NEW p \in Procs, Die(p)
      PROVE  (Known' \subseteq Known /\ used' = used) \/ \E r \in Procs : Read(r)
  <2>1. /\ UNCHANGED <<doc, used>> /\ want' = [want EXCEPT ![p] = EmptyDoc]
        /\ late' \subseteq late \cup {Sent(p)}
    BY <1>10 DEF Die, Leave, storeVars, sessionVars
  <2>2. \A q \in Procs : want'[q].leases \subseteq want[q].leases
    BY <2>1 DEF EmptyDoc, TypeOK
  <2>3. \A n \in late' : n \in late \/ n.want = want[p]
    BY <2>1 DEF Sent
  <2>4. ASSUME NEW l \in Known'
        PROVE  l \in Known
    <3>1. CASE l \in doc'.leases
      BY <2>1, <3>1 DEF Known
    <3>2. CASE \E q \in Procs : l \in want'[q].leases
      BY <2>2, <3>2 DEF Known
    <3>3. CASE \E n \in late' : l \in n.want.leases
      BY <2>3, <3>3 DEF Known
    <3> QED BY <3>1, <3>2, <3>3 DEF Known
  <2> QED BY <2>1, <2>4
<1>11. ASSUME NEW m \in late, Land(m)
      PROVE  (Known' \subseteq Known /\ used' = used) \/ \E r \in Procs : Read(r)
  <2>1. doc' = m.want /\ UNCHANGED <<want, used>> /\ late' \subseteq late
    BY <1>11 DEF Land, Store, changeVars, sessionVars
  <2>2. ASSUME NEW l \in Known'
        PROVE  l \in Known
    <3>1. CASE l \in doc'.leases
      BY <2>1, <3>1 DEF Known
    <3>2. CASE \E q \in Procs : l \in want'[q].leases
      BY <2>1, <3>2 DEF Known
    <3>3. CASE \E n \in late' : l \in n.want.leases
      BY <2>1, <3>3 DEF Known
    <3> QED BY <3>1, <3>2, <3>3 DEF Known
  <2> QED BY <2>1, <2>2
<1>12. ASSUME NEW m \in late, Vanish(m)
      PROVE  (Known' \subseteq Known /\ used' = used) \/ \E r \in Procs : Read(r)
  <2>1. UNCHANGED <<doc, want, used>> /\ late' \subseteq late
    BY <1>12 DEF Vanish, storeVars, changeVars, sessionVars
  <2> QED BY <2>1 DEF Known
<1>13. CASE Tick
  <2>1. UNCHANGED <<doc, want, used, late>>
    BY <1>13 DEF Tick, storeVars, changeVars, sessionVars
  <2> QED BY <2>1 DEF Known
<1>14. CASE UNCHANGED vars
  <2>1. UNCHANGED <<doc, want, used, late>>
    BY <1>14 DEF vars, storeVars, worldVars, callVars, changeVars, sessionVars
  <2> QED BY <2>1 DEF Known
<1> QED BY <1>1, <1>2, <1>3, <1>4, <1>5, <1>6, <1>7, <1>8, <1>9, <1>10, <1>11, <1>12, <1>13, <1>14 DEF Next

\* What a read adds to the known leases: rows of the store's document, or
\* one row of p under an id never used.
LEMMA ReadRows ==
    ASSUME IInv, NEW p \in Procs, Read(p)
    PROVE  \E id \in Ids \ used :
              /\ used' \subseteq used \cup {id} /\ used \subseteq used'
              /\ fresh' = [fresh EXCEPT ![p] = id] \/ fresh' = [fresh EXCEPT ![p] = None]
              /\ fresh'[p] = id => id \in used'
              /\ \A l \in Known' :
                    \/ l \in Known
                    \/ \E m \in Known : SameLease(m, l)
                    \/ NewRow(l, p, id) /\ id \in used'
<1> USE DEF IInv
<1>1. PICK id \in Ids \ used : \E d \in Effects(Txn(p), p, id, View, doc) : ReadTo(p, id, d)
  BY DEF Read, ReadTo
<1>2. PICK d \in Effects(Txn(p), p, id, View, doc) : ReadTo(p, id, d)
  BY <1>1
<1>3. UNCHANGED <<doc, late>>
  BY DEF Read, storeVars
<1>4. Txn(p) \in Transaction /\ View \in ViewType /\ doc \in Doc
  BY TxnType, ViewsType DEF Read, TypeOK
<1>5. \A l \in d.leases : (\E m \in doc.leases : SameLease(m, l)) \/ NewRow(l, p, id)
  BY <1>4, EffectsRows
<1>6. doc.leases \subseteq Known
  BY <1>4 DEF Known, Doc
<1>7. \A l \in Known' : l \in Known \/ l \in d.leases
  <2>1. want'[p] = d /\ \A q \in Procs : q # p => want'[q] = want[q]
    BY <1>2 DEF ReadTo, TypeOK
  <2> QED BY <1>3, <2>1 DEF Known
<1>8. \A l \in d.leases : NewRow(l, p, id) => id \in used'
  BY <1>2 DEF ReadTo, IdsOf, NewRow
<1>9. /\ used' \subseteq used \cup {id} /\ used \subseteq used'
      /\ fresh' = [fresh EXCEPT ![p] = id] \/ fresh' = [fresh EXCEPT ![p] = None]
      /\ fresh'[p] = id => id \in used'
  <2>1. None # id
    BY IdentityAssumption
  <2> QED BY <1>2, <2>1 DEF ReadTo, TypeOK
<1> QED BY <1>5, <1>6, <1>7, <1>8, <1>9

\* Ids keep their owner.
LEMMA OwnersStep == IInv /\ [Next]_vars => Owners'
<1> SUFFICES ASSUME IInv, [Next]_vars
             PROVE  Owners'
  OBVIOUS
<1> USE DEF IInv
<1>1. CASE Known' \subseteq Known /\ used' = used
  BY <1>1 DEF Owners
<1>2. ASSUME NEW p \in Procs, Read(p)
      PROVE  Owners'
  <2>1. PICK id \in Ids \ used :
              /\ used' \subseteq used \cup {id} /\ used \subseteq used'
              /\ \A l \in Known' :
                    \/ l \in Known
                    \/ \E m \in Known : SameLease(m, l)
                    \/ NewRow(l, p, id) /\ id \in used'
    BY <1>2, ReadRows
  <2>2. \A l \in Known' :
           \/ \E m \in Known : /\ m.id = l.id /\ m.agent = l.agent /\ m.anchor = l.anchor
                               /\ m.kind = l.kind /\ (l.kind = "op" => l.task = m.task)
           \/ /\ l.id = id /\ l.agent = AgentOf[p] /\ l.anchor = MyAnchor(l.agent) /\ id \in used'
              /\ l.kind = "op" => l.task = None
    BY <2>1 DEF SameLease, NewRow
  <2>3. \A m \in Known : m.id # id
    BY <2>1 DEF Owners
  <2>4. \A l \in Known' : /\ l.id \in used' /\ l.anchor = MyAnchor(l.agent)
                          /\ l.kind = "op" => l.task = None
    BY <2>1, <2>2 DEF Owners
  <2>5. \A l, n \in Known' : l.id = n.id => l.agent = n.agent
    BY <2>2, <2>3 DEF Owners
  <2> QED BY <2>4, <2>5 DEF Owners
<1> QED BY <1>1, <1>2, KnownStep

\* A request to give up a mark is a transaction of its own.
LEMMA TxnUnmark ==
    ASSUME CallOK, NEW p \in Procs, pc[p] # "idle", Txn(p).op = "unmark"
    PROVE  Txn(p) = req[p]
<1>1. CASE req[p].op = "take"
  <2>1. step[p] \in 1..3 /\ Len(Txns(req[p])) = 3
    BY <1>1 DEF CallOK, Txns
  <2>2. step[p] = 1 \/ step[p] = 2 \/ step[p] = 3
    BY <2>1
  <2> QED BY <1>1, <2>2 DEF Txn, Txns
<1>2. CASE req[p].op # "take"
  <2>1. Txns(req[p]) = << req[p] >> /\ step[p] \in 1..Len(Txns(req[p]))
    BY <1>2 DEF CallOK, Txns
  <2>2. step[p] = 1
    BY <2>1
  <2> QED BY <2>1, <2>2 DEF Txn
<1> QED BY <1>1, <1>2

\* A mark stays with the process it was given to.
LEMMA MarkStep == IInv /\ [Next]_vars => MarkOwners'
<1> SUFFICES ASSUME IInv, [Next]_vars
             PROVE  MarkOwners'
  OBVIOUS
<1> USE DEF IInv
<1>i. \A l \in Known : l.id # None
  BY IdentityAssumption DEF Owners, TypeOK
<1>r. ASSUME NEW p \in Procs, Read(p)
      PROVE  MarkOwners'
  <2>1. PICK id \in Ids \ used :
              /\ used' \subseteq used \cup {id} /\ used \subseteq used'
              /\ fresh' = [fresh EXCEPT ![p] = id] \/ fresh' = [fresh EXCEPT ![p] = None]
              /\ fresh'[p] = id => id \in used'
              /\ \A l \in Known' :
                    \/ l \in Known
                    \/ \E m \in Known : SameLease(m, l)
                    \/ NewRow(l, p, id) /\ id \in used'
    BY <1>r, ReadRows
  <2>2. UNCHANGED <<mark, req, late>> /\ \A q \in Procs : pc'[q] # "idle" => pc[q] # "idle"
    BY <1>r DEF Read, callVars, TypeOK
  <2>3. \A l \in Known' :
           \/ \E m \in Known : m.id = l.id /\ m.agent = l.agent
           \/ l.id = id /\ l.agent = AgentOf[p]
    BY <2>1 DEF SameLease, NewRow
  <2>4. /\ \A q \in Procs : q # p => fresh'[q] = fresh[q]
        /\ fresh'[p] = id \/ fresh'[p] = None
    BY <2>1 DEF TypeOK
  <2>5. \A m \in Known : m.id # id /\ m.id # None /\ m.id \in used
    BY <1>i, <2>1 DEF Owners
  <2>6. \A q \in Procs : /\ mark[q] # id /\ fresh[q] # id
                         /\ pc[q] # "idle" /\ req[q].op = "unmark" => req[q].id # id
    BY <2>1, IdentityAssumption DEF MarkOwners
  <2>7. \A n \in late : n.txn.op = "unmark" => n.txn.id # id
    BY <2>1 DEF MarkOwners
  <2>8. /\ \A q \in Procs : /\ mark'[q] # None => mark'[q] \in used'
                            /\ fresh'[q] # None => fresh'[q] \in used'
                            /\ pc'[q] # "idle" /\ req'[q].op = "unmark" => req'[q].id \in used'
        /\ \A n \in late' : n.txn.op = "unmark" => n.txn.id \in used'
    BY <2>1, <2>2, <2>4 DEF MarkOwners
  <2>9. ASSUME NEW l \in Known', NEW q \in Procs,
               \/ l.id = mark'[q]
               \/ l.id = fresh'[q]
               \/ pc'[q] # "idle" /\ req'[q].op = "unmark" /\ req'[q].id = l.id
        PROVE  l.agent = AgentOf[q]
    <3>1. CASE l.id = id /\ l.agent = AgentOf[p]
      <4>1. q = p \/ l.id # fresh'[q]
        BY <2>4, <2>6, <3>1
      <4> QED BY <2>2, <2>6, <2>9, <3>1, <4>1
    <3>2. ASSUME NEW m \in Known, m.id = l.id, m.agent = l.agent
          PROVE  l.agent = AgentOf[q]
      BY <2>2, <2>4, <2>5, <2>9, <3>2 DEF MarkOwners
    <3> QED BY <2>3, <3>1, <3>2
  <2>10. ASSUME NEW l \in Known', NEW n \in late', n.txn.op = "unmark", n.txn.id = l.id
         PROVE  l.agent = AgentOf[n.proc]
    BY <2>2, <2>3, <2>7, <2>10 DEF MarkOwners
  <2> QED BY <2>8, <2>9, <2>10 DEF MarkOwners
<1> SUFFICES ASSUME \A q \in Procs : ~Read(q)
             PROVE  MarkOwners'
  BY <1>r
<1>k. Known' \subseteq Known /\ used' = used
  BY KnownStep
<1>s. ASSUME NEW p \in Procs, pc[p] = "put"
      PROVE  /\ Sent(p).txn.op = "unmark" => Sent(p).txn.id \in used
             /\ \A l \in Known : Sent(p).txn.op = "unmark" /\ Sent(p).txn.id = l.id
                                     => l.agent = AgentOf[Sent(p).proc]
  <2>1. Sent(p).txn = Txn(p) /\ Sent(p).proc = p
    BY DEF Sent
  <2>2. Txn(p).op = "unmark" => Txn(p) = req[p]
    BY <1>s, TxnUnmark
  <2> QED BY <1>s, <2>1, <2>2 DEF MarkOwners
<1>l. ASSUME NEW p \in Procs, Leave(p), mark' = mark,
             late' = late \/ (pc[p] = "put" /\ late' = late \cup {Sent(p)})
      PROVE  MarkOwners'
  <2>1. /\ \A q \in Procs : q # p => fresh'[q] = fresh[q] /\ req'[q] = req[q] /\ pc'[q] = pc[q]
        /\ fresh'[p] = None /\ pc'[p] = "idle"
    BY <1>l DEF Leave, TypeOK
  <2>2. \A q \in Procs : /\ mark'[q] # None => mark'[q] \in used'
                         /\ fresh'[q] # None => fresh'[q] \in used'
                         /\ pc'[q] # "idle" /\ req'[q].op = "unmark" => req'[q].id \in used'
    BY <1>k, <1>l, <2>1 DEF MarkOwners
  <2>3. \A n \in late' : n.txn.op = "unmark" => n.txn.id \in used'
    BY <1>k, <1>l, <1>s DEF MarkOwners
  <2>4. \A l \in Known', q \in Procs :
          \/ l.id = mark'[q]
          \/ l.id = fresh'[q]
          \/ pc'[q] # "idle" /\ req'[q].op = "unmark" /\ req'[q].id = l.id
          => l.agent = AgentOf[q]
    BY <1>i, <1>k, <1>l, <2>1 DEF MarkOwners
  <2>5. \A l \in Known', n \in late' :
          n.txn.op = "unmark" /\ n.txn.id = l.id => l.agent = AgentOf[n.proc]
    BY <1>k, <1>l, <1>s DEF MarkOwners
  <2> QED BY <2>2, <2>3, <2>4, <2>5 DEF MarkOwners
<1>1. ASSUME NEW p \in Procs, Call(p)
      PROVE  MarkOwners'
  <2>1. PICK r \in Requests[p] \cup Unmark :
           /\ MayCall(p, r)
           /\ req' = [req EXCEPT ![p] = r]
           /\ mark' = [mark EXCEPT ![p] = IF r.op = "unmark" THEN None ELSE @]
    BY <1>1 DEF Call
  <2>2. UNCHANGED <<fresh, late>> /\ \A q \in Procs : q # p => pc'[q] = pc[q]
    BY <1>1 DEF Call, TypeOK, changeVars
  <2>3. r.op = "unmark" => r.id = mark[p] /\ r.id \in Ids
    BY <2>1, StoreAssumption DEF MayCall, Unmark, Request
  <2>4. /\ req'[p] = r /\ (mark'[p] = None \/ mark'[p] = mark[p])
        /\ \A q \in Procs : q # p => req'[q] = req[q] /\ mark'[q] = mark[q]
    BY <2>1 DEF TypeOK
  <2>5. None \notin Ids
    BY IdentityAssumption
  <2> QED BY <1>k, <1>i, <2>2, <2>3, <2>4, <2>5 DEF MarkOwners
<1>2. ASSUME NEW p \in Procs, Read(p)
      PROVE  MarkOwners'
  BY <1>2
<1>3. ASSUME NEW p \in Procs, ReadFails(p)
      PROVE  MarkOwners'
  <2>1. UNCHANGED <<mark, late>> /\ Leave(p)
    BY <1>3 DEF ReadFails, sessionVars
  <2> QED BY <1>k, <1>l, <2>1
<1>4. ASSUME NEW p \in Procs, Put(p)
      PROVE  MarkOwners'
  <2>1. UNCHANGED <<mark, fresh, req, late>> /\ \A q \in Procs : pc'[q] # "idle" => pc[q] # "idle"
    BY <1>4 DEF Put, TypeOK, callVars, changeVars, sessionVars
  <2> QED BY <1>k, <2>1 DEF MarkOwners
<1>5. ASSUME NEW p \in Procs, Conflict(p)
      PROVE  MarkOwners'
  <2>1. UNCHANGED <<mark, fresh, req, late>> /\ \A q \in Procs : pc'[q] # "idle" => pc[q] # "idle"
    BY <1>5 DEF Conflict, TypeOK, callVars, changeVars, sessionVars
  <2> QED BY <1>k, <2>1 DEF MarkOwners
<1>6. ASSUME NEW p \in Procs, GiveUp(p)
      PROVE  MarkOwners'
  <2>1. UNCHANGED <<mark, late>> /\ Leave(p)
    BY <1>6 DEF GiveUp, sessionVars
  <2> QED BY <1>k, <1>l, <2>1
<1>7. ASSUME NEW p \in Procs, TimeOut(p)
      PROVE  MarkOwners'
  <2>1. mark' = mark /\ Leave(p) /\ (late' = late \/ (pc[p] = "put" /\ late' = late \cup {Sent(p)}))
    BY <1>7 DEF TimeOut, sessionVars
  <2> QED BY <1>k, <1>l, <1>s, <2>1
<1>8. ASSUME NEW p \in Procs, Proceed(p)
      PROVE  MarkOwners'
  <2>1. UNCHANGED <<mark, fresh, req, late>> /\ \A q \in Procs : pc'[q] # "idle" => pc[q] # "idle"
    BY <1>8 DEF Proceed, TypeOK, callVars, changeVars, sessionVars
  <2> QED BY <1>k, <2>1 DEF MarkOwners
<1>9. ASSUME NEW p \in Procs, Return(p)
      PROVE  MarkOwners'
  <2>1. late' = late /\ Leave(p)
    BY <1>9 DEF Return
  <2>2. /\ mark'[p] = mark[p] \/ mark'[p] = fresh[p]
        /\ \A q \in Procs : q # p => mark'[q] = mark[q]
    BY <1>9 DEF Return, TypeOK
  <2>3. /\ \A q \in Procs : q # p => fresh'[q] = fresh[q] /\ req'[q] = req[q] /\ pc'[q] = pc[q]
        /\ fresh'[p] = None /\ pc'[p] = "idle"
    BY <2>1 DEF Leave, TypeOK
  <2> QED BY <1>k, <1>i, <2>1, <2>2, <2>3 DEF MarkOwners
<1>10. ASSUME NEW p \in Procs, Die(p)
      PROVE  MarkOwners'
  <2>1. mark' = mark /\ Leave(p) /\ (late' = late \/ (pc[p] = "put" /\ late' = late \cup {Sent(p)}))
    BY <1>10 DEF Die, sessionVars
  <2> QED BY <1>k, <1>l, <1>s, <2>1
<1>11. ASSUME NEW m \in late, Land(m)
      PROVE  MarkOwners'
  <2>1. UNCHANGED <<mark, fresh, req, pc>> /\ late' \subseteq late
    BY <1>11 DEF Land, callVars, changeVars, sessionVars
  <2> QED BY <1>k, <2>1 DEF MarkOwners
<1>12. ASSUME NEW m \in late, Vanish(m)
      PROVE  MarkOwners'
  <2>1. UNCHANGED <<mark, fresh, req, pc>> /\ late' \subseteq late
    BY <1>12 DEF Vanish, callVars, changeVars, sessionVars
  <2> QED BY <1>k, <2>1 DEF MarkOwners
<1>13. CASE Tick
  <2>1. UNCHANGED <<mark, fresh, req, late>> /\ \A q \in Procs : pc'[q] # "idle" => pc[q] # "idle"
    BY <1>13 DEF Tick, TypeOK, callVars, changeVars, sessionVars
  <2> QED BY <1>k, <2>1 DEF MarkOwners
<1>14. CASE UNCHANGED vars
  <2>1. UNCHANGED <<mark, fresh, req, late>> /\ \A q \in Procs : pc'[q] # "idle" => pc[q] # "idle"
    BY <1>14 DEF vars, storeVars, worldVars, callVars, changeVars, sessionVars, TypeOK, callVars, changeVars, sessionVars
  <2> QED BY <1>k, <2>1 DEF MarkOwners
<1> QED BY <1>1, <1>2, <1>3, <1>4, <1>5, <1>6, <1>7, <1>8, <1>9, <1>10, <1>11, <1>12, <1>13, <1>14 DEF Next

\* The document changes only by a write that fits: one transaction, of a
\* process that gives up no mark but its own.
LEMMA WriteFits ==
    ASSUME IInv, [Next]_vars, doc' # doc
    PROVE  \E p \in Procs, t \in Txn0 :
              /\ WrittenBy(p, t) /\ t \in Transaction /\ Fits(doc', t, p, Views, doc)
              /\ \A l \in doc.leases : t.op = "unmark" /\ t.id = l.id => l.agent = AgentOf[p]
<1> USE DEF IInv
<1>0. doc.leases \subseteq Known
  BY DEF Known, TypeOK, Doc
<1>1. ASSUME NEW p \in Procs, Put(p)
      PROVE  /\ WrittenBy(p, Txn(p)) /\ Txn(p) \in Txn0 /\ Txn(p) \in Transaction
             /\ Fits(doc', Txn(p), p, Views, doc)
             /\ \A l \in doc.leases : Txn(p).op = "unmark" /\ Txn(p).id = l.id => l.agent = AgentOf[p]
  <2>1. pc[p] = "put" /\ pc'[p] = "done" /\ doc' = want[p] /\ base[p] = version
    BY <1>1 DEF Put, Store, TypeOK
  <2>2. WrittenBy(p, Txn(p)) /\ Txn(p) \in Txn0
    BY <2>1 DEF WrittenBy, Txn0
  <2>3. Txn(p) \in Transaction
    BY <2>1, TxnType
  <2>4. Fits(doc', Txn(p), p, Views, doc)
    BY <2>1 DEF Current
  <2>5. Txn(p).op = "unmark" => Txn(p) = req[p]
    BY <2>1, TxnUnmark
  <2>6. \A l \in doc.leases : Txn(p).op = "unmark" /\ Txn(p).id = l.id => l.agent = AgentOf[p]
    BY <1>0, <2>1, <2>5 DEF MarkOwners
  <2> QED BY <2>2, <2>3, <2>4, <2>6
<1>2. ASSUME NEW m \in late, Land(m)
      PROVE  /\ m.proc \in Procs /\ WrittenBy(m.proc, m.txn) /\ m.txn \in Txn0 /\ m.txn \in Transaction
             /\ Fits(doc', m.txn, m.proc, Views, doc)
             /\ \A l \in doc.leases : m.txn.op = "unmark" /\ m.txn.id = l.id => l.agent = AgentOf[m.proc]
  <2>1. doc' = m.want /\ m.base = version /\ version' = version + 1 /\ late' = late \ {m}
    BY <1>2 DEF Land, Store
  <2>2. m.proc \in Procs /\ m.txn \in Transaction
    BY DEF TypeOK, Write
  <2>3. version' # version
    BY <2>1 DEF TypeOK
  <2>4. WrittenBy(m.proc, m.txn) /\ m.txn \in Txn0
    BY <2>1, <2>3 DEF WrittenBy, Txn0
  <2>5. Fits(doc', m.txn, m.proc, Views, doc)
    BY <2>1 DEF Current
  <2> QED BY <1>0, <2>2, <2>4, <2>5 DEF MarkOwners
<1>3. \/ \E p \in Procs : Put(p)
      \/ \E m \in late : Land(m)
  BY DEF Next, Call, Read, ReadFails, Conflict, GiveUp, TimeOut, Proceed, Return, Die, Vanish, Tick,
         vars, storeVars
<1> QED BY <1>1, <1>2, <1>3

\* No step gives an agent a second hold.
LEMMA HoldsStep == IInv /\ [Next]_vars => SingleHolds(doc')
<1> SUFFICES ASSUME IInv, [Next]_vars, doc' # doc
             PROVE  SingleHolds(doc')
  BY DEF IInv
<1>1. PICK p \in Procs, t \in Transaction : Fits(doc', t, p, Views, doc)
  BY WriteFits
<1>2. PICK v \in Views, id \in Ids : doc' \in Effects(t, p, id, v, doc)
  BY <1>1 DEF Fits
<1> QED BY <1>2, ViewsType, EffectsHolds DEF IInv, TypeOK

\* The invariant holds at the start.
LEMMA InitInv == Init => IInv
<1> SUFFICES ASSUME Init
             PROVE  IInv
  OBVIOUS
<1>0. EmptyDoc \in Doc /\ EmptyDoc.leases = {}
  BY DEF EmptyDoc, Doc
<1>1. TypeOK
  <2>1. 0 \in 0..MaxTime /\ 0 \in 0..Attempts /\ 0 \in 0..MaxFaults
    BY StoreAssumption
  <2> QED BY <1>0, <2>1 DEF Init, TypeOK
<1>2. CallOK /\ LateOK /\ Current
  BY DEF Init, CallOK, LateOK, Current
<1>3. Counting
  BY StoreAssumption DEF Init, Counting
<1>4. Known = {}
  BY <1>0 DEF Init, Known
<1>5. Owners /\ MarkOwners
  BY <1>4 DEF Init, Owners, MarkOwners
<1>6. SingleHolds(doc)
  BY <1>0 DEF Init, SingleHolds
<1> QED BY <1>1, <1>2, <1>3, <1>5, <1>6 DEF IInv

\* Every step keeps it.
LEMMA NextInv == IInv /\ [Next]_vars => IInv'
<1> SUFFICES ASSUME IInv, [Next]_vars
             PROVE  IInv'
  OBVIOUS
<1>1. (SingleHolds(doc))'
  BY HoldsStep DEF SingleHolds
<1> QED BY <1>1, TypeStep, CallStep, CountingStep, LateStep, CurrentStep, OwnersStep, MarkStep DEF IInv

\* The inductive invariant holds in every reachable state.
THEOREM StoreInvariance == Spec => []IInv
BY InitInv, NextInv, PTL DEF Spec

\* Every variable keeps its type, and no version read is ahead of the
\* store's, for any processes, identities and requests.
THEOREM StoreTypeCorrect == Spec => []TypeOK
<1>1. IInv => TypeOK
  BY DEF IInv
<1> QED BY <1>1, StoreInvariance, PTL

\* acquire_mark("hold") replaces: an agent never holds a project twice,
\* whichever of its processes ask at the same time.
THEOREM HoldsAreSingle == Spec => []OneHold
<1>1. IInv => OneHold
  BY DEF IInv, SingleHolds, OneHold
<1> QED BY <1>1, StoreInvariance, PTL

\* A writer leaves a path's writer set only when its path is reported clean
\* or taken, never by a save computed from an older document.
THEOREM WritersAreKept == Spec => WriterKept
<1> DEFINE Kept ==
      \A x \in Paths : \A e \in doc.writers[x] :
          (\A f \in doc'.writers[x] : f.agent # e.agent) =>
             \E p \in Procs, t \in Txn0 :
                /\ WrittenBy(p, t)
                /\ \/ t.op = "adopt" /\ t.path = x
                   \/ t.op \in {"record", "prune"} /\ x \notin t.dirty
<1>1. IInv /\ [Next]_vars => [Kept]_vars
  <2> SUFFICES ASSUME IInv, [Next]_vars, NEW x \in Paths, NEW e \in doc.writers[x],
                      \A f \in doc'.writers[x] : f.agent # e.agent
               PROVE  \E p \in Procs, t \in Txn0 :
                         /\ WrittenBy(p, t)
                         /\ \/ t.op = "adopt" /\ t.path = x
                            \/ t.op \in {"record", "prune"} /\ x \notin t.dirty
    OBVIOUS
  <2>1. doc' # doc
    OBVIOUS
  <2>2. PICK p \in Procs, t \in Txn0 : /\ WrittenBy(p, t) /\ t \in Transaction
                                       /\ Fits(doc', t, p, Views, doc)
    BY <2>1, WriteFits
  <2>3. PICK v \in Views, id \in Ids : doc' \in Effects(t, p, id, v, doc)
    BY <2>2 DEF Fits
  <2>4. \/ t.op = "adopt" /\ t.path = x
        \/ t.op \in {"record", "prune"} /\ x \notin t.dirty
    BY <2>2, <2>3, ViewsType, EffectsWriters DEF IInv, TypeOK
  <2> QED BY <2>2, <2>4
<1> QED BY <1>1, StoreInvariance, PTL DEF Spec, WriterKept

\* An own lease is one of the same agent (is_mine, with the anchors leases
\* are stamped with).
LEMMA OwnIsKin ==
    ASSUME NEW l \in Lease, l.anchor = MyAnchor(l.agent), NEW p \in Procs, Own(l, p)
    PROVE  Kin(AgentOf[p], l.agent)
<1> DEFINE a == AgentOf[p]
<1>0. a \in Agents /\ l.agent \in Agents
  BY IdentityAssumption DEF Lease
<1>1. CASE l.agent \in SelfIds(a)
  <2>1. CASE l.agent = a
    BY <2>1 DEF Kin
  <2>2. CASE l.agent # a
    <3>1. ~Child(a) /\ l.agent \in MainsOf(a)
      BY <1>1, <2>2 DEF SelfIds
    <3>2. AnchorOf[a] # None /\ AnchorOf[l.agent] = AnchorOf[a]
      BY <3>1 DEF MainsOf, Family
    <3>3. Family(l.agent) = Family(a)
      BY <3>2 DEF Family
    <3>4. ~Child(l.agent)
      BY <3>1, <3>3 DEF Child, MainsOf
    <3> QED BY <3>1, <3>2, <3>4 DEF Kin
  <2> QED BY <2>1, <2>2
<1>2. CASE MyAnchor(a) # None /\ l.anchor = MyAnchor(a)
  <2>1. ~Child(a) /\ AnchorOf[a] # None /\ MyAnchor(a) = AnchorOf[a]
    BY <1>2 DEF MyAnchor
  <2>2. ~Child(l.agent) /\ AnchorOf[l.agent] = AnchorOf[a]
    BY <1>2, <2>1 DEF MyAnchor
  <2> QED BY <2>1, <2>2 DEF Kin
<1> QED BY <1>1, <1>2 DEF Own, IsMine

\* A lease that is not stale now was not stale in any view so far.
LEMMA StaysFresh ==
    ASSUME TypeOK, NEW l \in Lease, ~IsStale(l, View), NEW v \in Views
    PROVE  ~IsStale(l, v)
<1>1. v.now \in 0..now /\ alive \subseteq v.alive /\ now \in Nat
  BY StoreAssumption DEF Views, TypeOK
<1>2. l.heartbeat \in Nat /\ Ttl \in Nat
  BY ScopeAssumption DEF Lease
<1>3. CASE l.kind = "op"
  BY <1>1, <1>3 DEF IsStale, View
<1>4. CASE l.kind # "op"
  BY <1>1, <1>2, <1>4 DEF IsStale, View
<1> QED BY <1>3, <1>4

\* A lease its holder keeps alive goes only to its own agent, to a take of
\* its path or to the end of its task; an op lease only to its own agent.
THEOREM LiveLeasesAreKept == Spec => LiveLeaseKept
<1> DEFINE Kept ==
      \A l \in doc.leases : ~IsStale(l, View) /\ Loses(l) =>
          \E p \in Procs, t \in Txn0 :
             /\ WrittenBy(p, t)
             /\ \/ Kin(AgentOf[p], l.agent) /\ t.op \in {"release", "release_paths", "mark", "unmark"}
                \/ l.kind # "op" /\ t.op = "drop" /\ Matches(l, t.path)
                \/ l.kind # "op" /\ t.op = "release_task" /\ t.task = l.task
<1>1. IInv /\ [Next]_vars => [Kept]_vars
  <2> SUFFICES ASSUME IInv, [Next]_vars, NEW l \in doc.leases, ~IsStale(l, View), Loses(l)
               PROVE  \E p \in Procs, t \in Txn0 :
                         /\ WrittenBy(p, t)
                         /\ \/ Kin(AgentOf[p], l.agent) /\ t.op \in {"release", "release_paths", "mark", "unmark"}
                            \/ l.kind # "op" /\ t.op = "drop" /\ Matches(l, t.path)
                            \/ l.kind # "op" /\ t.op = "release_task" /\ t.task = l.task
    OBVIOUS
  <2>1. /\ l \in Lease /\ doc \in Doc /\ l.anchor = MyAnchor(l.agent) /\ OneOwner(doc)
        /\ l.kind = "op" => l.task = None
    <3>1. doc \in Doc /\ doc.leases \subseteq Lease
      BY DEF IInv, TypeOK, Doc
    <3>2. doc.leases \subseteq Known
      BY <3>1 DEF Known
    <3>3. \A m \in doc.leases : m.anchor = MyAnchor(m.agent) /\ (m.kind = "op" => m.task = None)
      BY <3>2 DEF IInv, Owners
    <3>4. \A m, n \in doc.leases : m.id = n.id => m.agent = n.agent
      BY <3>2 DEF IInv, Owners
    <3> QED BY <3>1, <3>3, <3>4 DEF OneOwner
  <2>2. doc' # doc
    BY DEF Loses
  <2>3. PICK p \in Procs, t \in Txn0 :
           /\ WrittenBy(p, t) /\ t \in Transaction /\ Fits(doc', t, p, Views, doc)
           /\ \A m \in doc.leases : t.op = "unmark" /\ t.id = m.id => m.agent = AgentOf[p]
    BY <2>2, WriteFits
  <2>4. PICK v \in Views, id \in Ids : doc' \in Effects(t, p, id, v, doc)
    BY <2>3 DEF Fits
  <2>5. v \in ViewType /\ ~IsStale(l, v)
    BY <2>1, <2>4, ViewsType, StaysFresh DEF IInv
  <2>6. \/ Own(l, p) /\ t.op \in {"release", "release_paths", "mark"}
        \/ l.kind # "op" /\ t.op = "drop" /\ Matches(l, t.path)
        \/ t.op = "release_task" /\ t.task = l.task
        \/ t.op = "unmark" /\ t.id = l.id
    BY <2>1, <2>3, <2>4, <2>5, EffectsKeep DEF Loses
  <2>7. CASE Own(l, p) /\ t.op \in {"release", "release_paths", "mark"}
    BY <2>1, <2>3, <2>7, OwnIsKin
  <2>8. CASE t.op = "unmark" /\ t.id = l.id
    BY <2>3, <2>8 DEF Kin
  <2>9. CASE t.op = "release_task" /\ t.task = l.task
    <3>1. t.task \in Tasks /\ None \notin Tasks
      BY <2>3, <2>9, IdentityAssumption DEF Transaction, Request, Unmark
    <3> QED BY <2>1, <2>3, <2>9, <3>1
  <2> QED BY <2>3, <2>6, <2>7, <2>8, <2>9
<1> QED BY <1>1, StoreInvariance, PTL DEF Spec, LiveLeaseKept

\* A call reports "kept changing" only after that many writes of others.
THEOREM GivesUpOnlyUnderContention == Spec => GivesUpUnderContention
<1> DEFINE Fair ==
      \A p \in Procs : pc[p] = "put" /\ pc'[p] = "idle" /\ faults' = faults =>
          version - began[p] >= Attempts
<1>1. IInv /\ [Next]_vars => [Fair]_vars
  <2> SUFFICES ASSUME IInv, [Next]_vars, NEW p \in Procs,
                      pc[p] = "put", pc'[p] = "idle", faults' = faults
               PROVE  version - began[p] >= Attempts
    OBVIOUS
  <2>0. TypeOK /\ Counting
    BY DEF IInv
  <2>1. ASSUME NEW q \in Procs,
               \/ Call(q) \/ Read(q) \/ ReadFails(q) \/ Put(q) \/ Conflict(q) \/ GiveUp(q)
               \/ TimeOut(q) \/ Proceed(q) \/ Return(q) \/ Die(q)
        PROVE  GiveUp(p)
    <3>1. CASE Call(q) \/ Read(q) \/ ReadFails(q) \/ Put(q) \/ Conflict(q)
      BY <2>0, <3>1 DEF Call, Read, ReadFails, Leave, Put, Conflict, TypeOK
    <3>2. CASE TimeOut(q) \/ Die(q)
      BY <2>0, <3>2 DEF TimeOut, Die, TypeOK
    <3>3. CASE Proceed(q) \/ Return(q)
      BY <2>0, <3>3 DEF Proceed, Return, Leave, TypeOK
    <3>4. CASE GiveUp(q)
      BY <2>0, <3>4 DEF GiveUp, Leave, TypeOK
    <3> QED BY <2>1, <3>1, <3>2, <3>3, <3>4
  <2>2. GiveUp(p)
    <3>1. ASSUME NEW m \in late, Land(m) \/ Vanish(m)
          PROVE  FALSE
      BY <3>1 DEF Land, Vanish
    <3>2. CASE Tick
      BY <3>2 DEF Tick
    <3>3. CASE UNCHANGED vars
      BY <3>3 DEF vars
    <3> QED BY <2>1, <3>1, <3>2, <3>3 DEF Next
  <2>3. /\ base[p] # version
        /\ inner[p] + 1 = Attempts \/ tries[p] + 1 = Attempts
    BY <2>2 DEF GiveUp, LastTry
  <2>4. /\ version \in Nat /\ base[p] \in Nat /\ base[p] <= version /\ began[p] \in Nat
        /\ tries[p] \in Nat /\ inner[p] \in Nat
        /\ began[p] + tries[p] + inner[p] <= base[p]
    BY <2>0, StoreAssumption DEF TypeOK, Counting
  <2> QED BY <2>3, <2>4, StoreAssumption
<1> QED BY <1>1, StoreInvariance, PTL DEF Spec, GivesUpUnderContention

-----------------------------------------------------------------------------
(* The store implements the book.                                          *)

\* The instance repeats the definitions of Leases; they are the same.
LEMMA SameLeases ==
    /\ Book!Unmark = Unmark
    /\ \A r : Book!Txns(r) = Txns(r)
    /\ \A d : Book!IdsOf(d) = IdsOf(d)
    /\ \A t \in Transaction : \A p, id, v, d : Book!Effects(t, p, id, v, d) = Effects(t, p, id, v, d)
<1>1. \A a : Book!Family(a) = Family(a)
  BY DEF Book!Family, Family
<1>2. \A a : Book!Child(a) = Child(a)
  BY <1>1 DEF Book!Child, Child
<1>3. \A a : Book!MainsOf(a) = MainsOf(a)
  BY <1>1 DEF Book!MainsOf, MainsOf
<1>4. \A a : Book!SelfIds(a) = SelfIds(a)
  BY <1>2, <1>3 DEF Book!SelfIds, SelfIds
<1>5. \A a : Book!MyAnchor(a) = MyAnchor(a)
  BY <1>2 DEF Book!MyAnchor, MyAnchor
<1>6. \A a : Book!SessionIds(a) = SessionIds(a)
  BY <1>1 DEF Book!SessionIds, SessionIds
<1>7. \A a : Book!RootKey(a) = RootKey(a)
  BY <1>2 DEF Book!RootKey, RootKey, Book!MainsOf, MainsOf, Book!Family, Family
<1>8. \A r, s, x : Book!IsMine(r, s, x) = IsMine(r, s, x)
  BY DEF Book!IsMine, IsMine
<1>9. \A l, p : Book!Own(l, p) = Own(l, p)
  BY <1>4, <1>5, <1>8 DEF Book!Own, Own
<1>10. \A g : Book!Covers(g) = Covers(g)
  BY DEF Book!Covers, Covers
<1>11. \A d : Book!IdsOf(d) = IdsOf(d)
  BY DEF Book!IdsOf, IdsOf
<1>12. \A l, v : Book!IsStale(l, v) = IsStale(l, v)
  BY DEF Book!IsStale, IsStale
<1>13. \A l, x : Book!Matches(l, x) = Matches(l, x)
  BY <1>10 DEF Book!Matches, Matches
<1>14. \A S, v : Book!Purge(S, v) = Purge(S, v)
  BY <1>12 DEF Book!Purge, Purge
<1>15. \A p, k, g, t, id, v : Book!NewLease(p, k, g, t, id, v) = NewLease(p, k, g, t, id, v)
  BY <1>5 DEF Book!NewLease, NewLease
<1>16. \A p, u, v : Book!WriterEntry(p, u, v) = WriterEntry(p, u, v)
  BY <1>7 DEF Book!WriterEntry, WriterEntry
<1>17. \A S, e : Book!AddWriter(S, e) = AddWriter(S, e)
  BY DEF Book!AddWriter, AddWriter
<1>18. \A e, a : Book!IsOwnWriter(e, a) = IsOwnWriter(e, a)
  BY <1>6, <1>8 DEF Book!IsOwnWriter, IsOwnWriter
<1>19. \A w, s : Book!Pruned(w, s) = Pruned(w, s)
  BY DEF Book!Pruned, Pruned
<1>20. \A l, t, v : Book!Extended(l, t, v) = Extended(l, t, v)
  BY DEF Book!Extended, Extended
<1>21. \A d, p, g, t, id, v : Book!Acquire(d, p, g, t, id, v) = Acquire(d, p, g, t, id, v)
  BY <1>14, <1>15, <1>20 DEF Book!Acquire, Acquire
<1>22. \A d, v : Book!ListActive(d, v) = ListActive(d, v)
  BY <1>14 DEF Book!ListActive, ListActive
<1>23. \A S, M, v : Book!Touched(S, M, v) = Touched(S, M, v)
  BY DEF Book!Touched, Touched
<1>24. \A d, p, v : Book!Heartbeat(d, p, v) = Heartbeat(d, p, v)
  BY <1>9, <1>14, <1>23 DEF Book!Heartbeat, Heartbeat
<1>25. \A d, p, t, v : Book!Release(d, p, t, v) = Release(d, p, t, v)
  BY <1>9, <1>14 DEF Book!Release, Release
<1>26. \A d, t, v : Book!ReleaseTask(d, t, v) = ReleaseTask(d, t, v)
  BY <1>14 DEF Book!ReleaseTask, ReleaseTask
<1>27. \A d, p, x, v : Book!TakeDrop(d, p, x, v) = TakeDrop(d, p, x, v)
  BY <1>9, <1>13, <1>14 DEF Book!TakeDrop, TakeDrop
<1>28. \A d, p, x, v : Book!TakeAdopt(d, p, x, v) = TakeAdopt(d, p, x, v)
  BY <1>16 DEF Book!TakeAdopt, TakeAdopt
<1>29. \A d, p, x, id, v : Book!Claim(d, p, x, id, v) = Claim(d, p, x, id, v)
  <2> TAKE d, p, x, id, v
  <2>1. {l \in Purge(d.leases, v) : l.kind # "op" /\ Book!Own(l, p)}
           = {l \in Purge(d.leases, v) : l.kind # "op" /\ Own(l, p)}
    BY <1>9
  <2> QED BY <1>13, <1>14, <1>15, <1>16, <1>17, <1>23, <2>1 DEF Book!Claim, Claim
<1>30. \A d, p, r, v : Book!RecordWrites(d, p, r, v) = RecordWrites(d, p, r, v)
  BY <1>9, <1>13, <1>14, <1>16, <1>17, <1>18, <1>19 DEF Book!RecordWrites, RecordWrites
<1>31. \A d, s : Book!PruneWriters(d, s) = PruneWriters(d, s)
  BY <1>19 DEF Book!PruneWriters, PruneWriters
<1>32. \A d, p, s, v : Book!ReleasePaths(d, p, s, v) = ReleasePaths(d, p, s, v)
  BY <1>9, <1>14 DEF Book!ReleasePaths, ReleasePaths
<1>33. \A d, p, k, id, v : Book!AcquireMark(d, p, k, id, v) = AcquireMark(d, p, k, id, v)
  BY <1>9, <1>14, <1>15 DEF Book!AcquireMark, AcquireMark
<1>34. \A d, id : Book!ReleaseMark(d, id) = ReleaseMark(d, id)
  BY DEF Book!ReleaseMark, ReleaseMark
<1>35. \A r : Book!Txns(r) = Txns(r)
  BY DEF Book!Txns, Txns
<1>36. ASSUME NEW t \in Transaction
       PROVE  \A p, id, v, d : Book!Effects(t, p, id, v, d) = Effects(t, p, id, v, d)
  <2>1. CASE t.op = "acquire"
    BY <1>21, <2>1 DEF Book!Effects, Effects
  <2>2. CASE t.op = "list"
    BY <1>22, <2>2 DEF Book!Effects, Effects
  <2>3. CASE t.op = "heartbeat"
    BY <1>24, <2>3 DEF Book!Effects, Effects
  <2>4. CASE t.op = "release"
    BY <1>25, <2>4 DEF Book!Effects, Effects
  <2>5. CASE t.op = "release_task"
    BY <1>26, <2>5 DEF Book!Effects, Effects
  <2>6. CASE t.op = "drop"
    BY <1>27, <2>6 DEF Book!Effects, Effects
  <2>7. CASE t.op = "adopt"
    BY <1>28, <2>7 DEF Book!Effects, Effects
  <2>8. CASE t.op = "claim"
    BY <1>29, <2>8 DEF Book!Effects, Effects
  <2>9. CASE t.op = "record"
    BY <1>30, <2>9 DEF Book!Effects, Effects
  <2>10. CASE t.op = "prune"
    BY <1>31, <2>10 DEF Book!Effects, Effects
  <2>11. CASE t.op = "release_paths"
    BY <1>32, <2>11 DEF Book!Effects, Effects
  <2>12. CASE t.op = "mark"
    BY <1>33, <2>12 DEF Book!Effects, Effects
  <2>13. CASE t.op = "unmark"
    BY <1>34, <2>13 DEF Book!Effects, Effects
  <2>14. t.op \in {"acquire", "list", "heartbeat", "release", "release_task", "drop", "adopt",
                   "claim", "record", "prune", "release_paths", "mark", "unmark"}
    BY DEF Transaction, Request, Unmark
  <2> QED BY <2>1, <2>2, <2>3, <2>4, <2>5, <2>6, <2>7, <2>8, <2>9, <2>10, <2>11, <2>12, <2>13, <2>14
<1>u. Book!Unmark = Unmark
  BY DEF Book!Unmark, Unmark
<1> QED BY <1>u, <1>35, <1>11, <1>36
\* Leaving and entering stages, as the book sees it.
LEMMA StageStep ==
    ASSUME TypeOK, NEW p \in Procs, NEW c \in {"idle", "read", "put", "done"},
           pc' = [pc EXCEPT ![p] = c]
    PROVE  Stage' = [Stage EXCEPT ![p] = CASE c = "idle" -> "idle" [] c = "done" -> "applied"
                                           [] OTHER -> "pending"]
BY DEF Stage, TypeOK

\* The book's transaction is the store's.
LEMMA SameTxn ==
    ASSUME NEW p \in Procs
    PROVE  Book!Txn(p) = Txn(p)
BY SameLeases DEF Book!Txn, Txn

\* A document that fits is one the book's transaction yields.
LEMMA SameApplied ==
    ASSUME NEW t \in Transaction, NEW p \in Procs, Fits(doc', t, p, Views, doc)
    PROVE  Book!Applied(t, p)
<1>1. Book!Views = Views
  BY DEF Book!Views, Views
<1>2. PICK v \in Views, id \in Ids \ IdsOf(doc) : doc' \in Effects(t, p, id, v, doc)
  BY DEF Fits
<1>3. id \in Ids \ Book!IdsOf(doc) /\ doc' \in Book!Effects(t, p, id, v, doc)
  BY <1>2, SameLeases
<1> QED BY <1>1, <1>2, <1>3 DEF Book!Applied

\* The book's name for the write p has sent.
LEMMA SentOrphan ==
    ASSUME NEW p \in Procs, late' = late \cup {Sent(p)}
    PROVE  Orphans' = Orphans \cup {[proc |-> p, call |-> issued[p], txn |-> Txn(p)]}
<1> DEFINE O(n) == [proc |-> n.proc, call |-> n.call, txn |-> n.txn]
<1>1. O(Sent(p)) = [proc |-> p, call |-> issued[p], txn |-> Txn(p)]
  BY DEF Sent
<1>2. Orphans' = {O(n) : n \in late \cup {Sent(p)}} /\ Orphans = {O(n) : n \in late}
  BY DEF Orphans
<1>3. {O(n) : n \in late \cup {Sent(p)}} = {O(n) : n \in late} \cup {O(Sent(p))}
  OBVIOUS
<1> QED BY <1>1, <1>2, <1>3

\* A write that is no longer in flight is no longer in the book.
LEMMA GoneOrphan ==
    ASSUME IInv, NEW m \in late, late' = late \ {m}
    PROVE  LET o == [proc |-> m.proc, call |-> m.call, txn |-> m.txn]
           IN  o \in Orphans /\ Orphans' = Orphans \ {o}
<1> DEFINE O(n) == [proc |-> n.proc, call |-> n.call, txn |-> n.txn]
<1>1. \A n \in late : O(n) = O(m) => n = m
  BY DEF IInv, LateOK
<1>2. O(m) \in Orphans
  BY DEF Orphans
<1>3. Orphans' = {O(n) : n \in late \ {m}} /\ Orphans = {O(n) : n \in late}
  BY DEF Orphans
<1>4. {O(n) : n \in late \ {m}} = {O(n) : n \in late} \ {O(m)}
  BY <1>1
<1> QED BY <1>2, <1>3, <1>4

\* Every step of the store is a step of the book, or invisible there.
LEMMA BookStep == IInv /\ [Next]_vars => [Book!Next]_(Book!bookVars)
<1> SUFFICES ASSUME IInv, [Next]_vars
             PROVE  Book!Next \/ UNCHANGED <<doc, now, alive, issued, Stage, req, step, Orphans>>
  BY DEF Book!bookVars
<1>0. TypeOK /\ CallOK /\ LateOK /\ Current /\ Owners
  BY DEF IInv
<1>s. \A p \in Procs : /\ pc[p] = "idle" <=> Stage[p] = "idle"
                       /\ pc[p] = "done" <=> Stage[p] = "applied"
                       /\ pc[p] \in {"read", "put"} <=> Stage[p] = "pending"
  BY <1>0 DEF Stage, TypeOK
<1>l. ASSUME NEW p \in Procs, Leave(p)
      PROVE  Book!Leave(p)
  BY <1>0, <1>l, StageStep DEF Leave, Book!Leave
<1>o. late' = late => Orphans' = Orphans
  BY DEF Orphans
<1>1. ASSUME NEW p \in Procs, Call(p)
      PROVE  Book!Call(p)
  <2>1. /\ p \in alive /\ Stage[p] = "idle" /\ issued[p] < MaxCalls[p]
        /\ \E r \in Requests[p] \cup Unmark : req' = [req EXCEPT ![p] = r]
        /\ issued' = [issued EXCEPT ![p] = @ + 1]
        /\ UNCHANGED <<doc, now, alive, step, late>>
    BY <1>1, <1>s DEF Call, storeVars, worldVars
  <2>2. Stage' = [Stage EXCEPT ![p] = "pending"]
    BY <1>0, <1>1, StageStep DEF Call
  <2> QED BY <2>1, <2>2, <1>o, SameLeases DEF Book!Call
<1>2. ASSUME NEW p \in Procs, Read(p)
      PROVE  Book!Apply(p) \/ UNCHANGED <<doc, now, alive, issued, Stage, req, step, Orphans>>
  <2>1. PICK id \in Ids \ used : \E d \in Effects(Txn(p), p, id, View, doc) : ReadTo(p, id, d)
    BY <1>2 DEF Read, ReadTo
  <2>2. PICK d \in Effects(Txn(p), p, id, View, doc) : ReadTo(p, id, d)
    BY <2>1
  <2>3. /\ pc[p] = "read" /\ Stage[p] = "pending"
        /\ UNCHANGED <<doc, now, alive, issued, req, step, Orphans>>
    BY <1>2, <1>s, <1>o DEF Read, storeVars, worldVars, callVars
  <2>4. CASE Saves(Txn(p), doc, d)
    <3>1. pc' = [pc EXCEPT ![p] = "put"]
      BY <2>2, <2>4 DEF ReadTo
    <3>2. Stage' = [Stage EXCEPT ![p] = "pending"]
      BY <1>0, <3>1, StageStep
    <3>3. Stage' = Stage
      BY <2>3, <3>2 DEF Stage
    <3> QED BY <2>3, <3>3
  <2>5. CASE ~Saves(Txn(p), doc, d)
    <3>1. pc' = [pc EXCEPT ![p] = "done"] /\ d = doc
      BY <2>2, <2>5 DEF ReadTo, Saves
    <3>2. Stage' = [Stage EXCEPT ![p] = "applied"]
      BY <1>0, <3>1, StageStep
    <3>3. IdsOf(doc) \subseteq used
      BY <1>0 DEF Owners, Known, IdsOf, TypeOK, Doc
    <3>4. Fits(doc', Txn(p), p, Views, doc)
      BY <1>0, <2>2, <2>3, <3>1, <3>3, ViewsType DEF Fits
    <3>5. Book!Applied(Book!Txn(p), p)
      BY <1>0, <2>3, <3>4, TxnType, SameTxn, SameApplied
    <3> QED BY <2>3, <3>2, <3>5 DEF Book!Apply
  <2> QED BY <2>4, <2>5
<1>3. ASSUME NEW p \in Procs, ReadFails(p) \/ GiveUp(p)
      PROVE  Book!Fail(p)
  <2>1. Leave(p) /\ Stage[p] # "idle" /\ UNCHANGED <<doc, now, alive, issued, late>>
    BY <1>3, <1>s DEF ReadFails, GiveUp, storeVars, worldVars, sessionVars
  <2> QED BY <2>1, <1>l, <1>o DEF Book!Fail, Book!Abandon
<1>4. ASSUME NEW p \in Procs, Put(p)
      PROVE  Book!Apply(p)
  <2>1. /\ pc[p] = "put" /\ Stage[p] = "pending" /\ doc' = want[p] /\ base[p] = version
        /\ UNCHANGED <<now, alive, issued, req, step, Orphans>>
    BY <1>4, <1>s, <1>o DEF Put, Store, worldVars, callVars, sessionVars
  <2>2. Stage' = [Stage EXCEPT ![p] = "applied"]
    BY <1>0, <1>4, StageStep DEF Put
  <2>3. Fits(doc', Txn(p), p, Views, doc)
    BY <1>0, <2>1 DEF Current
  <2>4. Book!Applied(Book!Txn(p), p)
    BY <1>0, <2>1, <2>3, TxnType, SameTxn, SameApplied
  <2> QED BY <2>1, <2>2, <2>4 DEF Book!Apply
<1>5. ASSUME NEW p \in Procs, Conflict(p)
      PROVE  Book!Restart(p) \/ UNCHANGED <<doc, now, alive, issued, Stage, req, step, Orphans>>
  <2>1. Stage[p] = "pending" /\ UNCHANGED <<doc, now, alive, issued, req, Orphans>>
    BY <1>5, <1>s, <1>o DEF Conflict, storeVars, worldVars, sessionVars
  <2>2. Stage' = [Stage EXCEPT ![p] = "pending"]
    BY <1>0, <1>5, StageStep DEF Conflict
  <2>3. Stage' = Stage
    BY <2>1, <2>2 DEF Stage
  <2>4. step' = [step EXCEPT ![p] = 1] \/ step' = step
    BY <1>0, <1>5 DEF Conflict, TypeOK
  <2> QED BY <2>1, <2>3, <2>4 DEF Book!Restart
<1>6. ASSUME NEW p \in Procs, TimeOut(p)
      PROVE  Book!Fail(p)
  <2>1. /\ Leave(p) /\ Stage[p] = "pending" /\ late' = late \cup {Sent(p)}
        /\ UNCHANGED <<doc, now, alive, issued>>
    BY <1>6, <1>s DEF TimeOut, storeVars, worldVars, sessionVars
  <2> QED BY <2>1, <1>l, SentOrphan, SameTxn DEF Book!Fail, Book!Abandon
<1>7. ASSUME NEW p \in Procs, Proceed(p)
      PROVE  Book!Proceed(p)
  <2>1. /\ Stage[p] = "applied" /\ step[p] < Len(Txns(req[p]))
        /\ step' = [step EXCEPT ![p] = @ + 1]
        /\ UNCHANGED <<doc, now, alive, issued, req, Orphans>>
    BY <1>7, <1>s, <1>o DEF Proceed, storeVars, worldVars, sessionVars
  <2>2. Stage' = [Stage EXCEPT ![p] = "pending"]
    BY <1>0, <1>7, StageStep DEF Proceed
  <2> QED BY <2>1, <2>2, SameLeases DEF Book!Proceed
<1>8. ASSUME NEW p \in Procs, Return(p)
      PROVE  Book!Return(p)
  <2>1. /\ Leave(p) /\ Stage[p] = "applied" /\ step[p] = Len(Txns(req[p]))
        /\ UNCHANGED <<doc, now, alive, issued, late>>
    BY <1>8, <1>s DEF Return, storeVars, worldVars
  <2> QED BY <2>1, <1>l, <1>o, SameLeases DEF Book!Return
<1>9. ASSUME NEW p \in Procs, Die(p)
      PROVE  Book!Die(p)
  <2>1. /\ Leave(p) /\ p \in alive /\ alive' = alive \ {p}
        /\ late' = late \/ (pc[p] = "put" /\ late' = late \cup {Sent(p)})
        /\ UNCHANGED <<doc, now, issued>>
    BY <1>9 DEF Die, storeVars, sessionVars
  <2>2. CASE late' = late
    BY <2>1, <2>2, <1>l, <1>o DEF Book!Die, Book!Abandon
  <2>3. CASE pc[p] = "put" /\ late' = late \cup {Sent(p)}
    BY <2>1, <2>3, <1>l, <1>s, SentOrphan, SameTxn DEF Book!Die, Book!Abandon
  <2> QED BY <2>1, <2>2, <2>3
<1>10. ASSUME NEW m \in late, Land(m)
       PROVE  \E o \in Orphans : Book!ApplyOrphan(o)
  <2> DEFINE o == [proc |-> m.proc, call |-> m.call, txn |-> m.txn]
  <2>1. o \in Orphans /\ Orphans' = Orphans \ {o}
    BY <1>10, GoneOrphan DEF Land
  <2>2. doc' = m.want /\ m.base = version /\ UNCHANGED <<now, alive, issued, pc, req, step>>
    BY <1>10 DEF Land, Store, worldVars, callVars, sessionVars
  <2>3. Stage' = Stage
    BY <2>2 DEF Stage
  <2>4. m.txn \in Transaction /\ m.proc \in Procs /\ Fits(doc', m.txn, m.proc, Views, doc)
    BY <1>0, <2>2 DEF Current, TypeOK, Write
  <2>5. Book!Applied(o.txn, o.proc)
    BY <2>4, SameApplied
  <2> QED BY <2>1, <2>2, <2>3, <2>5 DEF Book!ApplyOrphan
<1>11. ASSUME NEW m \in late, Vanish(m)
       PROVE  \E o \in Orphans : Book!ForgetOrphan(o)
  <2> DEFINE o == [proc |-> m.proc, call |-> m.call, txn |-> m.txn]
  <2>1. o \in Orphans /\ Orphans' = Orphans \ {o}
    BY <1>11, GoneOrphan DEF Vanish
  <2>2. UNCHANGED <<doc, now, alive, issued, pc, req, step>>
    BY <1>11 DEF Vanish, storeVars, worldVars, callVars, sessionVars
  <2>3. Stage' = Stage
    BY <2>2 DEF Stage
  <2> QED BY <2>1, <2>2, <2>3 DEF Book!ForgetOrphan
<1>12. CASE Tick
  <2>1. now < MaxTime /\ now' = now + 1 /\ UNCHANGED <<doc, alive, issued, pc, req, step, late>>
    BY <1>12 DEF Tick, storeVars, callVars, sessionVars
  <2>2. Stage' = Stage
    BY <2>1 DEF Stage
  <2>3. Book!Tick
    BY <2>1, <2>2, <1>o DEF Book!Tick
  <2> QED BY <2>3 DEF Book!Next
<1>13. CASE UNCHANGED vars
  <2>1. UNCHANGED <<doc, now, alive, issued, pc, req, step, late>>
    BY <1>13 DEF vars, storeVars, worldVars, callVars, sessionVars
  <2>2. Stage' = Stage
    BY <2>1 DEF Stage
  <2> QED BY <2>1, <2>2, <1>o
<1> DEFINE Matched == Book!Next \/ UNCHANGED <<doc, now, alive, issued, Stage, req, step, Orphans>>
<1>14. ASSUME NEW p \in Procs,
              \/ Call(p) \/ Read(p) \/ ReadFails(p) \/ Put(p) \/ Conflict(p)
              \/ GiveUp(p) \/ TimeOut(p) \/ Proceed(p) \/ Return(p) \/ Die(p)
       PROVE  Matched
  <2>1. \/ Book!Call(p) \/ Book!Apply(p) \/ Book!Proceed(p) \/ Book!Restart(p)
        \/ Book!Return(p) \/ Book!Fail(p) \/ Book!Die(p)
        \/ UNCHANGED <<doc, now, alive, issued, Stage, req, step, Orphans>>
    BY <1>14, <1>1, <1>2, <1>3, <1>4, <1>5, <1>6, <1>7, <1>8, <1>9
  <2> QED BY <2>1 DEF Book!Next
<1>15. ASSUME NEW m \in late, Land(m) \/ Vanish(m)
       PROVE  Matched
  <2>1. \E o \in Orphans : Book!ApplyOrphan(o) \/ Book!ForgetOrphan(o)
    BY <1>10, <1>11, <1>15
  <2> QED BY <2>1 DEF Book!Next
<1> QED BY <1>12, <1>13, <1>14, <1>15 DEF Next

\* Compare-and-set with retries, timeouts, late writes and deaths implements
\* the book in which each transaction happens once, in one step, on the
\* document as it is: no update is lost.
THEOREM StoreImplementsBook == Spec => NoUpdateLost
<1>1. Init => Book!Init
  <2> SUFFICES ASSUME Init
               PROVE  Book!Init
    OBVIOUS
  <2>1. Stage = [p \in Procs |-> "idle"] /\ Orphans = {}
    BY DEF Init, Stage, Orphans
  <2>2. Book!EmptyDoc = EmptyDoc
    BY DEF Book!EmptyDoc, EmptyDoc
  <2> QED BY <2>1, <2>2 DEF Init, Book!Init
<1> QED BY <1>1, BookStep, StoreInvariance, PTL DEF Spec, NoUpdateLost, Book!Spec

=============================================================================
