---------------------------- MODULE AgentsProofs ----------------------------
(***************************************************************************)
(* Safety of the shared checkout for any sessions and paths: what a commit *)
(* may take in, and what acceptance keeps still.  The inductive invariant  *)
(* says that whoever is in st commit holds the repository lock, that the   *)
(* work it listed is still there under what came later, and, the heart of  *)
(* it, that every edit in the tree is either named by the path's writer    *)
(* set, counted as lost, or still to be recorded by the hook of the shell  *)
(* that made it.  And safety of the inbox of one agent, for any requests,  *)
(* acks, notes and bounds: the woke file never says in vain that a wake is *)
(* on its way, but for the two races Inbox names.                          *)
(***************************************************************************)
EXTENDS Checkout, Inbox, TLAPS

Guarded == {"guard", "check", "checked", "add", "commit"}
Passed == {"check", "checked", "add", "commit"}
Before == {"select", "sweep"} \cup Guarded
Committing == Before \cup {"release", "prune"}
Shelled == {"shell", "record"}

Job == [path : Path \cup {NoOne}, named : SUBSET Path, changed : SUBSET Path,
        snap : [Path -> Seq(Session)], staged : [Path -> Seq(Session)],
        fresh : SUBSET Path, dirty : SUBSET Path, mixed : BOOLEAN, again : BOOLEAN,
        blind : SUBSET (Session \X Path), index : BOOLEAN]

Types ==
    /\ TypeOK /\ job \in [Session -> Job]
    /\ \A s \in Session : pc[s] \in {"claim", "write"} => job[s].path \in Path

(* Sequence v begins with u. *)
Begins(u, v) == Len(u) <= Len(v) /\ \A i \in 1..Len(u) : v[i] = u[i]

(* st commit runs under the repository lock. *)
LockInv == \A s \in Session : pc[s] \in Committing => lock = s

(* Every commit that moved HEAD was begun. *)
HeadInv == head <= commits /\ \A s \in Session : pc[s] \in Before => head < commits

(* No commit is past its guard while an acceptance with a lease checks.    *)
GateInv == \A a \in ops : pc[a] = "gate" => \A s \in Session : pc[s] \notin Passed

(* Work has a writer entry, is counted as lost, or will be recorded.       *)
Accounted(a, x) ==
    \/ writers[x] \cap {a, Unknown} # {}
    \/ <<a, x>> \in lost
    \/ pc[a] \in Shelled /\ x \in job[a].changed
WriterInv == \A a \in Session, x \in Path : AtStake(a, x) => Accounted(a, x)

(* What a commit listed is still in the tree, and all of it was listed;    *)
(* what the guard let pass belongs to the session or was hidden from it;   *)
(* what is staged begins with what was listed.                             *)
Listed(s) ==
    /\ Whole(s) \/ job[s].changed \subseteq job[s].named
    /\ \A x \in Path : Begins(job[s].snap[x], work[x])
    /\ Whole(s) => \A x \in Path \ job[s].changed : job[s].snap[x] = <<>>
Seen(s) ==
    \A x \in job[s].changed \ job[s].named : \A i \in 1..Len(job[s].snap[x]) :
        job[s].snap[x][i] # s => <<job[s].snap[x][i], x>> \in job[s].blind
Staged(s) ==
    \A x \in Path :
        /\ Whole(s) \/ x \in job[s].changed =>
             Begins(job[s].snap[x], job[s].staged[x]) /\ Begins(job[s].staged[x], work[x])
        /\ ~Whole(s) /\ x \notin job[s].changed => job[s].staged[x] = <<>>
Holds(s) ==
    /\ pc[s] \in {"sweep"} \cup Guarded => Listed(s)
    /\ pc[s] \in Guarded => Seen(s)
    /\ pc[s] = "commit" => Staged(s)
CommitInv == \A s \in Session : Holds(s)

IInv == Types /\ LockInv /\ HeadInv /\ GateInv /\ WriterInv /\ CommitInv

-----------------------------------------------------------------------------
(* Beginnings. *)

LEMMA BeginsSelf == ASSUME NEW u \in Seq(Session) PROVE Begins(u, u)
BY DEF Begins

LEMMA BeginsTrans ==
    ASSUME NEW u \in Seq(Session), NEW v \in Seq(Session), NEW w \in Seq(Session),
           Begins(u, v), Begins(v, w)
    PROVE  Begins(u, w)
BY DEF Begins

LEMMA BeginsAppend ==
    ASSUME NEW u \in Seq(Session), NEW a \in Session
    PROVE  Append(u, a) \in Seq(Session) /\ Begins(u, Append(u, a))
           /\ Authors(Append(u, a)) = Authors(u) \cup {a}
<1>1. Append(u, a) \in Seq(Session) /\ Len(Append(u, a)) = Len(u) + 1
      /\ \A i \in 1..Len(u) : Append(u, a)[i] = u[i]
  OBVIOUS
<1>2. Append(u, a)[Len(u) + 1] = a OBVIOUS
<1>3. DOMAIN Append(u, a) = DOMAIN u \cup {Len(u) + 1}
  OBVIOUS
<1>4. Authors(Append(u, a)) \subseteq Authors(u) \cup {a}
  BY <1>1, <1>2, <1>3 DEF Authors
<1>5. Authors(u) \cup {a} \subseteq Authors(Append(u, a))
  <2>1. a \in Authors(Append(u, a)) BY <1>2, <1>3 DEF Authors
  <2>2. ASSUME NEW i \in DOMAIN u PROVE u[i] \in Authors(Append(u, a))
    BY <1>1, <1>3 DEF Authors
  <2> QED BY <2>1, <2>2 DEF Authors
<1> QED BY <1>1, <1>4, <1>5 DEF Begins

(* What a commit leaves in the tree is work that was there. *)
LEMMA RestIsWork ==
    ASSUME NEW u \in Seq(Session), NEW n \in Nat
    PROVE  SubSeq(u, n + 1, Len(u)) \in Seq(Session)
           /\ Authors(SubSeq(u, n + 1, Len(u))) \subseteq Authors(u)
<1>1. SubSeq(u, n + 1, Len(u)) \in Seq(Session)
  OBVIOUS
<1>2. \A i \in DOMAIN SubSeq(u, n + 1, Len(u)) :
         n + i \in DOMAIN u /\ SubSeq(u, n + 1, Len(u))[i] = u[n + i]
  OBVIOUS
<1> QED BY <1>1, <1>2 DEF Authors

-----------------------------------------------------------------------------
(* The commits of the others: while work only grows, or the lock is s's,   *)
(* a step of s leaves what they rely on.                                   *)
Grows == \A x \in Path : Begins(work[x], work'[x])

LEMMA OthersHold ==
    ASSUME Types, work' \in [Path -> Seq(Session)], LockInv, CommitInv, NEW s \in Session, Grows \/ pc[s] \in Committing,
           \A t \in Session \ {s} : pc'[t] = pc[t] /\ (pc[t] \notin Shelled => job'[t] = job[t])
    PROVE  \A t \in Session \ {s} : Holds(t)'
<1> SUFFICES ASSUME NEW t \in Session \ {s} PROVE Holds(t)'
  OBVIOUS
<1>1. CASE pc[t] \notin Committing
  BY <1>1 DEF Holds, Committing, Before, Guarded
<1>2. CASE pc[t] \in Committing
  <2>1. pc[s] \notin Committing
    BY <1>2 DEF LockInv
  <2>2. job'[t] = job[t] /\ pc'[t] = pc[t]
    BY <1>2 DEF Committing, Before, Guarded, Shelled
  <2>3. job[t] \in Job BY DEF Types
  <2>4. job[t].snap \in [Path -> Seq(Session)] /\ job[t].staged \in [Path -> Seq(Session)]
    BY <2>3 DEF Job
  <2>5. work \in [Path -> Seq(Session)] BY DEF Types, TypeOK
  <2>6. ASSUME NEW x \in Path, NEW u \in Seq(Session), Begins(u, work[x]) PROVE Begins(u, work'[x])
    BY <2>1, <2>5, <2>6, BeginsTrans DEF Grows
  <2>7. Holds(t) BY DEF CommitInv
  <2>8. pc'[t] \in {"sweep"} \cup Guarded => Listed(t)'
    BY <2>2, <2>4, <2>6, <2>7 DEF Holds, Listed, Whole
  <2>9. pc'[t] \in Guarded => Seen(t)'
    BY <2>2, <2>7 DEF Holds, Seen
  <2>10. pc'[t] = "commit" => Staged(t)'
    BY <2>2, <2>4, <2>6, <2>7 DEF Holds, Staged, Whole
  <2> QED BY <2>8, <2>9, <2>10 DEF Holds
<1> QED BY <1>1, <1>2

(* A step that touches neither work nor entries, and by which s neither    *)
(* starts to write nor forgets what its hook has to record, loses nobody.  *)
LEMMA QuietWriters ==
    ASSUME WriterInv, UNCHANGED <<work, writers, lost>>, NEW s \in Session, pc'[s] # "write",
           \A t \in Session \ {s} : pc'[t] = pc[t] /\ job'[t] = job[t],
           pc[s] \in Shelled => pc'[s] \in Shelled /\ job'[s].changed = job[s].changed
    PROVE  WriterInv'
<1> SUFFICES ASSUME NEW a \in Session, NEW x \in Path, AtStake(a, x)' PROVE Accounted(a, x)'
  BY DEF WriterInv
<1>1. AtStake(a, x) BY DEF AtStake
<1>2. Accounted(a, x) BY <1>1 DEF WriterInv
<1> QED BY <1>2 DEF Accounted

-----------------------------------------------------------------------------
(* What the steps leave alone. *)

(* The jobs of sessions that run no shell are touched by nobody else. *)
LEMMA FreshenJob ==
    ASSUME Types, NEW s \in Session, NEW x \in Path
    PROVE  /\ Freshen(job, s, x) \in [Session -> Job]
           /\ \A t \in Session : /\ Freshen(job, s, x)[t].changed = job[t].changed
                                 /\ Freshen(job, s, x)[t].path = job[t].path
                                 /\ pc[t] \notin Shelled => Freshen(job, s, x)[t] = job[t]
<1>1. ASSUME NEW t \in Session
      PROVE  /\ [job[t] EXCEPT !.fresh = @ \cup {x}] \in Job
             /\ [job[t] EXCEPT !.fresh = @ \cup {x}].changed = job[t].changed
             /\ [job[t] EXCEPT !.fresh = @ \cup {x}].path = job[t].path
  BY DEF Types, Job
<1>2. job \in [Session -> Job] BY DEF Types
<1> QED BY <1>1, <1>2 DEF Freshen, Shelled

LEMMA NoticedJob ==
    ASSUME Types, NEW x \in Path
    PROVE  /\ Noticed(job, {x}) \in [Session -> Job]
           /\ \A t \in Session : /\ Noticed(job, {x})[t].changed \in {job[t].changed, job[t].changed \cup {x}}
                                 /\ pc[t] = "shell" => x \in Noticed(job, {x})[t].changed
                                 /\ Noticed(job, {x})[t].path = job[t].path
                                 /\ pc[t] \notin Shelled => Noticed(job, {x})[t] = job[t]
<1>1. ASSUME NEW t \in Session
      PROVE  /\ [job[t] EXCEPT !.changed = @ \cup {x}] \in Job
             /\ [job[t] EXCEPT !.changed = @ \cup {x}].changed = job[t].changed \cup {x}
             /\ [job[t] EXCEPT !.changed = @ \cup {x}].path = job[t].path
  BY DEF Types, Job
<1>2. job \in [Session -> Job] BY DEF Types
<1> QED BY <1>1, <1>2 DEF Noticed, Shelled

LEMMA NoJobType == NoJob \in Job /\ NoJob.changed = {} /\ NoJob.path = NoOne
BY DEF NoJob, Job, Clean

(* Steps by which a session moves and rewrites its own job only. *)
OwnStep(s) ==
    /\ \A t \in Session \ {s} : pc'[t] = pc[t] /\ job'[t] = job[t]
    /\ pc' \in [Session -> Stage] /\ job' \in [Session -> Job]

(* The type invariant and the lock, given what a step does to s. *)
LEMMA OwnTypes ==
    ASSUME Types, NEW s \in Session, OwnStep(s), UNCHANGED <<work, writers>>,
           leased' \in [Session -> SUBSET Path], ops' \subseteq Session,
           lock' \in Session \cup {NoOne}, head' \in 0..MaxCommits, lost' \subseteq Session \X Path,
           edits' \in 0..MaxEdits, commits' \in 0..MaxCommits, accepts' \in 0..MaxAccepts,
           pc'[s] \in {"claim", "write"} => job'[s].path \in Path
    PROVE  Types'
<1>1. \A t \in Session : job'[t] \in Job BY DEF OwnStep
<1>2. \A t \in Session :
         /\ job'[t].path \in Path \cup {NoOne}
         /\ job'[t].named \subseteq Path /\ job'[t].changed \subseteq Path
         /\ job'[t].fresh \subseteq Path /\ job'[t].dirty \subseteq Path
         /\ job'[t].snap \in [Path -> Seq(Session)] /\ job'[t].staged \in [Path -> Seq(Session)]
  BY <1>1 DEF Job
<1>3. TypeOK' BY <1>2 DEF Types, TypeOK, OwnStep
<1>4. \A t \in Session : pc'[t] \in {"claim", "write"} => job'[t].path \in Path
  BY DEF Types, OwnStep
<1> QED BY <1>3, <1>4 DEF Types, OwnStep

(* What a step of s has to respect of the lock, the counters and running   *)
(* acceptances.                                                            *)
Disciplined(s) ==
    /\ \/ lock' = lock /\ (pc'[s] \in Committing => pc[s] \in Committing)
       \/ lock = NoOne /\ lock' = s
       \/ lock' = NoOne /\ pc[s] \in Committing /\ pc'[s] \notin Committing
    /\ head' = head /\ commits' \in Nat /\ commits' >= commits
    /\ pc'[s] \in Before => pc[s] \in Before \/ commits' > commits
    /\ ops' \subseteq ops \cup {s}
    /\ pc'[s] = "gate" /\ s \in ops' => lock = NoOne
    /\ pc'[s] \in Passed => pc[s] \in Passed \/ ops \ {s} = {}

LEMMA DisciplineKept ==
    ASSUME Types, LockInv, HeadInv, GateInv, NEW s \in Session, Disciplined(s),
           \A t \in Session \ {s} : pc'[t] = pc[t]
    PROVE  LockInv' /\ HeadInv' /\ GateInv'
<1>0. NoOne \notin Session BY CheckoutAssumption
<1>1. LockInv'
  BY <1>0 DEF Disciplined, LockInv
<1>2. HeadInv'
  <2>1. head \in Nat /\ commits \in Nat BY CheckoutAssumption DEF Types, TypeOK
  <2> QED BY <2>1 DEF Disciplined, HeadInv
<1>3. ASSUME NEW a \in ops', pc'[a] = "gate", NEW t \in Session PROVE pc'[t] \notin Passed
  <2>0. a \in Session BY DEF Disciplined, Types, TypeOK
  <2>1. CASE a = s
    <3>1. \A u \in Session : pc[u] \notin Committing
      BY <1>0, <1>3, <2>1 DEF Disciplined, LockInv
    <3> QED BY <1>3, <2>1, <3>1 DEF Committing, Before, Guarded, Passed
  <2>2. CASE a # s
    <3>1. a \in ops /\ pc[a] = "gate" BY <1>3, <2>0, <2>2 DEF Disciplined
    <3>2. \A u \in Session : pc[u] \notin Passed BY <3>1 DEF GateInv
    <3>3. ops \ {s} # {} BY <2>2, <3>1
    <3> QED BY <3>2, <3>3 DEF Disciplined
  <2> QED BY <2>1, <2>2
<1>4. GateInv' BY <1>3 DEF GateInv
<1> QED BY <1>1, <1>2, <1>4

(* A step of s that changes neither the tree nor the writer entries. *)
LEMMA OwnInv ==
    ASSUME IInv, NEW s \in Session, OwnStep(s), Types', UNCHANGED <<work, writers, lost>>,
           pc'[s] # "write",
           pc[s] \in Shelled => pc'[s] \in Shelled /\ job'[s].changed = job[s].changed,
           Disciplined(s), Holds(s)'
    PROVE  IInv'
<1>1. LockInv' /\ HeadInv' /\ GateInv'
  BY DisciplineKept DEF IInv, OwnStep
<1>2. WriterInv'
  BY QuietWriters DEF IInv, OwnStep
<1>3. CommitInv'
  <2>1. work \in [Path -> Seq(Session)] /\ work' = work BY DEF IInv, Types, TypeOK
  <2>2. Grows BY <2>1, BeginsSelf DEF Grows
  <2>3. \A t \in Session \ {s} : Holds(t)'
    BY <2>1, <2>2, OthersHold DEF IInv, OwnStep
  <2> QED BY <2>3 DEF CommitInv
<1> QED BY <1>1, <1>2, <1>3 DEF IInv

(* A process outside st commit relies on nothing. *)
LEMMA NothingHeld == ASSUME NEW s \in Session, pc'[s] \notin Before PROVE Holds(s)'
BY DEF Holds, Before, Guarded

(* Going to another place, with another job or the same. *)
LEMMA OwnMove ==
    ASSUME Types, NEW s \in Session, NEW l \in Stage, NEW j \in Job, Go(s, l),
           job' = [job EXCEPT ![s] = j]
    PROVE  OwnStep(s) /\ pc'[s] = l /\ job'[s] = j
BY DEF Types, TypeOK, OwnStep, Go

LEMMA OwnStay ==
    ASSUME Types, NEW s \in Session, NEW l \in Stage, Go(s, l), job' = job
    PROVE  OwnStep(s) /\ pc'[s] = l /\ job'[s] = job[s]
BY DEF Types, TypeOK, OwnStep, Go

(* Both together: s goes to l with the job j. *)
LEMMA OwnAction ==
    ASSUME IInv, NEW s \in Session, NEW l \in Stage \ {"write"}, NEW j \in Job, Go(s, l),
           job' = [job EXCEPT ![s] = j], l = "claim" => j.path \in Path,
           UNCHANGED <<work, writers, lost, edits>>,
           leased' \in [Session -> SUBSET Path], lock' \in Session \cup {NoOne},
           commits' \in 0..MaxCommits, accepts' \in 0..MaxAccepts,
           pc[s] \in Shelled => l \in Shelled /\ j.changed = job[s].changed,
           Disciplined(s), Holds(s)'
    PROVE  IInv'
<1>1. Types BY DEF IInv
<1>2. OwnStep(s) /\ pc'[s] = l /\ job'[s] = j BY <1>1, OwnMove
<1>3. ops' \subseteq Session /\ head' = head BY <1>1 DEF Types, TypeOK, Disciplined
<1>4. head' \in 0..MaxCommits /\ edits' \in 0..MaxEdits /\ lost' \subseteq Session \X Path
  BY <1>1, <1>3 DEF Types, TypeOK
<1>5. UNCHANGED <<work, writers>> OBVIOUS
<1>6. pc'[s] \in {"claim", "write"} => job'[s].path \in Path BY <1>2
<1>7. Types' BY <1>1, <1>2, <1>3, <1>4, <1>5, <1>6, OwnTypes
<1> QED BY <1>2, <1>7, OwnInv

LEMMA KeepJob == ASSUME Types, NEW s \in Session, job' = job
                 PROVE  job' = [job EXCEPT ![s] = job[s]] /\ job[s] \in Job
BY DEF Types

(* The end of an operation. *)
LEMMA EndAction ==
    ASSUME IInv, NEW s \in Session, Finish(s), pc[s] \notin Shelled,
           UNCHANGED <<work, head, writers, lost, edits, commits, accepts, leased>>,
           ops' \in {ops, ops \ {s}},
           lock' = lock \/ (pc[s] \in Committing /\ lock' = NoOne)
    PROVE  IInv'
<1>1. Types BY DEF IInv
<1>2. OwnStep(s) /\ pc'[s] = "idle" /\ job'[s] = NoJob
  BY <1>1, OwnMove, NoJobType DEF Finish, Stage
<1>3. leased' \in [Session -> SUBSET Path] /\ lock' \in Session \cup {NoOne}
      /\ commits' \in 0..MaxCommits /\ accepts' \in 0..MaxAccepts
  BY <1>1 DEF Types, TypeOK
<1>4. Disciplined(s)
  <2>1. commits' \in Nat /\ commits' >= commits BY <1>1, CheckoutAssumption DEF Types, TypeOK
  <2> QED BY <1>2, <2>1 DEF Disciplined, Committing, Before, Guarded, Passed
<1>5. Holds(s)' BY <1>2, NothingHeld DEF Before, Guarded
<1> QED BY <1>3, <1>4, <1>5, OwnAction, NoJobType DEF Finish, Stage

-----------------------------------------------------------------------------
(* The steps that change neither the tree nor the writer entries. *)

(* A session stays out of st commit, and touches only its own state. *)
LEMMA OutsideAction ==
    ASSUME IInv, NEW s \in Session, NEW l \in Stage \ {"write"}, NEW j \in Job, Go(s, l),
           job' = [job EXCEPT ![s] = j], l = "claim" => j.path \in Path,
           UNCHANGED <<work, head, writers, lost, edits, commits, leased, lock>>,
           accepts' \in 0..MaxAccepts, l \notin Committing, ops' \subseteq ops \cup {s},
           l = "gate" /\ s \in ops' => lock = NoOne,
           pc[s] \in Shelled => l \in Shelled /\ j.changed = job[s].changed
    PROVE  IInv'
<1>1. Types BY DEF IInv
<1>2. pc'[s] = l BY <1>1, OwnMove
<1>3. leased' \in [Session -> SUBSET Path] /\ lock' \in Session \cup {NoOne}
      /\ commits' \in 0..MaxCommits
  BY <1>1 DEF Types, TypeOK
<1>4. Disciplined(s)
  <2>1. commits' \in Nat /\ commits' >= commits BY <1>1, CheckoutAssumption DEF Types, TypeOK
  <2> QED BY <1>2, <2>1 DEF Disciplined, Committing, Before, Guarded, Passed
<1>5. Holds(s)' BY <1>2, NothingHeld DEF Committing
<1> QED BY <1>3, <1>4, <1>5, OwnAction

LEMMA EditCheckKeeps ==
    ASSUME IInv, NEW s \in Session, NEW x \in Path, EditCheck(s, x) PROVE IInv'
<1> DEFINE j == [NoJob EXCEPT !.path = x]
<1>1. j \in Job /\ j.path = x BY NoJobType DEF Job
<1>2. accepts' \in 0..MaxAccepts BY DEF IInv, Types, TypeOK, EditCheck, bounds
<1>3. job' = [job EXCEPT ![s] = j] /\ Go(s, "claim") /\ pc[s] = "idle"
      /\ UNCHANGED <<work, head, writers, lost, edits, commits, leased, lock, ops>>
  BY DEF EditCheck, tree, book, bounds
<1> HIDE DEF j
<1> QED BY <1>1, <1>2, <1>3, OutsideAction DEF Stage, Shelled, Committing, Before, Guarded

LEMMA ShellStartKeeps == ASSUME IInv, NEW s \in Session, ShellStart(s) PROVE IInv'
<1>1. job' = [job EXCEPT ![s] = job[s]] /\ job[s] \in Job
  BY KeepJob DEF IInv, ShellStart
<1>2. accepts' \in 0..MaxAccepts BY DEF IInv, Types, TypeOK, ShellStart, bounds
<1>3. Go(s, "shell") /\ pc[s] = "idle"
      /\ UNCHANGED <<work, head, writers, lost, edits, commits, leased, lock, ops>>
  BY DEF ShellStart, tree, book, bounds
<1> QED BY <1>1, <1>2, <1>3, OutsideAction DEF Stage, Shelled, Committing, Before, Guarded

LEMMA ShellEndKeeps == ASSUME IInv, NEW s \in Session, ShellEnd(s) PROVE IInv'
<1> DEFINE j == [job[s] EXCEPT !.dirty = Dirty, !.mixed = \E t \in Session \ {s} : pc[t] = "shell"]
<1>0. job[s] \in Job /\ job \in [Session -> Job] BY DEF IInv, Types
<1>1. j \in Job /\ j.changed = job[s].changed BY <1>0 DEF Job, Dirty
<1>2. accepts' \in 0..MaxAccepts BY DEF IInv, Types, TypeOK, ShellEnd, bounds
<1>3. job' = [job EXCEPT ![s] = j] BY <1>0 DEF ShellEnd
<1>4. Go(s, "record") /\ pc[s] = "shell"
      /\ UNCHANGED <<work, head, writers, lost, edits, commits, leased, lock, ops>>
  BY DEF ShellEnd, tree, book, bounds
<1> HIDE DEF j
<1> QED BY <1>1, <1>2, <1>3, <1>4, OutsideAction DEF Stage, Shelled, Committing, Before, Guarded

LEMMA AcceptStartKeeps == ASSUME IInv, NEW s \in Session, AcceptStart(s) PROVE IInv'
<1>1. job' = [job EXCEPT ![s] = job[s]] /\ job[s] \in Job
  BY KeepJob DEF IInv, AcceptStart
<1>2. accepts' \in 0..MaxAccepts
  BY CheckoutAssumption DEF IInv, Types, TypeOK, AcceptStart
<1>3. Go(s, "accept") /\ pc[s] = "idle" /\ ops' \subseteq ops \cup {s}
      /\ UNCHANGED <<work, head, writers, lost, edits, commits, leased, lock>>
  BY DEF AcceptStart, tree
<1> QED BY <1>1, <1>2, <1>3, OutsideAction DEF Stage, Shelled, Committing, Before, Guarded

LEMMA AcceptBeforeKeeps == ASSUME IInv, NEW s \in Session, AcceptBefore(s) PROVE IInv'
<1>1. UNCHANGED <<work, head, writers, lost, edits, commits, accepts, leased, lock>>
      /\ pc[s] = "accept" /\ lock = NoOne
  BY DEF AcceptBefore, tree, bounds
<1>2. CASE Go(s, "gate") /\ UNCHANGED <<job, ops>>
  <2>1. job' = [job EXCEPT ![s] = job[s]] /\ job[s] \in Job
    BY <1>2, KeepJob DEF IInv
  <2>2. accepts' \in 0..MaxAccepts BY <1>1 DEF IInv, Types, TypeOK
  <2> QED BY <1>1, <1>2, <2>1, <2>2, OutsideAction DEF Stage, Shelled, Committing, Before, Guarded
<1>3. CASE Finish(s) /\ ops' = ops \ {s}
  BY <1>1, <1>3, EndAction DEF Shelled
<1> QED BY <1>2, <1>3 DEF AcceptBefore

LEMMA AcceptAfterKeeps == ASSUME IInv, NEW s \in Session, AcceptAfter(s) PROVE IInv'
<1>1. UNCHANGED <<work, head, writers, lost, edits, commits, accepts, leased, lock>>
      /\ pc[s] = "gate" /\ Finish(s) /\ ops' = ops \ {s}
  BY DEF AcceptAfter, tree, bounds
<1> QED BY <1>1, EndAction DEF Shelled

-----------------------------------------------------------------------------
(* The steps of st commit that leave the tree alone. *)

(* The next step of a commit; with what it has to establish. *)
LEMMA CommitAction ==
    ASSUME IInv, NEW s \in Session, pc[s] \in Committing, NEW l \in Committing, NEW j \in Job,
           Go(s, l), job' = [job EXCEPT ![s] = j],
           UNCHANGED <<work, head, writers, lost, edits, commits, accepts, lock, ops>>,
           leased' \in [Session -> SUBSET Path], l \in Before => pc[s] \in Before,
           l \in Passed => pc[s] \in Passed \/ ops \ {s} = {}, Holds(s)'
    PROVE  IInv'
<1>1. Types BY DEF IInv
<1>0. l \in Stage BY DEF Committing, Before, Guarded, Stage
<1>2. pc'[s] = l BY <1>0, <1>1, OwnMove
<1>3. lock' \in Session \cup {NoOne} /\ commits' \in 0..MaxCommits /\ accepts' \in 0..MaxAccepts
  BY <1>1 DEF Types, TypeOK
<1>4. Disciplined(s)
  <2>1. commits' \in Nat /\ commits' >= commits BY <1>1, CheckoutAssumption DEF Types, TypeOK
  <2> QED BY <1>2, <2>1 DEF Disciplined, Committing, Before, Guarded
<1>5. l \in Stage \ {"write"} /\ l # "claim" BY DEF Stage, Committing, Before, Guarded
<1>6. pc[s] \notin Shelled BY DEF Shelled, Committing, Before, Guarded
<1> QED BY <1>3, <1>4, <1>5, <1>6, OwnAction

LEMMA CommitEndKeeps ==
    ASSUME IInv, NEW s \in Session, pc[s] \in Committing, CommitEnd(s),
           UNCHANGED <<tree, book, lost, bounds>>
    PROVE  IInv'
<1>1. pc[s] \notin Shelled BY DEF Shelled, Committing, Before, Guarded
<1> QED BY <1>1, EndAction DEF CommitEnd, tree, book, bounds

LEMMA CommitStartKeeps ==
    ASSUME IInv, NEW s \in Session, NEW named \in SUBSET Path, CommitStart(s, named) PROVE IInv'
<1> DEFINE j == [NoJob EXCEPT !.named = named]
<1>0. Types BY DEF IInv
<1>1. j \in Job BY NoJobType DEF Job
<1>2. job' = [job EXCEPT ![s] = j] /\ Go(s, "select") /\ pc[s] = "idle" /\ lock = NoOne /\ lock' = s
      /\ UNCHANGED <<work, head, writers, lost, edits, accepts, leased, ops>>
      /\ commits < MaxCommits /\ commits' = commits + 1
  BY DEF CommitStart, tree, book
<1>3. leased' \in [Session -> SUBSET Path] /\ lock' \in Session \cup {NoOne}
      /\ commits' \in 0..MaxCommits /\ accepts' \in 0..MaxAccepts
  BY <1>0, <1>2, CheckoutAssumption DEF Types, TypeOK
<1> HIDE DEF j
<1>4. pc'[s] = "select" BY <1>0, <1>1, <1>2, OwnMove DEF Stage
<1>5. Disciplined(s)
  <2>1. commits \in Nat /\ commits' = commits + 1 BY <1>0, <1>2, CheckoutAssumption DEF Types, TypeOK
  <2> QED BY <1>2, <1>4, <2>1 DEF Disciplined, Passed
<1>6. Holds(s)' BY <1>4 DEF Holds, Guarded
<1> QED BY <1>1, <1>2, <1>3, <1>5, <1>6, OwnAction DEF Stage, Shelled

LEMMA SelectKeeps == ASSUME IInv, NEW s \in Session, Select(s) PROVE IInv'
<1>0. Types BY DEF IInv
<1>1. pc[s] = "select" /\ UNCHANGED <<tree, book, lost, bounds>> BY DEF Select
<1>2. CASE CommitEnd(s) BY <1>1, <1>2, CommitEndKeeps DEF Committing, Before
<1>3. CASE /\ job' = [job EXCEPT ![s].changed = Dirty \cap InScope(s), ![s].snap = work]
           /\ Go(s, "sweep") /\ UNCHANGED lock
  <2> DEFINE j == [job[s] EXCEPT !.changed = Dirty \cap InScope(s), !.snap = work]
  <2>0. job[s] \in Job /\ job \in [Session -> Job] BY <1>0 DEF Types
  <2>1. Dirty \cap InScope(s) \in SUBSET Path /\ work \in [Path -> Seq(Session)]
    BY <1>0 DEF Dirty, Types, TypeOK
  <2>2. j \in Job /\ j.changed = Dirty \cap InScope(s) /\ j.snap = work /\ j.named = job[s].named
    BY <2>0, <2>1 DEF Job
  <2>3. job' = [job EXCEPT ![s] = j] BY <1>3, <2>0
  <2> HIDE DEF j
  <2>4. pc'[s] = "sweep" /\ job'[s] = j BY <1>0, <1>3, <2>2, <2>3, OwnMove DEF Stage
  <2>5. work' = work BY <1>1 DEF tree
  <2>6. Listed(s)'
    <3>1. Whole(s)' \/ job'[s].changed \subseteq job'[s].named
      BY <2>2, <2>4 DEF Whole, InScope
    <3>2. \A x \in Path : Begins(job'[s].snap[x], work'[x])
      BY <2>1, <2>2, <2>4, <2>5, BeginsSelf
    <3>3. Whole(s)' => \A x \in Path \ job'[s].changed : job'[s].snap[x] = <<>>
      BY <2>2, <2>4 DEF Whole, InScope, Dirty
    <3> QED BY <3>1, <3>2, <3>3 DEF Listed
  <2>7. Holds(s)' BY <2>4, <2>6 DEF Holds, Guarded
  <2>8. leased' \in [Session -> SUBSET Path] BY <1>0, <1>1 DEF Types, TypeOK, book
  <2>9. UNCHANGED <<work, head, writers, lost, edits, commits, accepts, lock, ops>>
    BY <1>1, <1>3 DEF tree, book, bounds
  <2> QED BY <1>1, <1>3, <2>2, <2>3, <2>7, <2>8, <2>9, CommitAction DEF Committing, Before, Passed
<1> QED BY <1>2, <1>3 DEF Select

(* The guard let a path pass: its writers, at that moment, were s at most. *)
LEMMA SweepKeeps == ASSUME IInv, NEW s \in Session, Sweep(s) PROVE IInv'
<1>0. Types BY DEF IInv
<1>1. pc[s] = "sweep" /\ UNCHANGED <<tree, book, lost, bounds>> BY DEF Sweep
<1>2. CASE CommitEnd(s) BY <1>1, <1>2, CommitEndKeeps DEF Committing, Before
<1>3. CASE /\ ~ \E x \in job[s].changed : Sweeps(s, x)
           /\ job' = [job EXCEPT ![s].blind = Blind] /\ Go(s, "guard") /\ UNCHANGED lock
  <2> DEFINE j == [job[s] EXCEPT !.blind = Blind]
  <2>0. job[s] \in Job /\ job \in [Session -> Job] BY <1>0 DEF Types
  <2>1. Blind \in SUBSET (Session \X Path)
    <3>1. lost \subseteq Session \X Path BY <1>0 DEF Types, TypeOK
    <3> QED BY <3>1 DEF Blind
  <2>2. j \in Job /\ j.blind = Blind /\ j.changed = job[s].changed /\ j.snap = job[s].snap
        /\ j.named = job[s].named
    BY <2>0, <2>1 DEF Job
  <2>3. job' = [job EXCEPT ![s] = j] BY <1>3, <2>0
  <2> HIDE DEF j
  <2>4. pc'[s] = "guard" /\ job'[s] = j BY <1>0, <1>3, <2>2, <2>3, OwnMove DEF Stage
  <2>5. work' = work BY <1>1 DEF tree
  <2>6. Listed(s) BY <1>1 DEF IInv, CommitInv, Holds
  <2>7. Listed(s)' BY <2>2, <2>4, <2>5, <2>6 DEF Listed, Whole
  <2>8. Seen(s)'
    <3>1. SUFFICES ASSUME NEW x \in job[s].changed \ job[s].named,
                          NEW i \in 1..Len(job[s].snap[x]), job[s].snap[x][i] # s
                   PROVE  <<job[s].snap[x][i], x>> \in Blind
      BY <2>2, <2>4 DEF Seen
    <3> DEFINE a == job[s].snap[x][i]
    <3>2. x \in Path /\ job[s].snap \in [Path -> Seq(Session)] BY <2>0, <3>1 DEF Job
    <3>3. a \in Session BY <3>1, <3>2
    <3>4. work[x] \in Seq(Session) BY <1>0, <3>2 DEF Types, TypeOK
    <3>5. Begins(job[s].snap[x], work[x]) BY <2>6, <3>2 DEF Listed
    <3>6. i \in DOMAIN work[x] /\ work[x][i] = a BY <3>1, <3>2, <3>4, <3>5 DEF Begins
    <3>7. AtStake(a, x) BY <3>6 DEF AtStake, Authors
    <3>8. Accounted(a, x) BY <3>2, <3>3, <3>7 DEF IInv, WriterInv
    <3>9. writers[x] \ {s} = {} BY <1>3, <3>1 DEF Sweeps
    <3>10. Unknown # s /\ a # s BY <3>1, CheckoutAssumption
    <3>11. <<a, x>> \in lost \/ pc[a] \in Shelled BY <3>8, <3>9, <3>10 DEF Accounted
    <3> QED BY <3>2, <3>3, <3>11 DEF Blind, Shelled
  <2>9. Holds(s)' BY <2>4, <2>7, <2>8 DEF Holds, Guarded
  <2>10. leased' \in [Session -> SUBSET Path] BY <1>0, <1>1 DEF Types, TypeOK, book
  <2>11. UNCHANGED <<work, head, writers, lost, edits, commits, accepts, lock, ops>>
    BY <1>1, <1>3 DEF tree, book, bounds
  <2> QED BY <1>1, <1>3, <2>2, <2>3, <2>9, <2>10, <2>11, CommitAction
          DEF Committing, Before, Guarded, Passed
<1> QED BY <1>2, <1>3 DEF Sweep

(* A step of a commit past its sweep guard that keeps what it listed. *)
LEMMA GuardedAction ==
    ASSUME IInv, NEW s \in Session, pc[s] \in Guarded, NEW l \in Guarded, NEW j \in Job,
           Go(s, l), job' = [job EXCEPT ![s] = j],
           j.named = job[s].named, j.changed = job[s].changed,
           j.snap = job[s].snap, j.blind = job[s].blind,
           UNCHANGED <<tree, book, lost, lock, bounds>>,
           l \in Passed => pc[s] \in Passed \/ ops \ {s} = {}, l = "commit" => Staged(s)'
    PROVE  IInv'
<1>0. Types BY DEF IInv
<1>1. l \in Stage BY DEF Stage, Guarded
<1>2. pc'[s] = l /\ job'[s] = j BY <1>0, <1>1, OwnMove
<1>3. Listed(s) /\ Seen(s) BY DEF IInv, CommitInv, Holds
<1>4. work' = work BY DEF tree
<1>5. Listed(s)' BY <1>2, <1>3, <1>4 DEF Listed, Whole
<1>6. Seen(s)' BY <1>2, <1>3 DEF Seen
<1>7. Holds(s)' BY <1>2, <1>5, <1>6 DEF Holds
<1>8. leased' \in [Session -> SUBSET Path] BY <1>0 DEF Types, TypeOK, book
<1>9. UNCHANGED <<work, head, writers, lost, edits, commits, accepts, lock, ops>>
  BY DEF tree, book, bounds
<1>10. l \in Committing /\ l \in Before /\ pc[s] \in Committing /\ pc[s] \in Before
  BY DEF Committing, Before
<1> QED BY <1>7, <1>8, <1>9, <1>10, CommitAction

LEMMA GuardKeeps == ASSUME IInv, NEW s \in Session, Guard(s) PROVE IInv'
<1>1. pc[s] = "guard" /\ UNCHANGED <<tree, book, lost, bounds>> BY DEF Guard
<1>2. CASE CommitEnd(s) BY <1>1, <1>2, CommitEndKeeps DEF Committing, Before, Guarded
<1>3. CASE ops \ {s} = {} /\ Go(s, "check") /\ UNCHANGED <<job, lock>>
  <2>1. job' = [job EXCEPT ![s] = job[s]] /\ job[s] \in Job BY <1>3, KeepJob DEF IInv
  <2> QED BY <1>1, <1>3, <2>1, GuardedAction DEF Guarded
<1> QED BY <1>2, <1>3 DEF Guard

(* Another fingerprint in the job of s, and perhaps the mark of a rerun.   *)
LEMMA Fingerprint ==
    ASSUME Types, NEW s \in Session, NEW b \in BOOLEAN
    PROVE  \E j \in Job :
             /\ [job EXCEPT ![s].again = b, ![s].staged = work] = [job EXCEPT ![s] = j]
             /\ j.named = job[s].named /\ j.changed = job[s].changed
             /\ j.snap = job[s].snap /\ j.blind = job[s].blind
<1> DEFINE j == [job[s] EXCEPT !.again = b, !.staged = work]
<1>1. job[s] \in Job /\ job \in [Session -> Job] /\ work \in [Path -> Seq(Session)]
  BY DEF Types, TypeOK
<1>2. j \in Job /\ j.named = job[s].named /\ j.changed = job[s].changed
      /\ j.snap = job[s].snap /\ j.blind = job[s].blind
  BY <1>1 DEF Job
<1>3. [job EXCEPT ![s].again = b, ![s].staged = work] = [job EXCEPT ![s] = j]
  BY <1>1
<1> QED BY <1>2, <1>3

LEMMA CheckKeeps == ASSUME IInv, NEW s \in Session, Check(s) PROVE IInv'
<1>0. Types BY DEF IInv
<1>1. pc[s] = "check" /\ UNCHANGED <<tree, book, lock, lost, bounds>> BY DEF Check
<1>2. CASE Go(s, "checked") /\ job' = [job EXCEPT ![s].staged = work]
  <2> DEFINE j == [job[s] EXCEPT !.staged = work]
  <2>1. job[s] \in Job /\ job \in [Session -> Job] /\ work \in [Path -> Seq(Session)]
    BY <1>0 DEF Types, TypeOK
  <2>2. j \in Job /\ j.named = job[s].named /\ j.changed = job[s].changed
        /\ j.snap = job[s].snap /\ j.blind = job[s].blind
    BY <2>1 DEF Job
  <2>3. job' = [job EXCEPT ![s] = j] BY <1>2, <2>1
  <2> HIDE DEF j
  <2> QED BY <1>1, <1>2, <2>2, <2>3, GuardedAction DEF Guarded, Passed
<1>3. CASE Go(s, "add") /\ UNCHANGED job
  <2>1. job' = [job EXCEPT ![s] = job[s]] /\ job[s] \in Job BY <1>0, <1>3, KeepJob
  <2> QED BY <1>1, <1>3, <2>1, GuardedAction DEF Guarded, Passed
<1> QED BY <1>2, <1>3 DEF Check

LEMMA CheckedKeeps == ASSUME IInv, NEW s \in Session, Checked(s) PROVE IInv'
<1>0. Types BY DEF IInv
<1>1. pc[s] = "checked" /\ UNCHANGED <<tree, book, lost, bounds>> BY DEF Checked
<1>2. CASE CommitEnd(s) BY <1>1, <1>2, CommitEndKeeps DEF Committing, Before, Guarded
<1>3. CASE Go(s, "add") /\ UNCHANGED <<job, lock>>
  <2>1. job' = [job EXCEPT ![s] = job[s]] /\ job[s] \in Job BY <1>0, <1>3, KeepJob
  <2> QED BY <1>1, <1>3, <2>1, GuardedAction DEF Guarded, Passed
<1>4. CASE job' = [job EXCEPT ![s].again = TRUE, ![s].staged = work] /\ UNCHANGED <<pc, lock>>
  <2>1. PICK j \in Job :
             /\ job' = [job EXCEPT ![s] = j]
             /\ j.named = job[s].named /\ j.changed = job[s].changed
             /\ j.snap = job[s].snap /\ j.blind = job[s].blind
    BY <1>0, <1>4, Fingerprint
  <2>2. Go(s, "checked") BY <1>0, <1>1, <1>4 DEF Go, Types, TypeOK
  <2> QED BY <1>1, <1>4, <2>1, <2>2, GuardedAction DEF Guarded, Passed
<1> QED BY <1>2, <1>3, <1>4 DEF Checked

(* What is staged contains what was listed. *)
LEMMA AddKeeps == ASSUME IInv, NEW s \in Session, Add(s) PROVE IInv'
<1>0. Types BY DEF IInv
<1> DEFINE st == [x \in Path |-> IF Whole(s) \/ x \in job[s].changed THEN work[x] ELSE <<>>]
<1>1. PICK ignored \in BOOLEAN :
        job' = [job EXCEPT ![s].staged = st, ![s].index = Whole(s) \/ ignored]
  BY DEF Add
<1> DEFINE b == Whole(s) \/ ignored
<1> DEFINE j == [job[s] EXCEPT !.staged = st, !.index = b]
<1>2. job[s] \in Job /\ job \in [Session -> Job] /\ work \in [Path -> Seq(Session)]
  BY <1>0 DEF Types, TypeOK
<1>3. st \in [Path -> Seq(Session)] BY <1>2
<1>4. b \in BOOLEAN BY DEF Whole
<1>5. \A x \in Path : /\ Whole(s) \/ x \in job[s].changed => st[x] = work[x]
                      /\ ~Whole(s) /\ x \notin job[s].changed => st[x] = <<>>
  OBVIOUS
<1> HIDE DEF st, b
<1>6. j \in Job /\ j.named = job[s].named /\ j.changed = job[s].changed
      /\ j.snap = job[s].snap /\ j.blind = job[s].blind /\ j.staged = st
  BY <1>2, <1>3, <1>4 DEF Job
<1>7. job' = [job EXCEPT ![s] = j] BY <1>1, <1>2 DEF b
<1> HIDE DEF j
<1>8. pc[s] = "add" /\ Go(s, "commit") /\ UNCHANGED <<tree, book, lock, lost, bounds>> BY DEF Add
<1>9. job'[s] = j BY <1>0, <1>6, <1>7, <1>8, OwnMove DEF Stage
<1>10. Listed(s) BY <1>8 DEF IInv, CommitInv, Holds, Guarded
<1>11. work' = work BY <1>8 DEF tree
<1>12. Whole(s)' <=> Whole(s) BY <1>6, <1>9 DEF Whole
<1>13. Staged(s)'
  <2>1. \A x \in Path : Begins(job[s].snap[x], work[x]) BY <1>10 DEF Listed
  <2>2. \A x \in Path : Begins(work[x], work[x]) BY <1>2, BeginsSelf
  <2> QED BY <1>5, <1>6, <1>9, <1>11, <1>12, <2>1, <2>2 DEF Staged
<1> QED BY <1>6, <1>7, <1>8, <1>13, GuardedAction DEF Guarded, Passed

LEMMA ReleaseKeeps == ASSUME IInv, NEW s \in Session, Release(s) PROVE IInv'
<1>0. Types BY DEF IInv
<1> DEFINE j == [job[s] EXCEPT !.dirty = Dirty]
<1>1. pc[s] = "release" /\ Go(s, "prune")
      /\ UNCHANGED <<work, head, writers, lost, edits, commits, accepts, lock, ops>>
  BY DEF Release, tree, bounds
<1>2. job[s] \in Job /\ job \in [Session -> Job] BY <1>0 DEF Types
<1>3. Dirty \in SUBSET Path BY DEF Dirty
<1>4. j \in Job BY <1>2, <1>3 DEF Job
<1>5. job' = [job EXCEPT ![s] = j] BY <1>2 DEF Release
<1> HIDE DEF j
<1>6. leased' \in [Session -> SUBSET Path] BY <1>0 DEF Types, TypeOK, Release
<1>7. pc'[s] = "prune" BY <1>0, <1>1, <1>4, <1>5, OwnMove DEF Stage
<1>8. Holds(s)' BY <1>7, NothingHeld DEF Before, Guarded
<1> QED BY <1>1, <1>4, <1>5, <1>6, <1>8, CommitAction DEF Committing, Before, Guarded, Passed

-----------------------------------------------------------------------------
(* The steps that change the tree or the writer entries. *)

LEMMA AllTypes ==
    ASSUME work' \in [Path -> Seq(Session)], writers' \in [Path -> SUBSET (Session \cup {Unknown})],
           leased' \in [Session -> SUBSET Path], ops' \subseteq Session,
           lock' \in Session \cup {NoOne}, head' \in 0..MaxCommits, lost' \subseteq Session \X Path,
           edits' \in 0..MaxEdits, commits' \in 0..MaxCommits, accepts' \in 0..MaxAccepts,
           pc' \in [Session -> Stage], job' \in [Session -> Job],
           \A t \in Session : pc'[t] \in {"claim", "write"} => job'[t].path \in Path
    PROVE  Types'
<1>1. \A t \in Session : job'[t] \in Job OBVIOUS
<1>2. \A t \in Session :
         /\ job'[t].path \in Path \cup {NoOne}
         /\ job'[t].named \subseteq Path /\ job'[t].changed \subseteq Path
         /\ job'[t].fresh \subseteq Path /\ job'[t].dirty \subseteq Path
         /\ job'[t].snap \in [Path -> Seq(Session)] /\ job'[t].staged \in [Path -> Seq(Session)]
  BY <1>1 DEF Job
<1> QED BY <1>2 DEF Types, TypeOK

(* A step of s outside st commit that leaves lock, counters and leases of  *)
(* operations alone.                                                       *)
LEMMA OutsideInv ==
    ASSUME IInv, NEW s \in Session, Types', Grows, pc' = [pc EXCEPT ![s] = pc'[s]],
           pc'[s] \notin Committing, pc'[s] # "gate", UNCHANGED <<head, lock, ops, commits>>,
           \A t \in Session \ {s} : pc[t] \notin Shelled => job'[t] = job[t], WriterInv'
    PROVE  IInv'
<1>1. \A t \in Session \ {s} : pc'[t] = pc[t] BY DEF IInv, Types, TypeOK
<1>2. Disciplined(s)
  <2>1. commits' \in Nat /\ commits' >= commits BY CheckoutAssumption DEF IInv, Types, TypeOK
  <2> QED BY <2>1 DEF Disciplined, Committing, Before, Guarded, Passed
<1>3. LockInv' /\ HeadInv' /\ GateInv' BY <1>1, <1>2, DisciplineKept DEF IInv
<1>4. Holds(s)' BY NothingHeld DEF Committing
<1>5. work' \in [Path -> Seq(Session)] BY DEF Types, TypeOK
<1>6. \A t \in Session \ {s} : Holds(t)' BY <1>1, <1>5, OthersHold DEF IInv
<1>7. CommitInv' BY <1>4, <1>6 DEF CommitInv
<1> QED BY <1>3, <1>7 DEF IInv

LEMMA SameGrows == ASSUME Types, work' = work PROVE Grows
BY BeginsSelf DEF Grows, Types, TypeOK

LEMMA AppendGrows ==
    ASSUME Types, NEW s \in Session, NEW x \in Path, work' = [work EXCEPT ![x] = Append(@, s)]
    PROVE  /\ Grows /\ work' \in [Path -> Seq(Session)]
           /\ \A y \in Path : Authors(work'[y]) \subseteq
                                 IF y = x THEN Authors(work[y]) \cup {s} ELSE Authors(work[y])
<1>1. work \in [Path -> Seq(Session)] BY DEF Types, TypeOK
<1>2. work'[x] = Append(work[x], s) /\ \A y \in Path \ {x} : work'[y] = work[y] BY <1>1
<1>3. Append(work[x], s) \in Seq(Session) /\ Begins(work[x], Append(work[x], s))
      /\ Authors(Append(work[x], s)) = Authors(work[x]) \cup {s}
  BY <1>1, BeginsAppend
<1>4. \A y \in Path : Begins(work[y], work[y]) BY <1>1, BeginsSelf
<1> QED BY <1>1, <1>2, <1>3, <1>4 DEF Grows

LEMMA ClaimKeeps == ASSUME IInv, NEW s \in Session, Claim(s) PROVE IInv'
<1>0. Types BY DEF IInv
<1> DEFINE x == job[s].path
<1>1. x \in Path BY <1>0 DEF Claim, Types
<1>2. /\ pc[s] = "claim" /\ pc' = [pc EXCEPT ![s] = "write"]
      /\ writers' = [writers EXCEPT ![x] = @ \cup {s}]
      /\ leased' = [leased EXCEPT ![s] = @ \cup {x}]
      /\ lost' = lost \ {<<s, x>>} /\ job' = Freshen(job, s, x)
      /\ UNCHANGED <<work, head, ops, lock, edits, commits, accepts>>
  BY DEF Claim, Go, tree, bounds
<1> HIDE DEF x
<1>3. /\ job' \in [Session -> Job]
      /\ \A t \in Session : /\ job'[t].changed = job[t].changed /\ job'[t].path = job[t].path
                            /\ pc[t] \notin Shelled => job'[t] = job[t]
  BY <1>0, <1>1, <1>2, FreshenJob
<1>4. pc \in [Session -> Stage] /\ pc' \in [Session -> Stage] /\ pc'[s] = "write"
      /\ \A t \in Session \ {s} : pc'[t] = pc[t]
  BY <1>0, <1>2 DEF Types, TypeOK, Stage
<1>5. Types'
  <2>1. writers' \in [Path -> SUBSET (Session \cup {Unknown})]
    BY <1>0, <1>1, <1>2 DEF Types, TypeOK
  <2>2. leased' \in [Session -> SUBSET Path] BY <1>0, <1>1, <1>2 DEF Types, TypeOK
  <2>3. \A t \in Session : pc'[t] \in {"claim", "write"} => job'[t].path \in Path
    BY <1>0, <1>1, <1>2, <1>3, <1>4 DEF Types, x
  <2>4. work' \in [Path -> Seq(Session)] /\ ops' \subseteq Session /\ lock' \in Session \cup {NoOne}
        /\ head' \in 0..MaxCommits /\ lost' \subseteq Session \X Path /\ edits' \in 0..MaxEdits
        /\ commits' \in 0..MaxCommits /\ accepts' \in 0..MaxAccepts
    BY <1>0, <1>2 DEF Types, TypeOK
  <2> QED BY <1>3, <1>4, <2>1, <2>2, <2>3, <2>4, AllTypes
<1>6. WriterInv'
  <2> SUFFICES ASSUME NEW a \in Session, NEW y \in Path, AtStake(a, y)' PROVE Accounted(a, y)'
    BY DEF WriterInv
  <2>1. writers[y] \subseteq writers'[y] /\ s \in writers'[x] BY <1>0, <1>1, <1>2 DEF Types, TypeOK
  <2>2. CASE a = s /\ y = x BY <2>1, <2>2 DEF Accounted
  <2>3. CASE ~(a = s /\ y = x)
    <3>1. AtStake(a, y) BY <1>2, <1>3, <1>4, <2>3 DEF AtStake, x
    <3>2. Accounted(a, y) BY <3>1 DEF IInv, WriterInv
    <3> QED BY <1>2, <1>3, <1>4, <2>1, <2>3, <3>2 DEF Accounted, Shelled
  <2> QED BY <2>2, <2>3
<1>7. Grows BY <1>0, <1>2, SameGrows
<1> QED BY <1>2, <1>3, <1>4, <1>5, <1>6, <1>7, OutsideInv DEF Committing, Before, Guarded

(* An edit is announced by its claim, a shell's by the hook to come. *)
LEMMA WriteKeeps == ASSUME IInv, NEW s \in Session, Write(s) PROVE IInv'
<1>0. Types BY DEF IInv
<1> DEFINE x == job[s].path
<1>1. x \in Path BY <1>0 DEF Write, Types
<1>2. /\ pc[s] = "write" /\ pc' = [pc EXCEPT ![s] = "idle"]
      /\ UNCHANGED <<head, writers, leased, ops, lock, lost, commits, accepts>>
  BY DEF Write, Go, book
<1>3. \/ /\ edits < MaxEdits /\ edits' = edits + 1
         /\ work' = [work EXCEPT ![x] = Append(@, s)]
         /\ job' = [Noticed(job, {x}) EXCEPT ![s] = NoJob]
      \/ job' = [job EXCEPT ![s] = NoJob] /\ UNCHANGED <<work, edits>>
  BY DEF Write
<1>4. pc \in [Session -> Stage] /\ pc' \in [Session -> Stage] /\ pc'[s] = "idle"
      /\ \A t \in Session \ {s} : pc'[t] = pc[t]
  BY <1>0, <1>2 DEF Types, TypeOK, Stage
<1>5. edits' \in 0..MaxEdits BY <1>0, <1>3, CheckoutAssumption DEF Types, TypeOK
<1>6. AtStake(s, x) BY <1>2 DEF AtStake
<1> HIDE DEF x
<1>7. /\ Grows /\ work' \in [Path -> Seq(Session)]
      /\ \A y \in Path : Authors(work'[y]) \subseteq
                            IF y = x THEN Authors(work[y]) \cup {s} ELSE Authors(work[y])
  <2>1. CASE work' = [work EXCEPT ![x] = Append(@, s)] BY <1>0, <1>1, <2>1, AppendGrows
  <2>2. CASE work' = work BY <1>0, <2>2, SameGrows DEF Types, TypeOK
  <2> QED BY <1>3, <2>1, <2>2
<1>8. /\ job' \in [Session -> Job]
      /\ \A t \in Session \ {s} : /\ job[t].changed \subseteq job'[t].changed
                                  /\ job'[t].path = job[t].path
                                  /\ pc[t] \notin Shelled => job'[t] = job[t]
  BY <1>0, <1>1, <1>3, NoticedJob, NoJobType DEF Types
<1>9. Types'
  <2>1. \A t \in Session : pc'[t] \in {"claim", "write"} => job'[t].path \in Path
    BY <1>0, <1>4, <1>8 DEF Types
  <2>2. writers' \in [Path -> SUBSET (Session \cup {Unknown})] /\ leased' \in [Session -> SUBSET Path]
        /\ ops' \subseteq Session /\ lock' \in Session \cup {NoOne}
        /\ head' \in 0..MaxCommits /\ lost' \subseteq Session \X Path
        /\ commits' \in 0..MaxCommits /\ accepts' \in 0..MaxAccepts
    BY <1>0, <1>2 DEF Types, TypeOK
  <2> QED BY <1>4, <1>5, <1>7, <1>8, <2>1, <2>2, AllTypes
<1>10. WriterInv'
  <2> SUFFICES ASSUME NEW a \in Session, NEW y \in Path, AtStake(a, y)' PROVE Accounted(a, y)'
    BY DEF WriterInv
  <2>1. AtStake(a, y)
    <3>1. CASE a \in Authors(work'[y])
      BY <1>6, <1>7, <3>1 DEF AtStake
    <3>2. CASE pc'[a] = "write" /\ job'[a].path = y
      BY <1>4, <1>8, <3>2 DEF AtStake
    <3> QED BY <3>1, <3>2 DEF AtStake
  <2>2. Accounted(a, y) BY <2>1 DEF IInv, WriterInv
  <2> QED BY <1>2, <1>4, <1>8, <2>2 DEF Accounted, Shelled
<1> QED BY <1>2, <1>4, <1>7, <1>8, <1>9, <1>10, OutsideInv DEF Committing, Before, Guarded

LEMMA ShellWriteKeeps ==
    ASSUME IInv, NEW s \in Session, NEW x \in Path, ShellWrite(s, x) PROVE IInv'
<1>0. Types BY DEF IInv
<1>1. /\ pc[s] = "shell" /\ edits < MaxEdits /\ edits' = edits + 1
      /\ work' = [work EXCEPT ![x] = Append(@, s)] /\ job' = Noticed(job, {x})
      /\ UNCHANGED <<head, writers, leased, ops, lock, pc, lost, commits, accepts>>
  BY DEF ShellWrite, book
<1>2. /\ Grows /\ work' \in [Path -> Seq(Session)]
      /\ \A y \in Path : Authors(work'[y]) \subseteq
                            IF y = x THEN Authors(work[y]) \cup {s} ELSE Authors(work[y])
  BY <1>0, <1>1, AppendGrows
<1>3. /\ job' \in [Session -> Job]
      /\ \A t \in Session : /\ job[t].changed \subseteq job'[t].changed
                            /\ job'[t].path = job[t].path
                            /\ pc[t] = "shell" => x \in job'[t].changed
                            /\ pc[t] \notin Shelled => job'[t] = job[t]
  BY <1>0, <1>1, NoticedJob
<1>4. Types'
  <2>1. edits' \in 0..MaxEdits BY <1>0, <1>1, CheckoutAssumption DEF Types, TypeOK
  <2>2. \A t \in Session : pc'[t] \in {"claim", "write"} => job'[t].path \in Path
    BY <1>0, <1>1, <1>3 DEF Types
  <2>3. writers' \in [Path -> SUBSET (Session \cup {Unknown})] /\ leased' \in [Session -> SUBSET Path]
        /\ ops' \subseteq Session /\ lock' \in Session \cup {NoOne} /\ pc' \in [Session -> Stage]
        /\ head' \in 0..MaxCommits /\ lost' \subseteq Session \X Path
        /\ commits' \in 0..MaxCommits /\ accepts' \in 0..MaxAccepts
    BY <1>0, <1>1 DEF Types, TypeOK
  <2> QED BY <1>2, <1>3, <2>1, <2>2, <2>3, AllTypes
<1>5. WriterInv'
  <2> SUFFICES ASSUME NEW a \in Session, NEW y \in Path, AtStake(a, y)' PROVE Accounted(a, y)'
    BY DEF WriterInv
  <2>1. CASE a = s /\ y = x BY <1>1, <1>3, <2>1 DEF Accounted, Shelled
  <2>2. CASE ~(a = s /\ y = x)
    <3>1. AtStake(a, y) BY <1>1, <1>2, <1>3, <2>2 DEF AtStake
    <3>2. Accounted(a, y) BY <3>1 DEF IInv, WriterInv
    <3> QED BY <1>1, <1>3, <3>2 DEF Accounted
  <2> QED BY <2>1, <2>2
<1>6. pc' = [pc EXCEPT ![s] = pc'[s]] /\ pc'[s] = "shell" BY <1>0, <1>1 DEF Types, TypeOK
<1> QED BY <1>1, <1>2, <1>3, <1>4, <1>5, <1>6, OutsideInv DEF Committing, Before, Guarded

(* A prune drops no entry whose work is there without counting it as lost. *)
LEMMA PruneAccounts ==
    ASSUME Types, NEW D \in SUBSET Path, NEW a \in Session, NEW y \in Path, AtStake(a, y),
           writers[y] \cap {a, Unknown} # {}
    PROVE  Prune(writers, D)[y] \cap {a, Unknown} # {} \/ <<a, y>> \in Dropped(D)
<1>1. CASE y \in D BY <1>1 DEF Prune
<1>2. CASE y \notin D BY <1>2 DEF Dropped
<1> QED BY <1>1, <1>2

LEMMA PruneTypes ==
    ASSUME Types, NEW D \in SUBSET Path
    PROVE  /\ Prune(writers, D) \in [Path -> SUBSET (Session \cup {Unknown})]
           /\ Dropped(D) \subseteq Session \X Path
BY DEF Types, TypeOK, Prune, Dropped

LEMMA ShellRecordKeeps == ASSUME IInv, NEW s \in Session, ShellRecord(s) PROVE IInv'
<1>0. Types BY DEF IInv
<1> DEFINE C == job[s].changed
           D == job[s].dirty
           P == Prune(writers, D)
<1>1. /\ pc[s] = "record" /\ pc' = [pc EXCEPT ![s] = "idle"] /\ job' = [job EXCEPT ![s] = NoJob]
      /\ UNCHANGED <<work, head, leased, ops, lock, edits, commits, accepts>>
  BY DEF ShellRecord, Finish, Go, tree, bounds
<1>2. \/ /\ writers' = [x \in Path |-> IF x \in C THEN P[x] \cup {WriterOf(s, x, P)} ELSE P[x]]
         /\ lost' = (lost \cup Dropped(D)) \ ({s} \X C)
      \/ C = {} /\ UNCHANGED <<writers, lost>>
      \/ /\ lost' = lost \cup {<<s, x>> : x \in {y \in C : s \in Authors(work[y])}}
         /\ UNCHANGED writers
  BY DEF ShellRecord
<1>3. C \in SUBSET Path /\ D \in SUBSET Path BY <1>0 DEF Types, TypeOK
<1>4. P \in [Path -> SUBSET (Session \cup {Unknown})] /\ Dropped(D) \subseteq Session \X Path
  BY <1>0, <1>3, PruneTypes
<1>5. \A x \in Path : WriterOf(s, x, P) \in {s, Unknown} BY DEF WriterOf
<1>6. \A a \in Session, y \in Path : AtStake(a, y) /\ writers[y] \cap {a, Unknown} # {}
        => P[y] \cap {a, Unknown} # {} \/ <<a, y>> \in Dropped(D)
  BY <1>0, <1>3, PruneAccounts
<1>7. pc \in [Session -> Stage] /\ pc' \in [Session -> Stage] /\ pc'[s] = "idle"
      /\ \A t \in Session \ {s} : pc'[t] = pc[t] /\ job'[t] = job[t]
  BY <1>0, <1>1 DEF Types, TypeOK, Stage
<1> HIDE DEF P, D
<1>8. Types'
  <2>1. job' \in [Session -> Job] BY <1>0, <1>1, NoJobType DEF Types
  <2>2. writers' \in [Path -> SUBSET (Session \cup {Unknown})]
    <3>1. writers \in [Path -> SUBSET (Session \cup {Unknown})] BY <1>0 DEF Types, TypeOK
    <3> QED BY <1>2, <1>4, <1>5, <3>1
  <2>3. lost' \subseteq Session \X Path
    <3>1. lost \subseteq Session \X Path BY <1>0 DEF Types, TypeOK
    <3> QED BY <1>2, <1>3, <1>4, <3>1
  <2>4. \A t \in Session : pc'[t] \in {"claim", "write"} => job'[t].path \in Path
    BY <1>0, <1>7 DEF Types
  <2>5. work' \in [Path -> Seq(Session)] /\ leased' \in [Session -> SUBSET Path]
        /\ ops' \subseteq Session /\ lock' \in Session \cup {NoOne} /\ head' \in 0..MaxCommits
        /\ edits' \in 0..MaxEdits /\ commits' \in 0..MaxCommits /\ accepts' \in 0..MaxAccepts
    BY <1>0, <1>1 DEF Types, TypeOK
  <2> QED BY <1>7, <2>1, <2>2, <2>3, <2>4, <2>5, AllTypes
<1>9. WriterInv'
  <2> SUFFICES ASSUME NEW a \in Session, NEW y \in Path, AtStake(a, y)' PROVE Accounted(a, y)'
    BY DEF WriterInv
  <2>1. AtStake(a, y) /\ (a = s => s \in Authors(work[y])) BY <1>1, <1>7 DEF AtStake
  <2>2. Accounted(a, y) BY <2>1 DEF IInv, WriterInv
  <2>3. a = s \/ (pc[a] \in Shelled /\ y \in job[a].changed => pc'[a] \in Shelled /\ y \in job'[a].changed)
    BY <1>7
  <2>4. CASE /\ writers' = [x \in Path |-> IF x \in C THEN P[x] \cup {WriterOf(s, x, P)} ELSE P[x]]
             /\ lost' = (lost \cup Dropped(D)) \ ({s} \X C)
    <3>1. CASE a = s /\ y \in C BY <1>5, <2>4, <3>1 DEF Accounted
    <3>2. CASE ~(a = s /\ y \in C)
      <4>1. <<a, y>> \in lost \cup Dropped(D) => <<a, y>> \in lost' BY <2>4, <3>2
      <4>2. P[y] \subseteq writers'[y] BY <2>4
      <4>3. CASE writers[y] \cap {a, Unknown} # {}
        BY <1>6, <2>1, <4>1, <4>2, <4>3 DEF Accounted
      <4>4. CASE <<a, y>> \in lost BY <4>1, <4>4 DEF Accounted
      <4>5. CASE pc[a] \in Shelled /\ y \in job[a].changed
        BY <2>3, <3>2, <4>5 DEF Accounted
      <4> QED BY <2>2, <4>3, <4>4, <4>5 DEF Accounted
    <3> QED BY <3>1, <3>2
  <2>5. CASE C = {} /\ UNCHANGED <<writers, lost>>
    BY <2>2, <2>3, <2>5 DEF Accounted
  <2>6. CASE /\ lost' = lost \cup {<<s, x>> : x \in {z \in C : s \in Authors(work[z])}}
             /\ UNCHANGED writers
    <3>1. CASE a = s /\ y \in C BY <2>1, <2>6, <3>1 DEF Accounted
    <3>2. CASE ~(a = s /\ y \in C) BY <2>2, <2>3, <2>6, <3>2 DEF Accounted
    <3> QED BY <3>1, <3>2
  <2> QED BY <1>2, <2>4, <2>5, <2>6
<1>10. Grows BY <1>0, <1>1, SameGrows
<1> QED BY <1>1, <1>7, <1>8, <1>9, <1>10, OutsideInv DEF Committing, Before, Guarded

LEMMA PruneWritersKeeps == ASSUME IInv, NEW s \in Session, PruneWriters(s) PROVE IInv'
<1>0. Types BY DEF IInv
<1> DEFINE D == job[s].dirty
<1>1. /\ pc[s] = "prune" /\ CommitEnd(s)
      /\ UNCHANGED <<work, head, leased, ops, edits, commits, accepts>>
  BY DEF PruneWriters, tree, bounds
<1>2. CASE UNCHANGED <<writers, lost>>
  BY <1>1, <1>2, CommitEndKeeps DEF Committing, tree, book, bounds
<1>3. CASE writers' = Prune(writers, D) /\ lost' = lost \cup Dropped(D)
  <2>1. D \in SUBSET Path BY <1>0 DEF Types, TypeOK
  <2>2. writers' \in [Path -> SUBSET (Session \cup {Unknown})] /\ lost' \subseteq Session \X Path
    BY <1>0, <1>3, <2>1, PruneTypes DEF Types, TypeOK
  <2>3. \A a \in Session, y \in Path : AtStake(a, y) /\ writers[y] \cap {a, Unknown} # {}
          => writers'[y] \cap {a, Unknown} # {} \/ <<a, y>> \in lost'
    BY <1>0, <1>3, <2>1, PruneAccounts
  <2>4. OwnStep(s) /\ pc'[s] = "idle" /\ job'[s] = NoJob /\ lock' = NoOne
    BY <1>0, <1>1, OwnMove, NoJobType DEF CommitEnd, Finish, Stage
  <2>5. pc' \in [Session -> Stage] /\ job' \in [Session -> Job]
        /\ \A t \in Session \ {s} : pc'[t] = pc[t] /\ job'[t] = job[t]
    BY <2>4 DEF OwnStep
  <2>6. Types'
    <3>1. \A t \in Session : pc'[t] \in {"claim", "write"} => job'[t].path \in Path
      BY <1>0, <2>4, <2>5 DEF Types
    <3>2. work' \in [Path -> Seq(Session)] /\ leased' \in [Session -> SUBSET Path]
          /\ ops' \subseteq Session /\ lock' \in Session \cup {NoOne} /\ head' \in 0..MaxCommits
          /\ edits' \in 0..MaxEdits /\ commits' \in 0..MaxCommits /\ accepts' \in 0..MaxAccepts
      BY <1>0, <1>1, <2>4 DEF Types, TypeOK
    <3> QED BY <2>2, <2>5, <3>1, <3>2, AllTypes
  <2>7. WriterInv'
    <3> SUFFICES ASSUME NEW a \in Session, NEW y \in Path, AtStake(a, y)' PROVE Accounted(a, y)'
      BY DEF WriterInv
    <3>1. AtStake(a, y) BY <1>1, <2>4, <2>5 DEF AtStake
    <3>2. Accounted(a, y) BY <3>1 DEF IInv, WriterInv
    <3>3. CASE writers[y] \cap {a, Unknown} # {} BY <2>3, <3>1, <3>3 DEF Accounted
    <3>4. CASE <<a, y>> \in lost BY <1>3, <3>4 DEF Accounted
    <3>5. CASE pc[a] \in Shelled /\ y \in job[a].changed
      <4>1. a # s BY <1>1, <3>5 DEF Shelled
      <4> QED BY <2>5, <3>5, <4>1 DEF Accounted
    <3> QED BY <3>2, <3>3, <3>4, <3>5 DEF Accounted
  <2>8. Disciplined(s)
    <3>1. commits' \in Nat /\ commits' >= commits BY <1>0, <1>1, CheckoutAssumption DEF Types, TypeOK
    <3> QED BY <1>1, <2>4, <3>1 DEF Disciplined, Committing, Before, Guarded, Passed
  <2>9. LockInv' /\ HeadInv' /\ GateInv' BY <2>5, <2>8, DisciplineKept DEF IInv
  <2>10. Holds(s)' BY <2>4, NothingHeld DEF Before, Guarded
  <2>11. Grows /\ work' \in [Path -> Seq(Session)] BY <1>0, <1>1, SameGrows DEF Types, TypeOK
  <2>12. \A t \in Session \ {s} : Holds(t)' BY <2>5, <2>11, OthersHold DEF IInv
  <2> QED BY <2>6, <2>7, <2>9, <2>10, <2>12 DEF IInv, CommitInv
<1> QED BY <1>2, <1>3 DEF PruneWriters

LEMMA CommittedType ==
    ASSUME Types, NEW s \in Session
    PROVE  Committed(s) \in [Path -> Seq(Session)]
<1>1. job[s].staged \in [Path -> Seq(Session)] /\ work \in [Path -> Seq(Session)]
  BY DEF Types, TypeOK
<1> QED BY <1>1 DEF Committed

(* git commit moves HEAD under the lock, so nobody else is in st commit.   *)
LEMMA CommitKeeps == ASSUME IInv, NEW s \in Session, Commit(s) PROVE IInv'
<1>0. Types BY DEF IInv
<1> DEFINE c == Committed(s)
<1>1. pc[s] = "commit" /\ UNCHANGED <<writers, leased, ops, edits, commits, accepts>>
  BY DEF Commit, book, bounds
<1>2. CASE CommitEnd(s) /\ UNCHANGED <<tree, lost>>
  BY <1>1, <1>2, CommitEndKeeps DEF Committing, Before, Guarded, book, bounds
<1>3. CASE /\ work' = [x \in Path |-> SubSeq(work[x], Len(c[x]) + 1, Len(work[x]))]
           /\ head' = head + 1
           /\ lost' = {e \in lost : e[1] \in Authors(work'[e[2]])
                                    \/ (pc[e[1]] = "write" /\ job[e[1]].path = e[2])}
           /\ \/ Go(s, "release") /\ UNCHANGED <<job, lock>>
              \/ CommitEnd(s)
  <2>1. c \in [Path -> Seq(Session)] /\ work \in [Path -> Seq(Session)]
    BY <1>0, CommittedType DEF Types, TypeOK
  <2> HIDE DEF c
  <2>2. \A x \in Path : /\ work'[x] = SubSeq(work[x], Len(c[x]) + 1, Len(work[x]))
                        /\ work[x] \in Seq(Session) /\ Len(c[x]) \in Nat
    BY <1>3, <2>1
  <2>3. \A x \in Path : work'[x] \in Seq(Session) /\ Authors(work'[x]) \subseteq Authors(work[x])
    BY <2>2, RestIsWork
  <2>4. work' \in [Path -> Seq(Session)]
    <3>1. work' = [x \in Path |-> work'[x]] BY <1>3
    <3> QED BY <2>3, <3>1
  <2>5. OwnStep(s) /\ pc'[s] \in {"release", "idle"} /\ (lock' = lock \/ (lock' = NoOne /\ pc'[s] = "idle"))
    <3>1. CASE Go(s, "release") /\ UNCHANGED <<job, lock>>
      BY <1>0, <3>1, OwnStay DEF Stage
    <3>2. CASE CommitEnd(s)
      BY <1>0, <3>2, OwnMove, NoJobType DEF CommitEnd, Finish, Stage
    <3> QED BY <1>3, <3>1, <3>2
  <2>6. pc' \in [Session -> Stage] /\ job' \in [Session -> Job]
        /\ \A t \in Session \ {s} : pc'[t] = pc[t] /\ job'[t] = job[t]
    BY <2>5 DEF OwnStep
  <2>7. head \in Nat /\ commits \in 0..MaxCommits /\ head < commits
    BY <1>0, <1>1, CheckoutAssumption DEF IInv, HeadInv, Before, Guarded, Types, TypeOK
  <2>8. Types'
    <3>1. head' \in 0..MaxCommits BY <1>3, <2>7, CheckoutAssumption
    <3>2. \A t \in Session : pc'[t] \in {"claim", "write"} => job'[t].path \in Path
      BY <1>0, <2>5, <2>6 DEF Types
    <3>3. lost' \subseteq Session \X Path BY <1>0, <1>3 DEF Types, TypeOK
    <3>4. writers' \in [Path -> SUBSET (Session \cup {Unknown})] /\ leased' \in [Session -> SUBSET Path]
          /\ ops' \subseteq Session /\ edits' \in 0..MaxEdits
          /\ commits' \in 0..MaxCommits /\ accepts' \in 0..MaxAccepts
      BY <1>0, <1>1 DEF Types, TypeOK
    <3>5. lock' \in Session \cup {NoOne} BY <1>0, <2>5 DEF Types, TypeOK
    <3> QED BY <2>4, <2>6, <3>1, <3>2, <3>3, <3>4, <3>5, AllTypes
  <2>9. lock = s /\ \A t \in Session \ {s} : pc[t] \notin Committing
    BY <1>1 DEF IInv, LockInv, Committing, Before, Guarded
  <2>10. LockInv'
    BY <2>5, <2>6, <2>9 DEF LockInv, Committing, Before, Guarded
  <2>11. HeadInv'
    <3>1. \A t \in Session : pc'[t] \notin Before
      BY <2>5, <2>6, <2>9 DEF Committing, Before, Guarded
    <3>2. head' <= commits' BY <1>1, <1>3, <2>7
    <3> QED BY <3>1, <3>2 DEF HeadInv
  <2>12. GateInv'
    <3>1. \A t \in Session : pc'[t] \notin Passed
      BY <2>5, <2>6, <2>9 DEF Committing, Before, Guarded, Passed
    <3> QED BY <3>1 DEF GateInv
  <2>13. WriterInv'
    <3> SUFFICES ASSUME NEW a \in Session, NEW y \in Path, AtStake(a, y)' PROVE Accounted(a, y)'
      BY DEF WriterInv
    <3>1. a \in Authors(work'[y]) \/ (pc[a] = "write" /\ job[a].path = y)
      BY <2>5, <2>6 DEF AtStake
    <3>2. AtStake(a, y) BY <2>3, <3>1 DEF AtStake
    <3>3. Accounted(a, y) BY <3>2 DEF IInv, WriterInv
    <3>4. <<a, y>> \in lost => <<a, y>> \in lost' BY <1>3, <3>1
    <3>5. pc[a] \in Shelled => a # s BY <1>1 DEF Shelled
    <3> QED BY <1>1, <2>6, <3>3, <3>4, <3>5 DEF Accounted
  <2>14. Holds(s)' BY <2>5, NothingHeld DEF Before, Guarded
  <2>15. \A t \in Session \ {s} : Holds(t)'
    BY <1>1, <2>4, <2>6, OthersHold DEF IInv, Committing, Before, Guarded
  <2> QED BY <2>8, <2>10, <2>11, <2>12, <2>13, <2>14, <2>15 DEF IInv, CommitInv
<1> QED BY <1>2, <1>3 DEF Commit

-----------------------------------------------------------------------------
(* The specification. *)

LEMMA InitInv == ASSUME Init PROVE IInv
<1>1. \A x \in Path : Clean[x] = <<>> /\ Authors(Clean[x]) = {} BY DEF Clean, Authors
<1>2. Clean \in [Path -> Seq(Session)] BY DEF Clean
<1>3. \A t \in Session : pc[t] = "idle" /\ job[t] = NoJob BY DEF Init
<1>4. NoJob \in Job BY NoJobType
<1>5. job \in [Session -> Job] BY <1>4 DEF Init
<1>6. TypeOK
  <2>1. \A s \in Session :
         /\ job[s].path \in Path \cup {NoOne}
         /\ job[s].named \subseteq Path /\ job[s].changed \subseteq Path
         /\ job[s].fresh \subseteq Path /\ job[s].dirty \subseteq Path
         /\ job[s].snap \in [Path -> Seq(Session)] /\ job[s].staged \in [Path -> Seq(Session)]
    BY <1>3, <1>4 DEF Job
  <2>2. 0 \in 0..MaxCommits /\ 0 \in 0..MaxEdits /\ 0 \in 0..MaxAccepts BY CheckoutAssumption
  <2>3. pc \in [Session -> Stage] BY DEF Init, Stage
  <2> QED BY <1>2, <2>1, <2>2, <2>3 DEF TypeOK, Init
<1>7. Types BY <1>3, <1>5, <1>6 DEF Types
<1>8. LockInv /\ GateInv /\ CommitInv
  BY <1>3 DEF Init, LockInv, GateInv, CommitInv, Holds, Committing, Before, Guarded
<1>9. HeadInv BY <1>3 DEF Init, HeadInv, Before, Guarded
<1>10. WriterInv BY <1>1, <1>3 DEF Init, WriterInv, AtStake
<1> QED BY <1>7, <1>8, <1>9, <1>10 DEF IInv

LEMMA StutterInv == ASSUME IInv, UNCHANGED vars PROVE IInv'
<1>1. UNCHANGED <<work, head, writers, leased, ops, lock, pc, job, lost, edits, commits, accepts>>
  BY DEF vars, tree, book, bounds
<1> QED BY <1>1 DEF IInv, Types, TypeOK, LockInv, HeadInv, GateInv, WriterInv, AtStake, Accounted,
                    CommitInv, Holds, Listed, Seen, Staged, Whole

LEMMA NextInv == ASSUME IInv, Next PROVE IInv'
BY EditCheckKeeps, ShellWriteKeeps, ClaimKeeps, WriteKeeps, ShellStartKeeps, ShellEndKeeps,
   ShellRecordKeeps, CommitStartKeeps, SelectKeeps, SweepKeeps, GuardKeeps, CheckKeeps,
   CheckedKeeps, AddKeeps, CommitKeeps, ReleaseKeeps, PruneWritersKeeps, AcceptStartKeeps,
   AcceptBeforeKeeps, AcceptAfterKeeps DEF Next

(* Whoever is in st commit holds the repository lock; what it listed is    *)
(* still in the tree; every edit there is named by the writer set, counted *)
(* as lost, or still to be recorded by a shell hook.                       *)
THEOREM Inductive == Spec => []IInv
<1>1. Init => IInv BY InitInv
<1>2. IInv /\ [Next]_vars => IInv' BY NextInv, StutterInv
<1> QED BY <1>1, <1>2, PTL DEF Spec

(* Every variable keeps its type: sequences of sessions in the tree, known *)
(* or unknown writers in the writer sets, HEAD within the commits begun.   *)
THEOREM TypeCorrect == Spec => []TypeOK
<1>1. IInv => TypeOK BY DEF IInv, Types
<1> QED BY <1>1, Inductive, PTL

(* Only git commit moves HEAD, or leaves the place where it is made. *)
LEMMA OnlyCommit ==
    ASSUME Types, Next
    PROVE  \/ \E s \in Session : Commit(s)
           \/ head' = head /\ \A t \in Session : pc[t] = "commit" => pc'[t] = "commit"
<1>0. pc \in [Session -> Stage] BY DEF Types, TypeOK
<1> PICK s \in Session :
    \/ \E x \in Path : EditCheck(s, x) \/ ShellWrite(s, x)
    \/ Claim(s) \/ Write(s) \/ ShellStart(s) \/ ShellEnd(s) \/ ShellRecord(s)
    \/ \E named \in SUBSET Path : CommitStart(s, named)
    \/ Select(s) \/ Sweep(s) \/ Guard(s) \/ Check(s) \/ Checked(s)
    \/ Add(s) \/ Commit(s) \/ Release(s) \/ PruneWriters(s)
    \/ AcceptStart(s) \/ AcceptBefore(s) \/ AcceptAfter(s)
  BY DEF Next
<1>1. CASE \E x \in Path : EditCheck(s, x) \/ ShellWrite(s, x)
  BY <1>0, <1>1 DEF EditCheck, ShellWrite, Go, tree
<1>2. CASE Claim(s) \/ Write(s) \/ ShellStart(s) \/ ShellEnd(s) \/ ShellRecord(s)
  BY <1>0, <1>2 DEF Claim, Write, ShellStart, ShellEnd, ShellRecord, Go, Finish, tree
<1>3. CASE \E named \in SUBSET Path : CommitStart(s, named)
  BY <1>0, <1>3 DEF CommitStart, Go, tree
<1>4. CASE Select(s) \/ Sweep(s) \/ Guard(s) \/ Check(s) \/ Checked(s)
  BY <1>0, <1>4 DEF Select, Sweep, Guard, Check, Checked, Go, CommitEnd, Finish, tree
<1>5. CASE Add(s) \/ Release(s) \/ PruneWriters(s)
  BY <1>0, <1>5 DEF Add, Release, PruneWriters, Go, CommitEnd, Finish, tree
<1>6. CASE AcceptStart(s) \/ AcceptBefore(s) \/ AcceptAfter(s)
  BY <1>0, <1>6 DEF AcceptStart, AcceptBefore, AcceptAfter, Go, Finish, tree
<1> QED BY <1>1, <1>2, <1>3, <1>4, <1>5, <1>6

(* While an acceptance with a live op lease runs its checks, HEAD stays:   *)
(* the commit guard refuses to pass it, and acceptance enters its checks   *)
(* only when no commit holds the lock.                                     *)
THEOREM HeadStill == Spec => HeadStillUnderAcceptance
<1>1. ASSUME IInv, [Next]_vars, NEW a \in ops, pc[a] = "gate" PROVE head' = head
  <2>1. CASE UNCHANGED vars BY <2>1 DEF vars, tree
  <2>2. CASE Next
    <3>1. \A s \in Session : pc[s] # "commit" BY <1>1 DEF IInv, GateInv, Passed
    <3> QED BY <1>1, <2>2, <3>1, OnlyCommit DEF IInv, Commit
  <2> QED BY <1>1, <2>1, <2>2
<1>2. IInv /\ [Next]_vars => [(\E s \in ops : pc[s] = "gate") => head' = head]_vars
  BY <1>1
<1> QED BY <1>2, Inductive, PTL DEF Spec, HeadStillUnderAcceptance

(* A commit takes another session's edit from a path not named to it only  *)
(* when that edit came after the listing, or was hidden from the guard: by *)
(* a lost entry, or by a shell whose hook had not run.                     *)
THEOREM SweepByRaceOnly == Spec => SweepOnlyByRace
<1>1. ASSUME IInv, NEW s \in Session, NEW x \in Path, Commits(s), x \notin job[s].named,
             NEW i \in Foreign(s, x)
      PROVE  i > Len(job[s].snap[x]) \/ <<Committed(s)[x][i], x>> \in job[s].blind
  <2>1. Listed(s) /\ Seen(s) /\ Staged(s)
    BY <1>1 DEF Commits, IInv, CommitInv, Holds, Guarded
  <2>2. job[s].snap[x] \in Seq(Session) /\ job[s].staged[x] \in Seq(Session)
        /\ work[x] \in Seq(Session) /\ job[s].changed \subseteq Path
    BY <1>1 DEF IInv, Types, TypeOK
  <2>3. i \in DOMAIN Committed(s)[x] /\ Committed(s)[x][i] # s BY <1>1 DEF Foreign
  <2>4. Committed(s)[x] = IF job[s].index THEN job[s].staged[x]
                          ELSE IF x \in job[s].changed THEN work[x] ELSE <<>>
    BY DEF Committed
  <2>5. SUFFICES ASSUME ~(i > Len(job[s].snap[x]))
                 PROVE  <<Committed(s)[x][i], x>> \in job[s].blind
    OBVIOUS
  <2>6. Whole(s) \/ x \in job[s].changed
    BY <2>1, <2>3, <2>4 DEF Staged
  <2>7. Whole(s) BY <1>1, <2>1, <2>6 DEF Listed
  <2>8. Begins(job[s].snap[x], Committed(s)[x])
    <3>1. CASE job[s].index BY <2>1, <2>4, <2>7, <3>1 DEF Staged
    <3>2. CASE ~job[s].index /\ x \in job[s].changed BY <2>1, <2>4, <3>2 DEF Listed
    <3>3. CASE ~job[s].index /\ x \notin job[s].changed BY <2>3, <2>4, <3>3
    <3> QED BY <3>1, <3>2, <3>3
  <2>9. i \in 1..Len(job[s].snap[x])
    <3>1. Committed(s)[x] \in Seq(Session) BY <1>1, CommittedType DEF IInv
    <3> QED BY <2>2, <2>3, <2>5, <3>1
  <2>10. Committed(s)[x][i] = job[s].snap[x][i] BY <2>8, <2>9 DEF Begins
  <2>11. x \in job[s].changed BY <2>1, <2>7, <2>9 DEF Listed
  <2> QED BY <1>1, <2>1, <2>3, <2>9, <2>10, <2>11 DEF Seen
<1>2. IInv => \A s \in Session, x \in Path : Commits(s) /\ x \notin job[s].named =>
         \A i \in Foreign(s, x) :
            i > Len(job[s].snap[x]) \/ <<Committed(s)[x][i], x>> \in job[s].blind
  BY <1>1
<1> QED BY <1>2, Inductive, PTL DEF SweepOnlyByRace

LEMMA RestAfterBeginning ==
    ASSUME NEW u \in Seq(Session), NEW w \in Seq(Session), Begins(u, w)
    PROVE  w = u \o SubSeq(w, Len(u) + 1, Len(w))
<1> DEFINE r == SubSeq(w, Len(u) + 1, Len(w))
<1>1. Len(u) \in Nat /\ Len(w) \in Nat /\ Len(u) <= Len(w) BY DEF Begins
<1>2. r \in Seq(Session) /\ Len(r) = Len(w) - Len(u)
      /\ \A i \in 1..Len(r) : r[i] = w[Len(u) + i]
  BY <1>1
<1> HIDE DEF r
<1>3. u \o r \in Seq(Session) /\ Len(u \o r) = Len(w) BY <1>1, <1>2
<1>4. \A i \in 1..Len(w) : (u \o r)[i] = w[i]
  <2> TAKE i \in 1..Len(w)
  <2>1. CASE i <= Len(u)
    <3>1. (u \o r)[i] = u[i] BY <1>1, <1>2, <2>1
    <3> QED BY <1>1, <2>1, <3>1 DEF Begins
  <2>2. CASE i > Len(u)
    <3>1. (u \o r)[i] = r[i - Len(u)] BY <1>1, <1>2, <2>2
    <3>2. i - Len(u) \in 1..Len(r) /\ Len(u) + (i - Len(u)) = i BY <1>1, <1>2, <2>2
    <3> QED BY <1>2, <3>1, <3>2
  <2>3. i <= Len(u) \/ i > Len(u) BY <1>1
  <2> QED BY <2>1, <2>2, <2>3
<1> QED BY <1>3, <1>4 DEF r

(* A commit that goes on to report success took in, from the paths it      *)
(* chose, exactly what it had staged, and left what was written since.     *)
THEOREM SuccessIsStaged == Spec => SuccessIsWhatWasStaged
<1>1. ASSUME IInv, Next, NEW s \in Session, pc[s] = "commit", pc'[s] = "release",
             NEW x \in job[s].changed
      PROVE  work[x] = job[s].staged[x] \o work'[x]
  <2>0. Types BY <1>1 DEF IInv
  <2>1. PICK t \in Session : Commit(t) BY <1>1, <2>0, OnlyCommit
  <2>2. t = s
    <3>1. lock = s /\ lock = t
      BY <1>1, <2>1 DEF IInv, LockInv, Committing, Before, Guarded, Commit
    <3> QED BY <3>1
  <2>3. MatchesStaged(s)
        /\ work' = [y \in Path |-> SubSeq(work[y], Len(Committed(s)[y]) + 1, Len(work[y]))]
    <3>1. ~CommitEnd(s) BY <1>1, <2>0 DEF CommitEnd, Finish, Go, Types, TypeOK
    <3> QED BY <2>1, <2>2, <3>1 DEF Commit
  <2>4. x \in Path /\ job[s].staged[x] \in Seq(Session) /\ work[x] \in Seq(Session)
    BY <1>1, <2>0 DEF Types, TypeOK
  <2>5. work'[x] = SubSeq(work[x], Len(job[s].staged[x]) + 1, Len(work[x]))
    BY <1>1, <2>3, <2>4 DEF MatchesStaged
  <2>6. Begins(job[s].staged[x], work[x])
    BY <1>1, <2>4 DEF IInv, CommitInv, Holds, Staged
  <2> QED BY <2>4, <2>5, <2>6, RestAfterBeginning
<1>2. IInv /\ [Next]_vars =>
        [\A s \in Session : pc[s] = "commit" /\ pc'[s] = "release"
           => \A x \in job[s].changed : work[x] = job[s].staged[x] \o work'[x]]_vars
  BY <1>1
<1> QED BY <1>2, Inductive, PTL DEF Spec, SuccessIsWhatWasStaged

-----------------------------------------------------------------------------
(* The inbox of one agent.                                                 *)

(***************************************************************************)
(* An item the woke file says the agent was woken for, and that it was not *)
(* shown, has a reason to be believed: a wake line is queued, the command  *)
(* that marked it is about to queue one, a line taken back is queued       *)
(* again, or a hook is about to show it.                                   *)
(***************************************************************************)
Posting(c, i) == call[c].pc = "post" /\ i \in call[c].keys /\ woke[i].by = c

Reason(i) ==
    \/ line = "wake"
    \/ \E c \in Caller : Posting(c, i)
    \/ call["hook"].pc # "off"
    \/ hook.pc \in {"read", "again"}
    \/ hook.pc = "print" /\ i \in hook.fresh

Claimed == {i \in Unheard : woke[i].current /\ i \notin missed \cup outrun}

PromiseInv == \A i \in Claimed : Reason(i)

HookInv == agent = "idle" => hook.pc = "off"

TokenInv == token => line = "ride" /\ hook.pc = "print"

AbsentInv ==
    \A i \in Item : state[i] = "absent" =>
        ~woke[i].current /\ \A c \in Caller : i \notin call[c].keys

CallInv ==
    /\ \A i \in Item : call[i].keys \subseteq {i}
    /\ \A c \in Caller : call[c].pc \in {"mark", "post"} => call[c].line # "none"

InboxInv == InboxTypeOK /\ HookInv /\ TokenInv /\ AbsentInv /\ CallInv /\ PromiseInv

CallRec == [pc : {"off", "settle", "compose", "mark", "post"},
            keys : SUBSET Item, line : {"none", "wake", "ride"}]

WokeRec == [by : Caller \cup {"none"}, age : {"none", "old", "new", "since"},
            current : BOOLEAN]

-----------------------------------------------------------------------------
(* What the writes to the woke file and to a caller's record do.           *)

LEMMA TypeParts ==
    ASSUME InboxTypeOK
    PROVE  /\ woke \in [Item -> WokeRec] /\ call \in [Caller -> CallRec]
           /\ \A i \in Item : i \in Caller
           /\ "watch" \in Caller /\ "hook" \in Caller /\ "hook" \notin Item /\ "watch" \notin Item
           /\ Unheard \subseteq Item /\ Waiting \subseteq Item
BY InboxAssumption DEF InboxTypeOK, WokeRec, CallRec, Caller, Unheard, Waiting, Item

LEMMA MarkWrites ==
    ASSUME InboxTypeOK, NEW c \in Caller, NEW keys \in SUBSET Item, Mark(c, keys)
    PROVE  /\ woke' \in [Item -> WokeRec]
           /\ \A i \in keys : woke'[i].by = c /\ woke'[i].current
           /\ \A i \in Item \ keys : woke'[i] = woke[i]
<1> DEFINE age == IF hook.pc \in {"look", "delete"} THEN "since" ELSE "new"
<1>1. [by |-> c, current |-> TRUE, age |-> age] \in WokeRec
  BY DEF WokeRec
<1>2. woke \in [Item -> WokeRec]
  BY TypeParts
<1>3. woke' = [i \in Item |-> IF i \notin keys THEN woke[i]
                  ELSE [by |-> c, current |-> TRUE, age |-> age]]
  BY DEF Mark
<1> HIDE DEF age
<1> QED BY <1>1, <1>2, <1>3

LEMMA UnmarkWrites ==
    ASSUME InboxTypeOK, NEW c \in Caller, NEW keys \in SUBSET Item, Unmark(c, keys)
    PROVE  /\ woke' \in [Item -> WokeRec]
           /\ \A i \in keys : woke[i].by = c => ~woke'[i].current
           /\ \A i \in Item : ~(i \in keys /\ woke[i].by = c) => woke'[i] = woke[i]
<1>1. Unmarked \in WokeRec /\ ~Unmarked.current
  BY DEF WokeRec, Unmarked
<1>2. woke \in [Item -> WokeRec]
  BY TypeParts
<1> QED BY <1>1, <1>2 DEF Unmark

LEMMA LaterWrites ==
    ASSUME InboxTypeOK, NEW old \in {"old", "new"}, Later(old)
    PROVE  /\ woke' \in [Item -> WokeRec]
           /\ \A i \in Item : woke'[i].by = woke[i].by /\ woke'[i].current = woke[i].current
<1>1. woke \in [Item -> WokeRec]
  BY TypeParts
<1>2. ASSUME NEW r \in WokeRec
      PROVE  LET s == [r EXCEPT !.age = CASE @ = "since" -> "new" [] @ = "new" -> old [] OTHER -> @]
             IN  s \in WokeRec /\ s.by = r.by /\ s.current = r.current
  BY DEF WokeRec
<1> QED BY <1>1, <1>2 DEF Later

LEMMA SetCallWrites ==
    ASSUME InboxTypeOK, NEW c \in Caller, NEW v \in CallRec, SetCall(c, v)
    PROVE  /\ call' \in [Caller -> CallRec]
           /\ \A d \in Caller : call'[d] = IF d = c THEN v ELSE call[d]
BY TypeParts DEF SetCall

LEMMA CallValues ==
    ASSUME InboxTypeOK, NEW c \in Caller
    PROVE  /\ NoCall \in CallRec
           /\ \A to \in {"settle", "compose", "mark", "post"} :
                 [call[c] EXCEPT !.pc = to] \in CallRec
           /\ \A l \in {"wake", "ride"} : [call[c] EXCEPT !.pc = "mark", !.line = l] \in CallRec
           /\ \A keys \in SUBSET Item :
                 [pc |-> "compose", keys |-> keys, line |-> "none"] \in CallRec
           /\ call[c].keys \in SUBSET Item
<1>1. call[c] \in CallRec
  BY TypeParts
<1> QED BY <1>1 DEF CallRec, NoCall

LEMMA KeepsSend ==
    ASSUME InboxInv, NEW i \in Item, Send(i)
    PROVE  InboxInv'
<1> USE DEF Send, StartsCall, ledger, tether, ghosts
<1>1. InboxTypeOK'
  BY InboxAssumption DEF InboxInv, InboxTypeOK, Caller
<1>2. HookInv' /\ TokenInv'
  BY DEF InboxInv, InboxTypeOK, HookInv, TokenInv
<1>3. AbsentInv'
  BY InboxAssumption DEF InboxInv, InboxTypeOK, AbsentInv, Caller
<1>4. CallInv'
  BY InboxAssumption DEF InboxInv, InboxTypeOK, AbsentInv, CallInv, Caller
<1>5. PromiseInv'
  BY InboxAssumption DEF InboxInv, InboxTypeOK, HookInv, TokenInv, AbsentInv, CallInv,
     PromiseInv, Claimed, Reason, Posting, Unheard, Waiting, Caller
<1> QED BY <1>1, <1>2, <1>3, <1>4, <1>5 DEF InboxInv

LEMMA KeepsAcked ==
    ASSUME InboxInv, NEW i \in Item, Acked(i)
    PROVE  InboxInv'
<1> USE DEF Acked, StartsCall, ledger, tether, ghosts
<1>1. InboxTypeOK'
  BY InboxAssumption DEF InboxInv, InboxTypeOK, Caller
<1>2. HookInv' /\ TokenInv'
  BY DEF InboxInv, InboxTypeOK, HookInv, TokenInv
<1>3. AbsentInv'
  BY InboxAssumption DEF InboxInv, InboxTypeOK, AbsentInv, Caller
<1>4. CallInv'
  BY InboxAssumption DEF InboxInv, InboxTypeOK, AbsentInv, CallInv, Caller
<1>5. PromiseInv'
  BY InboxAssumption DEF InboxInv, InboxTypeOK, HookInv, TokenInv, AbsentInv, CallInv,
     PromiseInv, Claimed, Reason, Posting, Unheard, Waiting, Caller
<1> QED BY <1>1, <1>2, <1>3, <1>4, <1>5 DEF InboxInv

LEMMA KeepsWithdraw ==
    ASSUME InboxInv, NEW i \in Item, Withdraw(i)
    PROVE  InboxInv'
<1> USE DEF Withdraw, ledger, tether, ghosts
<1>1. InboxTypeOK'
  BY InboxAssumption DEF InboxInv, InboxTypeOK, Caller
<1>2. HookInv' /\ TokenInv'
  BY DEF InboxInv, InboxTypeOK, HookInv, TokenInv
<1>3. AbsentInv'
  BY InboxAssumption DEF InboxInv, InboxTypeOK, AbsentInv, Caller
<1>4. CallInv'
  BY InboxAssumption DEF InboxInv, InboxTypeOK, AbsentInv, CallInv, Caller
<1>5. PromiseInv'
  BY InboxAssumption DEF InboxInv, InboxTypeOK, HookInv, TokenInv, AbsentInv, CallInv,
     PromiseInv, Claimed, Reason, Posting, Unheard, Waiting, Caller
<1> QED BY <1>1, <1>2, <1>3, <1>4, <1>5 DEF InboxInv

LEMMA KeepsLapse ==
    ASSUME InboxInv, NEW i \in Item, Lapse(i)
    PROVE  InboxInv'
<1>0. InboxTypeOK /\ HookInv /\ TokenInv /\ AbsentInv /\ CallInv /\ PromiseInv
  BY DEF InboxInv
<1>w. /\ woke' \in [Item -> WokeRec]
      /\ \A j \in Item : woke'[j].by = woke[j].by
      /\ \A j \in Item : woke'[j].current => j # i /\ woke[j].current
  <2>1. woke \in [Item -> WokeRec]
    BY <1>0, TypeParts
  <2>2. \A r \in WokeRec : LET s == [r EXCEPT !.current = FALSE]
                           IN  s \in WokeRec /\ s.by = r.by /\ ~s.current
    BY DEF WokeRec
  <2> QED BY <2>1, <2>2 DEF Lapse
<1> USE DEF Lapse, ledger, tether, ghosts
<1>1. InboxTypeOK'
  BY <1>0, <1>w, InboxAssumption DEF InboxTypeOK, WokeRec
<1>2. HookInv' /\ TokenInv'
  BY <1>0 DEF HookInv, TokenInv
<1>3. AbsentInv'
  BY <1>0, <1>w DEF InboxTypeOK, AbsentInv
<1>4. CallInv'
  BY <1>0 DEF CallInv
<1>5. PromiseInv'
  BY <1>0, <1>w DEF InboxTypeOK, PromiseInv, Claimed, Reason, Posting, Unheard, Waiting
<1> QED BY <1>1, <1>2, <1>3, <1>4, <1>5 DEF InboxInv

LEMMA KeepsKilled ==
    ASSUME InboxInv, NEW i \in Item, Killed(i)
    PROVE  InboxInv'
<1> USE DEF Killed, SetCall, Fault, NoCall, ledger, tether, ghosts
<1>1. InboxTypeOK'
  BY InboxAssumption DEF InboxInv, InboxTypeOK, Caller
<1>2. HookInv' /\ TokenInv'
  BY DEF InboxInv, InboxTypeOK, HookInv, TokenInv
<1>3. AbsentInv'
  BY InboxAssumption DEF InboxInv, InboxTypeOK, AbsentInv, Caller
<1>4. CallInv'
  BY InboxAssumption DEF InboxInv, InboxTypeOK, AbsentInv, CallInv, Caller
<1>5. PromiseInv'
  BY InboxAssumption DEF InboxInv, InboxTypeOK, HookInv, TokenInv, AbsentInv, CallInv,
     PromiseInv, Claimed, Reason, Posting, Unheard, Waiting, Caller
<1> QED BY <1>1, <1>2, <1>3, <1>4, <1>5 DEF InboxInv

LEMMA KeepsSettle ==
    ASSUME InboxInv, NEW i \in Item, NEW closes \in BOOLEAN, Settle(i, closes)
    PROVE  InboxInv'
<1>0. InboxTypeOK /\ HookInv /\ TokenInv /\ AbsentInv /\ CallInv /\ PromiseInv
  BY DEF InboxInv
<1>c. /\ call' \in [Caller -> CallRec]
      /\ \A c \in Caller : call'[c].keys = call[c].keys /\ call'[c].line = call[c].line
      /\ \A c \in Caller : call'[c].pc # call[c].pc =>
                              call[c].pc = "settle" /\ call'[c].pc = "compose"
  <2>1. call \in [Caller -> CallRec] /\ i \in Caller
    BY <1>0, TypeParts
  <2>2. \A r \in CallRec : LET s == [r EXCEPT !.pc = "compose"]
                           IN  s \in CallRec /\ s.keys = r.keys /\ s.line = r.line /\ s.pc = "compose"
    BY DEF CallRec
  <2> QED BY <2>1, <2>2 DEF Settle
<1> USE DEF Settle, ledger, tether, ghosts
<1>1. InboxTypeOK'
  <2>1. state' \in [Item -> {"absent", "waiting", "riding", "eta", "done"}]
    BY <1>0 DEF InboxTypeOK
  <2> QED BY <1>0, <1>c, <2>1 DEF InboxTypeOK, CallRec
<1>2. HookInv' /\ TokenInv'
  BY <1>0 DEF HookInv, TokenInv
<1>3. AbsentInv'
  BY <1>0, <1>c DEF InboxTypeOK, AbsentInv
<1>4. CallInv'
  BY <1>0, <1>c, TypeParts DEF CallInv
<1>5. PromiseInv'
  BY <1>0, <1>c, TypeParts DEF InboxTypeOK, PromiseInv, Claimed, Reason, Posting, Unheard, Waiting
<1> QED BY <1>1, <1>2, <1>3, <1>4, <1>5 DEF InboxInv

LEMMA KeepsAnswer ==
    ASSUME InboxInv, NEW i \in Item, NEW answer \in {"done", "eta"}, Answer(i, answer)
    PROVE  InboxInv'
<1> USE DEF Answer, ledger, tether, ghosts
<1>1. InboxTypeOK'
  BY InboxAssumption DEF InboxInv, InboxTypeOK, Caller
<1>2. HookInv' /\ TokenInv'
  BY DEF InboxInv, InboxTypeOK, HookInv, TokenInv
<1>3. AbsentInv'
  BY InboxAssumption DEF InboxInv, InboxTypeOK, AbsentInv, Caller
<1>4. CallInv'
  BY InboxAssumption DEF InboxInv, InboxTypeOK, AbsentInv, CallInv, Caller
<1>5. PromiseInv'
  BY InboxAssumption DEF InboxInv, InboxTypeOK, HookInv, TokenInv, AbsentInv, CallInv,
     PromiseInv, Claimed, Reason, Posting, Unheard, Waiting, Caller
<1> QED BY <1>1, <1>2, <1>3, <1>4, <1>5 DEF InboxInv

LEMMA KeepsWakeComposes ==
    ASSUME InboxInv, NEW c \in Caller, WakeComposes(c)
    PROVE  InboxInv'
<1>0. InboxTypeOK /\ HookInv /\ TokenInv /\ AbsentInv /\ CallInv /\ PromiseInv
  BY DEF InboxInv
<1>t. /\ call \in [Caller -> CallRec] /\ woke \in [Item -> WokeRec] /\ Unheard \subseteq Item
      /\ \A i \in Item : i \in Caller
  BY <1>0, TypeParts
<1>a. CASE Compose = "none"
  <2>1. SetCall(c, NoCall) /\ Mark(c, call[c].keys) /\ Waiting = {} /\ call[c].keys \in SUBSET Item
        /\ NoCall \in CallRec
    BY <1>0, <1>a, CallValues DEF WakeComposes, Compose
  <2>2. /\ call' \in [Caller -> CallRec]
        /\ \A d \in Caller : call'[d] = IF d = c THEN NoCall ELSE call[d]
    BY <1>0, <2>1, SetCallWrites
  <2>3. /\ woke' \in [Item -> WokeRec]
        /\ \A i \in Item \ call[c].keys : woke'[i] = woke[i]
    BY <1>0, <2>1, MarkWrites
  <2>4. NoCall.pc = "off" /\ NoCall.keys = {}
    BY DEF NoCall
  <2> USE DEF WakeComposes, ledger, tether, ghosts
  <2>5. InboxTypeOK'
    BY <1>0, <2>2, <2>3 DEF InboxTypeOK, CallRec, WokeRec
  <2>6. HookInv' /\ TokenInv'
    BY <1>0 DEF HookInv, TokenInv
  <2>7. AbsentInv'
    BY <1>0, <2>2, <2>3, <2>4 DEF AbsentInv
  <2>8. CallInv'
    BY <1>0, <1>t, <2>2, <2>4 DEF CallInv
  <2>9. PromiseInv'
    BY <2>1 DEF PromiseInv, Claimed, Unheard, Waiting
  <2> QED BY <2>5, <2>6, <2>7, <2>8, <2>9 DEF InboxInv
<1>b. CASE Compose # "none"
  <2>1. /\ SetCall(c, [call[c] EXCEPT !.pc = "mark", !.line = Compose]) /\ woke' = woke
        /\ Compose \in {"wake", "ride"}
    BY <1>b DEF WakeComposes, Compose
  <2> DEFINE v == [call[c] EXCEPT !.pc = "mark", !.line = Compose]
  <2>2. v \in CallRec /\ v.pc = "mark" /\ v.line # "none" /\ v.keys = call[c].keys
    <3>1. \A r \in CallRec, l \in {"wake", "ride"} :
             LET s == [r EXCEPT !.pc = "mark", !.line = l]
             IN  s \in CallRec /\ s.pc = "mark" /\ s.line # "none" /\ s.keys = r.keys
      BY DEF CallRec
    <3>2. call[c] \in CallRec
      BY <1>t
    <3> QED BY <2>1, <3>1, <3>2, Zenon
  <2>3. SetCall(c, v)
    BY <2>1
  <2> HIDE DEF v
  <2>4. /\ call' \in [Caller -> CallRec]
        /\ \A d \in Caller : call'[d] = IF d = c THEN v ELSE call[d]
    BY <1>0, <2>2, <2>3, SetCallWrites
  <2>5. call[c].pc = "compose"
    BY DEF WakeComposes
  <2> USE DEF WakeComposes, ledger, tether, ghosts
  <2>6. InboxTypeOK'
    BY <1>0, <2>1, <2>4 DEF InboxTypeOK, CallRec
  <2>7. HookInv' /\ TokenInv'
    BY <1>0 DEF HookInv, TokenInv
  <2>8. AbsentInv'
    BY <1>0, <2>1, <2>2, <2>4 DEF AbsentInv
  <2>9. CallInv'
    BY <1>0, <1>t, <2>2, <2>4 DEF CallInv
  <2>10. PromiseInv'
    <3> SUFFICES ASSUME NEW i \in Claimed'
                 PROVE  Reason(i)'
      BY DEF PromiseInv
    <3>1. i \in Claimed
      BY <2>1 DEF Claimed, Unheard, Waiting
    <3>2. Reason(i)
      BY <1>0, <3>1 DEF PromiseInv
    <3>3. "hook" \in Caller
      BY DEF Caller
    <3> QED BY <2>1, <2>2, <2>4, <2>5, <3>2, <3>3 DEF Reason, Posting
  <2> QED BY <2>6, <2>7, <2>8, <2>9, <2>10 DEF InboxInv
<1> QED BY <1>a, <1>b

LEMMA KeepsWakeMarks ==
    ASSUME InboxInv, NEW c \in Caller, WakeMarks(c)
    PROVE  InboxInv'
<1>0. InboxTypeOK /\ HookInv /\ TokenInv /\ AbsentInv /\ CallInv /\ PromiseInv
  BY DEF InboxInv
<1>t. /\ call \in [Caller -> CallRec] /\ woke \in [Item -> WokeRec] /\ Unheard \subseteq Item
      /\ \A i \in Item : i \in Caller
  BY <1>0, TypeParts
<1> DEFINE v == [call[c] EXCEPT !.pc = "post"]
<1>a. v \in CallRec /\ v.pc = "post" /\ v.line = call[c].line /\ v.keys = call[c].keys
  BY <1>0, <1>t, CallValues DEF CallRec
<1>b. SetCall(c, v) /\ Mark(c, call[c].keys) /\ call[c].pc = "mark" /\ call[c].keys \in SUBSET Item
  BY <1>0, CallValues DEF WakeMarks
<1> HIDE DEF v
<1>c. /\ call' \in [Caller -> CallRec]
      /\ \A d \in Caller : call'[d] = IF d = c THEN v ELSE call[d]
  BY <1>0, <1>a, <1>b, SetCallWrites
<1>w. /\ woke' \in [Item -> WokeRec]
      /\ \A i \in call[c].keys : woke'[i].by = c /\ woke'[i].current
      /\ \A i \in Item \ call[c].keys : woke'[i] = woke[i]
  BY <1>0, <1>b, MarkWrites
<1> USE DEF WakeMarks, ledger, tether, ghosts
<1>1. InboxTypeOK'
  BY <1>0, <1>c, <1>w DEF InboxTypeOK, CallRec, WokeRec
<1>2. HookInv' /\ TokenInv'
  BY <1>0 DEF HookInv, TokenInv
<1>3. AbsentInv'
  BY <1>0, <1>a, <1>c, <1>w DEF AbsentInv
<1>4. CallInv'
  BY <1>0, <1>a, <1>b, <1>c, <1>t DEF CallInv
<1>5. PromiseInv'
  <2> SUFFICES ASSUME NEW i \in Claimed'
               PROVE  Reason(i)'
    BY DEF PromiseInv
  <2>0. i \in Item /\ i \in Unheard
    BY <1>t DEF Claimed, Unheard, Waiting
  <2>1. CASE i \in call[c].keys
    BY <1>a, <1>c, <1>w, <2>1 DEF Reason, Posting
  <2>2. CASE i \notin call[c].keys
    <3>1. i \in Claimed /\ woke'[i] = woke[i]
      BY <1>w, <2>0, <2>2 DEF Claimed
    <3>2. Reason(i)
      BY <1>0, <3>1 DEF PromiseInv
    <3>3. "hook" \in Caller
      BY DEF Caller
    <3> QED BY <1>a, <1>b, <1>c, <2>2, <3>1, <3>2, <3>3 DEF Reason, Posting
  <2> QED BY <2>1, <2>2
<1> QED BY <1>1, <1>2, <1>3, <1>4, <1>5 DEF InboxInv

LEMMA KeepsPost ==
    ASSUME InboxInv, NEW c \in Caller, Post(c)
    PROVE  InboxInv'
<1>0. InboxTypeOK /\ HookInv /\ TokenInv /\ AbsentInv /\ CallInv /\ PromiseInv
  BY DEF InboxInv
<1>t. /\ call \in [Caller -> CallRec] /\ woke \in [Item -> WokeRec] /\ Unheard \subseteq Item
      /\ "hook" \in Caller /\ \A i \in Item : i \in Caller
  BY <1>0, TypeParts
<1>a. NoCall \in CallRec /\ NoCall.pc = "off" /\ NoCall.keys = {} /\ call[c].keys \in SUBSET Item
  BY <1>0, CallValues DEF NoCall
<1>b. SetCall(c, NoCall) /\ call[c].pc = "post" /\ call[c].line \in {"wake", "ride"}
  BY <1>0, <1>t DEF Post, CallInv, CallRec
<1>c. /\ call' \in [Caller -> CallRec]
      /\ \A d \in Caller : call'[d] = IF d = c THEN NoCall ELSE call[d]
  BY <1>0, <1>a, <1>b, SetCallWrites
<1> USE DEF Post, Queue, ledger, tether, ghosts
<1>1. InboxTypeOK'
  BY <1>0, <1>b, <1>c, <1>t DEF InboxTypeOK, CallRec
<1>2. HookInv' /\ TokenInv'
  BY <1>0 DEF HookInv, TokenInv
<1>3. AbsentInv'
  BY <1>0, <1>a, <1>c DEF AbsentInv
<1>4. CallInv'
  BY <1>0, <1>a, <1>c, <1>t DEF CallInv
<1>5. PromiseInv'
  BY <1>b DEF PromiseInv, Claimed, Reason, Unheard, Waiting
<1> QED BY <1>1, <1>2, <1>3, <1>4, <1>5 DEF InboxInv

LEMMA KeepsPostUnsettled ==
    ASSUME InboxInv, NEW c \in Caller, PostUnsettled(c)
    PROVE  InboxInv'
<1>0. InboxTypeOK /\ HookInv /\ TokenInv /\ AbsentInv /\ CallInv /\ PromiseInv
  BY DEF InboxInv
<1>t. /\ call \in [Caller -> CallRec] /\ woke \in [Item -> WokeRec] /\ Unheard \subseteq Item
      /\ "hook" \in Caller /\ \A i \in Item : i \in Caller
  BY <1>0, TypeParts
<1>a. NoCall \in CallRec /\ NoCall.pc = "off" /\ NoCall.keys = {} /\ call[c].keys \in SUBSET Item
  BY <1>0, CallValues DEF NoCall
<1>b. /\ SetCall(c, NoCall) /\ Unmark(c, call[c].keys)
      /\ call[c].pc = "post" /\ call[c].line \in {"wake", "ride"}
  BY <1>0, <1>t DEF PostUnsettled, PostFailed, CallInv, CallRec
<1>c. /\ call' \in [Caller -> CallRec]
      /\ \A d \in Caller : call'[d] = IF d = c THEN NoCall ELSE call[d]
  BY <1>0, <1>a, <1>b, SetCallWrites
<1>w. /\ woke' \in [Item -> WokeRec]
      /\ \A i \in call[c].keys : woke[i].by = c => ~woke'[i].current
      /\ \A i \in Item : ~(i \in call[c].keys /\ woke[i].by = c) => woke'[i] = woke[i]
  BY <1>0, <1>a, <1>b, UnmarkWrites
<1>q. \/ Queue(call[c].line) /\ UNCHANGED missed
      \/ UNCHANGED <<line, token, outrun>> /\ missed' = IF c = "hook" THEN missed \cup Unheard ELSE missed
  BY DEF PostUnsettled, tether
<1>f. UNCHANGED <<state, lapses, seen, agent, hook, turns>> /\ faults < MaxFaults /\ faults' = faults + 1
  BY DEF PostUnsettled, Fault, ledger
<1>1. InboxTypeOK'
  <2>1. /\ line' \in {"none", "wake", "ride"} /\ token' \in BOOLEAN
        /\ missed' \subseteq Item /\ outrun' \subseteq Item
    BY <1>0, <1>b, <1>q, <1>t DEF InboxTypeOK, Queue
  <2>2. faults' \in 0..MaxFaults
    BY <1>0, <1>f, InboxAssumption DEF InboxTypeOK
  <2> QED BY <1>0, <1>c, <1>f, <1>w, <2>1, <2>2 DEF InboxTypeOK, CallRec, WokeRec
<1>2. HookInv' /\ TokenInv'
  BY <1>0, <1>f, <1>q DEF HookInv, TokenInv, Queue
<1>3. AbsentInv'
  BY <1>0, <1>a, <1>c, <1>f, <1>w DEF AbsentInv
<1>4. CallInv'
  BY <1>0, <1>a, <1>c, <1>t DEF CallInv
<1>5. PromiseInv'
  <2>1. CASE Queue(call[c].line)
    BY <1>b, <1>f, <2>1 DEF PromiseInv, Claimed, Reason, Unheard, Waiting, Queue
  <2>2. CASE UNCHANGED <<line, token, outrun>> /\ missed' = IF c = "hook" THEN missed \cup Unheard ELSE missed
    <3> SUFFICES ASSUME NEW i \in Claimed'
                 PROVE  Reason(i)'
      BY DEF PromiseInv
    <3>1. i \in Item /\ i \in Unheard /\ c # "hook"
      BY <1>f, <1>t, <2>2 DEF Claimed, Unheard, Waiting
    <3>2. i \in Claimed /\ woke'[i] = woke[i] /\ ~(i \in call[c].keys /\ woke[i].by = c)
      BY <1>w, <2>2, <3>1 DEF Claimed
    <3>3. Reason(i)
      BY <1>0, <3>2 DEF PromiseInv
    <3> QED BY <1>c, <1>f, <1>t, <2>2, <3>1, <3>2, <3>3 DEF Reason, Posting
  <2> QED BY <1>q, <2>1, <2>2
<1> QED BY <1>1, <1>2, <1>3, <1>4, <1>5 DEF InboxInv

LEMMA KeepsWatch ==
    ASSUME InboxInv, Watch
    PROVE  InboxInv'
<1>0. InboxTypeOK /\ HookInv /\ TokenInv /\ AbsentInv /\ CallInv /\ PromiseInv
  BY DEF InboxInv
<1>a. /\ call \in [Caller -> CallRec] /\ Wakeable \in SUBSET Item /\ "watch" \in Caller
      /\ "watch" \notin Item /\ "hook" \in Caller /\ \A i \in Item : i \in Caller
  BY <1>0, TypeParts DEF Wakeable, Item
<1> DEFINE v == [pc |-> "compose", keys |-> Wakeable, line |-> "none"]
<1>b. v \in CallRec /\ SetCall("watch", v) /\ v.pc = "compose" /\ v.keys = Wakeable
  BY <1>0, <1>a, CallValues DEF Watch
<1>w. \A i \in Wakeable : state[i] = "waiting"
  BY DEF Wakeable
<1> HIDE DEF v
<1>c. /\ call' \in [Caller -> CallRec]
      /\ \A d \in Caller : call'[d] = IF d = "watch" THEN v ELSE call[d]
  BY <1>0, <1>a, <1>b, SetCallWrites
<1> USE DEF Watch, ledger, tether, ghosts
<1>1. InboxTypeOK'
  BY <1>0, <1>c DEF InboxTypeOK, CallRec
<1>2. HookInv' /\ TokenInv'
  BY <1>0 DEF HookInv, TokenInv
<1>3. AbsentInv'
  BY <1>0, <1>a, <1>b, <1>c, <1>w DEF AbsentInv
<1>4. CallInv'
  BY <1>0, <1>a, <1>b, <1>c DEF CallInv
<1>5. PromiseInv'
  BY <1>0, <1>a, <1>b, <1>c DEF PromiseInv, Claimed, Reason, Posting, Unheard, Waiting
<1> QED BY <1>1, <1>2, <1>3, <1>4, <1>5 DEF InboxInv

LEMMA KeepsDeliver ==
    ASSUME InboxInv, Deliver
    PROVE  InboxInv'
<1> USE DEF Deliver, At, ledger, tether, ghosts
<1>1. InboxTypeOK'
  BY InboxAssumption DEF InboxInv, InboxTypeOK, Caller
<1>2. HookInv' /\ TokenInv'
  BY DEF InboxInv, InboxTypeOK, HookInv, TokenInv
<1>3. AbsentInv'
  BY InboxAssumption DEF InboxInv, InboxTypeOK, AbsentInv, Caller
<1>4. CallInv'
  BY InboxAssumption DEF InboxInv, InboxTypeOK, AbsentInv, CallInv, Caller
<1>5. PromiseInv'
  BY InboxAssumption DEF InboxInv, InboxTypeOK, HookInv, TokenInv, AbsentInv, CallInv,
     PromiseInv, Claimed, Reason, Posting, Unheard, Waiting, Caller
<1> QED BY <1>1, <1>2, <1>3, <1>4, <1>5 DEF InboxInv

LEMMA KeepsPrompt ==
    ASSUME InboxInv, Prompt
    PROVE  InboxInv'
<1> USE DEF Prompt, At, ledger, tether, ghosts
<1>1. InboxTypeOK'
  BY InboxAssumption DEF InboxInv, InboxTypeOK, Caller
<1>2. HookInv' /\ TokenInv'
  BY DEF InboxInv, InboxTypeOK, HookInv, TokenInv
<1>3. AbsentInv'
  BY InboxAssumption DEF InboxInv, InboxTypeOK, AbsentInv, Caller
<1>4. CallInv'
  BY InboxAssumption DEF InboxInv, InboxTypeOK, AbsentInv, CallInv, Caller
<1>5. PromiseInv'
  BY InboxAssumption DEF InboxInv, InboxTypeOK, HookInv, TokenInv, AbsentInv, CallInv,
     PromiseInv, Claimed, Reason, Posting, Unheard, Waiting, Caller
<1> QED BY <1>1, <1>2, <1>3, <1>4, <1>5 DEF InboxInv

LEMMA KeepsToolHook ==
    ASSUME InboxInv, ToolHook
    PROVE  InboxInv'
<1> USE DEF ToolHook, At, ledger, tether, ghosts
<1>1. InboxTypeOK'
  BY InboxAssumption DEF InboxInv, InboxTypeOK, Caller
<1>2. HookInv' /\ TokenInv'
  BY DEF InboxInv, InboxTypeOK, HookInv, TokenInv
<1>3. AbsentInv'
  BY InboxAssumption DEF InboxInv, InboxTypeOK, AbsentInv, Caller
<1>4. CallInv'
  BY InboxAssumption DEF InboxInv, InboxTypeOK, AbsentInv, CallInv, Caller
<1>5. PromiseInv'
  BY InboxAssumption DEF InboxInv, InboxTypeOK, HookInv, TokenInv, AbsentInv, CallInv,
     PromiseInv, Claimed, Reason, Posting, Unheard, Waiting, Caller
<1> QED BY <1>1, <1>2, <1>3, <1>4, <1>5 DEF InboxInv

LEMMA KeepsHookReads ==
    ASSUME InboxInv, HookReads
    PROVE  InboxInv'
<1>0. InboxTypeOK /\ HookInv /\ TokenInv /\ AbsentInv /\ CallInv /\ PromiseInv
  BY DEF InboxInv
<1> USE DEF HookReads, ledger, tether, ghosts
<1>1. InboxTypeOK'
  BY <1>0 DEF InboxTypeOK, Due
<1>2. HookInv' /\ TokenInv'
  BY <1>0 DEF HookInv, TokenInv
<1>3. AbsentInv'
  BY <1>0 DEF AbsentInv
<1>4. CallInv'
  BY <1>0 DEF CallInv
<1>5. PromiseInv'
  <2> SUFFICES ASSUME NEW i \in Claimed'
               PROVE  Reason(i)'
    BY DEF PromiseInv
  <2>1. hook'.pc = "print" /\ hook'.fresh = Due
    OBVIOUS
  <2>2. i \in Due
    BY DEF Claimed, Unheard, Waiting, Due, Item
  <2> QED BY <2>1, <2>2 DEF Reason
<1> QED BY <1>1, <1>2, <1>3, <1>4, <1>5 DEF InboxInv

LEMMA KeepsHookShows ==
    ASSUME InboxInv, NEW time \in BOOLEAN, HookShows(time)
    PROVE  InboxInv'
<1> USE DEF HookShows, ledger, tether, ghosts
<1>1. InboxTypeOK'
  BY InboxAssumption DEF InboxInv, InboxTypeOK, Caller
<1>2. HookInv' /\ TokenInv'
  BY DEF InboxInv, InboxTypeOK, HookInv, TokenInv
<1>3. AbsentInv'
  BY InboxAssumption DEF InboxInv, InboxTypeOK, AbsentInv, Caller
<1>4. CallInv'
  BY InboxAssumption DEF InboxInv, InboxTypeOK, AbsentInv, CallInv, Caller
<1>5. PromiseInv'
  BY InboxAssumption DEF InboxInv, InboxTypeOK, HookInv, TokenInv, AbsentInv, CallInv,
     PromiseInv, Claimed, Reason, Posting, Unheard, Waiting, Caller
<1> QED BY <1>1, <1>2, <1>3, <1>4, <1>5 DEF InboxInv

LEMMA KeepsWithdrawStarts ==
    ASSUME InboxInv, NEW time \in BOOLEAN, WithdrawStarts(time)
    PROVE  InboxInv'
<1> USE DEF WithdrawStarts, At, ledger, tether, ghosts
<1>1. InboxTypeOK'
  BY InboxAssumption DEF InboxInv, InboxTypeOK, Caller
<1>2. HookInv' /\ TokenInv'
  BY DEF InboxInv, InboxTypeOK, HookInv, TokenInv
<1>3. AbsentInv'
  BY InboxAssumption DEF InboxInv, InboxTypeOK, AbsentInv, Caller
<1>4. CallInv'
  BY InboxAssumption DEF InboxInv, InboxTypeOK, AbsentInv, CallInv, Caller
<1>5. PromiseInv'
  BY InboxAssumption DEF InboxInv, InboxTypeOK, HookInv, TokenInv, AbsentInv, CallInv,
     PromiseInv, Claimed, Reason, Posting, Unheard, Waiting, Caller
<1> QED BY <1>1, <1>2, <1>3, <1>4, <1>5 DEF InboxInv

LEMMA KeepsWithdrawLooks ==
    ASSUME InboxInv, WithdrawLooks
    PROVE  InboxInv'
<1>0. InboxTypeOK /\ HookInv /\ TokenInv /\ AbsentInv /\ CallInv /\ PromiseInv
  BY DEF InboxInv
<1>t. woke \in [Item -> WokeRec] /\ Unheard \subseteq Item
  BY <1>0, TypeParts
<1>h. \A to \in {"off", "delete", "again"} :
         At(to) => hook' \in [pc : {"off", "read", "print", "withdraw", "look", "delete", "again"},
                              fresh : SUBSET Item, ride : BOOLEAN] /\ hook'.pc = to
  BY <1>0 DEF At, InboxTypeOK
<1>a. /\ UNCHANGED <<state, lapses, seen, line, token, call, agent, missed, outrun, turns, faults>>
      /\ hook.pc = "look" /\ hook'.pc \in {"off", "delete"}
      /\ hook' \in [pc : {"off", "read", "print", "withdraw", "look", "delete", "again"},
                              fresh : SUBSET Item, ride : BOOLEAN]
  BY <1>h DEF WithdrawLooks, ledger, tether, ghosts
<1>w. /\ woke' \in [Item -> WokeRec]
      /\ \A i \in Item : woke'[i].by = woke[i].by /\ woke'[i].current = woke[i].current
  BY <1>0, <1>t, LaterWrites DEF WithdrawLooks
<1>1. InboxTypeOK'
  BY <1>0, <1>a, <1>w, InboxAssumption DEF InboxTypeOK, WokeRec
<1>2. HookInv' /\ TokenInv'
  BY <1>0, <1>a DEF HookInv, TokenInv
<1>3. AbsentInv'
  BY <1>0, <1>a, <1>w DEF AbsentInv
<1>4. CallInv'
  BY <1>0, <1>a DEF CallInv
<1>5. PromiseInv'
  <2> SUFFICES ASSUME NEW i \in Claimed'
               PROVE  Reason(i)'
    BY DEF PromiseInv
  <2>1. i \in Unheard /\ i \in Item
    BY <1>a, <1>t DEF Claimed, Unheard, Waiting
  <2>2. i \in Claimed
    BY <1>a, <1>w, <2>1 DEF Claimed
  <2>3. Reason(i)
    BY <1>0, <2>2 DEF PromiseInv
  <2> QED BY <1>a, <1>w, <2>1, <2>3 DEF Reason, Posting
<1> QED BY <1>1, <1>2, <1>3, <1>4, <1>5 DEF InboxInv

LEMMA KeepsWithdrawDeletes ==
    ASSUME InboxInv, WithdrawDeletes
    PROVE  InboxInv'
<1>0. InboxTypeOK /\ HookInv /\ TokenInv /\ AbsentInv /\ CallInv /\ PromiseInv
  BY DEF InboxInv
<1>t. woke \in [Item -> WokeRec] /\ Unheard \subseteq Item
  BY <1>0, TypeParts
<1>h. \A to \in {"off", "delete", "again"} :
         At(to) => hook' \in [pc : {"off", "read", "print", "withdraw", "look", "delete", "again"},
                              fresh : SUBSET Item, ride : BOOLEAN] /\ hook'.pc = to
  BY <1>0 DEF At, InboxTypeOK
<1>a. /\ UNCHANGED <<state, lapses, seen, call, agent, missed, outrun, turns, faults>>
      /\ hook.pc = "delete" /\ line' = "none" /\ token' = FALSE
      /\ hook'.pc = IF line # "none" THEN "again" ELSE "off"
      /\ hook' \in [pc : {"off", "read", "print", "withdraw", "look", "delete", "again"},
                              fresh : SUBSET Item, ride : BOOLEAN]
  BY <1>h DEF WithdrawDeletes, ledger, ghosts
<1>w. /\ woke' \in [Item -> WokeRec]
      /\ \A i \in Item : woke'[i].by = woke[i].by /\ woke'[i].current = woke[i].current
  BY <1>0, LaterWrites DEF WithdrawDeletes
<1>1. InboxTypeOK'
  BY <1>0, <1>a, <1>w, InboxAssumption DEF InboxTypeOK, WokeRec
<1>2. HookInv' /\ TokenInv'
  BY <1>0, <1>a DEF HookInv, TokenInv
<1>3. AbsentInv'
  BY <1>0, <1>a, <1>w DEF AbsentInv
<1>4. CallInv'
  BY <1>0, <1>a DEF CallInv
<1>5. PromiseInv'
  <2> SUFFICES ASSUME NEW i \in Claimed'
               PROVE  Reason(i)'
    BY DEF PromiseInv
  <2>1. i \in Unheard /\ i \in Item
    BY <1>a, <1>t DEF Claimed, Unheard, Waiting
  <2>2. i \in Claimed
    BY <1>a, <1>w, <2>1 DEF Claimed
  <2>3. Reason(i)
    BY <1>0, <2>2 DEF PromiseInv
  <2> QED BY <1>a, <1>w, <2>1, <2>3 DEF Reason, Posting
<1> QED BY <1>1, <1>2, <1>3, <1>4, <1>5 DEF InboxInv

LEMMA KeepsDeleteUnsettled ==
    ASSUME InboxInv, NEW gone \in BOOLEAN, DeleteUnsettled(gone)
    PROVE  InboxInv'
<1>0. InboxTypeOK /\ HookInv /\ TokenInv /\ AbsentInv /\ CallInv /\ PromiseInv
  BY DEF InboxInv
<1>t. woke \in [Item -> WokeRec] /\ Unheard \subseteq Item
  BY <1>0, TypeParts
<1>h. \A to \in {"off", "delete", "again"} :
         At(to) => hook' \in [pc : {"off", "read", "print", "withdraw", "look", "delete", "again"},
                              fresh : SUBSET Item, ride : BOOLEAN] /\ hook'.pc = to
  BY <1>0 DEF At, InboxTypeOK
<1>a. /\ UNCHANGED <<state, lapses, seen, token, call, agent, outrun, turns>>
      /\ hook.pc = "delete" /\ hook'.pc = "off"
      /\ hook' \in [pc : {"off", "read", "print", "withdraw", "look", "delete", "again"},
                              fresh : SUBSET Item, ride : BOOLEAN]
      /\ line' = (IF gone THEN "none" ELSE line)
      /\ missed' = (IF gone /\ line = "wake" THEN missed \cup Unheard ELSE missed)
      /\ faults < MaxFaults /\ faults' = faults + 1 /\ Unheard \subseteq Item
  BY <1>h, <1>t DEF DeleteUnsettled, ledger, Fault
<1>w. /\ woke' \in [Item -> WokeRec]
      /\ \A i \in Item : woke'[i].by = woke[i].by /\ woke'[i].current = woke[i].current
  BY <1>0, LaterWrites DEF DeleteUnsettled
<1>1. InboxTypeOK'
  BY <1>0, <1>a, <1>w, InboxAssumption DEF InboxTypeOK, WokeRec
<1>2. HookInv' /\ TokenInv'
  BY <1>0, <1>a DEF HookInv, TokenInv
<1>3. AbsentInv'
  BY <1>0, <1>a, <1>w DEF AbsentInv
<1>4. CallInv'
  BY <1>0, <1>a DEF CallInv
<1>5. PromiseInv'
  <2> SUFFICES ASSUME NEW i \in Claimed'
               PROVE  Reason(i)'
    BY DEF PromiseInv
  <2>1. i \in Unheard /\ i \in Item
    BY <1>a, <1>t DEF Claimed, Unheard, Waiting
  <2>4. ~(gone /\ line = "wake")
    BY <1>a, <2>1 DEF Claimed
  <2>2. i \in Claimed
    BY <1>a, <1>w, <2>1 DEF Claimed
  <2>3. Reason(i)
    BY <1>0, <2>2 DEF PromiseInv
  <2> QED BY <1>a, <1>w, <2>1, <2>3, <2>4 DEF Reason, Posting
<1> QED BY <1>1, <1>2, <1>3, <1>4, <1>5 DEF InboxInv

LEMMA KeepsWithdrawAgain ==
    ASSUME InboxInv, WithdrawAgain
    PROVE  InboxInv'
<1> USE DEF WithdrawAgain, At, SetCall, Requeues, ledger, tether, ghosts
<1>1. InboxTypeOK'
  BY InboxAssumption DEF InboxInv, InboxTypeOK, Caller
<1>2. HookInv' /\ TokenInv'
  BY DEF InboxInv, InboxTypeOK, HookInv, TokenInv
<1>3. AbsentInv'
  BY InboxAssumption DEF InboxInv, InboxTypeOK, AbsentInv, Caller
<1>4. CallInv'
  BY InboxAssumption DEF InboxInv, InboxTypeOK, AbsentInv, CallInv, Caller
<1>5. PromiseInv'
  BY InboxAssumption DEF InboxInv, InboxTypeOK, HookInv, TokenInv, AbsentInv, CallInv,
     PromiseInv, Claimed, Reason, Posting, Unheard, Waiting, Caller
<1> QED BY <1>1, <1>2, <1>3, <1>4, <1>5 DEF InboxInv

LEMMA KeepsStop ==
    ASSUME InboxInv, Stop
    PROVE  InboxInv'
<1> USE DEF Stop, Due, ledger, tether, ghosts
<1>1. InboxTypeOK'
  BY InboxAssumption DEF InboxInv, InboxTypeOK, Caller
<1>2. HookInv' /\ TokenInv'
  BY DEF InboxInv, InboxTypeOK, HookInv, TokenInv
<1>3. AbsentInv'
  BY InboxAssumption DEF InboxInv, InboxTypeOK, AbsentInv, Caller
<1>4. CallInv'
  BY InboxAssumption DEF InboxInv, InboxTypeOK, AbsentInv, CallInv, Caller
<1>5. PromiseInv'
  BY InboxAssumption DEF InboxInv, InboxTypeOK, HookInv, TokenInv, AbsentInv, CallInv,
     PromiseInv, Claimed, Reason, Posting, Unheard, Waiting, Caller
<1> QED BY <1>1, <1>2, <1>3, <1>4, <1>5 DEF InboxInv

-----------------------------------------------------------------------------
LEMMA InboxStart ==
    ASSUME InboxInit
    PROVE  InboxInv
<1>1. NoCall \in CallRec /\ NoCall.pc = "off" /\ NoCall.keys = {} /\ Unmarked \in WokeRec
      /\ ~Unmarked.current /\ NoHook.pc = "off"
  BY DEF NoCall, CallRec, Unmarked, WokeRec, NoHook
<1>2. InboxTypeOK
  <2>1. hook \in [pc : {"off", "read", "print", "withdraw", "look", "delete", "again"},
                  fresh : SUBSET Item, ride : BOOLEAN]
    BY DEF InboxInit, NoHook
  <2>2. call \in [Caller -> CallRec] /\ woke \in [Item -> WokeRec]
    BY <1>1 DEF InboxInit
  <2>3. /\ state \in [Item -> {"absent", "waiting", "riding", "eta", "done"}]
        /\ seen \subseteq Item /\ line \in {"none", "wake", "ride"} /\ token \in BOOLEAN
        /\ agent \in {"idle", "turn"} /\ missed \subseteq Item /\ outrun \subseteq Item
    BY DEF InboxInit
  <2>4. lapses \in 0..MaxLapses /\ turns \in 0..MaxTurns /\ faults \in 0..MaxFaults
    BY InboxAssumption DEF InboxInit
  <2> QED BY <2>1, <2>2, <2>3, <2>4 DEF InboxTypeOK, CallRec, WokeRec
<1>3. HookInv /\ TokenInv /\ AbsentInv /\ CallInv
  BY <1>1 DEF InboxInit, HookInv, TokenInv, AbsentInv, CallInv, Caller
<1>4. PromiseInv
  BY <1>1 DEF InboxInit, PromiseInv, Claimed, Unheard, Waiting, Item
<1> QED BY <1>2, <1>3, <1>4 DEF InboxInv

LEMMA InboxStutter ==
    ASSUME InboxInv, UNCHANGED inboxVars
    PROVE  InboxInv'
BY DEF InboxInv, inboxVars, InboxTypeOK, HookInv, TokenInv, AbsentInv, CallInv, PromiseInv,
       Claimed, Reason, Posting, Unheard, Waiting

LEMMA InboxStep ==
    ASSUME InboxInv, [InboxNext]_inboxVars
    PROVE  InboxInv'
<1>1. CASE \E i \in Item :
        \/ Send(i) \/ Acked(i) \/ Withdraw(i) \/ Lapse(i) \/ Killed(i)
        \/ \E closes \in BOOLEAN : Settle(i, closes)
        \/ \E answer \in {"done", "eta"} : Answer(i, answer)
  BY <1>1, KeepsSend, KeepsAcked, KeepsWithdraw, KeepsLapse, KeepsKilled, KeepsSettle, KeepsAnswer
<1>2. CASE \E c \in Caller : WakeStep(c) \/ PostUnsettled(c)
  BY <1>2, KeepsWakeComposes, KeepsWakeMarks, KeepsPost, KeepsPostUnsettled DEF WakeStep
<1>3. CASE Watch \/ Deliver \/ Prompt \/ ToolHook \/ Stop
  BY <1>3, KeepsWatch, KeepsDeliver, KeepsPrompt, KeepsToolHook, KeepsStop
<1>4. CASE HookStep
  BY <1>4, KeepsHookReads, KeepsHookShows, KeepsWithdrawStarts, KeepsWithdrawLooks,
     KeepsWithdrawDeletes, KeepsWithdrawAgain DEF HookStep
<1>5. CASE \E gone \in BOOLEAN : DeleteUnsettled(gone)
  BY <1>5, KeepsDeleteUnsettled
<1> QED BY <1>1, <1>2, <1>3, <1>4, <1>5, InboxStutter DEF InboxNext

(* Under Quiet only one reason is left: no command and no hook is on its   *)
(* way, so the wake line itself is queued.                                 *)
LEMMA QuietMeansQueued ==
    ASSUME InboxInv
    PROVE  StrandedOnlyByRace
<1> SUFFICES ASSUME NEW i \in Stranded, i \notin missed \cup outrun
             PROVE  FALSE
  BY DEF StrandedOnlyByRace
<1>1. Quiet /\ line # "wake" /\ i \in Claimed
  BY DEF Stranded, Claimed
<1>2. Reason(i)
  BY <1>1 DEF InboxInv, PromiseInv
<1>3. hook.pc = "off" /\ \A c \in Caller : call[c].pc = "off"
  BY <1>1 DEF InboxInv, HookInv, Quiet
<1> QED BY <1>1, <1>2, <1>3 DEF Reason, Posting, Caller

(* The woke file, the queued line, the callers and the hook keep their     *)
(* types, and every claim of the woke file has its reason (InboxInv).      *)
THEOREM InboxKept == InboxSpec => []InboxInv
BY InboxStart, InboxStep, PTL DEF InboxSpec

(* coord_deliver.wake, mark_woke and withdraw_stale: a message that waits  *)
(* unseen in a quiet inbox, and that the watcher takes for told, has its   *)
(* wake line queued, unless one of the two races took it.                  *)
THEOREM StrandedOnlyByRaceHolds == InboxSpec => []StrandedOnlyByRace
BY InboxKept, QuietMeansQueued, PTL

=============================================================================
