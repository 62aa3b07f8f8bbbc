------------------------------ MODULE Checkout ------------------------------
(***************************************************************************)
(* One shared checkout: the edit hook (coord.claim_edit), shell hooks      *)
(* (coord.record_shell_writes), st commit (cli/lib/commit_workflow.py) and *)
(* in-place acceptance (cli/lib/acceptance.py), which meet in the working  *)
(* tree, the writer sets, the op leases and the repository lock.  A lease  *)
(* operation is one transaction, as LeaseBook promises; identities are     *)
(* reduced to sessions, which Leases models in full.  The content of a     *)
(* path is the sequence of the sessions whose edits HEAD does not have.    *)
(***************************************************************************)
EXTENDS Integers, Sequences, SequencesExt, FiniteSets

CONSTANTS Session, Path,
          Unknown,      \* the unknown writer
          NoOne,
          MaxEdits,     \* edits that are explored
          MaxCommits,   \* commits begun that are explored
          MaxAccepts    \* acceptances that are explored

ASSUME CheckoutAssumption ==
    /\ Unknown \notin Session /\ NoOne \notin Session
    /\ MaxEdits \in Nat /\ MaxCommits \in Nat /\ MaxAccepts \in Nat

VARIABLES
    work,      \* per path: the uncommitted edits, in order
    writers,   \* per path: its writer set
    leased,    \* per session: the paths of its file leases
    ops,       \* sessions whose op lease is live
    lock,      \* holder of the repository lock
    head,      \* commits made
    pc,        \* per session: where its current operation is
    job,       \* per session: the values that operation has read
    lost,      \* writer entries dropped, or never made, for work that is there or under way
    edits, commits, accepts

tree == <<work, head>>
book == <<writers, leased, ops>>
bounds == <<edits, commits, accepts>>
vars == <<tree, book, lock, pc, job, lost, bounds>>

Clean == [x \in Path |-> <<>>]
Dirty == {x \in Path : work[x] # <<>>}

NoJob == [path |-> NoOne, named |-> {}, changed |-> {}, snap |-> Clean,
          staged |-> Clean, fresh |-> {}, dirty |-> {}, mixed |-> FALSE, again |-> FALSE,
          blind |-> {}, index |-> FALSE]

Stage == {"idle", "claim", "write", "shell", "record", "select", "sweep", "guard", "check",
          "checked", "add", "commit", "release", "prune", "accept", "gate"}

TypeOK ==
    /\ work \in [Path -> Seq(Session)]
    /\ writers \in [Path -> SUBSET (Session \cup {Unknown})]
    /\ leased \in [Session -> SUBSET Path]
    /\ ops \subseteq Session
    /\ lock \in Session \cup {NoOne}
    /\ head \in 0..MaxCommits
    /\ pc \in [Session -> Stage]
    /\ \A s \in Session :
         /\ job[s].path \in Path \cup {NoOne}
         /\ job[s].named \subseteq Path /\ job[s].changed \subseteq Path
         /\ job[s].fresh \subseteq Path /\ job[s].dirty \subseteq Path
         /\ job[s].snap \in [Path -> Seq(Session)] /\ job[s].staged \in [Path -> Seq(Session)]
    /\ lost \subseteq Session \X Path
    /\ edits \in 0..MaxEdits /\ commits \in 0..MaxCommits /\ accepts \in 0..MaxAccepts

Init ==
    /\ work = Clean /\ head = 0
    /\ writers = [x \in Path |-> {}]
    /\ leased = [s \in Session |-> {}]
    /\ ops = {} /\ lock = NoOne
    /\ pc = [s \in Session |-> "idle"]
    /\ job = [s \in Session |-> NoJob]
    /\ lost = {}
    /\ edits = 0 /\ commits = 0 /\ accepts = 0

---------------------------------------------------------------------------
Go(s, l) == pc' = [pc EXCEPT ![s] = l]
Finish(s) == Go(s, "idle") /\ job' = [job EXCEPT ![s] = NoJob]
Authors(c) == {c[i] : i \in DOMAIN c}

\* Running shells of other sessions learn that s wrote or newly leased x.
Freshen(j, s, x) ==
    [t \in Session |-> IF t # s /\ pc[t] \in {"shell", "record"}
                       THEN [j[t] EXCEPT !.fresh = @ \cup {x}] ELSE j[t]]

\* The hooks of running shells will report that the paths X were written.
Noticed(j, X) ==
    [t \in Session |-> IF pc[t] = "shell" THEN [j[t] EXCEPT !.changed = @ \cup X] ELSE j[t]]

(* Work of a that is on path x, or that a is about to put there.           *)
AtStake(a, x) == a \in Authors(work[x]) \/ (pc[a] = "write" /\ job[a].path = x)

Prune(w, dirty) == [x \in Path |-> IF x \in dirty THEN w[x] ELSE {}]

Dropped(dirty) ==
    {e \in Session \X (Path \ dirty) :
        AtStake(e[1], e[2]) /\ writers[e[2]] \cap {e[1], Unknown} # {}}

---------------------------------------------------------------------------
(* The edit hook: no claim under a live op, then the claim, then the edit. *)
EditCheck(s, x) ==
    /\ pc[s] = "idle" /\ edits < MaxEdits
    /\ ops = {}
    /\ Go(s, "claim")
    /\ job' = [job EXCEPT ![s] = [NoJob EXCEPT !.path = x]]
    /\ UNCHANGED <<tree, book, lock, lost, bounds>>

Claim(s) ==
    LET x == job[s].path
    IN  /\ pc[s] = "claim"
        /\ writers' = [writers EXCEPT ![x] = @ \cup {s}]
        /\ leased' = [leased EXCEPT ![s] = @ \cup {x}]
        /\ lost' = lost \ {<<s, x>>}
        /\ job' = Freshen(job, s, x)
        /\ Go(s, "write")
        /\ UNCHANGED <<tree, ops, lock, bounds>>

Write(s) ==
    /\ pc[s] = "write"
    /\ \/ /\ edits < MaxEdits
          /\ work' = [work EXCEPT ![job[s].path] = Append(@, s)]
          /\ edits' = edits + 1
          /\ job' = [Noticed(job, {job[s].path}) EXCEPT ![s] = NoJob]
       \/ /\ job' = [job EXCEPT ![s] = NoJob]
          /\ UNCHANGED <<work, edits>>
    /\ Go(s, "idle")
    /\ UNCHANGED <<head, book, lock, lost, commits, accepts>>

---------------------------------------------------------------------------
(* A shell command writes as it likes; its hook records afterwards.        *)
ShellStart(s) ==
    /\ pc[s] = "idle" /\ edits < MaxEdits
    /\ Go(s, "shell")
    /\ UNCHANGED <<tree, book, lock, job, lost, bounds>>

ShellWrite(s, x) ==
    /\ pc[s] = "shell" /\ edits < MaxEdits
    /\ work' = [work EXCEPT ![x] = Append(@, s)]
    /\ edits' = edits + 1
    /\ job' = Noticed(job, {x})
    /\ UNCHANGED <<head, book, lock, pc, lost, commits, accepts>>

ShellEnd(s) ==
    /\ pc[s] = "shell"
    /\ Go(s, "record")
    /\ job' = [job EXCEPT ![s].dirty = Dirty,
                          ![s].mixed = \E t \in Session \ {s} : pc[t] = "shell"]
    /\ UNCHANGED <<tree, book, lock, lost, bounds>>

(* Another session's shell, write or new lease makes the writer unknown.   *)
WriterOf(s, x, w) == IF job[s].mixed \/ (x \in job[s].fresh /\ w[x] \ {s} # {}) THEN Unknown ELSE s

(* record_writes: prune with the dirty set of the command's end, then add. *)
ShellRecord(s) ==
    LET pruned == Prune(writers, job[s].dirty)
    IN  /\ pc[s] = "record"
        /\ \/ /\ job[s].changed # {}
              /\ writers' = [x \in Path |-> IF x \in job[s].changed
                                            THEN pruned[x] \cup {WriterOf(s, x, pruned)} ELSE pruned[x]]
              /\ lost' = (lost \cup Dropped(job[s].dirty)) \ ({s} \X job[s].changed)
           \/ /\ job[s].changed = {}
              /\ UNCHANGED <<writers, lost>>
           \/ /\ lost' = lost \cup {<<s, x>> : x \in {y \in job[s].changed : s \in Authors(work[y])}}
              /\ UNCHANGED writers
        /\ Finish(s)
        /\ UNCHANGED <<tree, leased, ops, lock, bounds>>

---------------------------------------------------------------------------
(* st commit, under the repository lock from here to Pruned or an error.   *)
CommitStart(s, named) ==
    /\ pc[s] = "idle" /\ lock = NoOne /\ commits < MaxCommits
    /\ lock' = s
    /\ commits' = commits + 1
    /\ Go(s, "select")
    /\ job' = [job EXCEPT ![s] = [NoJob EXCEPT !.named = named]]
    /\ UNCHANGED <<tree, book, lost, edits, accepts>>

CommitEnd(s) == Finish(s) /\ lock' = NoOne

Whole(s) == job[s].named = {}
InScope(s) == IF Whole(s) THEN Path ELSE job[s].named

Select(s) ==
    /\ pc[s] = "select"
    /\ IF Dirty \cap InScope(s) = {} THEN CommitEnd(s)
       ELSE /\ job' = [job EXCEPT ![s].changed = Dirty \cap InScope(s), ![s].snap = work]
            /\ Go(s, "sweep") /\ UNCHANGED lock
    /\ UNCHANGED <<tree, book, lost, bounds>>

\* Mutant: an unknown writer is nobody's work.
SweepsKnown(s, x) == writers[x] \ {s, Unknown} # {}

(* A path the scope swept in has any foreign writer, or a named one a      *)
(* known foreign writer.                                                   *)
Sweeps(s, x) ==
    IF x \in job[s].named THEN writers[x] \ {s, Unknown} # {} ELSE writers[x] \ {s} # {}

\* What the writer sets cannot tell: work whose entry is lost or is still
\* to be recorded by the hook of a shell command.
Blind == lost \cup ({a \in Session : pc[a] \in {"shell", "record"}} \X Path)

(* _require_no_sweep; what it could not see is kept for the properties.    *)
Sweep(s) ==
    /\ pc[s] = "sweep"
    /\ IF \E x \in job[s].changed : Sweeps(s, x) THEN CommitEnd(s)
       ELSE job' = [job EXCEPT ![s].blind = Blind] /\ Go(s, "guard") /\ UNCHANGED lock
    /\ UNCHANGED <<tree, book, lost, bounds>>

\* Mutant: a commit does not wait for running operations.
GuardNothing(s) ==
    /\ pc[s] = "guard"
    /\ Go(s, "check") /\ UNCHANGED <<job, lock>>
    /\ UNCHANGED <<tree, book, lost, bounds>>

Guard(s) ==
    /\ pc[s] = "guard"
    /\ IF ops \ {s} # {} THEN CommitEnd(s)
       ELSE Go(s, "check") /\ UNCHANGED <<job, lock>>
    /\ UNCHANGED <<tree, book, lost, bounds>>

(* The fingerprint before the checks; --skip-checks goes straight on.      *)
Check(s) ==
    /\ pc[s] = "check"
    /\ \/ Go(s, "checked") /\ job' = [job EXCEPT ![s].staged = work]
       \/ Go(s, "add") /\ UNCHANGED job
    /\ UNCHANGED <<tree, book, lock, lost, bounds>>

(* A failed gate ends the commit, a change outside a selection reruns it   *)
(* once, and any other change blocks.                                      *)
Checked(s) ==
    LET moved == {x \in Path : work[x] # job[s].staged[x]}
    IN  /\ pc[s] = "checked"
        /\ \/ CommitEnd(s)
           \/ moved = {} /\ Go(s, "add") /\ UNCHANGED <<job, lock>>
           \/ /\ moved # {} /\ ~Whole(s) /\ moved \cap job[s].changed = {} /\ ~job[s].again
              /\ job' = [job EXCEPT ![s].again = TRUE, ![s].staged = work]
              /\ UNCHANGED <<pc, lock>>
        /\ UNCHANGED <<tree, book, lost, bounds>>

(* git add of the selection, or of everything; the staged diff of the      *)
(* changed paths is what the commit has to match.  A selection with a path *)
(* git cannot add is committed from the index, as the whole tree is.       *)
Add(s) ==
    /\ pc[s] = "add"
    /\ \E ignored \in BOOLEAN :
         job' = [job EXCEPT
           ![s].staged = [x \in Path |-> IF Whole(s) \/ x \in job[s].changed THEN work[x] ELSE <<>>],
           ![s].index = Whole(s) \/ ignored]
    /\ Go(s, "commit")
    /\ UNCHANGED <<tree, book, lock, lost, bounds>>

(* What git commits: the index, or with --only the named files as they are.*)
Committed(s) ==
    [x \in Path |-> IF job[s].index THEN job[s].staged[x]
                    ELSE IF x \in job[s].changed THEN work[x] ELSE <<>>]

MatchesStaged(s) == \A x \in job[s].changed : Committed(s)[x] = job[s].staged[x]

Commit(s) ==
    LET c == Committed(s)
    IN  /\ pc[s] = "commit"
        /\ \/ /\ work' = [x \in Path |-> SubSeq(work[x], Len(c[x]) + 1, Len(work[x]))]
              /\ head' = head + 1
              /\ lost' = {e \in lost : e[1] \in Authors(work'[e[2]])
                                       \/ (pc[e[1]] = "write" /\ job[e[1]].path = e[2])}
              /\ IF MatchesStaged(s) THEN Go(s, "release") /\ UNCHANGED <<job, lock>> ELSE CommitEnd(s)
           \/ CommitEnd(s) /\ UNCHANGED <<tree, lost>>
        /\ UNCHANGED <<book, bounds>>

(* release_paths, then git status for the paths that are still dirty.      *)
Release(s) ==
    /\ pc[s] = "release"
    /\ leased' = [leased EXCEPT ![s] = @ \ job[s].changed]
    /\ job' = [job EXCEPT ![s].dirty = Dirty]
    /\ Go(s, "prune")
    /\ UNCHANGED <<tree, writers, ops, lock, lost, bounds>>

(* Pruning is best effort, and uses the list as it was read.               *)
PruneWriters(s) ==
    /\ pc[s] = "prune"
    /\ \/ /\ writers' = Prune(writers, job[s].dirty)
          /\ lost' = lost \cup Dropped(job[s].dirty)
       \/ UNCHANGED <<writers, lost>>
    /\ CommitEnd(s)
    /\ UNCHANGED <<tree, leased, ops, bounds>>

---------------------------------------------------------------------------
(* In-place acceptance: an op lease (best effort), the clean HEAD under    *)
(* the lock, the checks without it, and the identity again under the lock. *)
AcceptStart(s) ==
    /\ pc[s] = "idle" /\ accepts < MaxAccepts
    /\ accepts' = accepts + 1
    /\ ops' \in {ops, ops \cup {s}}
    /\ Go(s, "accept")
    /\ UNCHANGED <<tree, writers, leased, lock, job, lost, edits, commits>>

(* A receipt is reused, or a dirty tree refused, without running anything. *)
AcceptBefore(s) ==
    /\ pc[s] = "accept" /\ lock = NoOne
    /\ \/ Dirty = {} /\ Go(s, "gate") /\ UNCHANGED <<job, ops>>
       \/ Finish(s) /\ ops' = ops \ {s}
    /\ UNCHANGED <<tree, writers, leased, lock, lost, bounds>>

AcceptAfter(s) ==
    /\ pc[s] = "gate" /\ lock = NoOne
    /\ ops' = ops \ {s}
    /\ Finish(s)
    /\ UNCHANGED <<tree, writers, leased, lock, lost, bounds>>

Next == \E s \in Session :
    \/ \E x \in Path : EditCheck(s, x) \/ ShellWrite(s, x)
    \/ Claim(s) \/ Write(s) \/ ShellStart(s) \/ ShellEnd(s) \/ ShellRecord(s)
    \/ \E named \in SUBSET Path : CommitStart(s, named)
    \/ Select(s) \/ Sweep(s) \/ Guard(s) \/ Check(s) \/ Checked(s)
    \/ Add(s) \/ Commit(s) \/ Release(s) \/ PruneWriters(s)
    \/ AcceptStart(s) \/ AcceptBefore(s) \/ AcceptAfter(s)

Spec == Init /\ [][Next]_vars

---------------------------------------------------------------------------
Commits(s) == pc[s] = "commit" /\ head' = head + 1

(* Edits of others that the commit of s takes in from path x.              *)
Foreign(s, x) == {i \in DOMAIN Committed(s)[x] : Committed(s)[x][i] # s}

(* A commit takes in another session's edit to a path that was not named   *)
(* to it only through one of three windows: the edit came after the commit *)
(* had listed the changed paths; its writer entry had been pruned or never *)
(* made when the guard looked; or the hook of its shell was still to run.  *)
SweepOnlyByRace ==
    [][\A s \in Session, x \in Path : Commits(s) /\ x \notin job[s].named =>
         \A i \in Foreign(s, x) :
            i > Len(job[s].snap[x]) \/ <<Committed(s)[x][i], x>> \in job[s].blind]_vars

(* A commit that goes on to report success holds, in the paths it chose,   *)
(* exactly what was staged, although others write until git commit runs.   *)
SuccessIsWhatWasStaged ==
    [][\A s \in Session : pc[s] = "commit" /\ pc'[s] = "release"
         => \A x \in job[s].changed : work[x] = job[s].staged[x] \o work'[x]]_vars

(* While an acceptance that holds its op lease runs its checks, no commit  *)
(* moves HEAD: the guard and the repository lock together see to it.       *)
HeadStillUnderAcceptance ==
    [][(\E s \in ops : pc[s] = "gate") => head' = head]_vars

(* st commit does not absorb work of a session that the writer set names,  *)
(* in a path that was not named to it.                                     *)
NoSweep ==
    [][\A s \in Session, x \in Path : Commits(s) /\ x \notin job[s].named =>
         \A i \in Foreign(s, x) : Committed(s)[x][i] \notin writers[x]]_vars

(* Every session that wrote a dirty path stays in its writer set, itself   *)
(* or as the unknown writer, until commit or revert.                       *)
WritersKept ==
    [][\A a \in Session, x \in Path :
         a \in Authors(work[x]) /\ a \in Authors(work'[x]) /\ writers[x] \cap {a, Unknown} # {}
             => writers'[x] \cap {a, Unknown} # {}]_vars

(* A live op blocks every editor: no path is claimed under it.             *)
NoClaimUnderOp ==
    [][\A s \in Session : pc[s] = "claim" /\ pc'[s] = "write" => ops = {}]_vars
=============================================================================
