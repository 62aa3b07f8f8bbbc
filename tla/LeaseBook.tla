----------------------------- MODULE LeaseBook ------------------------------
(***************************************************************************)
(* What the coordination store promises its callers (cli/lib/coord_store   *)
(* module docstring: "no update is lost"): a project's document changes    *)
(* only when one transaction of a call in progress is applied to the       *)
(* document as it is at that moment, in one step.  A call that returns     *)
(* has applied its transactions in order; a call that fails may have       *)
(* applied the current one, or still see it applied later, but not twice.  *)
(* CoordStore implements this by reading, computing and writing against a  *)
(* version, with nothing held in between.                                  *)
(***************************************************************************)
EXTENDS Leases

CONSTANTS
    Requests,   \* per process: what it may ask
    MaxCalls,   \* per process: bound on the calls it makes
    MaxTime     \* bound on the time that passes

VARIABLES
    doc,      \* the document
    now,      \* time, in the unit of Ttl
    alive,    \* the processes that run
    issued,   \* per process: number of calls it has made
    stage,    \* per process: where its call is
    req,      \* per process: the request it has called
    step,     \* per process: the transaction of that request it is at
    orphans   \* transactions of failed calls that may still be applied

bookVars == <<doc, now, alive, issued, stage, req, step, orphans>>

\* The transaction p is at.
Txn(p) == Txns(req[p])[step[p]]

\* What some process could tell about the world at some time up to now.
Views == {v \in [now: 0..now, alive: SUBSET Procs] : alive \subseteq v.alive}

\* doc' is the document after transaction t of process p.
Applied(t, p) ==
    \E v \in Views, id \in Ids \ IdsOf(doc) : doc' \in Effects(t, p, id, v, doc)

Init ==
    /\ doc = EmptyDoc
    /\ now = 0
    /\ alive = Procs
    /\ issued = [p \in Procs |-> 0]
    /\ stage = [p \in Procs |-> "idle"]
    /\ req = [p \in Procs |-> None]
    /\ step = [p \in Procs |-> 1]
    /\ orphans = {}

Call(p) ==
    /\ p \in alive /\ stage[p] = "idle" /\ issued[p] < MaxCalls[p]
    /\ \E r \in Requests[p] \cup Unmark : req' = [req EXCEPT ![p] = r]
    /\ stage' = [stage EXCEPT ![p] = "pending"]
    /\ issued' = [issued EXCEPT ![p] = @ + 1]
    /\ UNCHANGED <<doc, now, alive, step, orphans>>

\* The whole transaction takes effect, on the document as it is now.
Apply(p) ==
    /\ stage[p] = "pending"
    /\ Applied(Txn(p), p)
    /\ stage' = [stage EXCEPT ![p] = "applied"]
    /\ UNCHANGED <<now, alive, issued, req, step, orphans>>

Proceed(p) ==
    /\ stage[p] = "applied" /\ step[p] < Len(Txns(req[p]))
    /\ stage' = [stage EXCEPT ![p] = "pending"]
    /\ step' = [step EXCEPT ![p] = @ + 1]
    /\ UNCHANGED <<doc, now, alive, issued, req, orphans>>

\* A take that met a conflict starts over.
Restart(p) ==
    /\ stage[p] = "pending"
    /\ step' = [step EXCEPT ![p] = 1]
    /\ UNCHANGED <<doc, now, alive, issued, stage, req, orphans>>

Leave(p) ==
    /\ stage' = [stage EXCEPT ![p] = "idle"]
    /\ req' = [req EXCEPT ![p] = None]
    /\ step' = [step EXCEPT ![p] = 1]

Return(p) ==
    /\ stage[p] = "applied" /\ step[p] = Len(Txns(req[p]))
    /\ Leave(p)
    /\ UNCHANGED <<doc, now, alive, issued, orphans>>

\* The call of p ends without an answer; its transaction may still happen.
Abandon(p) ==
    /\ Leave(p)
    /\ \/ UNCHANGED orphans
       \/ /\ stage[p] = "pending"
          /\ orphans' = orphans \cup {[proc |-> p, call |-> issued[p], txn |-> Txn(p)]}
    /\ UNCHANGED <<doc, now, issued>>

Fail(p) == stage[p] # "idle" /\ Abandon(p) /\ UNCHANGED alive

Die(p) == p \in alive /\ Abandon(p) /\ alive' = alive \ {p}

ApplyOrphan(o) ==
    /\ Applied(o.txn, o.proc)
    /\ orphans' = orphans \ {o}
    /\ UNCHANGED <<now, alive, issued, stage, req, step>>

ForgetOrphan(o) ==
    /\ orphans' = orphans \ {o}
    /\ UNCHANGED <<doc, now, alive, issued, stage, req, step>>

Tick ==
    /\ now < MaxTime
    /\ now' = now + 1
    /\ UNCHANGED <<doc, alive, issued, stage, req, step, orphans>>

Next ==
    \/ \E p \in Procs : \/ Call(p) \/ Apply(p) \/ Proceed(p) \/ Restart(p)
                        \/ Return(p) \/ Fail(p) \/ Die(p)
    \/ \E o \in orphans : ApplyOrphan(o) \/ ForgetOrphan(o)
    \/ Tick

Spec == Init /\ [][Next]_bookVars

=============================================================================
