---------------------------- MODULE MCCoordStore ----------------------------
(***************************************************************************)
(* Small instances of CoordStore: a harness process with a main thread,    *)
(* two of whose processes run st, and a child thread, and another agent.   *)
(***************************************************************************)
EXTENDS CoordStore, TLC

CONSTANTS main, kid, other, pm, pn, pk, po, x, anchor, task

MCAnchorOf == (main :> anchor) @@ (kid :> anchor) @@ (other :> None)
MCAgentOf == [p \in Procs |-> CASE p \in {pm, pn} -> main [] p = pk -> kid [] p = po -> other]
OneCallEach == [p \in Procs |-> 1]
TwoCallsEach == [p \in Procs |-> 2]
MainCallsTwice == [p \in Procs |-> IF p = pm THEN 2 ELSE 1]

\* One agent's leases, another's take and a third's release.
TakeRequests == [p \in Procs |->
    CASE p = pm -> {[op |-> "acquire", globs |-> {x}, task |-> task], [op |-> "heartbeat"]}
      [] p = pk -> {[op |-> "release", target |-> None], [op |-> "release_paths", paths |-> {x}]}
      [] p = po -> {[op |-> "take", path |-> x], [op |-> "release_task", task |-> task]}
      [] OTHER -> {}]

\* The same, with a claim by the third.
LeaseRequests == [TakeRequests EXCEPT ![pk] = @ \cup {[op |-> "claim", path |-> x]}]

\* The writer sets of a path several sessions write.
WriterRequests == [p \in Procs |->
    CASE p = pm -> {[op |-> "claim", path |-> x],
                    [op |-> "record", paths |-> {x}, since |-> 0, unknown |-> FALSE, dirty |-> {x}]}
      [] p = pk -> {[op |-> "prune", dirty |-> {}]}
      [] p = po -> {[op |-> "take", path |-> x],
                    [op |-> "record", paths |-> {x}, since |-> 1, unknown |-> FALSE, dirty |-> {}]}
      [] OTHER -> {}]

\* Marks on the whole checkout: two processes of one agent, and another
\* agent that tidies up.
MarkRequests == [p \in Procs |->
    CASE p = pm -> {[op |-> "mark", kind |-> "op"], [op |-> "mark", kind |-> "hold"]}
                   \cup {[op |-> "release", target |-> i] : i \in Ids}
      [] p = pn -> {[op |-> "mark", kind |-> "hold"], [op |-> "release", target |-> None]}
      [] p = po -> {[op |-> "list"], [op |-> "release", target |-> Root]}
      [] OTHER -> {}]

\* The same agent releases a glob while its other process runs an operation.
FenceRequests == [p \in Procs |->
    CASE p = pm -> {[op |-> "mark", kind |-> "op"]}
      [] p = pn -> {[op |-> "release", target |-> None], [op |-> "release", target |-> Root]}
      [] p = po -> {[op |-> "take", path |-> x]}
      [] OTHER -> {}]

AllRequests ==
    [p \in Procs |-> LeaseRequests[p] \cup WriterRequests[p] \cup MarkRequests[p]]

IdSymmetry == Permutations(Ids)
=============================================================================
