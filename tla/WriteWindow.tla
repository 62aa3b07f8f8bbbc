---------------------------- MODULE WriteWindow ----------------------------
(***************************************************************************)
(* The write window of one backup target: the reference count per process  *)
(* of app/tasks/backup_write_window.py and the privileged helper           *)
(* scripts/summitflow-backup-window that keeps a holder file per live      *)
(* process and toggles the mount.  A helper run is atomic under its flock; *)
(* it may not start, fail to remount after it touched the holder, or end   *)
(* after its caller gave up waiting for it.                                *)
(***************************************************************************)
EXTENDS Integers, FiniteSets

CONSTANTS Proc,       \* processes that write backups
          Thread,     \* threads of each
          MaxCalls,   \* helper calls by processes that are explored
          MaxUpsets   \* faults of the helper that are explored

ASSUME WindowAssumption == IsFiniteSet(Thread) /\ MaxCalls \in Nat /\ MaxUpsets \in Nat

VARIABLES
    inside,   \* per process: threads inside write_window
    count,    \* per process: _counts
    alive,    \* running processes
    holders,  \* processes with a holder file
    expired,  \* processes that are gone, or last opened MAX_HOLD_SECONDS ago
    mode,     \* the mount: rw or ro
    strays,   \* helper runs whose caller gave up
    calls, upsets

windowVars == <<inside, count, alive, holders, expired, mode, strays, calls, upsets>>

WindowTypeOK ==
    /\ inside \in [Proc -> SUBSET Thread]
    /\ count \in [Proc -> 0..Cardinality(Thread)]
    /\ alive \subseteq Proc /\ holders \subseteq Proc /\ expired \subseteq Proc
    /\ mode \in {"rw", "ro"}
    /\ strays \subseteq {"open", "close"} \X Proc
    /\ calls \in 0..MaxCalls /\ upsets \in 0..MaxUpsets

WindowInit ==
    /\ inside = [p \in Proc |-> {}] /\ count = [p \in Proc |-> 0]
    /\ alive = Proc /\ holders = {} /\ expired = {}
    /\ mode = "ro" /\ strays = {} /\ calls = 0 /\ upsets = 0

---------------------------------------------------------------------------
\* Mutant: a holder counts for as long as its file exists.
LiveForEver(h, old) == h

(* Holders that are dead or too old are dropped whenever they are listed.  *)
Live(h, old) == h \ old

SetMode(command, live) == IF live # {} THEN "rw" ELSE "ro"

(* One run of the helper for p; it refuses a process that is gone, and a   *)
(* failing remount leaves the mode as it was.                              *)
HelperRuns(command, p, remounts) ==
    LET touched == IF command = "open" THEN holders \cup {p} ELSE holders \ {p}
    IN  IF p \notin alive THEN UNCHANGED <<holders, expired, mode>>
        ELSE /\ expired' = IF command = "open" THEN expired \ {p} ELSE expired
             /\ holders' = Live(touched, expired')
             /\ mode' = IF remounts THEN SetMode(command, holders') ELSE mode

(* _call waits up to 60 seconds and only logs what went wrong.             *)
Call(command, p) ==
    /\ calls < MaxCalls
    /\ calls' = calls + 1
    /\ \/ HelperRuns(command, p, TRUE) /\ UNCHANGED <<strays, upsets>>
       \/ /\ upsets < MaxUpsets /\ upsets' = upsets + 1
          /\ \/ HelperRuns(command, p, FALSE) /\ UNCHANGED strays
             \/ UNCHANGED <<holders, expired, mode, strays>>
             \/ strays' = strays \cup {<<command, p>>} /\ UNCHANGED <<holders, expired, mode>>

NoCall == UNCHANGED <<holders, expired, mode, strays, calls, upsets>>

(* The first thread in opens, the last one out closes.                     *)
Edge(p, old, new) == old = 0 \/ new = 0

Enter(p, t) ==
    /\ p \in alive /\ t \notin inside[p]
    /\ inside' = [inside EXCEPT ![p] = @ \cup {t}]
    /\ count' = [count EXCEPT ![p] = @ + 1]
    /\ IF Edge(p, count[p], count'[p]) THEN Call("open", p) ELSE NoCall
    /\ UNCHANGED alive

Leave(p, t) ==
    /\ t \in inside[p]
    /\ inside' = [inside EXCEPT ![p] = @ \ {t}]
    /\ count' = [count EXCEPT ![p] = @ - 1]
    /\ IF Edge(p, count[p], count'[p]) THEN Call("close", p) ELSE NoCall
    /\ UNCHANGED alive

RunsLate(c) ==
    /\ c \in strays
    /\ strays' = strays \ {c}
    /\ HelperRuns(c[1], c[2], TRUE)
    /\ UNCHANGED <<inside, count, alive, calls, upsets>>

(* The timer: drop what is not live and apply the mode; a remount that     *)
(* fails is left to the next firing.                                       *)
Guard(remounts) ==
    /\ remounts \/ upsets < MaxUpsets
    /\ upsets' = IF remounts THEN upsets ELSE upsets + 1
    /\ holders' = Live(holders, expired)
    /\ mode' = IF remounts THEN SetMode("guard", holders') ELSE mode
    /\ UNCHANGED <<inside, count, alive, expired, strays, calls>>

(* A process dies; its holder no longer matches a start time, and another  *)
(* process with its number is a different one.                             *)
Die(p) ==
    /\ p \in alive
    /\ alive' = alive \ {p}
    /\ inside' = [inside EXCEPT ![p] = {}] /\ count' = [count EXCEPT ![p] = 0]
    /\ expired' = expired \cup {p}
    /\ UNCHANGED <<holders, mode, strays, calls, upsets>>

Expire(p) ==
    /\ p \in holders \ expired
    /\ expired' = expired \cup {p}
    /\ UNCHANGED <<inside, count, alive, holders, mode, strays, calls, upsets>>

WindowNext ==
    \/ \E p \in Proc : \/ \E t \in Thread : Enter(p, t) \/ Leave(p, t)
                       \/ Die(p) \/ Expire(p)
    \/ \E c \in strays : RunsLate(c)
    \/ \E remounts \in BOOLEAN : Guard(remounts)

WindowSpec == WindowInit /\ [][WindowNext]_windowVars

(* The timer fires, holders age, and a run that waits for the flock gets   *)
(* it; nobody is obliged to enter, leave or die.                           *)
FairWindowSpec ==
    /\ WindowSpec /\ WF_windowVars(Guard(TRUE))
    /\ \A p \in Proc : WF_windowVars(Expire(p))
    /\ WF_windowVars(\E c \in strays : RunsLate(c))

---------------------------------------------------------------------------
(* While the helper has not failed, a thread inside a window can write,    *)
(* whichever thread of its process opened it and whoever else opened,      *)
(* closed, died or was cleaned up meanwhile, for MAX_HOLD_SECONDS after    *)
(* its process opened.                                                     *)
InsideCanWrite ==
    upsets = 0 => \A p \in Proc : inside[p] # {} /\ p \notin expired => mode = "rw"

(* Whatever fails, no step takes the target from a process that has it and *)
(* has not run out, but its own last thread leaving or its own close that  *)
(* comes late: another's close, crash or clean-up never does.              *)
OnlyOwnClose ==
    [][mode = "rw" /\ mode' = "ro" =>
         \A p \in holders \ expired :
            \/ inside'[p] = {} /\ inside[p] # {}
            \/ <<"close", p>> \in strays \ strays']_windowVars

(* Once nobody is inside, the target becomes read-only again, whatever     *)
(* crashed, failed or came late, unless somebody enters.                   *)
ReadOnlyAgain == []<>(mode = "ro" \/ \E p \in Proc : inside[p] # {})
============================================================================
