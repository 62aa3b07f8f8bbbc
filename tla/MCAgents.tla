------------------------------ MODULE MCAgents ------------------------------
(***************************************************************************)
(* Agents in one checkout: their edits, commits and acceptances (Checkout) *)
(* and the messages to one of them (Inbox).  The two do not meet, so a     *)
(* behaviour plays one scene, with its bounds, while the other component   *)
(* stays in its initial state.                                             *)
(***************************************************************************)
EXTENDS Checkout, Inbox, TLC

VARIABLE scene

Editing == INSTANCE Checkout WITH MaxEdits <- 2, MaxCommits <- 1, MaxAccepts <- 0
Accepting == INSTANCE Checkout WITH MaxEdits <- 1, MaxCommits <- 2, MaxAccepts <- 2

Etas == INSTANCE Inbox WITH MaxLapses <- 1, MaxTurns <- 0, MaxFaults <- 1
Turns == INSTANCE Inbox WITH MaxLapses <- 0, MaxTurns <- 1, MaxFaults <- 1
Answers == INSTANCE Inbox WITH MaxLapses <- 0, MaxTurns <- 0, MaxFaults <- 1

(* The items of a scene: requests alone, or one request and the answers.   *)
Absent(items) == \A i \in items : state'[i] = "absent"
OneRequest == Cardinality({i \in Req : state'[i] # "absent"}) <= 1

Symmetry == Permutations(Session) \cup Permutations(Path) \cup Permutations(Req)

ScenesInit ==
    /\ Init /\ InboxInit
    /\ scene \in {"editing", "accepting", "etas", "turns", "answers"}

ScenesNext ==
    /\ UNCHANGED scene
    /\ \/ scene = "editing" /\ Editing!Next /\ UNCHANGED inboxVars
       \/ scene = "accepting" /\ Accepting!Next /\ UNCHANGED inboxVars
       \/ scene = "etas" /\ Etas!InboxNext /\ Absent(Ack) /\ UNCHANGED vars
       \/ scene = "turns" /\ Turns!InboxNext /\ Absent(Ack) /\ UNCHANGED vars
       \/ scene = "answers" /\ Answers!InboxNext /\ OneRequest /\ UNCHANGED vars

ScenesSpec == ScenesInit /\ [][ScenesNext]_<<scene, vars, inboxVars>>
=============================================================================
