------------------------------- MODULE Inbox -------------------------------
(***************************************************************************)
(* The inbox of one agent and the line that wakes it: the handshake ledger *)
(* of cli/lib/coord.py, the queued line of cli/lib/coord_deliver.py, the   *)
(* woke and seen files of cli/lib/coord_wake.py, and the turn hook and     *)
(* watcher of scripts/lib/coord_inbox.py.                                  *)
(*                                                                         *)
(* Every step between two reads or writes of a shared file, the ledger or  *)
(* Tether's queue is an action of its own.  Text, names and titles of the  *)
(* line are left out: only its class matters.  The agent runs in a window  *)
(* that Tether (API 25) delivers to; GRACE may run out at any moment of a  *)
(* sender's command; memory notices, armed reply waits and recipients on   *)
(* other hosts are not modelled.                                           *)
(***************************************************************************)
EXTENDS Integers, FiniteSets

CONSTANTS Req,        \* requests to the agent
          Ack,        \* answers to requests of the agent
          Fyi,        \* notes to the agent
          MaxLapses,  \* etas that run out
          MaxTurns,   \* turns the user starts
          MaxFaults   \* calls of Tether that do not answer, and killed commands

Item == Req \cup Ack \cup Fyi

ASSUME InboxAssumption ==
    /\ Req \cap Ack = {} /\ Req \cap Fyi = {} /\ Ack \cap Fyi = {}
    /\ {"watch", "hook", "none"} \cap Item = {}
    /\ MaxLapses \in Nat /\ MaxTurns \in Nat /\ MaxFaults \in Nat

Caller == Item \cup {"watch", "hook"}   \* the command that recorded an item, the watcher, the hook
Unmarked == [by |-> "none", age |-> "none", current |-> FALSE]

VARIABLES
    state,    \* ledger rows: absent, waiting, riding (ride-along), eta, done
    seen,     \* seen file: items shown since they happened
    woke,     \* woke file: who marked the item, and whether since the last withdrawal
    line,     \* the queued line: none, wake or ride
    token,    \* the ride line is the one the hook peeked
    call,     \* coord_deliver.wake in progress, per caller
    agent,    \* idle or in a turn
    hook,     \* the turn hook: where it is and what it shows
    missed,   \* items whose wake a fault took away
    outrun,   \* items that waited when a ride line composed before was queued
    lapses, turns, faults

inboxVars == <<state, seen, woke, line, token, call, agent, hook,
               missed, outrun, lapses, turns, faults>>

ledger == <<state, lapses>>
tether == <<line, token>>
ghosts == <<missed, outrun>>

NoCall == [pc |-> "off", keys |-> {}, line |-> "none"]
NoHook == [pc |-> "off", fresh |-> {}, ride |-> FALSE]

InboxTypeOK ==
    /\ state \in [Item -> {"absent", "waiting", "riding", "eta", "done"}]
    /\ seen \subseteq Item
    /\ woke \in [Item -> [by : Caller \cup {"none"}, age : {"none", "old", "new", "since"},
                          current : BOOLEAN]]
    /\ line \in {"none", "wake", "ride"} /\ token \in BOOLEAN
    /\ call \in [Caller -> [pc : {"off", "settle", "compose", "mark", "post"},
                            keys : SUBSET Item, line : {"none", "wake", "ride"}]]
    /\ agent \in {"idle", "turn"}
    /\ hook \in [pc : {"off", "read", "print", "withdraw", "look", "delete", "again"},
                 fresh : SUBSET Item, ride : BOOLEAN]
    /\ missed \subseteq Item /\ outrun \subseteq Item
    /\ lapses \in 0..MaxLapses /\ turns \in 0..MaxTurns /\ faults \in 0..MaxFaults

InboxInit ==
    /\ state = [i \in Item |-> "absent"] /\ seen = {}
    /\ woke = [i \in Item |-> Unmarked]
    /\ line = "none" /\ token = FALSE
    /\ call = [c \in Caller |-> NoCall]
    /\ agent = "idle" /\ hook = NoHook
    /\ missed = {} /\ outrun = {}
    /\ lapses = 0 /\ turns = 0 /\ faults = 0

Fault == faults < MaxFaults /\ faults' = faults + 1

---------------------------------------------------------------------------
(* What the ledger holds for the agent.                                    *)
Waiting == {i \in Req : state[i] = "waiting"} \cup {i \in Ack : state[i] = "waiting" /\ i \notin seen}

Rides == {i \in Ack \cup Fyi : state[i] = "riding" /\ i \notin seen}

(* The class of the one line that covers everything.                       *)
Compose == IF Waiting # {} THEN "wake" ELSE IF Rides # {} THEN "ride" ELSE "none"

(* Woken for, or shown, since it happened.                                 *)
Told(i) == i \in seen \/ woke[i].current

\* Mutant: an item counts as told for ever.
WakeableOnce == {i \in Req \cup Ack : state[i] = "waiting" /\ i \notin seen /\ woke[i] = Unmarked}

Wakeable == {i \in Req \cup Ack : state[i] = "waiting" /\ ~Told(i)}

---------------------------------------------------------------------------
(* Commands that write the ledger, and what happens to a row by itself.    *)

(* The command that recorded i goes on to wake the agent for it.           *)
StartsCall(i, pc) == call' = [call EXCEPT ![i] = [pc |-> pc, keys |-> {i}, line |-> "none"]]

(* send: a request, or a note that rides along; sent again while it waits, *)
(* it is the row that is there.                                            *)
Send(i) ==
    /\ i \in Req \cup Fyi /\ state[i] = "absent"
    /\ state' = [state EXCEPT ![i] = IF i \in Fyi THEN "riding" ELSE "waiting"]
    /\ StartsCall(i, "compose")
    /\ UNCHANGED <<seen, woke, tether, agent, hook, ghosts, lapses, turns, faults>>

(* Another agent acks a request of this one.                               *)
Acked(i) ==
    /\ i \in Ack /\ state[i] = "absent"
    /\ state' = [state EXCEPT ![i] = "waiting"]
    /\ StartsCall(i, "settle")
    /\ UNCHANGED <<seen, woke, tether, agent, hook, ghosts, lapses, turns, faults>>

(* settle_bare_ack: a yes nobody waits for closes the request.             *)
Settle(i, closes) ==
    /\ call[i].pc = "settle"
    /\ state' = [state EXCEPT ![i] = IF closes /\ @ = "waiting" THEN "riding" ELSE @]
    /\ call' = [call EXCEPT ![i].pc = "compose"]
    /\ UNCHANGED <<seen, woke, tether, agent, hook, ghosts, lapses, turns, faults>>

(* The sender takes back a request nobody answered.                        *)
Withdraw(i) ==
    /\ i \in Req /\ state[i] = "waiting" /\ call[i].pc = "off"
    /\ state' = [state EXCEPT ![i] = "done"]
    /\ UNCHANGED <<seen, woke, tether, call, agent, hook, ghosts, lapses, turns, faults>>

(* In a turn the agent answers a request, for good or with an eta, or      *)
(* confirms an ack.                                                        *)
Answer(i, answer) ==
    /\ agent = "turn" /\ hook.pc = "off" /\ state[i] = "waiting"
    /\ answer = "done" \/ (i \in Req /\ lapses < MaxLapses)
    /\ state' = [state EXCEPT ![i] = answer]
    /\ UNCHANGED <<seen, woke, tether, call, agent, hook, ghosts, lapses, turns, faults>>

(* An eta runs out: the request waits again, from now.                     *)
Lapse(i) ==
    /\ state[i] = "eta"
    /\ lapses' = lapses + 1 /\ lapses < MaxLapses
    /\ state' = [state EXCEPT ![i] = "waiting"]
    /\ seen' = seen \ {i}
    /\ woke' = [woke EXCEPT ![i].current = FALSE]
    /\ UNCHANGED <<tether, call, agent, hook, ghosts, turns, faults>>

---------------------------------------------------------------------------
(* coord_deliver.wake, for whichever caller.                               *)
SetCall(c, v) == call' = [call EXCEPT ![c] = v]

(* mark_woke, stamped after a withdrawal in progress began or before it.   *)
Mark(c, keys) ==
    woke' = [i \in Item |-> IF i \notin keys THEN woke[i]
             ELSE [by |-> c, current |-> TRUE,
                   age |-> IF hook.pc \in {"look", "delete"} THEN "since" ELSE "new"]]

(* unmark_woke: only what no later mark replaced.                          *)
Unmark(c, keys) ==
    woke' = [i \in Item |-> IF i \in keys /\ woke[i].by = c THEN Unmarked ELSE woke[i]]

WakeComposes(c) ==
    /\ call[c].pc = "compose"
    /\ IF Compose = "none"
       THEN SetCall(c, NoCall) /\ Mark(c, call[c].keys)
       ELSE SetCall(c, [call[c] EXCEPT !.pc = "mark", !.line = Compose]) /\ UNCHANGED woke
    /\ UNCHANGED <<ledger, seen, tether, agent, hook, ghosts, turns, faults>>

WakeMarks(c) ==
    /\ call[c].pc = "mark"
    /\ SetCall(c, [call[c] EXCEPT !.pc = "post"])
    /\ Mark(c, call[c].keys)
    /\ UNCHANGED <<ledger, seen, tether, agent, hook, ghosts, turns, faults>>

Unheard == {i \in Waiting : i \notin seen}

(* The queue keeps the newest line of a source.                            *)
Queue(new) ==
    /\ line' = new /\ token' = FALSE
    /\ outrun' = IF new = "ride" THEN outrun \cup Unheard ELSE outrun

Post(c) ==
    /\ call[c].pc = "post"
    /\ SetCall(c, NoCall)
    /\ Queue(call[c].line)
    /\ UNCHANGED <<ledger, seen, woke, agent, hook, missed, turns, faults>>

\* Mutant: the mark of a line that was not queued stays.
KeepMark(c, keys) == UNCHANGED woke

PostFailed(c, keys) == Unmark(c, keys)

(* Tether does not answer: the line may or may not be queued.              *)
PostUnsettled(c) ==
    /\ call[c].pc = "post" /\ Fault
    /\ SetCall(c, NoCall)
    /\ PostFailed(c, call[c].keys)
    /\ \/ Queue(call[c].line) /\ UNCHANGED missed
       \/ UNCHANGED <<tether, outrun>> /\ missed' = IF c = "hook" THEN missed \cup Unheard ELSE missed
    /\ UNCHANGED <<ledger, seen, agent, hook, turns>>

(* The command of a sender is killed on its way.                           *)
Killed(i) ==
    /\ i \in Item /\ call[i].pc # "off" /\ Fault
    /\ SetCall(i, NoCall)
    /\ missed' = IF call[i].pc = "post" THEN missed \cup {i} ELSE missed
    /\ UNCHANGED <<ledger, seen, woke, tether, agent, hook, outrun, turns>>

(* The watcher finds what nobody woke the agent for.                       *)
Watch ==
    /\ call["watch"].pc = "off" /\ Wakeable # {}
    /\ SetCall("watch", [pc |-> "compose", keys |-> Wakeable, line |-> "none"])
    /\ UNCHANGED <<ledger, seen, woke, tether, agent, hook, ghosts, turns, faults>>

---------------------------------------------------------------------------
(* Turns and their hooks.                                                  *)
At(pc) == hook' = [hook EXCEPT !.pc = pc]

(* Tether pastes a wake line into the idle window.                         *)
Deliver ==
    /\ agent = "idle" /\ line = "wake"
    /\ line' = "none" /\ agent' = "turn" /\ At("read")
    /\ UNCHANGED <<ledger, seen, woke, token, call, ghosts, turns, faults>>

Prompt ==
    /\ agent = "idle" /\ turns < MaxTurns
    /\ turns' = turns + 1 /\ agent' = "turn" /\ At("read")
    /\ UNCHANGED <<ledger, seen, woke, tether, call, ghosts, faults>>

(* A tool ran: the hook runs again in the same turn.                       *)
ToolHook ==
    /\ agent = "turn" /\ hook.pc = "off" /\ turns < MaxTurns
    /\ turns' = turns + 1 /\ At("read")
    /\ UNCHANGED <<ledger, seen, woke, tether, call, agent, ghosts, faults>>

Due == {i \in Item : state[i] \in {"waiting", "riding"} /\ i \notin seen}

(* Peek the ride lines, then read the inbox.                               *)
HookReads ==
    /\ hook.pc = "read"
    /\ hook' = [pc |-> "print", fresh |-> Due, ride |-> line = "ride"]
    /\ token' = (line = "ride")
    /\ UNCHANGED <<ledger, seen, woke, line, call, agent, ghosts, turns, faults>>

(* Print, mark shown, and with time left take the ride lines printed.      *)
HookShows(time) ==
    /\ hook.pc = "print"
    /\ seen' = seen \cup hook.fresh
    /\ line' = IF hook.ride /\ token /\ time THEN "none" ELSE line
    /\ token' = FALSE
    /\ hook' = [pc |-> "withdraw", fresh |-> {}, ride |-> FALSE]
    /\ UNCHANGED <<ledger, woke, call, agent, ghosts, turns, faults>>

(* withdraw_stale: only if a line was queued since the last withdrawal and *)
(* the hook has the time.                                                  *)
WithdrawStarts(time) ==
    /\ hook.pc = "withdraw"
    /\ At(IF time /\ (\E i \in Item : woke[i].age = "new") THEN "look" ELSE "off")
    /\ UNCHANGED <<ledger, seen, woke, tether, call, agent, ghosts, turns, faults>>

(* What was marked meanwhile stays newer than the last withdrawal.         *)
Later(old) == woke' = [i \in Item |-> [woke[i] EXCEPT !.age =
                         CASE @ = "since" -> "new" [] @ = "new" -> old [] OTHER -> @]]

(* Something to answer still waits: the queued line stands.                *)
Stands == Waiting # {}

WithdrawLooks ==
    /\ hook.pc = "look"
    /\ IF Stands THEN At("off") /\ Later("new") ELSE At("delete") /\ UNCHANGED woke
    /\ UNCHANGED <<ledger, seen, tether, call, agent, ghosts, turns, faults>>

WithdrawDeletes ==
    /\ hook.pc = "delete"
    /\ line' = "none" /\ token' = FALSE
    /\ Later("old")
    /\ At(IF line # "none" THEN "again" ELSE "off")
    /\ UNCHANGED <<ledger, seen, call, agent, ghosts, turns, faults>>

(* No answer: the line may be gone, and nobody looks again.                *)
DeleteUnsettled(gone) ==
    /\ hook.pc = "delete" /\ Fault
    /\ line' = IF gone THEN "none" ELSE line
    /\ missed' = IF gone /\ line = "wake" THEN missed \cup Unheard ELSE missed
    /\ Later("new") /\ At("off")
    /\ UNCHANGED <<ledger, seen, token, call, agent, outrun, turns>>

(* A line was taken back and something waits: it merged into it meanwhile, *)
(* or rides.                                                               *)
Requeues == Waiting # {} \/ Rides # {}

WithdrawAgain ==
    /\ hook.pc = "again"
    /\ At("off")
    /\ IF Requeues THEN SetCall("hook", [pc |-> "compose", keys |-> {}, line |-> "none"])
                   ELSE UNCHANGED call
    /\ UNCHANGED <<ledger, seen, woke, tether, agent, ghosts, turns, faults>>

(* The turn ends, unless a request nobody was shown blocks it.             *)
Stop ==
    /\ agent = "turn" /\ hook.pc = "off" /\ call["hook"].pc = "off"
    /\ IF Due \cap Req # {}
       THEN seen' = seen \cup Due /\ UNCHANGED agent
       ELSE agent' = "idle" /\ UNCHANGED seen
    /\ UNCHANGED <<ledger, woke, tether, call, hook, ghosts, turns, faults>>

WakeStep(c) == WakeComposes(c) \/ WakeMarks(c) \/ Post(c)

HookStep ==
    \/ HookReads \/ WithdrawLooks \/ WithdrawDeletes \/ WithdrawAgain
    \/ \E time \in BOOLEAN : HookShows(time) \/ WithdrawStarts(time)

InboxNext ==
    \/ \E i \in Item :
        \/ Send(i) \/ Acked(i) \/ Withdraw(i) \/ Lapse(i) \/ Killed(i)
        \/ \E closes \in BOOLEAN : Settle(i, closes)
        \/ \E answer \in {"done", "eta"} : Answer(i, answer)
    \/ \E c \in Caller : WakeStep(c) \/ PostUnsettled(c)
    \/ Watch \/ Deliver \/ Prompt \/ ToolHook \/ HookStep
    \/ \E gone \in BOOLEAN : DeleteUnsettled(gone)
    \/ Stop

InboxSpec == InboxInit /\ [][InboxNext]_inboxVars

(* Commands, hooks and the watcher run on, Tether delivers to an idle      *)
(* agent, and turns end; nobody is obliged to answer or to prompt.         *)
FairInboxSpec ==
    /\ InboxSpec
    /\ \A c \in Caller : WF_inboxVars(WakeStep(c))
    /\ \A i \in Item : WF_inboxVars(\E b \in BOOLEAN : Settle(i, b))
    /\ WF_inboxVars(Watch) /\ WF_inboxVars(Deliver) /\ WF_inboxVars(HookStep) /\ WF_inboxVars(Stop)

---------------------------------------------------------------------------
Quiet == agent = "idle" /\ \A c \in Caller : call[c].pc = "off"

Stranded == {i \in Unheard : Quiet /\ line # "wake" /\ woke[i].current}

(* An idle agent's request or ack that was not shown has a wake line       *)
(* queued, or the watcher still owes it one: woke never says so in vain.   *)
NotStranded == Stranded = {}

(* The two ways it happens: a call of Tether that was not answered while a *)
(* line is withdrawn or a killed command, and a ride line composed before  *)
(* and queued after a wake line.                                           *)
StrandedOnlyByRace == Stranded \subseteq missed \cup outrun

(* Every request and ack is shown, answered or taken back, if neither of   *)
(* the two befalls it; a lapsed eta included.                              *)
Heard ==
    \A i \in Req \cup Ack :
        []<>(i \in seen \/ state[i] # "waiting" \/ i \in missed \cup outrun)
============================================================================
