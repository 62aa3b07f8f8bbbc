----------------------------- MODULE FleetRoot -----------------------------
(***************************************************************************)
(* The life of fleet roots: start_root, reconcile_root, send_instruction   *)
(* and close_root of app/services/fleet_sessions.py over the lifecycle     *)
(* rows that append_fleet_event retains.  Every append is one transaction  *)
(* under the root's advisory lock; every host request and every read is a  *)
(* step of its own, and a caller may stop between any two.  The host that  *)
(* runs the roots is external: a request is answered, or fails before,     *)
(* after or long before it takes effect.                                   *)
(***************************************************************************)
EXTENDS Integers, Sequences, SequencesExt

CONSTANTS Proc,       \* callers
          Root,       \* opaque root handles
          LeadOf,     \* support roots, each with the lead root it names
          Alloc,      \* the target of a lead, or the lead and facet of a support root
          MaxGen,     \* host generations of one root that are explored
          MaxCalls    \* calls that are explored

ASSUME RootAssumption ==
    /\ DOMAIN LeadOf \subseteq Root
    /\ \A s \in DOMAIN LeadOf : LeadOf[s] \in Root \ DOMAIN LeadOf
    /\ DOMAIN Alloc = Root
    /\ MaxGen \in Nat \ {0} /\ MaxCalls \in Nat

VARIABLES
    log,      \* per root: its retained rows, in sequence order
    host,     \* per root: what the host runs for it
    flight,   \* roots whose start request is still under way
    pc, job,  \* per caller: where it is, and [op, root]
    seen,     \* per caller: the root state it read last
    answer,   \* per caller: what the host told it
    calls     \* calls begun

caller == <<pc, job, seen, answer>>
vars == <<log, host, flight, caller, calls>>

Desc == [st : {"none", "pending", "live", "ended"}, gen : 0..MaxGen]
NoHost == [st |-> "none", gen |-> 0]
Op == {"start", "reconcile", "close", "send"}
Status == {"registered", "closed", "close-uncertain"}

NoJob == [op |-> "none", root |-> "none"]

RowType == {"root.started", "root.host-observed", "root.host-unavailable",
            "root.closed", "root.close-uncertain", "instruction.retained"}
RowKey == {"root:start", "root:host", "root:host:reconcile", "root:close",
           "root:close-uncertain", "instruction"}
Row == [key : RowKey, type : RowType, desc : Desc]

TypeOK ==
    /\ log \in [Root -> Seq(Row)]
    /\ host \in [Root -> Desc]
    /\ flight \subseteq Root
    /\ pc \in [Proc -> {"idle", "register", "look", "post", "retain", "get",
                        "observe", "reread", "end", "settle", "instruct"}]
    /\ job \in [Proc -> [op : Op, root : Root] \cup {NoJob}]
    /\ seen \in [Proc -> [status : Status, host : Desc]]
    /\ answer \in [Proc -> [ok : BOOLEAN, desc : Desc]]
    /\ calls \in 0..MaxCalls

Fresh == [status |-> "registered", host |-> NoHost]
NoAnswer == [ok |-> FALSE, desc |-> NoHost]

Init ==
    /\ log = [r \in Root |-> <<>>]
    /\ host = [r \in Root |-> NoHost]
    /\ flight = {}
    /\ pc = [p \in Proc |-> "idle"]
    /\ job = [p \in Proc |-> NoJob]
    /\ seen = [p \in Proc |-> Fresh]
    /\ answer = [p \in Proc |-> NoAnswer]
    /\ calls = 0

---------------------------------------------------------------------------
Retained(r, type) == \E i \in DOMAIN log[r] : log[r][i].type = type
Lifecycle(r) == SelectSeq(log[r], LAMBDA e : e.type # "instruction.retained")

StatusOf(r) ==
    IF Retained(r, "root.closed") THEN "closed"
    ELSE IF Retained(r, "root.close-uncertain") THEN "close-uncertain"
    ELSE "registered"

HostOf(r) ==
    LET observed == {i \in DOMAIN log[r] : log[r][i].type = "root.host-observed"}
    IN  IF observed = {} THEN NoHost ELSE log[r][Max(observed)].desc

RootState(r) == [status |-> StatusOf(r), host |-> HostOf(r)]

(* Retained under the same key: for a reconciliation the key holds the     *)
(* digest of the descriptor as well.                                       *)
SameKey(e, key, desc) == e.key = key /\ (key = "root:host:reconcile" => e.desc = desc)

AppendRow(r, key, type, desc) ==
    log' = IF \E i \in DOMAIN log[r] : SameKey(log[r][i], key, desc)
           THEN log
           ELSE [log EXCEPT ![r] = Append(@, [key |-> key, type |-> type, desc |-> desc])]

Goto(p, l) == pc' = [pc EXCEPT ![p] = l]
At(p, l) == pc[p] = l
TheRoot(p) == job[p].root

Begin(p, op, r, l, state) ==
    /\ At(p, "idle") /\ calls < MaxCalls
    /\ calls' = calls + 1
    /\ job' = [job EXCEPT ![p] = [op |-> op, root |-> r]]
    /\ seen' = [seen EXCEPT ![p] = state]
    /\ Goto(p, l)
    /\ UNCHANGED <<log, host, flight, answer>>

Leave(p) ==
    /\ pc' = [pc EXCEPT ![p] = "idle"]
    /\ job' = [job EXCEPT ![p] = NoJob]
    /\ seen' = [seen EXCEPT ![p] = Fresh]
    /\ answer' = [answer EXCEPT ![p] = NoAnswer]

Continue(p, l) == Goto(p, l) /\ UNCHANGED <<job, seen, answer>>

---------------------------------------------------------------------------
(* A support root's lead is read open before anything is registered.       *)
Start(p, r) ==
    /\ r \in DOMAIN LeadOf =>
         /\ Retained(LeadOf[r], "root.started")
         /\ StatusOf(LeadOf[r]) = "registered"
    /\ Begin(p, "start", r, "register", Fresh)

\* Mutant: an uncertain close frees the allocation.
FreeWhenUncertain(r) ==
    \A q \in Root \ {r} : Alloc[q] = Alloc[r] /\ Retained(q, "root.started")
        => Retained(q, "root.closed") \/ Retained(q, "root.close-uncertain")

Free(r) ==
    \A q \in Root \ {r} : Alloc[q] = Alloc[r] /\ Retained(q, "root.started")
        => Retained(q, "root.closed")

\* Mutant: the lead is not looked at again under its lock.
LeadUnchecked(r) == TRUE

LeadOpen(r) == r \in DOMAIN LeadOf => ~Retained(LeadOf[r], "root.closed")

Register(p) ==
    LET r == TheRoot(p)
    IN  /\ At(p, "register")
        /\ IF Retained(r, "root.started") \/ (LeadOpen(r) /\ Free(r))
           THEN /\ AppendRow(r, "root:start", "root.started", NoHost)
                /\ Continue(p, "look")
           ELSE Leave(p) /\ UNCHANGED log
        /\ UNCHANGED <<host, flight, calls>>

Look(p) ==
    /\ At(p, "look")
    /\ IF Len(Lifecycle(TheRoot(p))) > 1 THEN Leave(p) ELSE Continue(p, "post")
    /\ UNCHANGED <<log, host, flight, calls>>

(* POST /v1/roots is idempotent by request id and answers with the ended   *)
(* tombstone of a root that is over.                                       *)
HostAccepts(r) ==
    IF host[r].st # "none" THEN UNCHANGED host
    ELSE \E d \in {[st |-> "pending", gen |-> 0], [st |-> "live", gen |-> 1]} :
           host' = [host EXCEPT ![r] = d]

Post(p) ==
    LET r == TheRoot(p)
    IN  /\ At(p, "post")
        /\ Goto(p, "retain")
        /\ \/ /\ HostAccepts(r)
              /\ \/ answer' = [answer EXCEPT ![p] = [ok |-> TRUE, desc |-> host'[r]]]
                 \/ answer' = [answer EXCEPT ![p] = NoAnswer]
              /\ UNCHANGED flight
           \/ /\ answer' = [answer EXCEPT ![p] = NoAnswer]
              /\ flight' \in {flight, flight \cup {r}}
              /\ UNCHANGED host
        /\ UNCHANGED <<log, job, seen, calls>>

RetainHost(p) ==
    /\ At(p, "retain")
    /\ AppendRow(TheRoot(p), "root:host",
                 IF answer[p].ok THEN "root.host-observed" ELSE "root.host-unavailable",
                 answer[p].desc)
    /\ Leave(p)
    /\ UNCHANGED <<host, flight, calls>>

---------------------------------------------------------------------------
(* close_root reconciles first; reconcile_root alone does the same steps.  *)
Reconcile(p, op, r) ==
    /\ op \in {"reconcile", "close"}
    /\ Retained(r, "root.started") /\ StatusOf(r) # "closed"
    /\ Begin(p, op, r, "get", RootState(r))

(* reconcile_root returns the state it read last; close_root goes on with  *)
(* it unless the root is closed.                                           *)
AfterReconcile(p, state) ==
    IF job[p].op = "reconcile" \/ state.status = "closed"
    THEN Leave(p)
    ELSE /\ seen' = [seen EXCEPT ![p] = state]
         /\ answer' = [answer EXCEPT ![p] = NoAnswer]
         /\ Goto(p, "end") /\ UNCHANGED job

(* A root that has a generation is pinned to it unless the host says ended.*)
Matches(prior, d) == prior.gen > 0 /\ d.gen # prior.gen => d.st = "ended"

Get(p) ==
    LET r == TheRoot(p)
    IN  /\ At(p, "get")
        /\ \/ /\ host[r].st # "none" /\ Matches(seen[p].host, host[r])
              /\ answer' = [answer EXCEPT ![p] =
                   [ok |-> TRUE,
                    desc |-> IF host[r].st = "ended" /\ seen[p].host # NoHost
                             THEN [host[r] EXCEPT !.gen = seen[p].host.gen] ELSE host[r]]]
              /\ Goto(p, "observe")
              /\ UNCHANGED <<job, seen>>
           \/ AfterReconcile(p, seen[p])
        /\ UNCHANGED <<log, host, flight, calls>>

Observe(p) ==
    /\ At(p, "observe")
    /\ AppendRow(TheRoot(p), "root:host:reconcile", "root.host-observed", answer[p].desc)
    /\ Continue(p, "reread")
    /\ UNCHANGED <<host, flight, calls>>

Reread(p) ==
    /\ At(p, "reread")
    /\ AfterReconcile(p, RootState(TheRoot(p)))
    /\ UNCHANGED <<log, host, flight, calls>>

(* The receipt of the end request counts, its failure does not.            *)
HostEnd(p, ended) == ended

(* A retained tombstone needs no request, a root without generation gets   *)
(* none, and the host ends only the generation it is given.                *)
End(p) ==
    LET r == TheRoot(p)
        h == seen[p].host
        Says(e) == answer' = [answer EXCEPT ![p] = [ok |-> HostEnd(p, e), desc |-> h]]
    IN  /\ At(p, "end")
        /\ Goto(p, "settle")
        /\ \/ h.st = "ended" /\ Says(TRUE) /\ UNCHANGED host
           \/ h.st # "ended" /\ Says(FALSE) /\ UNCHANGED host
           \/ /\ h.st # "ended" /\ h.gen > 0 /\ host[r] = [st |-> "live", gen |-> h.gen]
              /\ host' = [host EXCEPT ![r].st = "ended"]
              /\ \E e \in BOOLEAN : Says(e)
           \/ /\ h.st # "ended" /\ h.gen > 0 /\ host[r].st = "ended"
              /\ Says(TRUE) /\ UNCHANGED host
        /\ UNCHANGED <<log, flight, job, seen, calls>>

Settle(p) ==
    /\ At(p, "settle")
    /\ IF answer[p].ok
       THEN AppendRow(TheRoot(p), "root:close", "root.closed", answer[p].desc)
       ELSE AppendRow(TheRoot(p), "root:close-uncertain", "root.close-uncertain", NoHost)
    /\ Leave(p)
    /\ UNCHANGED <<host, flight, calls>>

---------------------------------------------------------------------------
Send(p, r) ==
    /\ Retained(r, "root.started") /\ StatusOf(r) = "registered"
    /\ Begin(p, "send", r, "instruct", Fresh)

Instruct(p) ==
    /\ At(p, "instruct")
    /\ IF StatusOf(TheRoot(p)) = "registered"
       THEN AppendRow(TheRoot(p), "instruction", "instruction.retained", NoHost)
       ELSE UNCHANGED log
    /\ Leave(p)
    /\ UNCHANGED <<host, flight, calls>>

(* A caller is stopped, or its transaction fails.                          *)
Stop(p) ==
    /\ ~At(p, "idle")
    /\ Leave(p)
    /\ UNCHANGED <<log, host, flight, calls>>

---------------------------------------------------------------------------
HostDelivers(r) ==
    /\ r \in flight
    /\ flight' = flight \ {r}
    /\ HostAccepts(r)
    /\ UNCHANGED <<log, caller, calls>>

HostMoves(r) ==
    /\ host' \in {[host EXCEPT ![r] = d] : d \in
         CASE host[r].st = "pending" -> {[st |-> "live", gen |-> 1], [st |-> "ended", gen |-> 0]}
           [] host[r].st = "live" -> {[host[r] EXCEPT !.st = "ended"]}
                \cup IF host[r].gen < MaxGen THEN {[host[r] EXCEPT !.gen = @ + 1]} ELSE {}
           [] OTHER -> {}}
    /\ UNCHANGED <<log, flight, caller, calls>>

Next ==
    \/ \E p \in Proc :
         \/ \E r \in Root : \/ Start(p, r) \/ Send(p, r)
                            \/ \E op \in Op : Reconcile(p, op, r)
         \/ Register(p) \/ Look(p) \/ Post(p) \/ RetainHost(p)
         \/ Get(p) \/ Observe(p) \/ Reread(p) \/ End(p) \/ Settle(p)
         \/ Instruct(p) \/ Stop(p)
    \/ \E r \in Root : HostDelivers(r) \/ HostMoves(r)

Spec == Init /\ [][Next]_vars

---------------------------------------------------------------------------
Alive(r) == host[r].st \in {"pending", "live"}

(* Two roots of one target, or of one facet of a lead, never run on the    *)
(* host at once: the allocation is free only after a confirmed end, however*)
(* starts, late deliveries, closes and crashes interleave.                 *)
OneAlivePerAllocation ==
    \A r, q \in Root : r # q /\ Alloc[r] = Alloc[q] => ~(Alive(r) /\ Alive(q))

(* A root that is retained as closed runs nothing: neither a lost answer,  *)
(* a newer host generation nor a start that arrives late reopens it.       *)
ClosedMeansEnded ==
    \A r \in Root : Retained(r, "root.closed") => host[r].st = "ended"

(* Closed is final, although a second closer may retain close-uncertain    *)
(* after it, and an uncertain root never reads as open again.              *)
StatusOnlyAdvances ==
    [][\A r \in Root :
         /\ StatusOf(r) = "closed" => StatusOf(r)' = "closed"
         /\ StatusOf(r) = "close-uncertain" => StatusOf(r)' # "registered"]_vars

(* Nothing enters a root once its close is retained, also when it was read *)
(* as open before: no instruction behind a close, whether confirmed or     *)
(* uncertain, and no support root under a closed lead (fleet_events).      *)
NothingEntersClosed ==
    [][/\ \A r \in Root :
           Retained(r, "root.closed") \/ Retained(r, "root.close-uncertain")
             => Retained(r, "instruction.retained")' = Retained(r, "instruction.retained")
       /\ \A s \in DOMAIN LeadOf :
           Retained(s, "root.started")' /\ ~Retained(s, "root.started")
             => ~Retained(LeadOf[s], "root.closed")]_vars

(* Once a start was observed or failed, or the root was closed or left     *)
(* uncertain, no start_root asks the host to create it.                    *)
NoPostAfterVerdict ==
    [][\A p \in Proc : pc[p] = "post" /\ pc'[p] = "retain"
         => Len(Lifecycle(TheRoot(p))) = 1]_vars

(* A matching tombstone that reconcile_root got from the host is what the  *)
(* root's state then shows, so that close_root can close on it.            *)
TombstoneTakesHold ==
    [][\A p \in Proc : pc[p] = "observe" /\ pc'[p] = "reread" /\ answer[p].desc.st = "ended"
         => HostOf(TheRoot(p))'.st = "ended"]_vars
============================================================================
