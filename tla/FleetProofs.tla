---------------------------- MODULE FleetProofs ----------------------------
(***************************************************************************)
(* Safety of fleet roots for any callers, roots and allocations: no two    *)
(* roots of one allocation run at once, a closed root has ended, and       *)
(* nothing enters a root behind its close.  The inductive invariant says   *)
(* where a caller's belief that a root has ended comes from: a tombstone   *)
(* in the log, in what it read or in what the host told it is of a root    *)
(* that really ended, and the host never revives one.                      *)
(*                                                                         *)
(* Then the event stream of a root, for any page size and any number of    *)
(* events: what a wait has read is what follows the cursor it was given.   *)
(***************************************************************************)
EXTENDS FleetRoot, FleetStream, WellFoundedInduction, FiniteSetTheorems, SequenceTheorems, TLAPS

Started(r) == Retained(r, "root.started")
Closed(r) == Retained(r, "root.closed")
Ended(r) == host[r].st = "ended"

(* What a row stands for: the key of a start is a start's, and a tombstone *)
(* is of an ended root.                                                    *)
TrueRow(r, e) ==
    /\ e.key = "root:start" => e.type = "root.started"
    /\ e.type = "root.host-observed" /\ e.desc.st = "ended" => Ended(r)
RowInv == \A r \in Root : \A i \in DOMAIN log[r] : TrueRow(r, log[r][i])

(* What the host runs, or is about to run, is a retained root's.           *)
HostInv == \A r \in Root : host[r].st # "none" \/ r \in flight => Started(r)

(* What a caller works on is a retained root, and it takes a root for      *)
(* ended only if it is.                                                    *)
CallerOf(p) ==
    pc[p] # "idle" =>
      /\ job[p] \in [op : Op, root : Root]
      /\ pc[p] # "register" => Started(TheRoot(p))
      /\ seen[p].host.st = "ended" => Ended(TheRoot(p))
      /\ pc[p] \in {"retain", "observe"} /\ answer[p].desc.st = "ended" => Ended(TheRoot(p))
      /\ pc[p] = "settle" /\ answer[p].ok => Ended(TheRoot(p))
CallerInv == \A p \in Proc : CallerOf(p)

(* An allocation has one root that is not closed at most.                  *)
AllocInv ==
    \A r, q \in Root : r # q /\ Alloc[r] = Alloc[q] /\ Started(r) /\ Started(q) => Closed(r) \/ Closed(q)

IInv == TypeOK /\ RowInv /\ HostInv /\ CallerInv /\ AllocInv /\ ClosedMeansEnded
----------------------------------------------------------------------------
(* What an append to the log keeps and adds.                               *)
LEMMA Appended ==
    ASSUME TypeOK, NEW r \in Root, NEW key \in RowKey, NEW type \in RowType, NEW desc \in Desc,
           AppendRow(r, key, type, desc)
    PROVE  /\ log' \in [Root -> Seq(Row)]
           /\ \A q \in Root : \A i \in DOMAIN log[q] : i \in DOMAIN log'[q] /\ log'[q][i] = log[q][i]
           /\ \A q \in Root : \A i \in DOMAIN log'[q] :
                \/ i \in DOMAIN log[q] /\ log'[q][i] = log[q][i]
                \/ q = r /\ log'[q][i] = [key |-> key, type |-> type, desc |-> desc]
           /\ \/ \E i \in DOMAIN log[r] : log[r][i].key = key
              \/ \E i \in DOMAIN log'[r] : log'[r][i] = [key |-> key, type |-> type, desc |-> desc]
<1> DEFINE row == [key |-> key, type |-> type, desc |-> desc]
<1>1. log \in [Root -> Seq(Row)] /\ row \in Row BY DEF TypeOK, Row
<1> HIDE DEF row
<1>2. CASE log' = log /\ \E i \in DOMAIN log[r] : SameKey(log[r][i], key, desc)
  BY <1>1, <1>2 DEF SameKey
<1>3. CASE log' = [log EXCEPT ![r] = Append(@, row)]
  <2>1. log'[r] = Append(log[r], row) /\ \A q \in Root \ {r} : log'[q] = log[q] BY <1>1, <1>3
  <2>2. log[r] \in Seq(Row) BY <1>1
  <2>3. /\ DOMAIN log'[r] = 1..(Len(log[r]) + 1) /\ DOMAIN log[r] = 1..Len(log[r])
        /\ log'[r][Len(log[r]) + 1] = row /\ \A i \in 1..Len(log[r]) : log'[r][i] = log[r][i]
        /\ Len(log[r]) \in Nat
    BY <1>1, <2>1, <2>2
  <2>4. log' \in [Root -> Seq(Row)] BY <1>1, <1>3, <2>2
  <2>5. \A q \in Root : \A i \in DOMAIN log[q] : i \in DOMAIN log'[q] /\ log'[q][i] = log[q][i]
    BY <2>1, <2>3
  <2>6. \A q \in Root : \A i \in DOMAIN log'[q] :
          \/ i \in DOMAIN log[q] /\ log'[q][i] = log[q][i]
          \/ q = r /\ log'[q][i] = row
    BY <2>1, <2>3
  <2>7. \E i \in DOMAIN log'[r] : log'[r][i] = row BY <2>3
  <2> QED BY <2>4, <2>5, <2>6, <2>7 DEF row
<1> QED BY <1>2, <1>3 DEF AppendRow, row

Grows == \A q \in Root : \A t \in RowType : Retained(q, t) => Retained(q, t)'
OnlyAdds(r, type) ==
    \A q \in Root : \A t \in RowType : Retained(q, t)' => Retained(q, t) \/ (q = r /\ t = type)

LEMMA RetainedAfter ==
    ASSUME TypeOK, NEW r \in Root, NEW key \in RowKey, NEW type \in RowType, NEW desc \in Desc,
           AppendRow(r, key, type, desc)
    PROVE  Grows /\ OnlyAdds(r, type)
<1>1. Grows BY Appended DEF Grows, Retained
<1>2. OnlyAdds(r, type)
  <2> SUFFICES ASSUME NEW q \in Root, NEW t \in RowType, Retained(q, t)', ~Retained(q, t)
               PROVE  q = r /\ t = type
    BY DEF OnlyAdds
  <2>1. PICK i \in DOMAIN log'[q] : log'[q][i].type = t BY DEF Retained
  <2>2. ~(i \in DOMAIN log[q] /\ log'[q][i] = log[q][i]) BY <2>1 DEF Retained
  <2>3. q = r /\ log'[q][i] = [key |-> key, type |-> type, desc |-> desc] BY <2>2, Appended
  <2> QED BY <2>1, <2>3
<1> QED BY <1>1, <1>2
----------------------------------------------------------------------------
World == RowInv /\ HostInv /\ AllocInv /\ ClosedMeansEnded
StaysEnded == \A q \in Root : Ended(q) => Ended(q)'

(* A row is retained that says no more than is so.                         *)
LEMMA LogStep ==
    ASSUME TypeOK, World, NEW r \in Root, NEW key \in RowKey, NEW type \in RowType, NEW desc \in Desc,
           AppendRow(r, key, type, desc), UNCHANGED <<host, flight>>,
           TrueRow(r, [key |-> key, type |-> type, desc |-> desc]),
           type = "root.closed" => Ended(r),
           type = "root.started" => Started(r) \/ Free(r)
    PROVE  World'
<1>1. /\ \A q \in Root : Started(q) => Started(q)'
      /\ \A q \in Root : Closed(q) => Closed(q)'
      /\ \A q \in Root : Started(q)' => Started(q) \/ (q = r /\ type = "root.started")
      /\ \A q \in Root : Closed(q)' => Closed(q) \/ (q = r /\ type = "root.closed")
  BY RetainedAfter DEF Grows, OnlyAdds, Started, Closed, RowType
<1>2. RowInv'
  <2> SUFFICES ASSUME NEW q \in Root, NEW i \in DOMAIN log'[q] PROVE TrueRow(q, log[q][i])'
    BY DEF RowInv
  <2>1. CASE i \in DOMAIN log[q] /\ log'[q][i] = log[q][i]
    BY <2>1 DEF World, RowInv, TrueRow, Ended
  <2>2. CASE q = r /\ log'[q][i] = [key |-> key, type |-> type, desc |-> desc]
    BY <2>2 DEF TrueRow, Ended
  <2> QED BY <2>1, <2>2, Appended
<1>3. HostInv' BY <1>1 DEF World, HostInv
<1>4. AllocInv'
  <2> SUFFICES ASSUME NEW a \in Root, NEW b \in Root, a # b, Alloc[a] = Alloc[b], Started(a)', Started(b)'
               PROVE  Closed(a)' \/ Closed(b)'
    BY DEF AllocInv
  <2>1. CASE Started(a) /\ Started(b) BY <1>1, <2>1 DEF World, AllocInv
  <2>2. CASE ~Started(a) /\ a = r /\ type = "root.started"
    <3>1. Free(a) /\ Started(b) BY <1>1, <2>2
    <3>2. Closed(b) BY <3>1 DEF Free, Started, Closed
    <3> QED BY <1>1, <3>2
  <2>3. CASE ~Started(b) /\ b = r /\ type = "root.started"
    <3>1. Free(b) /\ Started(a) BY <1>1, <2>3
    <3>2. Closed(a) BY <3>1 DEF Free, Started, Closed
    <3> QED BY <1>1, <3>2
  <2> QED BY <1>1, <2>1, <2>2, <2>3
<1>5. ClosedMeansEnded' BY <1>1 DEF World, ClosedMeansEnded, Closed, Ended
<1> QED BY <1>2, <1>3, <1>4, <1>5 DEF World

(* The host takes up retained roots only and revives none.                 *)
LEMMA HostStep ==
    ASSUME World, UNCHANGED log, StaysEnded,
           \A r \in Root : host'[r].st # "none" \/ r \in flight' => Started(r)
    PROVE  World'
<1>1. RowInv' BY DEF World, RowInv, TrueRow, StaysEnded
<1>2. HostInv' BY DEF HostInv, Started, Retained
<1>3. AllocInv' BY DEF World, AllocInv, Started, Closed, Retained
<1>4. ClosedMeansEnded' BY DEF World, ClosedMeansEnded, StaysEnded, Ended, Retained
<1> QED BY <1>1, <1>2, <1>3, <1>4 DEF World

LEMMA QuietStep ==
    ASSUME World, UNCHANGED <<log, host, flight>>
    PROVE  World' /\ StaysEnded /\ Grows
<1>1. StaysEnded BY DEF StaysEnded, Ended
<1>2. Grows BY DEF Grows, Retained
<1> QED BY <1>1, <1>2, HostStep DEF World, HostInv

LEMMA CallerStays ==
    ASSUME NEW q \in Proc, CallerOf(q), Grows, StaysEnded,
           pc'[q] = pc[q], job'[q] = job[q], seen'[q] = seen[q], answer'[q] = answer[q]
    PROVE  CallerOf(q)'
<1>1. CASE pc[q] = "idle" BY <1>1 DEF CallerOf
<1>2. CASE pc[q] # "idle"
  <2>1. TheRoot(q) \in Root /\ TheRoot(q)' = TheRoot(q) BY <1>2 DEF CallerOf, TheRoot
  <2>2. Started(TheRoot(q)) => Started(TheRoot(q))'
    BY <2>1 DEF Grows, Started, Retained, RowType
  <2>3. Ended(TheRoot(q)) => Ended(TheRoot(q))'
    BY <2>1 DEF StaysEnded, Ended
  <2> QED BY <1>2, <2>1, <2>2, <2>3 DEF CallerOf
<1> QED BY <1>1, <1>2
----------------------------------------------------------------------------
(* Types of what a caller holds, and how it moves.                         *)
Where == {"idle", "register", "look", "post", "retain", "get", "observe", "reread", "end",
          "settle", "instruct"}
SeenType == [status : Status, host : Desc]
AnswerType == [ok : BOOLEAN, desc : Desc]
CallerType ==
    /\ pc \in [Proc -> Where] /\ job \in [Proc -> [op : Op, root : Root] \cup {NoJob}]
    /\ seen \in [Proc -> SeenType] /\ answer \in [Proc -> AnswerType]
WorldType == log \in [Root -> Seq(Row)] /\ host \in [Root -> Desc] /\ flight \subseteq Root

OthersSame(p) ==
    \A q \in Proc \ {p} :
        pc'[q] = pc[q] /\ job'[q] = job[q] /\ seen'[q] = seen[q] /\ answer'[q] = answer[q]

LEMMA Typing == TypeOK <=> WorldType /\ CallerType /\ calls \in 0..MaxCalls
BY DEF TypeOK, WorldType, CallerType, Where, SeenType, AnswerType

LEMMA TypingNext == TypeOK' <=> WorldType' /\ CallerType' /\ calls' \in 0..MaxCalls
BY DEF TypeOK, WorldType, CallerType, Where, SeenType, AnswerType

LEMMA Consts == /\ NoHost \in Desc /\ Fresh \in SeenType /\ NoAnswer \in AnswerType
                /\ NoHost.st = "none" /\ Fresh.host = NoHost /\ NoAnswer.desc = NoHost /\ ~NoAnswer.ok
                /\ MaxGen \in Nat \ {0} /\ MaxCalls \in Nat
<1>1. MaxGen \in Nat \ {0} /\ MaxCalls \in Nat BY RootAssumption
<1>2. NoHost \in Desc /\ NoHost.st = "none" BY <1>1 DEF NoHost, Desc
<1> QED BY <1>1, <1>2 DEF Fresh, NoAnswer, SeenType, AnswerType, Status

LEMMA AllCallers ==
    ASSUME CallerInv, NEW p \in Proc, OthersSame(p), CallerOf(p)', Grows, StaysEnded
    PROVE  CallerInv'
<1>1. \A q \in Proc \ {p} : CallerOf(q)' BY CallerStays DEF CallerInv, OthersSame
<1> QED BY <1>1 DEF CallerInv

LEMMA LeaveKeeps ==
    ASSUME TypeOK, NEW p \in Proc, Leave(p)
    PROVE  CallerType' /\ OthersSame(p) /\ CallerOf(p)'
<1>1. CallerType BY Typing
<1>2. CallerType' BY <1>1, Consts DEF CallerType, Leave, Where
<1>3. OthersSame(p) BY <1>1 DEF CallerType, Leave, OthersSame
<1>4. pc'[p] = "idle" BY <1>1 DEF CallerType, Leave
<1> QED BY <1>2, <1>3, <1>4 DEF CallerOf

LEMMA BeginKeeps ==
    ASSUME TypeOK, NEW p \in Proc, NEW op \in Op, NEW r \in Root, NEW state \in SeenType,
           NEW l \in {"register", "instruct", "get"}, Begin(p, op, r, l, state),
           l # "register" => Started(r), state.host.st = "ended" => Ended(r)
    PROVE  TypeOK' /\ OthersSame(p) /\ CallerOf(p)'
<1>1. CallerType /\ WorldType /\ calls \in 0..MaxCalls /\ MaxCalls \in Nat BY Typing, Consts
<1>2. CallerType' BY <1>1 DEF CallerType, Begin, Goto, Where
<1>3. WorldType' BY <1>1 DEF WorldType, Begin
<1>4. calls' \in 0..MaxCalls BY <1>1 DEF Begin
<1>5. OthersSame(p) BY <1>1 DEF CallerType, Begin, Goto, OthersSame
<1>6. /\ pc'[p] = l /\ job'[p] = [op |-> op, root |-> r] /\ seen'[p] = state
      /\ UNCHANGED <<log, host>>
  BY <1>1 DEF CallerType, Begin, Goto
<1>7. job'[p] \in [op : Op, root : Root] /\ job'[p].root = r BY <1>6
<1>8. Started(r)' = Started(r) /\ Ended(r)' = Ended(r) BY <1>6 DEF Started, Ended, Retained
<1>9. CallerOf(p)'
  <2>1. TheRoot(p)' = r BY <1>7 DEF TheRoot
  <2>2. pc'[p] # "register" => Started(TheRoot(p))'
    BY <1>6, <2>1 DEF Started, Retained
  <2>3. seen'[p].host.st = "ended" => Ended(TheRoot(p))' BY <1>6, <2>1 DEF Ended
  <2> QED BY <1>6, <1>7, <2>2, <2>3 DEF CallerOf
<1> QED BY <1>2, <1>3, <1>4, <1>5, <1>9, TypingNext

(* p goes on without forgetting anything, and learns nothing to trust.     *)
LEMMA ContinueKeeps ==
    ASSUME TypeOK, NEW p \in Proc, CallerOf(p), NEW l \in {"look", "post", "reread"}, Continue(p, l),
           pc[p] # "idle", Started(TheRoot(p))', StaysEnded
    PROVE  CallerType' /\ OthersSame(p) /\ CallerOf(p)'
<1>1. CallerType BY Typing
<1>2. CallerType' BY <1>1 DEF CallerType, Continue, Goto, Where
<1>3. OthersSame(p) BY <1>1 DEF CallerType, Continue, Goto, OthersSame
<1>4. pc'[p] = l /\ UNCHANGED <<job, seen, answer>> BY <1>1 DEF CallerType, Continue, Goto
<1>5. TheRoot(p)' = TheRoot(p) /\ TheRoot(p) \in Root BY <1>4 DEF TheRoot, CallerOf
<1>6. Ended(TheRoot(p)) => Ended(TheRoot(p))' BY <1>5 DEF StaysEnded, Ended
<1> QED BY <1>2, <1>3, <1>4, <1>5, <1>6 DEF CallerOf

(* HostOf is the descriptor of one of the observed rows, if there is any.  *)
LEMMA Latest ==
    ASSUME NEW n \in Nat, NEW S, S \subseteq 1..n, S # {}
    PROVE  Max(S) \in S
<1> DEFINE T == {n - x : x \in S}
<1>2. T \subseteq Nat /\ T # {}
  <2>1. \A x \in S : n - x \in Nat OBVIOUS
  <2> QED BY <2>1
<1> DEFINE R == {ss \in Nat \X Nat : ss[1] < ss[2]}
<1>1. IsWellFoundedOn(R, Nat) BY NatLessThanWellFounded, Zenon DEF OpToRel
<1>3. \A a, b \in Nat : b < a => <<b, a>> \in R OBVIOUS
<1>4. \E m \in T : \A t \in T : ~(<<t, m>> \in R)
  <2> HIDE DEF R, T
  <2> QED BY <1>1, <1>2, WFMin
<1> HIDE DEF R
<1>5. PICK x \in S : \A y \in S : ~(<<n - y, n - x>> \in R) BY <1>4
<1>6. \A y \in S : x >= y
  <2> TAKE y \in S
  <2>1. x \in 1..n /\ y \in 1..n /\ n - x \in Nat /\ n - y \in Nat OBVIOUS
  <2>2. ~(n - y < n - x)
    <3>1. ~(<<n - y, n - x>> \in R) BY <1>5
    <3> HIDE DEF T
    <3> QED BY <1>3, <2>1, <3>1
  <2> QED BY <2>1, <2>2
<1> QED BY <1>6 DEF Max

LEMMA HostRead ==
    ASSUME TypeOK, World, NEW r \in Root
    PROVE  RootState(r) \in SeenType /\ (RootState(r).host.st = "ended" => Ended(r))
<1> DEFINE observed == {i \in DOMAIN log[r] : log[r][i].type = "root.host-observed"}
<1>1. log[r] \in Seq(Row) BY DEF TypeOK
<1>2. StatusOf(r) \in Status BY DEF StatusOf, Status
<1>3. CASE observed = {}
  <2>1. HostOf(r) = NoHost BY <1>3 DEF HostOf
  <2> QED BY <1>2, <2>1, Consts DEF RootState, SeenType
<1>4. CASE observed # {}
  <2>1. Len(log[r]) \in Nat /\ observed \subseteq 1..Len(log[r]) BY <1>1
  <2>2. HostOf(r) = log[r][Max(observed)].desc BY <1>4 DEF HostOf
  <2>3. Max(observed) \in observed
    <3> HIDE DEF observed
    <3> QED BY <1>4, <2>1, Latest
  <2>4. PICK i \in DOMAIN log[r] : log[r][i].type = "root.host-observed" /\ HostOf(r) = log[r][i].desc
    BY <2>2, <2>3
  <2>5. HostOf(r) \in Desc
    <3>1. log[r][i] \in Row BY <1>1, <2>4
    <3> QED BY <2>4, <3>1 DEF Row
  <2>6. HostOf(r).st = "ended" => Ended(r) BY <2>4 DEF World, RowInv, TrueRow
  <2> QED BY <1>2, <2>5, <2>6 DEF RootState, SeenType
<1> QED BY <1>3, <1>4
----------------------------------------------------------------------------
(* The invariant, one kind of step after the other.                        *)
Inv == TypeOK /\ World /\ CallerInv

(* A caller moves and nothing else does.                                   *)
LEMMA CallerOnly ==
    ASSUME Inv, NEW p \in Proc, UNCHANGED <<log, host, flight, calls>>,
           CallerType', OthersSame(p), CallerOf(p)'
    PROVE  Inv'
<1>1. World' /\ StaysEnded /\ Grows BY QuietStep DEF Inv
<1>2. CallerInv' BY <1>1, AllCallers DEF Inv
<1>3. WorldType' /\ calls' \in 0..MaxCalls
  <2>1. WorldType /\ calls \in 0..MaxCalls BY Typing DEF Inv
  <2> QED BY <2>1 DEF WorldType
<1> QED BY <1>1, <1>2, <1>3, TypingNext DEF Inv

(* A caller retains a row and moves.                                       *)
LEMMA CallerRetains ==
    ASSUME Inv, NEW p \in Proc, UNCHANGED <<host, flight, calls>>, CallerType', OthersSame(p), CallerOf(p)',
           NEW r \in Root, NEW key \in RowKey, NEW type \in RowType, NEW desc \in Desc,
           AppendRow(r, key, type, desc), TrueRow(r, [key |-> key, type |-> type, desc |-> desc]),
           type = "root.closed" => Ended(r),
           type = "root.started" => Started(r) \/ Free(r)
    PROVE  Inv'
<1>0. TypeOK /\ World /\ CallerInv BY DEF Inv
<1>1. World' BY <1>0, LogStep
<1>2. Grows BY <1>0, RetainedAfter
<1>3. StaysEnded BY DEF StaysEnded, Ended
<1>4. CallerInv' BY <1>0, <1>2, <1>3, AllCallers
<1>5. WorldType'
  <2>1. log' \in [Root -> Seq(Row)] BY <1>0, Appended
  <2>2. WorldType BY <1>0, Typing
  <2> QED BY <2>1, <2>2 DEF WorldType
<1>6. calls' \in 0..MaxCalls BY <1>0, Typing
<1> QED BY <1>1, <1>4, <1>5, <1>6, TypingNext DEF Inv

LEMMA BeginInv ==
    ASSUME Inv, NEW p \in Proc, NEW r \in Root,
           Start(p, r) \/ Send(p, r) \/ \E op \in Op : Reconcile(p, op, r)
    PROVE  Inv'
<1>0. TypeOK /\ World /\ CallerInv BY DEF Inv
<1>1. UNCHANGED <<log, host, flight>> BY DEF Start, Send, Reconcile, Begin
<1>2. World' /\ StaysEnded /\ Grows BY <1>0, <1>1, QuietStep
<1>3. Fresh \in SeenType /\ Fresh.host.st # "ended" BY Consts
<1>4. TypeOK' /\ OthersSame(p) /\ CallerOf(p)'
  <2>1. CASE Start(p, r)
    <3>1. Begin(p, "start", r, "register", Fresh) BY <2>1 DEF Start
    <3>2. "start" \in Op BY DEF Op
    <3> QED BY <1>0, <1>3, <3>1, <3>2, BeginKeeps
  <2>2. CASE Send(p, r)
    <3>1. Begin(p, "send", r, "instruct", Fresh) /\ Started(r) BY <2>2 DEF Send, Started
    <3>2. "send" \in Op BY DEF Op
    <3> QED BY <1>0, <1>3, <3>1, <3>2, BeginKeeps
  <2>3. CASE \E op \in Op : Reconcile(p, op, r)
    <3>1. PICK op \in Op : Reconcile(p, op, r) BY <2>3
    <3>2. Begin(p, op, r, "get", RootState(r)) /\ Started(r) BY <3>1 DEF Reconcile, Started
    <3>3. RootState(r) \in SeenType /\ (RootState(r).host.st = "ended" => Ended(r)) BY <1>0, HostRead
    <3> QED BY <1>0, <3>2, <3>3, BeginKeeps
  <2> QED BY <2>1, <2>2, <2>3
<1> QED BY <1>0, <1>2, <1>4, AllCallers DEF Inv

LEMMA LeaveInv ==
    ASSUME Inv, NEW p \in Proc, Leave(p), UNCHANGED <<log, host, flight, calls>>
    PROVE  Inv'
BY LeaveKeeps, CallerOnly DEF Inv

(* Where a caller that is not idle is, and of which root.                  *)
LEMMA Busy ==
    ASSUME Inv, NEW p \in Proc, pc[p] # "idle"
    PROVE  /\ TheRoot(p) \in Root /\ CallerOf(p) /\ seen[p] \in SeenType /\ answer[p] \in AnswerType
           /\ pc[p] # "register" => Started(TheRoot(p))
<1>1. CallerOf(p) /\ TypeOK BY DEF Inv, CallerInv
<1>2. CallerType BY <1>1, Typing
<1> QED BY <1>1, <1>2 DEF CallerOf, TheRoot, CallerType

(* A root is registered while its allocation is free.                      *)
LEMMA RegisterInv ==
    ASSUME Inv, NEW p \in Proc, Register(p)
    PROVE  Inv'
<1> DEFINE r == TheRoot(p)
<1>0. pc[p] = "register" /\ r \in Root /\ CallerOf(p) /\ TypeOK /\ World
  BY Busy DEF Register, At, Inv
<1>1. UNCHANGED <<host, flight, calls>> BY DEF Register
<1>2. CASE Leave(p) /\ UNCHANGED log BY <1>1, <1>2, LeaveInv
<1>3. CASE /\ Started(r) \/ Free(r)
           /\ AppendRow(r, "root:start", "root.started", NoHost) /\ Continue(p, "look")
  <2>1. "root:start" \in RowKey /\ "root.started" \in RowType /\ NoHost \in Desc
    BY Consts DEF RowKey, RowType
  <2>2. Grows BY <1>0, <1>3, <2>1, RetainedAfter
  <2>3. Started(r)'
    <3>1. CASE \E i \in DOMAIN log[r] : log[r][i].key = "root:start"
      <4>1. Started(r) BY <1>0, <3>1 DEF World, RowInv, TrueRow, Started, Retained
      <4>2. job'[p] = job[p] BY <1>3 DEF Continue
      <4> QED BY <1>0, <2>1, <2>2, <4>1, <4>2 DEF Grows, Started, Retained, TheRoot
    <3>2. CASE \E i \in DOMAIN log'[r] :
                 log'[r][i] = [key |-> "root:start", type |-> "root.started", desc |-> NoHost]
      <4>1. PICK i \in DOMAIN log'[r] :
               log'[r][i] = [key |-> "root:start", type |-> "root.started", desc |-> NoHost]
        BY <3>2
      <4>2. log'[r][i].type = "root.started" BY <4>1
      <4>3. job'[p] = job[p] BY <1>3 DEF Continue
      <4> QED BY <4>2, <4>3 DEF Started, Retained, TheRoot
    <3> QED BY <1>0, <1>3, <2>1, <3>1, <3>2, Appended
  <2>4. StaysEnded BY <1>1 DEF StaysEnded, Ended
  <2>5. CallerType' /\ OthersSame(p) /\ CallerOf(p)'
    BY <1>0, <1>3, <2>3, <2>4, ContinueKeeps
  <2>6. TrueRow(r, [key |-> "root:start", type |-> "root.started", desc |-> NoHost])
    BY DEF TrueRow
  <2> HIDE DEF r
  <2> QED BY <1>0, <1>1, <1>3, <2>1, <2>5, <2>6, CallerRetains
<1> QED BY <1>2, <1>3 DEF Register, Started

LEMMA LookInv ==
    ASSUME Inv, NEW p \in Proc, Look(p)
    PROVE  Inv'
<1>0. pc[p] = "look" /\ UNCHANGED <<log, host, flight, calls>> BY DEF Look, At
<1>1. CASE Leave(p) BY <1>0, <1>1, LeaveInv
<1>2. CASE Continue(p, "post")
  <2>1. TypeOK /\ CallerOf(p) /\ Started(TheRoot(p)) BY <1>0, Busy DEF Inv
  <2>2. Started(TheRoot(p))' BY <1>0, <1>2, <2>1 DEF Continue, Started, Retained, TheRoot
  <2>3. StaysEnded BY <1>0 DEF StaysEnded, Ended
  <2>4. CallerType' /\ OthersSame(p) /\ CallerOf(p)' BY <1>0, <1>2, <2>1, <2>2, <2>3, ContinueKeeps
  <2> QED BY <1>0, <2>4, CallerOnly
<1> QED BY <1>1, <1>2 DEF Look

(* The host takes up a root that it does not have.                         *)
LEMMA Accepted ==
    ASSUME TypeOK, NEW r \in Root, HostAccepts(r)
    PROVE  /\ host' \in [Root -> Desc] /\ StaysEnded
           /\ \A q \in Root \ {r} : host'[q] = host[q]
<1>1. host \in [Root -> Desc] BY DEF TypeOK
<1>2. {[st |-> "pending", gen |-> 0], [st |-> "live", gen |-> 1]} \subseteq Desc
  BY Consts DEF Desc
<1>3. CASE host[r].st # "none" BY <1>1, <1>3 DEF HostAccepts, StaysEnded, Ended
<1>4. CASE host[r].st = "none"
  <2>1. PICK d \in {[st |-> "pending", gen |-> 0], [st |-> "live", gen |-> 1]} :
           host' = [host EXCEPT ![r] = d]
    BY <1>4 DEF HostAccepts
  <2>2. d \in Desc BY <1>2, <2>1
  <2> QED BY <1>1, <1>4, <2>1, <2>2 DEF StaysEnded, Ended
<1> QED BY <1>3, <1>4

(* A caller, the host or both move; the log stays.                         *)
LEMMA HostKeeps ==
    ASSUME Inv, UNCHANGED <<log, calls>>, host' \in [Root -> Desc], flight' \subseteq Root, StaysEnded,
           CallerType', \A q \in Root : host'[q].st # "none" \/ q \in flight' => Started(q),
           \A q \in Proc : \/ CallerOf(q)'
                           \/ /\ pc'[q] = pc[q] /\ job'[q] = job[q] /\ seen'[q] = seen[q]
                              /\ answer'[q] = answer[q]
    PROVE  Inv'
<1>0. TypeOK /\ World /\ CallerInv BY DEF Inv
<1>1. World' BY <1>0, HostStep
<1>2. Grows BY DEF Grows, Retained
<1>3. CallerInv' BY <1>0, <1>2, CallerStays DEF CallerInv
<1>4. WorldType' BY <1>0, Typing DEF WorldType
<1>5. calls' \in 0..MaxCalls BY <1>0, Typing
<1> QED BY <1>1, <1>3, <1>4, <1>5, TypingNext DEF Inv

LEMMA PostInv ==
    ASSUME Inv, NEW p \in Proc, Post(p)
    PROVE  Inv'
<1> DEFINE r == TheRoot(p)
<1>0. /\ pc[p] = "post" /\ r \in Root /\ CallerOf(p) /\ Started(r) /\ UNCHANGED <<log, job, seen, calls>>
      /\ TypeOK /\ HostInv /\ CallerType /\ WorldType
  <2>1. pc[p] = "post" /\ UNCHANGED <<log, job, seen, calls>> BY DEF Post, At
  <2>2. TypeOK /\ HostInv BY DEF Inv, World
  <2> QED BY <2>1, <2>2, Busy, Typing
<1>1. /\ pc' = [pc EXCEPT ![p] = "retain"]
      /\ \/ /\ HostAccepts(r) /\ UNCHANGED flight
            /\ \E a \in {[ok |-> TRUE, desc |-> host'[r]], NoAnswer} : answer' = [answer EXCEPT ![p] = a]
         \/ /\ answer' = [answer EXCEPT ![p] = NoAnswer]
            /\ flight' \in {flight, flight \cup {r}} /\ UNCHANGED host
  BY DEF Post, Goto
<1> HIDE DEF r
<1>2. /\ host' \in [Root -> Desc] /\ StaysEnded /\ \A q \in Root \ {r} : host'[q] = host[q]
      /\ flight' \subseteq flight \cup {r}
  <2>1. CASE HostAccepts(r) /\ UNCHANGED flight BY <1>0, <2>1, Accepted
  <2>2. CASE UNCHANGED host /\ flight' \in {flight, flight \cup {r}}
    BY <1>0, <2>2 DEF WorldType, StaysEnded, Ended
  <2> QED BY <1>1, <2>1, <2>2
<1>3. \A q \in Root : host'[q].st # "none" \/ q \in flight' => Started(q)
  BY <1>0, <1>2 DEF HostInv
<1>4. PICK a \in {[ok |-> TRUE, desc |-> host'[r]], NoAnswer} : answer' = [answer EXCEPT ![p] = a]
  BY <1>1
<1>5. a \in AnswerType /\ (a.desc.st = "ended" => Ended(r)')
  <2>1. CASE a = NoAnswer BY <2>1, Consts
  <2>2. CASE a = [ok |-> TRUE, desc |-> host'[r]]
    <3>1. a.desc = host'[r] /\ host'[r] \in Desc BY <1>0, <1>2, <2>2
    <3>2. Ended(r)' <=> host'[r].st = "ended" BY <1>0 DEF Ended, r, TheRoot
    <3> QED BY <2>2, <3>1, <3>2 DEF AnswerType
  <2> QED BY <1>4, <2>1, <2>2
<1>6. CallerType' BY <1>0, <1>1, <1>4, <1>5 DEF CallerType, Where
<1>7. OthersSame(p) BY <1>0, <1>1, <1>4 DEF OthersSame, CallerType
<1>8. CallerOf(p)'
  <2>1. pc'[p] = "retain" /\ answer'[p] = a /\ seen'[p] = seen[p] /\ job'[p] = job[p]
    BY <1>0, <1>1, <1>4 DEF CallerType
  <2>2. TheRoot(p) = r /\ TheRoot(p)' = r' BY DEF r
  <2>3. Started(r)' BY <1>0 DEF Started, Retained, r, TheRoot
  <2>4. seen'[p].host.st = "ended" => Ended(r)'
    <3>1. seen[p].host.st = "ended" => Ended(r) BY <1>0, <2>2 DEF CallerOf
    <3>2. Ended(r) => Ended(r)' BY <1>0, <1>2 DEF StaysEnded, Ended, r, TheRoot
    <3> QED BY <2>1, <3>1, <3>2
  <2>5. job'[p] \in [op : Op, root : Root] BY <1>0, <2>1 DEF CallerOf
  <2> QED BY <1>5, <2>1, <2>2, <2>3, <2>4, <2>5 DEF CallerOf, r
<1>9. flight' \subseteq Root BY <1>0, <1>2 DEF WorldType
<1> QED BY <1>0, <1>2, <1>3, <1>6, <1>7, <1>8, <1>9, HostKeeps DEF OthersSame

(* Rows that a caller leaves behind when it is done.                       *)
LEMMA LastRowInv ==
    ASSUME Inv, NEW p \in Proc, RetainHost(p) \/ Settle(p) \/ Instruct(p)
    PROVE  Inv'
<1> DEFINE r == TheRoot(p)
<1>0. pc[p] \in {"retain", "settle", "instruct"} /\ Leave(p) /\ UNCHANGED <<host, flight, calls>>
  BY DEF RetainHost, Settle, Instruct, At
<1>1. r \in Root /\ CallerOf(p) /\ answer[p] \in AnswerType /\ TypeOK BY <1>0, Busy DEF Inv
<1>2. CallerType' /\ OthersSame(p) /\ CallerOf(p)' BY <1>0, <1>1, LeaveKeeps
<1>3. answer[p].desc \in Desc /\ NoHost \in Desc BY <1>1, Consts DEF AnswerType
<1>4. {"root:host", "root:close", "root:close-uncertain", "instruction"} \subseteq RowKey
      /\ {"root.host-observed", "root.host-unavailable", "root.closed", "root.close-uncertain",
          "instruction.retained"} \subseteq RowType
  BY DEF RowKey, RowType
<1>5. CASE UNCHANGED log BY <1>0, <1>5, LeaveInv
<1>6. CASE RetainHost(p)
  <2>1. pc[p] = "retain" BY <1>6 DEF RetainHost, At
  <2>2. answer[p].desc.st = "ended" => Ended(r) BY <1>1, <2>1 DEF CallerOf
  <2>3. PICK type \in {"root.host-observed", "root.host-unavailable"} :
           AppendRow(r, "root:host", type, answer[p].desc)
    BY <1>6 DEF RetainHost
  <2>4. TrueRow(r, [key |-> "root:host", type |-> type, desc |-> answer[p].desc])
    BY <2>2 DEF TrueRow
  <2> HIDE DEF r
  <2> QED BY <1>0, <1>1, <1>2, <1>3, <1>4, <2>3, <2>4, CallerRetains
<1>7. CASE Settle(p) /\ answer[p].ok
  <2>1. Ended(r) BY <1>1, <1>7 DEF Settle, At, CallerOf
  <2>2. AppendRow(r, "root:close", "root.closed", answer[p].desc) BY <1>7 DEF Settle
  <2>3. TrueRow(r, [key |-> "root:close", type |-> "root.closed", desc |-> answer[p].desc])
    BY DEF TrueRow
  <2> HIDE DEF r
  <2> QED BY <1>0, <1>1, <1>2, <1>3, <1>4, <2>1, <2>2, <2>3, CallerRetains
<1>8. CASE Settle(p) /\ ~answer[p].ok
  <2>2. AppendRow(r, "root:close-uncertain", "root.close-uncertain", NoHost) BY <1>8 DEF Settle
  <2>3. TrueRow(r, [key |-> "root:close-uncertain", type |-> "root.close-uncertain", desc |-> NoHost])
    BY DEF TrueRow
  <2> HIDE DEF r
  <2> QED BY <1>0, <1>1, <1>2, <1>3, <1>4, <2>2, <2>3, CallerRetains
<1>9. CASE AppendRow(r, "instruction", "instruction.retained", NoHost)
  <2>3. TrueRow(r, [key |-> "instruction", type |-> "instruction.retained", desc |-> NoHost])
    BY DEF TrueRow
  <2> HIDE DEF r
  <2> QED BY <1>0, <1>1, <1>2, <1>3, <1>4, <1>9, <2>3, CallerRetains
<1> QED BY <1>5, <1>6, <1>7, <1>8, <1>9 DEF Instruct

LEMMA ObserveInv ==
    ASSUME Inv, NEW p \in Proc, Observe(p)
    PROVE  Inv'
<1> DEFINE r == TheRoot(p)
<1>0. /\ pc[p] = "observe" /\ Continue(p, "reread") /\ UNCHANGED <<host, flight, calls>>
      /\ AppendRow(r, "root:host:reconcile", "root.host-observed", answer[p].desc)
  BY DEF Observe, At
<1>1. r \in Root /\ CallerOf(p) /\ answer[p].desc \in Desc /\ TypeOK /\ Started(r)
  BY <1>0, Busy DEF Inv, AnswerType
<1>2. "root:host:reconcile" \in RowKey /\ "root.host-observed" \in RowType /\ "root.started" \in RowType
  BY DEF RowKey, RowType
<1>3. TrueRow(r, [key |-> "root:host:reconcile", type |-> "root.host-observed", desc |-> answer[p].desc])
  BY <1>0, <1>1 DEF TrueRow, CallerOf
<1>4. Grows BY <1>0, <1>1, <1>2, RetainedAfter
<1>5. StaysEnded BY <1>0 DEF StaysEnded, Ended
<1>6. Started(r)' BY <1>0, <1>1, <1>2, <1>4 DEF Grows, Started, Retained, Continue, TheRoot
<1>7. CallerType' /\ OthersSame(p) /\ CallerOf(p)' BY <1>0, <1>1, <1>5, <1>6, ContinueKeeps
<1> HIDE DEF r
<1> QED BY <1>0, <1>1, <1>2, <1>3, <1>7, CallerRetains

(* What reconcile_root returns is of the root as it was when it was read.  *)
LEMMA AfterInv ==
    ASSUME Inv, NEW p \in Proc, NEW state \in SeenType, AfterReconcile(p, state),
           UNCHANGED <<log, host, flight, calls>>, pc[p] \in {"get", "reread"},
           state.host.st = "ended" => Ended(TheRoot(p))
    PROVE  Inv'
<1>1. CASE Leave(p) BY <1>1, LeaveInv
<1>2. CASE /\ seen' = [seen EXCEPT ![p] = state] /\ answer' = [answer EXCEPT ![p] = NoAnswer]
           /\ Goto(p, "end") /\ UNCHANGED job
  <2>1. CallerType /\ CallerOf(p) /\ TypeOK /\ Started(TheRoot(p)) BY Busy, Typing DEF Inv
  <2>2. CallerType' BY <1>2, <2>1, Consts DEF CallerType, Goto, Where
  <2>3. OthersSame(p) BY <1>2, <2>1 DEF CallerType, Goto, OthersSame
  <2>4. pc'[p] = "end" /\ seen'[p] = state /\ job' = job BY <1>2, <2>1 DEF CallerType, Goto
  <2>5. CallerOf(p)'
    BY <2>1, <2>4 DEF CallerOf, Started, Retained, Ended, TheRoot
  <2> QED BY <2>2, <2>3, <2>5, CallerOnly
<1> QED BY <1>1, <1>2 DEF AfterReconcile

LEMMA RereadInv ==
    ASSUME Inv, NEW p \in Proc, Reread(p)
    PROVE  Inv'
<1> DEFINE r == TheRoot(p)
<1>0. pc[p] = "reread" /\ AfterReconcile(p, RootState(r)) /\ UNCHANGED <<log, host, flight, calls>>
  BY DEF Reread, At
<1>1. r \in Root /\ TypeOK /\ World BY <1>0, Busy DEF Inv
<1>2. RootState(r) \in SeenType /\ (RootState(r).host.st = "ended" => Ended(r)) BY <1>1, HostRead
<1> QED BY <1>0, <1>2, AfterInv

LEMMA GetInv ==
    ASSUME Inv, NEW p \in Proc, Get(p)
    PROVE  Inv'
<1> DEFINE r == TheRoot(p)
<1>0. pc[p] = "get" /\ UNCHANGED <<log, host, flight, calls>> BY DEF Get, At
<1>1. /\ CallerType /\ CallerOf(p) /\ TypeOK /\ r \in Root /\ seen[p] \in SeenType
      /\ host[r] \in Desc /\ seen[p].host \in Desc /\ Started(r)
  <2>1. TypeOK BY DEF Inv
  <2>2. CallerType /\ WorldType BY <2>1, Typing
  <2>3. CallerOf(p) /\ r \in Root /\ seen[p] \in SeenType /\ Started(r) BY <1>0, Busy
  <2> QED BY <2>1, <2>2, <2>3 DEF WorldType, SeenType
<1>2. CASE AfterReconcile(p, seen[p])
  BY <1>0, <1>1, <1>2, AfterInv DEF CallerOf
<1>3. CASE /\ answer' = [answer EXCEPT ![p] =
                   [ok |-> TRUE,
                    desc |-> IF host[r].st = "ended" /\ seen[p].host # NoHost
                             THEN [host[r] EXCEPT !.gen = seen[p].host.gen] ELSE host[r]]]
           /\ Goto(p, "observe") /\ UNCHANGED <<job, seen>>
  <2> DEFINE d == IF host[r].st = "ended" /\ seen[p].host # NoHost
                  THEN [host[r] EXCEPT !.gen = seen[p].host.gen] ELSE host[r]
  <2>1. d \in Desc /\ d.st = host[r].st BY <1>1 DEF Desc
  <2>2. answer' = [answer EXCEPT ![p] = [ok |-> TRUE, desc |-> d]] BY <1>3
  <2> HIDE DEF d
  <2>3. CallerType' BY <1>1, <1>3, <2>1, <2>2 DEF CallerType, Goto, Where, AnswerType
  <2>4. OthersSame(p) BY <1>1, <1>3 DEF CallerType, Goto, OthersSame
  <2>5. pc'[p] = "observe" /\ answer'[p].desc = d /\ UNCHANGED <<job, seen>>
    BY <1>1, <1>3, <2>2 DEF CallerType, Goto
  <2>6. CallerOf(p)'
    BY <1>0, <1>1, <2>1, <2>5 DEF CallerOf, Started, Retained, Ended, TheRoot
  <2> QED BY <1>0, <2>3, <2>4, <2>6, CallerOnly
<1> QED BY <1>2, <1>3 DEF Get

(* The host confirms an end only of a root that it has ended.              *)
LEMMA EndInv ==
    ASSUME Inv, NEW p \in Proc, End(p)
    PROVE  Inv'
<1> DEFINE r == TheRoot(p)
           h == seen[p].host
<1>0. pc[p] = "end" /\ Goto(p, "settle") /\ UNCHANGED <<log, flight, job, seen, calls>> BY DEF End, At
<1>1. /\ CallerType /\ CallerOf(p) /\ TypeOK /\ r \in Root /\ HostInv
      /\ host \in [Root -> Desc] /\ flight \subseteq Root /\ h \in Desc /\ Started(r)
  <2>1. TypeOK /\ HostInv BY DEF Inv, World
  <2>2. CallerType /\ WorldType BY <2>1, Typing
  <2>3. CallerOf(p) /\ r \in Root /\ seen[p] \in SeenType /\ Started(r) BY <1>0, Busy
  <2> QED BY <2>1, <2>2, <2>3 DEF WorldType, SeenType
<1>2. PICK e \in BOOLEAN :
         /\ answer' = [answer EXCEPT ![p] = [ok |-> e, desc |-> h]]
         /\ \/ host' = host /\ (e => h.st = "ended" \/ host[r].st = "ended")
            \/ host[r].st = "live" /\ host' = [host EXCEPT ![r].st = "ended"]
  <2> DEFINE Said(e) == answer' = [answer EXCEPT ![p] = [ok |-> e, desc |-> h]]
  <2>1. \/ h.st = "ended" /\ Said(TRUE) /\ host' = host
        \/ Said(FALSE) /\ host' = host
        \/ /\ host[r] = [st |-> "live", gen |-> h.gen] /\ host' = [host EXCEPT ![r].st = "ended"]
           /\ \E e \in BOOLEAN : Said(e)
        \/ host[r].st = "ended" /\ Said(TRUE) /\ host' = host
    BY DEF End, HostEnd
  <2> HIDE DEF Said, h, r
  <2>2. \E e \in BOOLEAN : /\ Said(e)
                           /\ \/ host' = host /\ (e => h.st = "ended" \/ host[r].st = "ended")
                              \/ host[r].st = "live" /\ host' = [host EXCEPT ![r].st = "ended"]
    <3>1. TRUE \in BOOLEAN /\ FALSE \in BOOLEAN OBVIOUS
    <3>2. host[r] = [st |-> "live", gen |-> h.gen] => host[r].st = "live" OBVIOUS
    <3> QED BY <2>1, <3>1, <3>2
  <2> QED BY <2>2 DEF Said
<1>3. h.st = "ended" => Ended(r) BY <1>0, <1>1 DEF CallerOf
<1>4. /\ host' \in [Root -> Desc] /\ StaysEnded
      /\ \A q \in Root : host'[q].st # "none" => host[q].st # "none"
      /\ e => host'[r].st = "ended"
  <2>1. CASE host' = host /\ (e => h.st = "ended" \/ host[r].st = "ended")
    BY <1>1, <1>3, <2>1 DEF StaysEnded, Ended
  <2>2. CASE host[r].st = "live" /\ host' = [host EXCEPT ![r].st = "ended"]
    <3>1. [host[r] EXCEPT !.st = "ended"] \in Desc /\ [host[r] EXCEPT !.st = "ended"].st = "ended"
      BY <1>1 DEF Desc
    <3>2. host' = [host EXCEPT ![r] = [host[r] EXCEPT !.st = "ended"]] BY <2>2
    <3> QED BY <1>1, <2>2, <3>1, <3>2 DEF StaysEnded, Ended
  <2> QED BY <1>2, <2>1, <2>2
<1>5. CallerType' BY <1>0, <1>1, <1>2 DEF CallerType, Goto, Where, AnswerType
<1>6. OthersSame(p) BY <1>0, <1>1, <1>2 DEF CallerType, Goto, OthersSame
<1>7. pc'[p] = "settle" /\ answer'[p].ok = e BY <1>0, <1>1, <1>2 DEF CallerType, Goto
<1>8. CallerOf(p)'
  <2>1. TheRoot(p)' = TheRoot(p) BY <1>0 DEF TheRoot
  <2>2. Started(TheRoot(p))' BY <1>0, <1>1, <2>1 DEF Started, Retained
  <2>3. Ended(TheRoot(p))' <=> host'[r].st = "ended" BY <2>1 DEF Ended
  <2>4. Ended(r) => host'[r].st = "ended" BY <1>1, <1>4 DEF StaysEnded, Ended
  <2> QED BY <1>0, <1>1, <1>3, <1>4, <1>7, <2>2, <2>3, <2>4 DEF CallerOf
<1>9. \A q \in Root : host'[q].st # "none" \/ q \in flight' => Started(q)
  BY <1>0, <1>1, <1>4 DEF HostInv
<1>10. flight' \subseteq Root BY <1>0, <1>1
<1> HIDE DEF r, h
<1> QED BY <1>0, <1>4, <1>5, <1>6, <1>8, <1>9, <1>10, HostKeeps DEF OthersSame

LEMMA HostOwnInv ==
    ASSUME Inv, NEW r \in Root, HostDelivers(r) \/ HostMoves(r)
    PROVE  Inv'
<1>0. /\ TypeOK /\ HostInv /\ CallerType /\ host \in [Root -> Desc] /\ flight \subseteq Root
      /\ UNCHANGED <<log, calls, pc, job, seen, answer>>
  <2>1. TypeOK /\ HostInv BY DEF Inv, World
  <2> QED BY <2>1, Typing DEF WorldType, HostDelivers, HostMoves, caller
<1>1. CallerType' BY <1>0 DEF CallerType
<1>2. CASE HostDelivers(r)
  <2>1. /\ host' \in [Root -> Desc] /\ StaysEnded /\ \A q \in Root \ {r} : host'[q] = host[q]
    BY <1>0, <1>2, Accepted DEF HostDelivers
  <2>2. r \in flight /\ flight' \subseteq flight BY <1>2 DEF HostDelivers
  <2>3. \A q \in Root : host'[q].st # "none" \/ q \in flight' => Started(q)
    BY <1>0, <2>1, <2>2 DEF HostInv
  <2>4. flight' \subseteq Root BY <1>0, <2>2
  <2> QED BY <1>0, <1>1, <2>1, <2>3, <2>4, HostKeeps
<1>3. CASE HostMoves(r)
  <2>1. flight' = flight BY <1>3 DEF HostMoves
  <2>2. PICK d \in Desc : host' = [host EXCEPT ![r] = d] /\ host[r].st \in {"pending", "live"}
    <3>1. host[r] \in Desc /\ MaxGen \in Nat \ {0} BY <1>0, Consts
    <3>2. CASE host[r].st = "pending"
      <4>1. [st |-> "live", gen |-> 1] \in Desc /\ [st |-> "ended", gen |-> 0] \in Desc
        BY <3>1 DEF Desc
      <4> QED BY <1>3, <3>2, <4>1 DEF HostMoves
    <3>3. CASE host[r].st = "live"
      <4>1. [host[r] EXCEPT !.st = "ended"] \in Desc BY <3>1 DEF Desc
      <4>2. host[r].gen < MaxGen => [host[r] EXCEPT !.gen = host[r].gen + 1] \in Desc BY <3>1 DEF Desc
      <4> QED BY <1>3, <3>3, <4>1, <4>2 DEF HostMoves
    <3>4. CASE host[r].st \notin {"pending", "live"} BY <1>3, <3>4 DEF HostMoves
    <3> QED BY <3>2, <3>3, <3>4
  <2>3. host' \in [Root -> Desc] /\ StaysEnded /\ \A q \in Root \ {r} : host'[q] = host[q]
    BY <1>0, <2>2 DEF StaysEnded, Ended
  <2>4. \A q \in Root : host'[q].st # "none" \/ q \in flight' => Started(q)
    BY <1>0, <2>1, <2>2, <2>3 DEF HostInv
  <2> QED BY <1>0, <1>1, <2>1, <2>3, <2>4, HostKeeps
<1> QED BY <1>2, <1>3
----------------------------------------------------------------------------
LEMMA InitInv ==
    ASSUME Init
    PROVE  Inv
<1>0. MaxCalls \in Nat BY Consts
<1>1. TypeOK
  <2>1. log \in [Root -> Seq(Row)] BY DEF Init
  <2>2. CallerType BY Consts DEF Init, CallerType, Where
  <2> QED BY <1>0, <2>1, <2>2, Consts, Typing DEF Init, WorldType
<1>2. World
  <2>1. \A r \in Root : log[r] = <<>> /\ DOMAIN log[r] = {} /\ host[r] = NoHost /\ flight = {} BY DEF Init
  <2> QED BY <2>1, Consts DEF World, RowInv, HostInv, AllocInv, ClosedMeansEnded, Started, Retained
<1>3. CallerInv BY DEF Init, CallerInv, CallerOf
<1> QED BY <1>1, <1>2, <1>3 DEF Inv

LEMMA StepInv ==
    ASSUME Inv, Next
    PROVE  Inv'
<1>1. ASSUME NEW p \in Proc, NEW r \in Root, Start(p, r) \/ Send(p, r) \/ \E op \in Op : Reconcile(p, op, r)
      PROVE  Inv'
  BY <1>1, BeginInv
<1>2. ASSUME NEW p \in Proc, Stop(p) PROVE Inv' BY <1>2, LeaveInv DEF Stop
<1> QED BY <1>1, <1>2, RegisterInv, LookInv, PostInv, LastRowInv, GetInv, ObserveInv, RereadInv, EndInv,
       HostOwnInv DEF Next

LEMMA StutterInv ==
    ASSUME Inv, UNCHANGED vars
    PROVE  Inv'
<1>1. TypeOK' BY DEF Inv, TypeOK, vars, caller
<1>2. World' /\ Grows /\ StaysEnded BY QuietStep DEF Inv, vars
<1>3. CallerInv' BY <1>2, CallerStays DEF Inv, CallerInv, vars, caller
<1> QED BY <1>1, <1>2, <1>3 DEF Inv

(* Who believes that a root has ended is right, what the host runs is      *)
(* retained, and an allocation has one root that is not closed.            *)
THEOREM Inductive == Spec => []IInv
<1>1. Init => Inv BY InitInv
<1>2. Inv /\ [Next]_vars => Inv' BY StepInv, StutterInv
<1>3. Inv => IInv BY DEF Inv, World, IInv
<1> QED BY <1>1, <1>2, <1>3, PTL DEF Spec

(* Type correctness of the log, the host's view and the callers            *)
(* (fleet_sessions.py).                                                    *)
THEOREM TypeCorrect == Spec => []TypeOK
<1>1. IInv => TypeOK BY DEF IInv
<1> QED BY <1>1, Inductive, PTL

(* A root that is retained as closed has ended on the host, whatever       *)
(* answers were lost and whichever generation was asked for (close_root).  *)
THEOREM ClosedMeansEndedProved == Spec => []ClosedMeansEnded
<1>1. IInv => ClosedMeansEnded BY DEF IInv
<1> QED BY <1>1, Inductive, PTL

(* Two roots of one allocation never run at once, however starts, late     *)
(* deliveries, closes and stopped callers interleave (start_root).         *)
THEOREM OneAliveProved == Spec => []OneAlivePerAllocation
<1>1. IInv => OneAlivePerAllocation
  <2> SUFFICES ASSUME IInv, NEW r \in Root, NEW q \in Root, r # q, Alloc[r] = Alloc[q], Alive(r), Alive(q)
               PROVE  FALSE
    BY DEF OneAlivePerAllocation
  <2>1. Started(r) /\ Started(q) BY DEF Alive, IInv, HostInv
  <2>2. Closed(r) \/ Closed(q) BY <2>1 DEF IInv, AllocInv
  <2>3. host[r].st = "ended" \/ host[q].st = "ended" BY <2>2 DEF IInv, ClosedMeansEnded, Closed
  <2> QED BY <2>3 DEF Alive
<1> QED BY <1>1, Inductive, PTL

(* What a step may retain.                                                 *)
Retains(r, type) ==
    /\ Grows /\ OnlyAdds(r, type)
    /\ type = "instruction.retained" => StatusOf(r) = "registered"
    /\ type = "root.started" => Started(r) \/ LeadOpen(r)

LEMMA StepRetains ==
    ASSUME IInv, Next
    PROVE  UNCHANGED log \/ \E r \in Root, type \in RowType : Retains(r, type)
<1>0. TypeOK /\ Inv BY DEF IInv, Inv, World
<1>a. /\ {"root:start", "root:host", "root:host:reconcile", "root:close", "root:close-uncertain",
          "instruction"} \subseteq RowKey
      /\ {"root.started", "root.host-observed", "root.host-unavailable", "root.closed",
          "root.close-uncertain", "instruction.retained"} \subseteq RowType
      /\ NoHost \in Desc
  BY Consts DEF RowKey, RowType
<1>1. ASSUME NEW p \in Proc, Register(p) PROVE UNCHANGED log \/ \E r \in Root, type \in RowType : Retains(r, type)
  <2>1. TheRoot(p) \in Root BY <1>0, <1>1, Busy DEF Register, At
  <2>2. CASE UNCHANGED log BY <2>2
  <2>3. CASE /\ Started(TheRoot(p)) \/ LeadOpen(TheRoot(p))
             /\ AppendRow(TheRoot(p), "root:start", "root.started", NoHost)
    <3>1. Retains(TheRoot(p), "root.started") BY <1>0, <1>a, <2>1, <2>3, RetainedAfter DEF Retains
    <3> QED BY <1>a, <2>1, <3>1
  <2> QED BY <1>1, <2>2, <2>3 DEF Register, Started
<1>2. ASSUME NEW p \in Proc, RetainHost(p) PROVE \E r \in Root, type \in RowType : Retains(r, type)
  <2>1. TheRoot(p) \in Root /\ answer[p].desc \in Desc BY <1>0, <1>2, Busy DEF RetainHost, At, AnswerType
  <2>2. PICK type \in {"root.host-observed", "root.host-unavailable"} :
           AppendRow(TheRoot(p), "root:host", type, answer[p].desc)
    BY <1>2 DEF RetainHost
  <2>3. Retains(TheRoot(p), type) BY <1>0, <1>a, <2>1, <2>2, RetainedAfter DEF Retains
  <2> QED BY <1>a, <2>1, <2>2, <2>3
<1>3. ASSUME NEW p \in Proc, Observe(p) PROVE \E r \in Root, type \in RowType : Retains(r, type)
  <2>1. TheRoot(p) \in Root /\ answer[p].desc \in Desc BY <1>0, <1>3, Busy DEF Observe, At, AnswerType
  <2>2. AppendRow(TheRoot(p), "root:host:reconcile", "root.host-observed", answer[p].desc)
    BY <1>3 DEF Observe
  <2>3. Retains(TheRoot(p), "root.host-observed") BY <1>0, <1>a, <2>1, <2>2, RetainedAfter DEF Retains
  <2> QED BY <1>a, <2>1, <2>3
<1>4. ASSUME NEW p \in Proc, Settle(p) PROVE \E r \in Root, type \in RowType : Retains(r, type)
  <2>1. TheRoot(p) \in Root /\ answer[p].desc \in Desc BY <1>0, <1>4, Busy DEF Settle, At, AnswerType
  <2>2. CASE AppendRow(TheRoot(p), "root:close", "root.closed", answer[p].desc)
    <3>1. Retains(TheRoot(p), "root.closed") BY <1>0, <1>a, <2>1, <2>2, RetainedAfter DEF Retains
    <3> QED BY <1>a, <2>1, <3>1
  <2>3. CASE AppendRow(TheRoot(p), "root:close-uncertain", "root.close-uncertain", NoHost)
    <3>1. Retains(TheRoot(p), "root.close-uncertain") BY <1>0, <1>a, <2>1, <2>3, RetainedAfter DEF Retains
    <3> QED BY <1>a, <2>1, <3>1
  <2> QED BY <1>4, <2>2, <2>3 DEF Settle
<1>5. ASSUME NEW p \in Proc, Instruct(p) PROVE UNCHANGED log \/ \E r \in Root, type \in RowType : Retains(r, type)
  <2>1. TheRoot(p) \in Root BY <1>0, <1>5, Busy DEF Instruct, At
  <2>2. CASE UNCHANGED log BY <2>2
  <2>3. CASE /\ StatusOf(TheRoot(p)) = "registered"
             /\ AppendRow(TheRoot(p), "instruction", "instruction.retained", NoHost)
    <3>1. Retains(TheRoot(p), "instruction.retained") BY <1>0, <1>a, <2>1, <2>3, RetainedAfter DEF Retains
    <3> QED BY <1>a, <2>1, <3>1
  <2> QED BY <1>5, <2>2, <2>3 DEF Instruct
<1>6. ASSUME NEW p \in Proc,
             \/ \E r \in Root : Start(p, r) \/ Send(p, r) \/ \E op \in Op : Reconcile(p, op, r)
             \/ Look(p) \/ Post(p) \/ Get(p) \/ Reread(p) \/ End(p) \/ Stop(p)
      PROVE  UNCHANGED log
  BY <1>6 DEF Start, Send, Reconcile, Begin, Look, Post, Get, Reread, End, Stop
<1>7. ASSUME NEW r \in Root, HostDelivers(r) \/ HostMoves(r) PROVE UNCHANGED log
  BY <1>7 DEF HostDelivers, HostMoves
<1> QED BY <1>1, <1>2, <1>3, <1>4, <1>5, <1>6, <1>7 DEF Next

(* No instruction behind a close, and no support root under a closed lead, *)
(* although both were read as open before (append_fleet_event).            *)
THEOREM NothingEntersProved == Spec => NothingEntersClosed
<1> DEFINE A == /\ \A r \in Root :
                     Retained(r, "root.closed") \/ Retained(r, "root.close-uncertain")
                       => Retained(r, "instruction.retained")' = Retained(r, "instruction.retained")
                /\ \A s \in DOMAIN LeadOf :
                     Retained(s, "root.started")' /\ ~Retained(s, "root.started")
                       => ~Retained(LeadOf[s], "root.closed")
<1>1. IInv /\ [Next]_vars => [A]_vars
  <2> SUFFICES ASSUME IInv, Next PROVE A
    OBVIOUS
  <2>1. CASE UNCHANGED log BY <2>1 DEF Retained
  <2>2. ASSUME NEW r \in Root, NEW type \in RowType, Retains(r, type) PROVE A
    <3>1. ASSUME NEW q \in Root, Retained(q, "root.closed") \/ Retained(q, "root.close-uncertain")
          PROVE  Retained(q, "instruction.retained")' = Retained(q, "instruction.retained")
      <4>1. StatusOf(q) # "registered" BY <3>1 DEF StatusOf
      <4>2. "instruction.retained" \in RowType BY DEF RowType
      <4>3. Retained(q, "instruction.retained")' <=> Retained(q, "instruction.retained")
        BY <2>2, <4>1, <4>2 DEF Retains, Grows, OnlyAdds
      <4> QED BY <4>3 DEF Retained
    <3>2. ASSUME NEW s \in DOMAIN LeadOf, Retained(s, "root.started")', ~Retained(s, "root.started")
          PROVE  ~Retained(LeadOf[s], "root.closed")
      <4>1. s \in Root /\ "root.started" \in RowType BY RootAssumption DEF RowType
      <4>2. s = r /\ type = "root.started" BY <2>2, <3>2, <4>1 DEF Retains, OnlyAdds
      <4>3. LeadOpen(s) BY <2>2, <3>2, <4>2 DEF Retains, Started
      <4> QED BY <4>3 DEF LeadOpen
    <3> QED BY <3>1, <3>2
  <2> QED BY <2>1, <2>2, StepRetains
<1> QED BY <1>1, Inductive, PTL DEF Spec, NothingEntersClosed

(* Closed is final, and an uncertain root never reads as open again        *)
(* (root_state).                                                           *)
THEOREM StatusProved == Spec => StatusOnlyAdvances
<1> DEFINE A == \A r \in Root : /\ StatusOf(r) = "closed" => StatusOf(r)' = "closed"
                                /\ StatusOf(r) = "close-uncertain" => StatusOf(r)' # "registered"
<1>1. IInv /\ [Next]_vars => [A]_vars
  <2> SUFFICES ASSUME IInv, Next PROVE A
    OBVIOUS
  <2>1. CASE UNCHANGED log BY <2>1 DEF StatusOf, Retained
  <2>2. CASE Grows
    <3>1. \A r \in Root : /\ Retained(r, "root.closed") => Retained(r, "root.closed")'
                          /\ Retained(r, "root.close-uncertain") => Retained(r, "root.close-uncertain")'
      BY <2>2 DEF Grows, RowType
    <3> QED BY <3>1 DEF StatusOf
  <2> QED BY <2>1, <2>2, StepRetains DEF Retains
<1> QED BY <1>1, Inductive, PTL DEF Spec, StatusOnlyAdvances

-----------------------------------------------------------------------------
(* The event stream of one root.                                           *)

Waiting == step \notin {"idle", "stale", "gone"}

(* The numbers n + 1 to n + k.                                             *)
After(n, k) == [i \in 1..k |-> n + i]

(* What the wait has read is what follows the cursor it was given, up to   *)
(* its own; what the reader has been given before is all up to there.      *)
ReaderInv ==
    /\ cursor <= Len(history) /\ mine <= Len(history) /\ wakes <= Len(history)
    /\ step \in {"subscribe", "listen", "poll"} => page = <<>>
    /\ ~dropped => /\ NothingSkipped
                   /\ Waiting => mine <= cursor /\ page = After(mine, cursor - mine)

(* The newest event is retained.                                           *)
NewestKept == Len(history) = 0 \/ \E e \in rows : e.seq = Len(history)

StoreInv == IsFiniteSet(rows) /\ SequenceNamesOneEvent /\ NewestKept

StreamInv == StreamTypeOK /\ StoreInv /\ ReaderInv

LEMMA MaxIs ==
    ASSUME NEW S \in SUBSET Int, NEW m \in S, \A n \in S : n <= m
    PROVE  Max(S) = m
<1>1. m \in S /\ \A n \in S : m >= n
  OBVIOUS
<1>2. Max(S) \in S /\ \A n \in S : Max(S) >= n
  BY <1>1, Zenon DEF Max
<1>3. Max(S) \in Int /\ m \in Int /\ Max(S) >= m /\ m >= Max(S)
  BY <1>1, <1>2
<1> QED BY <1>3

LEMMA Concat ==
    ASSUME NEW S, NEW s \in Seq(S), NEW t \in Seq(S)
    PROVE  /\ s \o t \in Seq(S) /\ Len(s \o t) = Len(s) + Len(t)
           /\ Len(s) \in Nat /\ Len(t) \in Nat
           /\ \A i \in 1..Len(s) : (s \o t)[i] = s[i]
           /\ \A i \in (Len(s) + 1)..(Len(s) + Len(t)) : (s \o t)[i] = t[i - Len(s)]
OBVIOUS

LEMMA MinOfTwo ==
    ASSUME NEW a \in Nat, NEW b \in Nat
    PROVE  Min({a, b}) = IF a <= b THEN a ELSE b
BY DEF Min

LEMMA Joined ==
    ASSUME NEW n \in Nat, NEW a \in Nat, NEW b \in Nat
    PROVE  After(n, a) \o After(n + a, b) = After(n, a + b)
<1> DEFINE x == After(n, a)
           y == After(n + a, b)
           z == After(n, a + b)
<1>1. /\ x \in Seq(Int) /\ y \in Seq(Int) /\ z \in Seq(Int)
      /\ Len(x) = a /\ Len(y) = b /\ Len(z) = a + b
      /\ \A i \in 1..a : x[i] = n + i
      /\ \A i \in 1..b : y[i] = n + a + i
      /\ \A i \in 1..(a + b) : z[i] = n + i
  BY DEF After
<1> HIDE DEF x, y, z
<1>2. /\ x \o y \in Seq(Int) /\ Len(x \o y) = a + b
      /\ \A i \in 1..a : (x \o y)[i] = x[i]
      /\ \A i \in (a + 1)..(a + b) : (x \o y)[i] = y[i - a]
  <2>1. x \in Seq(Int) /\ y \in Seq(Int) /\ Len(x) = a /\ Len(y) = b
    BY <1>1
  <2>2. /\ x \o y \in Seq(Int) /\ Len(x \o y) = Len(x) + Len(y)
        /\ \A i \in 1..Len(x) : (x \o y)[i] = x[i]
        /\ \A i \in (Len(x) + 1)..(Len(x) + Len(y)) : (x \o y)[i] = y[i - Len(x)]
    BY <2>1, Concat, Zenon
  <2> QED BY <2>1, <2>2, Zenon
<1>3. ASSUME NEW i \in 1..(a + b)
      PROVE  (x \o y)[i] = z[i]
  <2>1. CASE i \in 1..a
    BY <1>1, <1>2, <2>1
  <2>2. CASE i \in (a + 1)..(a + b)
    <3>1. i - a \in 1..b
      BY <2>2
    <3>2. y[i - a] = n + a + (i - a)
      BY <1>1, <3>1
    <3>3. y[i - a] = n + i
      BY <3>2
    <3>4. (x \o y)[i] = y[i - a]
      BY <1>2, <2>2
    <3> QED BY <1>1, <3>3, <3>4
  <2>3. i \in 1..a \/ i \in (a + 1)..(a + b)
    OBVIOUS
  <2> QED BY <2>1, <2>2, <2>3
<1> DEFINE w == x \o y
<1>4. w \in Seq(Int) /\ Len(w) = Len(z) /\ \A i \in 1..Len(w) : w[i] = z[i]
  BY <1>1, <1>2, <1>3
<1> HIDE DEF w
<1>5. w = z
  BY <1>1, <1>4, SeqEqual
<1> QED BY <1>5 DEF w, x, y, z

(* How far a page gets: to retained rows only.                             *)
LEMMA PageFacts ==
    ASSUME StreamInv
    PROVE  /\ Fetched \in Nat
           /\ Fetched = 0 => Beyond = {}
           /\ ~Gap => /\ cursor + Fetched <= Len(history) /\ cursor + Fetched \in 0..MaxEvents
                      /\ Records \in Seq(1..MaxEvents)
                      /\ Records = page \o After(cursor, Fetched)
                      /\ Records = <<>> => page = <<>> /\ Fetched = 0
<1>1. /\ IsFiniteSet(rows) /\ cursor \in Nat /\ page \in Seq(1..MaxEvents)
      /\ Len(history) \in Nat /\ Len(history) <= MaxEvents /\ MaxEvents \in Nat /\ rows \in SUBSET Entry
      /\ PageSize \in Nat \ {0} /\ cursor <= Len(history)
      /\ \A e \in rows : e.seq <= Len(history)
  BY StreamAssumption DEF StreamInv, StoreInv, StreamTypeOK, ReaderInv, SequenceNamesOneEvent
<1>2. IsFiniteSet(Beyond)
  BY <1>1, FS_Subset DEF Beyond
<1>3. Cardinality(Beyond) \in Nat /\ (Cardinality(Beyond) = 0 <=> Beyond = {})
  BY <1>2, FS_CardinalityType, FS_EmptySet
<1>4. Fetched \in Nat /\ (Fetched = 0 => Beyond = {})
  BY <1>1, <1>3, MinOfTwo DEF Fetched
<1>5. ASSUME ~Gap, NEW i \in 1..Fetched
      PROVE  cursor + i <= Len(history) /\ cursor + i \in 1..MaxEvents
  <2>1. PICK e \in Beyond : e.seq = cursor + i
    BY <1>5 DEF Gap
  <2> QED BY <1>1, <1>4, <2>1 DEF Beyond
<1>6. ~Gap => cursor + Fetched <= Len(history)
  <2>1. CASE Fetched = 0
    BY <1>1, <2>1
  <2>2. CASE Fetched # 0
    <3>1. Fetched \in 1..Fetched
      BY <1>4, <2>2
    <3> QED BY <1>5, <3>1
  <2> QED BY <2>1, <2>2
<1>7. Records = page \o After(cursor, Fetched)
  BY DEF Records, After
<1>8. ASSUME ~Gap
      PROVE  After(cursor, Fetched) \in Seq(1..MaxEvents) /\ Len(After(cursor, Fetched)) = Fetched
  BY <1>4, <1>5, <1>8 DEF After
<1>9. ASSUME ~Gap, Records = <<>>
      PROVE  page = <<>> /\ Fetched = 0
  <2>1. Len(Records) = Len(page) + Fetched /\ Len(page) \in Nat
    BY <1>1, <1>7, <1>8, <1>9, Concat
  <2> QED BY <1>1, <1>4, <1>9, <2>1
<1>10. ~Gap => Records \in Seq(1..MaxEvents)
  BY <1>1, <1>7, <1>8
<1>11. ~Gap => cursor + Fetched \in 0..MaxEvents
  BY <1>1, <1>4, <1>6
<1> QED BY <1>4, <1>6, <1>7, <1>9, <1>10, <1>11

LEMMA AfterFacts ==
    ASSUME NEW n \in Nat, NEW k \in Nat
    PROVE  /\ After(n, k) \in Seq(Nat) /\ Len(After(n, k)) = k
           /\ After(n, k) = <<>> <=> k = 0
           /\ n + k <= MaxEvents => After(n, k) \in Seq(1..MaxEvents)
           /\ After(0, n) = [i \in 1..n |-> i]
<1> USE StreamAssumption
<1>1. After(n, k) \in Seq(Nat) /\ Len(After(n, k)) = k
  BY DEF After
<1>2. After(n, k) = <<>> <=> k = 0
  BY <1>1
<1>3. n + k <= MaxEvents => After(n, k) \in Seq(1..MaxEvents)
  BY DEF After
<1>4. After(0, n) = [i \in 1..n |-> i]
  BY DEF After
<1> QED BY <1>1, <1>2, <1>3, <1>4

LEMMA StoreStays ==
    ASSUME StoreInv, UNCHANGED <<rows, history>>
    PROVE  StoreInv'
BY DEF StoreInv, SequenceNamesOneEvent, NewestKept, Newest

LEMMA StreamInitInv ==
    ASSUME StreamInit
    PROVE  StreamInv
<1> USE StreamAssumption DEF StreamInit
<1>1. StreamTypeOK
  <2>1. <<>> \in Seq(Key) /\ <<>> \in Seq(1..MaxEvents) /\ Len(<<>>) = 0 /\ 0 \in 0..MaxEvents
    OBVIOUS
  <2>2. history \in Seq(Key) /\ Len(history) <= MaxEvents /\ page \in Seq(1..MaxEvents) /\ got \in Seq(1..MaxEvents)
    BY <2>1
  <2> QED BY <2>1, <2>2 DEF StreamTypeOK
<1>2. IsFiniteSet(rows)
  BY FS_EmptySet
<1>3. Newest = 0
  <2>1. {e.seq : e \in rows} \union {0} = {0}
    OBVIOUS
  <2>2. Max({0}) = 0
    BY MaxIs
  <2> QED BY <2>1, <2>2 DEF Newest
<1>4. SequenceNamesOneEvent
  BY <1>3 DEF SequenceNamesOneEvent
<1>6. NewestKept
  BY DEF NewestKept
<1>5. ReaderInv
  BY DEF ReaderInv, NothingSkipped, Waiting
<1> QED BY <1>1, <1>2, <1>4, <1>5, <1>6 DEF StreamInv, StoreInv

LEMMA AppendEventInv ==
    ASSUME StreamInv, NEW k \in Key, AppendEvent(k)
    PROVE  StreamInv'
<1> DEFINE n == Len(history) + 1
           new == [seq |-> n, key |-> k]
<1> USE StreamAssumption
<1>1. /\ rows \in SUBSET Entry /\ history \in Seq(Key) /\ Len(history) \in Nat /\ MaxEvents \in Nat
      /\ Len(history) < MaxEvents /\ n \in 1..MaxEvents
      /\ \A e \in rows : e.seq <= Len(history) /\ history[e.seq] = e.key
      /\ Newest = Len(history) /\ IsFiniteSet(rows)
  BY DEF StreamInv, StoreInv, NewestKept, StreamTypeOK, SequenceNamesOneEvent, AppendEvent
<1>2. rows' = rows \union {new} /\ history' = Append(history, k)
  BY <1>1 DEF AppendEvent, NextSequence
<1>3. /\ history' \in Seq(Key) /\ Len(history') = n /\ history'[n] = k
      /\ \A i \in 1..Len(history) : history'[i] = history[i]
  BY <1>1, <1>2
<1>4. new \in Entry
  BY <1>1 DEF Entry
<1>5. StreamTypeOK'
  <2>1. wakes' \in 0..MaxEvents
    BY <1>1 DEF StreamInv, StreamTypeOK, ReaderInv, AppendEvent
  <2>2. rows' \in SUBSET Entry
    BY <1>1, <1>2, <1>4
  <2> QED BY <1>1, <1>3, <2>1, <2>2 DEF StreamInv, StreamTypeOK, AppendEvent, waiter
<1>6. IsFiniteSet(rows')
  <2> HIDE DEF new
  <2>1. IsFiniteSet(rows \union {new})
    BY <1>1, FS_AddElement
  <2> QED BY <1>2, <2>1
<1>7. \A e \in rows' : e.seq <= Len(history') /\ history'[e.seq] = e.key /\ e.seq \in 1..n
  <2>1. ASSUME NEW e \in rows
        PROVE  e.seq <= Len(history') /\ history'[e.seq] = e.key /\ e.seq \in 1..n
    <3>1. e.seq \in 1..Len(history)
      BY <1>1 DEF Entry
    <3> QED BY <1>1, <1>3, <3>1
  <2>2. new.seq <= Len(history') /\ history'[new.seq] = new.key /\ new.seq \in 1..n
    BY <1>1, <1>3
  <2> QED BY <1>2, <2>1, <2>2
<1>8. Newest' = n
  <2> DEFINE S == {e.seq : e \in rows'} \union {0}
  <2>1. S \in SUBSET Int /\ \A i \in S : i <= n
    BY <1>1, <1>7
  <2>2. new \in rows' /\ new.seq = n
    BY <1>2
  <2>3. n \in S
    BY <2>2
  <2> HIDE DEF S
  <2>4. Max(S) = n
    BY <2>1, <2>3, MaxIs
  <2> QED BY <2>4 DEF S, Newest
<1>9. SequenceNamesOneEvent'
  BY <1>3, <1>7, <1>8 DEF SequenceNamesOneEvent
<1>10. ReaderInv'
  BY <1>1, <1>3 DEF StreamInv, StreamTypeOK, ReaderInv, AppendEvent, waiter, NothingSkipped, Waiting
<1>11. NewestKept'
  <2>1. new \in rows' /\ new.seq = Len(history')
    BY <1>2, <1>3
  <2> QED BY <2>1 DEF NewestKept
<1> QED BY <1>5, <1>6, <1>9, <1>10, <1>11 DEF StreamInv, StoreInv

LEMMA RemoveOldInv ==
    ASSUME StreamInv, RemoveOld
    PROVE  StreamInv'
<1> USE StreamAssumption
<1>1. /\ rows \in SUBSET Entry /\ history \in Seq(Key) /\ Len(history) \in Nat /\ MaxEvents \in Nat
      /\ \A e \in rows : e.seq <= Len(history) /\ history[e.seq] = e.key
      /\ Newest = Len(history) /\ IsFiniteSet(rows)
      /\ Len(history) = 0 \/ \E e \in rows : e.seq = Len(history)
  BY DEF StreamInv, StoreInv, NewestKept, StreamTypeOK, SequenceNamesOneEvent
<1>2. /\ rows' \subseteq rows /\ history' = history /\ rows' # rows
      /\ \A e \in rows : e.seq = Newest => e \in rows'
  BY DEF RemoveOld
<1>3. IsFiniteSet(rows')
  BY <1>1, <1>2, FS_Subset
<1>4. NewestKept'
  BY <1>1, <1>2 DEF NewestKept
<1>7. Newest' = Len(history)
  <2> DEFINE T == {e.seq : e \in rows'} \union {0}
  <2>1. T \in SUBSET Int /\ \A i \in T : i <= Len(history)
    BY <1>1, <1>2 DEF Entry
  <2>2. Len(history) \in T
    BY <1>2, <1>4 DEF NewestKept
  <2> HIDE DEF T
  <2>3. Max(T) = Len(history)
    BY <2>1, <2>2, MaxIs
  <2> QED BY <2>3 DEF T, Newest
<1>5. SequenceNamesOneEvent'
  BY <1>1, <1>2, <1>7 DEF SequenceNamesOneEvent
<1>6. StreamTypeOK' /\ ReaderInv'
  <2>1. UNCHANGED <<history, wakes, step, phase, cursor, page, late, woken, mine, got, dropped>>
    BY DEF RemoveOld, waiter
  <2> QED BY <1>1, <1>2, <2>1 DEF StreamInv, StreamTypeOK, ReaderInv, NothingSkipped, Waiting
<1> QED BY <1>3, <1>4, <1>5, <1>6 DEF StreamInv, StoreInv

(* What the reader will have been given when this page is returned.        *)
LEMMA ReadsOn ==
    ASSUME StreamInv, ~Gap, step = "drain", ~dropped
    PROVE  /\ mine <= cursor + Fetched
           /\ Records = After(mine, (cursor + Fetched) - mine)
           /\ got \o Records = [i \in 1..(cursor + Fetched) |-> i]
<1>1. /\ cursor \in Nat /\ mine \in Nat /\ mine <= cursor /\ Fetched \in Nat
      /\ page = After(mine, cursor - mine) /\ got = [i \in 1..mine |-> i]
      /\ Records = page \o After(cursor, Fetched)
  BY PageFacts DEF StreamInv, StreamTypeOK, ReaderInv, Waiting, NothingSkipped
<1> HIDE DEF Fetched, Records
<1>2. cursor - mine \in Nat /\ mine + (cursor - mine) = cursor
      /\ (cursor - mine) + Fetched = (cursor + Fetched) - mine
      /\ (cursor + Fetched) - mine \in Nat /\ mine + ((cursor + Fetched) - mine) = cursor + Fetched
      /\ 0 + mine = mine /\ cursor + Fetched \in Nat
  BY <1>1
<1>3. After(mine, cursor - mine) \o After(mine + (cursor - mine), Fetched)
         = After(mine, (cursor - mine) + Fetched)
  BY <1>1, <1>2, Joined
<1>4. Records = After(mine, (cursor + Fetched) - mine)
  BY <1>1, <1>2, <1>3
<1>5. ASSUME NEW d \in Nat, mine + d = cursor + Fetched
      PROVE  After(0, mine) \o After(mine, d) = After(0, cursor + Fetched)
  <2>1. After(0, mine) \o After(0 + mine, d) = After(0, mine + d)
    BY <1>1, Joined
  <2> QED BY <1>2, <1>5, <2>1
<1>6. got = After(0, mine)
  BY <1>1, AfterFacts
<1>7. After(0, cursor + Fetched) = [i \in 1..(cursor + Fetched) |-> i]
  BY <1>2, AfterFacts
<1>8. got \o Records = [i \in 1..(cursor + Fetched) |-> i]
  <2>1. got \o Records = After(0, cursor + Fetched)
    BY <1>2, <1>4, <1>5, <1>6
  <2> QED BY <1>7, <2>1
<1>9. mine <= cursor + Fetched
  BY <1>1
<1> QED BY <1>4, <1>8, <1>9

LEMMA ReadFullPageInv ==
    ASSUME StreamInv, ReadFullPage
    PROVE  StreamInv'
<1>1. /\ step = "drain" /\ ~Gap /\ cursor' = cursor + Fetched /\ page' = Records
      /\ UNCHANGED <<rows, history, wakes, step, phase, late, woken, mine, got, dropped>>
  BY DEF ReadFullPage
<1>2. /\ cursor' <= Len(history) /\ cursor' \in 0..MaxEvents /\ page' \in Seq(1..MaxEvents)
  BY <1>1, PageFacts
<1>3. StoreInv'
  BY <1>1, StoreStays DEF StreamInv
<1>4. StreamTypeOK'
  BY <1>1, <1>2 DEF StreamInv, StreamTypeOK
<1>5. ~dropped => mine <= cursor' /\ page' = After(mine, cursor' - mine)
  BY <1>1, ReadsOn
<1>6. ReaderInv'
  BY <1>1, <1>2, <1>5 DEF StreamInv, ReaderInv, NothingSkipped, Waiting
<1> QED BY <1>3, <1>4, <1>6 DEF StreamInv

LEMMA ReadLastPageInv ==
    ASSUME StreamInv, ReadLastPage
    PROVE  StreamInv'
<1>1. /\ step = "drain" /\ ~Gap /\ cursor' = cursor + Fetched
      /\ UNCHANGED <<rows, history, wakes, late, woken, dropped>>
  BY DEF ReadLastPage
<1>2. /\ cursor' <= Len(history) /\ cursor' \in 0..MaxEvents /\ Records \in Seq(1..MaxEvents)
      /\ Records = <<>> => page = <<>> /\ Fetched = 0
  BY <1>1, PageFacts
<1>3. StoreInv'
  BY <1>1, StoreStays DEF StreamInv
<1>4. ~dropped => /\ mine <= cursor' /\ Records = After(mine, cursor' - mine)
                  /\ got \o Records = [i \in 1..cursor' |-> i]
  BY <1>1, ReadsOn
<1>5. /\ got \o Records \in Seq(1..MaxEvents) /\ <<>> \in Seq(1..MaxEvents)
  BY <1>2 DEF StreamInv, StreamTypeOK
<1>6. CASE Return(Records) /\ mine' = cursor'
  <2>1. StreamTypeOK'
    BY <1>1, <1>2, <1>5, <1>6 DEF StreamInv, StreamTypeOK, Return
  <2>2. ReaderInv'
    BY <1>1, <1>2, <1>4, <1>6 DEF StreamInv, ReaderInv, NothingSkipped, Waiting, Return
  <2> QED BY <1>3, <2>1, <2>2 DEF StreamInv
<1>7. CASE step' = "close" /\ page' = Records /\ UNCHANGED <<phase, mine, got>>
  <2>1. StreamTypeOK'
    BY <1>1, <1>2, <1>7 DEF StreamInv, StreamTypeOK
  <2>2. ReaderInv'
    BY <1>1, <1>2, <1>4, <1>7 DEF StreamInv, ReaderInv, NothingSkipped, Waiting
  <2> QED BY <1>3, <2>1, <2>2 DEF StreamInv
<1>8. CASE /\ Records = <<>> /\ step' \in {"subscribe", "listen", "poll", "drain"}
           /\ phase' \in {phase, "deadline"} /\ UNCHANGED <<page, mine, got>>
  <2>1. StreamTypeOK'
    BY <1>1, <1>2, <1>8 DEF StreamInv, StreamTypeOK
  <2>2. ReaderInv'
    BY <1>1, <1>2, <1>4, <1>8 DEF StreamInv, ReaderInv, NothingSkipped, Waiting
  <2> QED BY <1>3, <2>1, <2>2 DEF StreamInv
<1>9. \/ Return(Records) /\ mine' = cursor'
      \/ step' = "close" /\ page' = Records /\ UNCHANGED <<phase, mine, got>>
      \/ /\ Records = <<>> /\ step' \in {"subscribe", "listen", "poll", "drain"}
         /\ phase' \in {phase, "deadline"} /\ UNCHANGED <<page, mine, got>>
  BY DEF ReadLastPage
<1> QED BY <1>6, <1>7, <1>8, <1>9

LEMMA CloseInv ==
    ASSUME StreamInv, Close
    PROVE  StreamInv'
<1>1. /\ step = "close" /\ step' = "idle" /\ got' = got \o page /\ page' = <<>> /\ mine' = cursor
      /\ UNCHANGED <<rows, history, wakes, phase, cursor, late, woken, dropped>>
  BY DEF Close, Return
<1>2. StoreInv'
  BY <1>1, StoreStays DEF StreamInv
<1>3. StreamTypeOK'
  <2>1. got' \in Seq(1..MaxEvents) /\ page' \in Seq(1..MaxEvents)
    BY <1>1 DEF StreamInv, StreamTypeOK
  <2> QED BY <1>1, <2>1 DEF StreamInv, StreamTypeOK
<1>4. ASSUME ~dropped
      PROVE  got' = [i \in 1..cursor |-> i]
  <2>1. /\ cursor \in Nat /\ mine \in Nat /\ mine <= cursor
        /\ page = After(mine, cursor - mine) /\ got = [i \in 1..mine |-> i]
    BY <1>1, <1>4 DEF StreamInv, StreamTypeOK, ReaderInv, Waiting, NothingSkipped
  <2>2. cursor - mine \in Nat /\ 0 + mine = mine /\ mine + (cursor - mine) = cursor
    BY <2>1
  <2>3. After(0, mine) \o After(0 + mine, cursor - mine) = After(0, mine + (cursor - mine))
    BY <2>1, <2>2, Joined
  <2>4. After(0, mine) = got /\ After(0, cursor) = [i \in 1..cursor |-> i]
    BY <2>1, AfterFacts
  <2> QED BY <1>1, <2>1, <2>2, <2>3, <2>4
<1>5. ReaderInv'
  BY <1>1, <1>4 DEF StreamInv, ReaderInv, NothingSkipped, Waiting
<1> QED BY <1>2, <1>3, <1>5 DEF StreamInv

(* The steps that give the reader nothing.                                 *)
LEMMA QuietReader ==
    ASSUME StreamInv, PublishWake \/ DeadlinePasses \/ ReadGap \/ Subscribe \/ Listen \/ RedisFails
    PROVE  StreamInv'
<1>1. /\ UNCHANGED <<rows, history, cursor, page, mine, got, dropped>>
      /\ step' \in {"idle", "drain", "subscribe", "listen", "close", "poll", "stale", "gone"}
      /\ phase' \in {"first", "listening", "deadline", "timeout", "polling"}
      /\ step' \in {"subscribe", "listen", "poll"} => step \in {"subscribe", "listen", "poll"}
      /\ Waiting' => Waiting
  <2>0. StreamTypeOK
    BY DEF StreamInv
  <2>1. CASE PublishWake
    BY <2>0, <2>1 DEF PublishWake, StreamTypeOK, Waiting
  <2>2. CASE DeadlinePasses
    BY <2>0, <2>2 DEF DeadlinePasses, StreamTypeOK, Waiting
  <2>3. CASE ReadGap
    BY <2>0, <2>3 DEF ReadGap, StreamTypeOK, Waiting
  <2>4. CASE Subscribe
    BY <2>0, <2>4 DEF Subscribe, StreamTypeOK, Waiting
  <2>5. CASE Listen
    BY <2>0, <2>5 DEF Listen, StreamTypeOK, Waiting
  <2>6. CASE RedisFails
    BY <2>0, <2>6 DEF RedisFails, StreamTypeOK, Waiting
  <2> QED BY <2>1, <2>2, <2>3, <2>4, <2>5, <2>6
<1>5. wakes' = wakes \/ (wakes' = wakes - 1 /\ wakes > 0)
  BY DEF PublishWake, DeadlinePasses, ReadGap, Subscribe, Listen, RedisFails
<1>6. wakes' \in 0..MaxEvents /\ wakes' <= Len(history)
  <2>1. wakes \in 0..MaxEvents /\ wakes <= Len(history) /\ Len(history) \in Nat /\ MaxEvents \in Nat
    BY StreamAssumption DEF StreamInv, StreamTypeOK, ReaderInv
  <2> QED BY <1>5, <2>1
<1>7. late' \in BOOLEAN /\ woken' \in BOOLEAN
  <2>1. late \in BOOLEAN /\ woken \in BOOLEAN
    BY DEF StreamInv, StreamTypeOK
  <2>2. woken' \in {woken, woken \/ Subscribed, FALSE}
    BY Zenon DEF PublishWake, DeadlinePasses, ReadGap, Subscribe, Listen, RedisFails
  <2>3. late' \in {late, TRUE}
    BY Zenon DEF PublishWake, DeadlinePasses, ReadGap, Subscribe, Listen, RedisFails
  <2>4. (woken \/ Subscribed) \in BOOLEAN /\ FALSE \in BOOLEAN /\ TRUE \in BOOLEAN
    BY Zenon
  <2> QED BY <2>1, <2>2, <2>3, <2>4, Zenon
<1>2. StoreInv'
  BY <1>1, StoreStays DEF StreamInv
<1>3. StreamTypeOK'
  BY <1>1, <1>6, <1>7 DEF StreamInv, StreamTypeOK
<1>4. ReaderInv'
  <2> HIDE DEF Waiting
  <2> QED BY <1>1, <1>6 DEF StreamInv, ReaderInv, NothingSkipped
<1> QED BY <1>2, <1>3, <1>4 DEF StreamInv

(* The steps that start a wait or end it with nothing.                     *)
LEMMA EmptyPage ==
    ASSUME StreamInv, ~dropped, Waiting, page = <<>>
    PROVE  cursor = mine
<1>1. /\ mine \in Nat /\ cursor \in Nat /\ mine <= cursor /\ After(mine, cursor - mine) = <<>>
  BY DEF StreamInv, StreamTypeOK, ReaderInv
<1>2. cursor - mine \in Nat
  BY <1>1
<1>3. cursor - mine = 0
  BY <1>1, <1>2, AfterFacts
<1> QED BY <1>1, <1>3

LEMMA TurnInv ==
    ASSUME StreamInv, Wait \/ Poll \/ Cancel \/ Disconnect
    PROVE  StreamInv'
<1>1. /\ UNCHANGED <<rows, history, wakes, got>>
      /\ cursor' \in {cursor, mine} /\ mine' \in {cursor, mine}
      /\ page' = <<>> /\ late' \in BOOLEAN /\ woken' \in BOOLEAN /\ dropped' \in BOOLEAN
      /\ step' \in {"idle", "drain", "gone"}
      /\ phase' \in {"first", "listening", "deadline", "timeout", "polling"}
      /\ ~dropped' => ~dropped /\ mine' = mine /\ (Waiting' => cursor' = mine)
  <2>0. StreamTypeOK /\ got \in Seq(1..MaxEvents) /\ page \in Seq(1..MaxEvents)
    BY DEF StreamInv, StreamTypeOK
  <2>1. CASE Wait
    BY <2>0, <2>1 DEF Wait, StreamTypeOK, Waiting
  <2>2. CASE Poll
    <3>1. page = <<>> /\ Waiting /\ (~dropped => cursor = mine)
      BY <2>2, EmptyPage DEF Poll, StreamInv, ReaderInv, Waiting
    <3>2. got \o <<>> = got
      BY <2>0
    <3> QED BY <2>0, <2>2, <3>1, <3>2 DEF Poll, Return, StreamTypeOK, Waiting
  <2>3. CASE Cancel
    <3>1. Waiting /\ (~dropped /\ page = <<>> => cursor = mine)
      BY <2>3, EmptyPage DEF Cancel, Waiting
    <3>2. dropped' = (dropped \/ page # <<>>)
      BY <2>3 DEF Cancel
    <3>3. ~dropped' => ~dropped /\ page = <<>>
      BY <3>2
    <3>4. dropped' \in BOOLEAN
      BY <3>2
    <3> QED BY <2>0, <2>3, <3>1, <3>3, <3>4 DEF Cancel, StreamTypeOK
  <2>4. CASE Disconnect
    BY <2>0, <2>4 DEF Disconnect, StreamTypeOK, Waiting
  <2> QED BY <2>1, <2>2, <2>3, <2>4
<1>2. StoreInv'
  BY <1>1, StoreStays DEF StreamInv
<1>3. StreamTypeOK'
  <2>1. page' \in Seq(1..MaxEvents)
    BY <1>1
  <2> QED BY <1>1, <2>1 DEF StreamInv, StreamTypeOK
<1>4. ReaderInv'
  <2>1. mine \in Nat /\ mine <= mine /\ mine - mine = 0
    BY DEF StreamInv, StreamTypeOK
  <2>2. After(mine, 0) = <<>>
    BY <2>1, AfterFacts
  <2>3. cursor' <= Len(history) /\ mine' <= Len(history) /\ wakes' <= Len(history)
    BY <1>1 DEF StreamInv, ReaderInv
  <2>4. ~dropped' => NothingSkipped' /\ (Waiting' => mine' <= cursor' /\ page' = After(mine', cursor' - mine'))
    <3> HIDE DEF Waiting
    <3> QED BY <1>1, <2>1, <2>2 DEF StreamInv, ReaderInv, NothingSkipped
  <2> HIDE DEF Waiting
  <2> QED BY <1>1, <2>3, <2>4 DEF ReaderInv
<1> QED BY <1>2, <1>3, <1>4 DEF StreamInv

LEMMA StreamStepInv ==
    ASSUME StreamInv, StreamNext
    PROVE  StreamInv'
BY AppendEventInv, RemoveOldInv, ReadFullPageInv, ReadLastPageInv, CloseInv, QuietReader, TurnInv
   DEF StreamNext, ReaderStep

LEMMA StreamStutter ==
    ASSUME StreamInv, UNCHANGED streamVars
    PROVE  StreamInv'
<1>1. UNCHANGED <<rows, history, wakes, step, phase, cursor, page, late, woken, mine, got, dropped>>
  BY DEF streamVars, waiter
<1>2. StoreInv'
  BY <1>1, StoreStays DEF StreamInv
<1>3. StreamTypeOK' /\ ReaderInv'
  BY <1>1 DEF StreamInv, StreamTypeOK, ReaderInv, NothingSkipped, Waiting
<1> QED BY <1>2, <1>3 DEF StreamInv

(* What the wait has read and what the reader was given are, as long as no *)
(* deadline threw records away, the events from the first to the wait's    *)
(* cursor, and the rows are events of the root under their own numbers     *)
(* (fleet_events.py, fleet_sessions.py).                                   *)
THEOREM StreamKept == StreamSpec => []StreamInv
<1>1. StreamInit => StreamInv
  BY StreamInitInv
<1>2. StreamInv /\ [StreamNext]_streamVars => StreamInv'
  BY StreamStepInv, StreamStutter
<1> QED BY <1>1, <1>2, PTL DEF StreamSpec

(* Type correctness of a root's rows and of the wait on them               *)
(* (wait_root_events).                                                     *)
THEOREM StreamTypes == StreamSpec => []StreamTypeOK
<1>1. StreamInv => StreamTypeOK
  BY DEF StreamInv
<1> QED BY <1>1, StreamKept, PTL

(* A sequence number names one event for ever, although the next number is *)
(* taken from the rows that retention left (append_event).                 *)
THEOREM SequenceNamesOneEventHolds == StreamSpec => []SequenceNamesOneEvent
<1>1. StreamInv => SequenceNamesOneEvent
  BY DEF StreamInv, StoreInv
<1> QED BY <1>1, StreamKept, PTL

(* A reader is given every event once and in order up to its cursor,       *)
(* unless a deadline threw away records that were read                     *)
(* (wait_root_events).                                                     *)
THEOREM SkippedOnlyByDeadlineHolds == StreamSpec => []SkippedOnlyByDeadline
<1>1. StreamInv => SkippedOnlyByDeadline
  BY DEF StreamInv, ReaderInv, SkippedOnlyByDeadline
<1> QED BY <1>1, StreamKept, PTL

(* A wait that Redis did not fail ends with nothing only when its last     *)
(* read found nothing beyond its cursor (wait_root_events).                *)
THEOREM EmptyMeansQuietHolds == StreamSpec => EmptyMeansQuiet
<1> DEFINE A == (step \in {"drain", "listen", "subscribe"} /\ step' \in {"idle", "close"}
                   /\ got' = got /\ page' = <<>>) => Beyond = {}
<1>1. StreamInv /\ [StreamNext]_streamVars => [A]_streamVars
  <2> SUFFICES ASSUME StreamInv, StreamNext, step \in {"drain", "listen", "subscribe"},
                      step' \in {"idle", "close"}, got' = got, page' = <<>>
               PROVE  Beyond = {}
    OBVIOUS
  <2>1. CASE ReadLastPage
    <3>1. /\ ~Gap /\ (got' = got \o Records \/ page' = Records)
      BY <2>1 DEF ReadLastPage, Return
    <3>2. /\ Records \in Seq(1..MaxEvents) /\ got \in Seq(1..MaxEvents)
          /\ Records = <<>> => Fetched = 0
          /\ Fetched = 0 => Beyond = {}
      BY <3>1, PageFacts DEF StreamInv, StreamTypeOK
    <3>3. got \o Records = got => Records = <<>>
      BY <3>2, ConcatEqualIffEmpty
    <3> QED BY <3>1, <3>2, <3>3
  <2>2. CASE ~ReadLastPage
    BY <2>2 DEF StreamNext, ReaderStep, AppendEvent, PublishWake, RemoveOld, Wait, DeadlinePasses, ReadGap,
                ReadFullPage, Close, Subscribe, Listen, RedisFails, Poll, Cancel, Disconnect, waiter
  <2> QED BY <2>1, <2>2
<1>2. StreamSpec => [][A]_streamVars
  BY <1>1, StreamKept, PTL DEF StreamSpec
<1> QED BY <1>2 DEF EmptyMeansQuiet
=============================================================================
