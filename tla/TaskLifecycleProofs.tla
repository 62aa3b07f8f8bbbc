------------------------ MODULE TaskLifecycleProofs ------------------------
(***************************************************************************)
(* Safety of one task's claims, acceptance and closeout for any number of  *)
(* st processes, workers and sources.  The inductive invariant has a part  *)
(* about the row alone, a part that ties the row to the claims and         *)
(* requests counted so far, and a part about what a process that resumes a *)
(* request has read.                                                       *)
(***************************************************************************)
EXTENDS TaskLifecycle, TLAPS

Session == [pc : {"idle"} \cup Claiming \cup Finishing \cup Resuming,
            seen : [status : Status, acceptance : Acceptance, closeout : Closeout],
            claim : [claimed_by : Worker \cup {NoWorker}, claimed_at : Nat, acceptance : Acceptance],
            had : BOOLEAN,
            source : Source \cup {NoSource}]

(* A row every transaction leaves behind: it has a claim's number and lock *)
(* exactly when it has an owner, and only a local closeout has an id.      *)
RowOK(t) ==
    /\ t \in Row
    /\ (t.claimed_by = NoWorker) = (t.claimed_at = 0)
    /\ (t.claimed_by = NoWorker) = (t.lock = "none")
    /\ t.closeout.kind # "local" => t.closeout.request_id = 0

(* A pending row that is still accepted gave its claim up: its request, if *)
(* it has one, was made under the claim that the acceptance belongs to.    *)
GivenUp ==
    task.status = "pending" /\ task.acceptance.state = "success" =>
        task.claimed_at = 0 /\ (task.closeout.kind = "local" => evidence = asked)

(* The row's claim and request are among the ones counted so far, a dead   *)
(* request is an old one, and the work that runs owns its request.         *)
RowInv ==
    /\ RowOK(task)
    /\ claims \in 0..MaxClaims /\ requests \in 0..MaxRequests
    /\ evidence \in 0..MaxClaims /\ asked \in 0..MaxClaims
    /\ task.claimed_at <= claims
    /\ dead \subseteq 1..requests
    /\ task.closeout.kind = "local" => task.closeout.request_id \in 1..requests
    /\ AcceptanceOfThisClaim
    /\ SupersededStaysDead
    /\ task.status = "running" /\ task.closeout.kind = "local" => asked = task.claimed_at
    /\ GivenUp

(* A process that resumes a request has read a local one; the process that *)
(* asks for a request has room for it.                                     *)
HasRead(s, n) ==
    s.pc \in Resuming \ {"resume"} =>
        s.seen.closeout.kind = "local" /\ s.seen.closeout.request_id \in 1..n

ProcInv ==
    /\ closer \in Proc \cup {NoProc}
    /\ cli \in [Proc -> Session]
    /\ \A p \in Proc : (closer = p) = (cli[p].pc \in Locked)
    /\ \A p \in Proc : HasRead(cli[p], requests)
    /\ \A p \in Proc : cli[p].pc = "asking" => requests < MaxRequests

IInv ==
    /\ RowInv /\ ProcInv
    /\ checkpoint \in BOOLEAN /\ stops \in 0..MaxStops
----------------------------------------------------------------------------
(* What each row transaction leaves behind.                                *)
LEMMA RowFields ==
    ASSUME NEW t \in Row
    PROVE  /\ t.status \in Status /\ t.claimed_by \in Worker \cup {NoWorker} /\ t.claimed_at \in Nat
           /\ t.lock \in {"none", "live", "expired"} /\ t.commits \subseteq Landed
           /\ t.acceptance \in Acceptance /\ t.closeout \in Closeout
           /\ t.acceptance.state \in {"none", "success", "stale"}
           /\ t.acceptance.source \in Source \cup {NoSource}
           /\ t.closeout.kind \in {"none", "local", "history"} /\ t.closeout.request_id \in Nat
           /\ t.closeout.state \in {"none", "pending", "blocked", "complete", "historical"}
           /\ t.closeout.source \in Source \cup {NoSource}
BY DEF Row, Acceptance, Closeout

(* A lifecycle change never keeps an acceptance successful, keeps a local  *)
(* closeout as it was or makes it history, and leaves the claim alone.     *)
LEMMA PreservedRow ==
    ASSUME NEW t \in Row, NEW keep \in BOOLEAN,
           t.closeout.kind # "local" => t.closeout.request_id = 0
    PROVE  /\ Preserved(t, keep) \in Row
           /\ Preserved(t, keep).status = t.status /\ Preserved(t, keep).lock = t.lock
           /\ Preserved(t, keep).claimed_by = t.claimed_by
           /\ Preserved(t, keep).claimed_at = t.claimed_at
           /\ Preserved(t, keep).acceptance.state # "success"
           /\ Preserved(t, keep).closeout \in {t.closeout, History}
           /\ ~keep => Preserved(t, keep).closeout.kind # "local"
           /\ Preserved(t, keep).closeout.kind # "local" => Preserved(t, keep).closeout.request_id = 0
<1> DEFINE a == IF t.acceptance = NoAcceptance THEN t.acceptance
                ELSE [t.acceptance EXCEPT !.state = "stale"]
           c == IF t.closeout.kind = "local" /\ ~(keep /\ Active(t.closeout)) THEN History ELSE t.closeout
<1>1. Preserved(t, keep) = [t EXCEPT !.acceptance = a, !.closeout = c]
  BY DEF Preserved
<1>2. a \in Acceptance /\ a.state # "success"
  <2>1. CASE t.acceptance = NoAcceptance
    BY <2>1, RowFields DEF NoAcceptance
  <2>2. CASE t.acceptance # NoAcceptance
    BY <2>2, RowFields DEF Acceptance
  <2> QED BY <2>1, <2>2
<1>3. History \in Closeout /\ History.kind = "history" /\ History.request_id = 0
  BY DEF History, NoCloseout, Closeout
<1>4. c \in Closeout /\ c \in {t.closeout, History} /\ (~keep => c.kind # "local")
      /\ (c.kind # "local" => c.request_id = 0)
  BY <1>3, RowFields
<1> HIDE DEF a, c
<1> QED BY <1>1, <1>2, <1>4 DEF Row

LEMMA RenewedRow ==
    ASSUME NEW t, RowOK(t), t.status = "running", t.claimed_by # NoWorker
    PROVE  /\ RowOK(Renewed(t)) /\ Renewed(t).status = t.status
           /\ Renewed(t).claimed_at = t.claimed_at /\ Renewed(t).claimed_by = t.claimed_by
           /\ Renewed(t).acceptance = t.acceptance /\ Renewed(t).closeout = t.closeout
           /\ Renewed(t).commits = t.commits
<1>1. t \in Row BY DEF RowOK
<1>2. /\ Renewed(t) \in Row /\ Renewed(t).lock = "live"
      /\ Renewed(t).status = t.status
      /\ Renewed(t).claimed_at = t.claimed_at /\ Renewed(t).claimed_by = t.claimed_by
      /\ Renewed(t).acceptance = t.acceptance /\ Renewed(t).closeout = t.closeout
      /\ Renewed(t).commits = t.commits
  BY <1>1 DEF Renewed, Row
<1> QED BY <1>2 DEF RowOK

LEMMA ClaimedRow ==
    ASSUME NEW t, RowOK(t), NEW w \in Worker, NEW n \in Nat \ {0}
    PROVE  /\ RowOK(Claimed(t, w, n)) /\ Claimed(t, w, n).status = "running"
           /\ Claimed(t, w, n).claimed_at = n /\ Claimed(t, w, n).claimed_by = w
           /\ Claimed(t, w, n).acceptance.state # "success"
           /\ Claimed(t, w, n).closeout.kind # "local"
<1> DEFINE k == Preserved(t, FALSE)
<1>1. t \in Row /\ (t.closeout.kind # "local" => t.closeout.request_id = 0) BY DEF RowOK
<1>2. /\ k \in Row /\ k.acceptance.state # "success" /\ k.closeout.kind # "local"
      /\ k.closeout.request_id = 0
  BY <1>1, PreservedRow
<1>3. Claimed(t, w, n) = [k EXCEPT !.status = "running", !.claimed_by = w, !.claimed_at = n, !.lock = "live"]
  BY DEF Claimed
<1> HIDE DEF k
<1>4. /\ Claimed(t, w, n) \in Row /\ Claimed(t, w, n).status = "running"
      /\ Claimed(t, w, n).claimed_at = n /\ Claimed(t, w, n).claimed_by = w
      /\ Claimed(t, w, n).lock = "live"
      /\ Claimed(t, w, n).acceptance = k.acceptance /\ Claimed(t, w, n).closeout = k.closeout
  BY <1>2, <1>3 DEF Row, Status
<1> QED BY <1>2, <1>4, RowAssumption DEF RowOK

(* Clearing the claim and moving to another status.                        *)
Dropped(u, t, s) ==
    /\ u \in Row /\ u.status = s /\ u.claimed_by = NoWorker /\ u.claimed_at = 0
    /\ u.lock = "none" /\ u.acceptance = t.acceptance /\ u.closeout = t.closeout
    /\ u.commits = t.commits

LEMMA UnclaimedRow ==
    ASSUME NEW t \in Row, NEW s \in Status, NEW u, u = [Unclaimed(t) EXCEPT !.status = s]
    PROVE  Dropped(u, t, s)
BY DEF Unclaimed, Row, Dropped

LEMMA ReleasedRow ==
    ASSUME NEW t, RowOK(t)
    PROVE  /\ RowOK(Released(t)) /\ Released(t).status = "pending" /\ Released(t).claimed_at = 0
           /\ Released(t).closeout.kind # "local" /\ Released(t).acceptance.state # "success"
<1> DEFINE k == Preserved(t, FALSE)
<1>1. t \in Row /\ (t.closeout.kind # "local" => t.closeout.request_id = 0) BY DEF RowOK
<1>2. /\ k \in Row /\ k.acceptance.state # "success" /\ k.closeout.kind # "local"
      /\ k.closeout.request_id = 0
  BY <1>1, PreservedRow
<1>2a. k \in Row BY <1>2
<1>2b. "pending" \in Status BY DEF Status
<1>3. Released(t) = [Unclaimed(k) EXCEPT !.status = "pending"] BY DEF Released
<1> HIDE DEF k
<1>4. Dropped(Released(t), k, "pending") BY <1>2a, <1>3, <1>2b, UnclaimedRow
<1> QED BY <1>2, <1>4 DEF RowOK, Dropped

LEMMA ResetRow ==
    ASSUME NEW t, RowOK(t)
    PROVE  /\ RowOK(Reset(t)) /\ Reset(t).status = "pending" /\ Reset(t).claimed_at = 0
           /\ Reset(t).closeout.kind = "local" => Reset(t).closeout = t.closeout
           /\ Reset(t).acceptance.state # "success"
<1> DEFINE k == Preserved(t, TRUE)
<1>1. t \in Row /\ (t.closeout.kind # "local" => t.closeout.request_id = 0) BY DEF RowOK
<1>2. /\ k \in Row /\ k.acceptance.state # "success" /\ k.closeout \in {t.closeout, History}
      /\ k.closeout.kind # "local" => k.closeout.request_id = 0
  BY <1>1, PreservedRow
<1>2a. k \in Row BY <1>2
<1>2b. "pending" \in Status BY DEF Status
<1>3. Reset(t) = [Unclaimed(k) EXCEPT !.status = "pending"] BY DEF Reset
<1> HIDE DEF k
<1>4. Dropped(Reset(t), k, "pending") BY <1>2a, <1>3, <1>2b, UnclaimedRow
<1>5. History.kind # "local" BY DEF History, NoCloseout
<1> QED BY <1>2, <1>4, <1>5 DEF RowOK, Dropped

(* A status update other than completion.                                  *)
LEMMA MovedRow ==
    ASSUME NEW t, RowOK(t), NEW s \in Status, s # "completed"
    PROVE  /\ RowOK(Updated(t, s)) /\ Updated(t, s).status = s
           /\ Updated(t, s).claimed_at \in {0, t.claimed_at}
           /\ Updated(t, s).acceptance.state # "success"
           /\ Updated(t, s).closeout.kind # "local"
<1> DEFINE k == Preserved(t, FALSE)
<1>1. t \in Row /\ (t.closeout.kind # "local" => t.closeout.request_id = 0) BY DEF RowOK
<1>2. /\ k \in Row /\ k.acceptance.state # "success" /\ k.closeout.kind # "local"
      /\ k.closeout.request_id = 0 /\ k.lock = t.lock
      /\ k.claimed_by = t.claimed_by /\ k.claimed_at = t.claimed_at
  BY <1>1, PreservedRow
<1>2a. k \in Row BY <1>2
<1>3. Updated(t, s) = [(IF s \in Terminal THEN Unclaimed(k) ELSE k) EXCEPT !.status = s]
  BY DEF Updated
<1> HIDE DEF k
<1>4. CASE s \in Terminal
  <2>0. Updated(t, s) = [Unclaimed(k) EXCEPT !.status = s] BY <1>3, <1>4
  <2>1. Dropped(Updated(t, s), k, s) BY <1>2a, <2>0, UnclaimedRow
  <2> QED BY <1>2, <2>1 DEF RowOK, Dropped
<1>5. CASE s \notin Terminal
  <2>1. /\ Updated(t, s) \in Row /\ Updated(t, s).status = s /\ Updated(t, s).claimed_by = t.claimed_by
        /\ Updated(t, s).claimed_at = t.claimed_at /\ Updated(t, s).lock = t.lock
        /\ Updated(t, s).acceptance = k.acceptance /\ Updated(t, s).closeout = k.closeout
    BY <1>2, <1>3, <1>5 DEF Row
  <2> QED BY <1>2, <2>1 DEF RowOK
<1> QED BY <1>4, <1>5

LEMMA CompletedRow ==
    ASSUME NEW t, RowOK(t)
    PROVE  /\ RowOK(Updated(t, "completed")) /\ Updated(t, "completed").status = "completed"
           /\ Updated(t, "completed").claimed_at = 0
           /\ Updated(t, "completed").acceptance = t.acceptance
           /\ Updated(t, "completed").closeout = t.closeout
           /\ Updated(t, "completed").commits = t.commits
<1>1. t \in Row BY DEF RowOK
<1>2. Updated(t, "completed") = [Unclaimed(t) EXCEPT !.status = "completed"]
  BY DEF Updated, Terminal
<1>3. Dropped(Updated(t, "completed"), t, "completed")
  BY <1>1, <1>2, UnclaimedRow DEF Status
<1> QED BY <1>3 DEF RowOK, Dropped

LEMMA AttachedRow ==
    ASSUME NEW t, RowOK(t), t.status = "running", NEW s \in Source
    PROVE  /\ RowOK(Attached(t, s)) /\ Attached(t, s).status = "running"
           /\ Attached(t, s).claimed_at = t.claimed_at /\ Attached(t, s).closeout = t.closeout
<1> DEFINE a == [state |-> "success", source |-> s]
           u == Attached(t, s)
<1>1. t \in Row BY DEF RowOK
<1>2. a \in Acceptance BY DEF Acceptance
<1>3. u = [t EXCEPT !.acceptance = a] BY DEF Attached
<1> HIDE DEF a, u
<1>4. /\ u \in Row /\ u.status = t.status /\ u.claimed_by = t.claimed_by
      /\ u.claimed_at = t.claimed_at /\ u.lock = t.lock /\ u.closeout = t.closeout
  BY <1>1, <1>2, <1>3 DEF Row
<1>5. RowOK(u) /\ u.status = "running" /\ u.claimed_at = t.claimed_at /\ u.closeout = t.closeout
  BY <1>4 DEF RowOK
<1> QED BY <1>5 DEF u

(* Storing another closeout touches nothing else of the row.               *)
Stored(u, t, c) ==
    /\ RowOK(u) /\ u.status = t.status /\ u.claimed_at = t.claimed_at
    /\ u.acceptance = t.acceptance /\ u.closeout = c /\ u.commits = t.commits

LEMMA StoredRow ==
    ASSUME NEW t, RowOK(t), NEW c \in Closeout, c.kind = "local", NEW u, u = [t EXCEPT !.closeout = c]
    PROVE  Stored(u, t, c)
<1>1. t \in Row BY DEF RowOK
<1>2. /\ u \in Row /\ u.status = t.status /\ u.claimed_by = t.claimed_by
      /\ u.claimed_at = t.claimed_at /\ u.lock = t.lock
      /\ u.acceptance = t.acceptance /\ u.closeout = c /\ u.commits = t.commits
  BY <1>1 DEF Row
<1> QED BY <1>2 DEF RowOK, Stored

(* A recorded commit keeps the acceptance or makes it stale; one that the  *)
(* task had keeps it.                                                      *)
LEMMA CommittedRow ==
    ASSUME NEW t, RowOK(t), NEW s \in Landed
    PROVE  /\ RowOK(Committed(t, s)) /\ Committed(t, s).status = t.status
           /\ Committed(t, s).claimed_at = t.claimed_at /\ Committed(t, s).closeout = t.closeout
           /\ \/ Committed(t, s).acceptance = t.acceptance
              \/ Committed(t, s).acceptance.state # "success"
           /\ Committed(t, s).commits = t.commits => Committed(t, s).acceptance = t.acceptance
<1> DEFINE a == IF t.acceptance = NoAcceptance \/ s \in t.commits \/ t.acceptance.source = s
                THEN t.acceptance ELSE [t.acceptance EXCEPT !.state = "stale"]
           u == Committed(t, s)
<1>1. t \in Row BY DEF RowOK
<1>2. t.acceptance \in Acceptance /\ t.commits \subseteq Landed BY <1>1, RowFields
<1>3. a \in Acceptance /\ (a = t.acceptance \/ a.state # "success")
  BY <1>2 DEF Acceptance
<1>4. s \in t.commits => a = t.acceptance OBVIOUS
<1>5. u = [t EXCEPT !.commits = t.commits \cup {s}, !.acceptance = a]
  BY DEF Committed
<1>6. t.commits \cup {s} \subseteq Landed BY <1>2
<1> HIDE DEF a, u
<1>7. /\ u \in Row /\ u.status = t.status /\ u.claimed_by = t.claimed_by
      /\ u.claimed_at = t.claimed_at /\ u.lock = t.lock /\ u.closeout = t.closeout
      /\ u.acceptance = a /\ u.commits = t.commits \cup {s}
  BY <1>1, <1>3, <1>5, <1>6 DEF Row
<1>8. RowOK(u) BY <1>7 DEF RowOK
<1>9. u.commits = t.commits => u.acceptance = t.acceptance BY <1>4, <1>7
<1>10. u.acceptance = t.acceptance \/ u.acceptance.state # "success" BY <1>3, <1>7
<1> QED BY <1>7, <1>8, <1>9, <1>10 DEF u

LEMMA HandedOverRow ==
    ASSUME NEW t, RowOK(t)
    PROVE  /\ RowOK(HandedOver(t)) /\ HandedOver(t).status = "pending"
           /\ HandedOver(t).claimed_at = 0 /\ HandedOver(t).acceptance = t.acceptance
           /\ HandedOver(t).closeout = t.closeout
<1>1. t \in Row /\ "pending" \in Status BY DEF RowOK, Status
<1>2. HandedOver(t) = [Unclaimed(t) EXCEPT !.status = "pending"] BY DEF HandedOver
<1>3. Dropped(HandedOver(t), t, "pending") BY <1>1, <1>2, UnclaimedRow
<1> QED BY <1>3 DEF RowOK, Dropped
----------------------------------------------------------------------------
(* The ghosts follow a write: the new row's local request is either the    *)
(* one it had or the next one, work that goes on running keeps its claim,  *)
(* and a new acceptance is noted under the claim that runs.                *)
LEMMA WriteInv ==
    ASSUME RowInv, NEW u, RowOK(u), NEW at \in 0..MaxClaims, WriteUnder(at, u),
           claims' \in 0..MaxClaims, claims' >= claims,
           requests' \in 0..MaxRequests, requests' >= requests,
           u.claimed_at <= claims',
           u.closeout.kind = "local" =>
               \/ /\ task.closeout.kind = "local"
                  /\ u.closeout.request_id = task.closeout.request_id
                  /\ u.status = "running" => task.status = "running" /\ u.claimed_at = task.claimed_at
               \/ /\ requests' = requests + 1 /\ u.closeout.request_id = requests'
                  /\ at = u.claimed_at,
           u.status = "running" /\ u.acceptance.state = "success" =>
               /\ task.status = "running" /\ u.claimed_at = task.claimed_at
               /\ u.acceptance = task.acceptance \/ at = u.claimed_at,
           u.status = "pending" /\ u.acceptance.state = "success" =>
               /\ task.status \in {"pending", "running"} /\ u.claimed_at = 0
               /\ u.acceptance = task.acceptance
               /\ u.closeout.kind = "local" =>
                     task.closeout.kind = "local" /\ u.closeout.request_id = task.closeout.request_id
    PROVE  RowInv'
<1>1. /\ task' = u /\ RowOK(task) /\ task \in Row /\ u \in Row
      /\ claims \in Nat /\ requests \in Nat /\ dead \subseteq 1..requests
  BY ProcAssumption DEF RowInv, WriteUnder, RowOK
<1>1a. /\ task.closeout.request_id \in Nat /\ u.closeout.request_id \in Nat /\ u.claimed_at \in Nat
  BY <1>1, RowFields
<1>2. RowOK(task)' BY <1>1 DEF RowOK
<1>3. evidence' \in 0..MaxClaims /\ asked' \in 0..MaxClaims
  BY ProcAssumption DEF WriteUnder, RowInv
<1>4. task.closeout.kind = "local" => task.closeout.request_id \in 1..requests
  BY DEF RowInv
<1>4a. task.closeout.kind # "local" => task.closeout.request_id = 0
  BY <1>1 DEF RowOK
<1>5. dead' \subseteq 1..requests'
  <2>1. requests' \in Nat BY ProcAssumption
  <2>2. 1..requests \subseteq 1..requests' BY <1>1, <2>1
  <2>3. dead' \subseteq 1..requests BY <1>1, <1>4 DEF WriteUnder
  <2> QED BY <2>2, <2>3
<1>6. (task.closeout.kind = "local" => task.closeout.request_id \in 1..requests)'
  BY <1>1, <1>1a, <1>4
<1>7. AcceptanceOfThisClaim'
  BY <1>1 DEF WriteUnder, RowInv, AcceptanceOfThisClaim
<1>8. SupersededStaysDead'
  <2> SUFFICES ASSUME u.closeout.kind = "local" PROVE u.closeout.request_id \notin dead'
    BY <1>1 DEF SupersededStaysDead
  <2>1. dead' = dead BY DEF WriteUnder
  <2>2. CASE task.closeout.kind = "local" /\ u.closeout.request_id = task.closeout.request_id
    BY <2>1, <2>2 DEF RowInv, SupersededStaysDead
  <2>3. CASE u.closeout.request_id = requests + 1
    BY <1>1, <2>1, <2>3
  <2> QED BY <2>2, <2>3
<1>9. (task.status = "running" /\ task.closeout.kind = "local" => asked = task.claimed_at)'
  <2> SUFFICES ASSUME u.status = "running", u.closeout.kind = "local" PROVE asked' = u.claimed_at
    BY <1>1
  <2>1. CASE /\ task.closeout.kind = "local"
             /\ u.closeout.request_id = task.closeout.request_id
             /\ task.status = "running" /\ u.claimed_at = task.claimed_at
    BY <2>1 DEF WriteUnder, RowInv
  <2>2. CASE u.closeout.request_id = requests + 1 /\ at = u.claimed_at
    <3>1. u.closeout.request_id # task.closeout.request_id
      BY <1>1, <1>4, <1>4a, <2>2
    <3> QED BY <3>1, <2>2 DEF WriteUnder
  <2> QED BY <2>1, <2>2
<1>10. task'.claimed_at <= claims' BY <1>1
<1>11. GivenUp'
  <2> SUFFICES ASSUME u.status = "pending", u.acceptance.state = "success"
               PROVE  u.claimed_at = 0 /\ (u.closeout.kind = "local" => evidence' = asked')
    BY <1>1 DEF GivenUp
  <2>1. evidence' = evidence /\ task.acceptance.state = "success" BY DEF WriteUnder
  <2>2. u.closeout.kind = "local" => asked' = asked /\ task.closeout.kind = "local" BY DEF WriteUnder
  <2> QED BY <2>1, <2>2 DEF RowInv, AcceptanceOfThisClaim, GivenUp
<1> QED BY <1>2, <1>3, <1>5, <1>6, <1>7, <1>8, <1>9, <1>10, <1>11 DEF RowInv

(* A write that leaves the request, the claim and the acceptance alone.    *)
LEMMA QuietInv ==
    ASSUME RowInv, UNCHANGED <<task, evidence, asked, dead, claims, requests>>
    PROVE  RowInv'
BY DEF RowInv, RowOK, AcceptanceOfThisClaim, SupersededStaysDead, GivenUp

(* The process p moves to the session r and every other one stays.         *)
LEMMA MoveInv ==
    ASSUME ProcInv, RowInv, NEW p \in Proc, NEW r \in Session, cli' = [cli EXCEPT ![p] = r],
           requests' \in Nat, requests' >= requests,
           closer' \in {closer, p, NoProc},
           closer' = p <=> r.pc \in Locked,
           closer' # closer => closer = p \/ closer = NoProc,
           requests' # requests => cli[p].pc = "asking" /\ r.pc # "asking",
           r.pc = "asking" => requests' < MaxRequests,
           HasRead(r, requests')
    PROVE  ProcInv'
<1>1. cli \in [Proc -> Session] /\ closer \in Proc \cup {NoProc} BY DEF ProcInv
<1>2. cli' \in [Proc -> Session] /\ cli'[p] = r /\ \A q \in Proc \ {p} : cli'[q] = cli[q]
  BY <1>1
<1>3. closer' \in Proc \cup {NoProc} BY <1>1
<1>4. \A q \in Proc : (closer' = q) = (cli'[q].pc \in Locked)
  <2> TAKE q \in Proc
  <2>1. CASE q = p BY <2>1, <1>2
  <2>2. CASE q # p
    <3>1. (closer = q) = (cli[q].pc \in Locked) BY DEF ProcInv
    <3>2. (closer' = q) = (closer = q) BY <2>2, ProcAssumption
    <3> QED BY <2>2, <3>1, <3>2, <1>2
  <2> QED BY <2>1, <2>2
<1>5. \A q \in Proc : HasRead(cli'[q], requests')
  <2> TAKE q \in Proc
  <2>1. CASE q = p BY <2>1, <1>2 DEF HasRead
  <2>2. CASE q # p
    <3>1. HasRead(cli[q], requests) /\ cli'[q] = cli[q] BY <2>2, <1>2 DEF ProcInv
    <3> QED BY <3>1, ProcAssumption DEF HasRead, RowInv
  <2> QED BY <2>1, <2>2
<1>6. \A q \in Proc : cli'[q].pc = "asking" => requests' < MaxRequests
  <2> TAKE q \in Proc
  <2>1. CASE q = p BY <2>1, <1>2
  <2>2. CASE q # p /\ cli[q].pc = "asking"
    <3>1. requests < MaxRequests /\ closer = q BY <2>2 DEF ProcInv, Locked
    <3>2. requests' = requests
      <4> SUFFICES ASSUME cli[p].pc = "asking" PROVE FALSE OBVIOUS
      <4> QED BY <3>1, <2>2 DEF ProcInv, Locked
    <3> QED BY <3>1, <3>2
  <2> QED BY <2>1, <2>2, <1>2
<1> QED BY <1>2, <1>3, <1>4, <1>5, <1>6 DEF ProcInv

(* A transaction of the API or the scheduler moves no process.             *)
LEMMA StayInv ==
    ASSUME ProcInv, UNCHANGED <<cli, closer, requests>>
    PROVE  ProcInv'
BY DEF ProcInv, HasRead

LEMMA IdleSession == Idle \in Session /\ Idle.pc = "idle"
<1>1. NewRow.acceptance \in Acceptance /\ NewRow.closeout \in Closeout
  BY DEF NewRow, NoAcceptance, NoCloseout, Acceptance, Closeout
<1>2. Read(NewRow) \in [status : Status, acceptance : Acceptance, closeout : Closeout]
  BY <1>1 DEF Read, Status, NewRow
<1>3. Held(NewRow) \in [claimed_by : Worker \cup {NoWorker}, claimed_at : Nat, acceptance : Acceptance]
  BY <1>1 DEF Held, NewRow
<1> QED BY <1>2, <1>3 DEF Idle, Session

LEMMA ReadRow ==
    ASSUME NEW t \in Row
    PROVE  /\ Read(t) \in [status : Status, acceptance : Acceptance, closeout : Closeout]
           /\ Held(t) \in [claimed_by : Worker \cup {NoWorker}, claimed_at : Nat, acceptance : Acceptance]
           /\ Read(t).status = t.status /\ Read(t).acceptance = t.acceptance
           /\ Read(t).closeout = t.closeout
BY RowFields DEF Read, Held

(* A process that ends leaves the advisory lock with it.                   *)
LEMMA LeaveInv ==
    ASSUME ProcInv, RowInv, NEW p \in Proc, Leave(p), requests' = requests,
           Unlock(p) \/ (closer' = closer /\ cli[p].pc \notin Locked)
    PROVE  ProcInv'
<1>1. Idle \in Session /\ Idle.pc = "idle" BY IdleSession
<1>2. (closer = p) = (cli[p].pc \in Locked) BY DEF ProcInv
<1>3. closer' = IF closer = p THEN NoProc ELSE closer BY <1>2 DEF Unlock
<1>4. requests' \in Nat /\ requests' >= requests BY ProcAssumption DEF RowInv
<1>5. Idle.pc \notin Locked /\ HasRead(Idle, requests') BY <1>1 DEF Locked, Resuming, HasRead
<1>6. closer' # p BY <1>3, ProcAssumption
<1>7. /\ closer' \in {closer, p, NoProc} /\ (closer' # closer => closer = p \/ closer = NoProc)
      /\ closer' = p <=> Idle.pc \in Locked
  BY <1>3, <1>5, <1>6
<1>8. cli' = [cli EXCEPT ![p] = Idle] BY DEF Leave
<1> QED BY <1>1, <1>4, <1>5, <1>7, <1>8, MoveInv

(* A process that only moves on keeps what it read and the lock it has.    *)
LEMMA GoInv ==
    ASSUME ProcInv, RowInv, NEW p \in Proc, NEW x \in Claiming \cup Finishing \cup Resuming,
           Go(p, x), closer' = closer, requests' = requests, x # "asking",
           (x \in Locked) = (cli[p].pc \in Locked),
           x \in Locked => cli[p].pc # "asking"
    PROVE  ProcInv'
<1> DEFINE r == [cli[p] EXCEPT !.pc = x]
<1>1. cli[p] \in Session /\ cli \in [Proc -> Session] BY DEF ProcInv
<1>2. r \in Session /\ r.pc = x /\ r.seen = cli[p].seen BY <1>1 DEF Session
<1>3. cli' = [cli EXCEPT ![p] = r] BY <1>1 DEF Go
<1>4. (closer = p) = (cli[p].pc \in Locked) /\ HasRead(cli[p], requests) BY DEF ProcInv
<1>5. HasRead(r, requests') BY <1>2, <1>4 DEF HasRead, Locked
<1>6. requests' \in Nat /\ requests' >= requests BY ProcAssumption DEF RowInv
<1> HIDE DEF r
<1> QED BY <1>2, <1>3, <1>4, <1>5, <1>6, MoveInv

(* Every write below the API's is made under a claim counted so far.       *)
LEMMA ClaimCounted ==
    ASSUME RowInv
    PROVE  task.claimed_at \in 0..MaxClaims /\ task \in Row /\ RowOK(task)
<1>1. RowOK(task) /\ task \in Row BY DEF RowInv, RowOK
<1>2. task.claimed_at \in Nat BY <1>1, RowFields
<1> QED BY <1>1, <1>2, ProcAssumption DEF RowInv

(* Renewing the lock, or writing the row as it is.                         *)
LEMMA RenewInv ==
    ASSUME RowInv, NEW w \in Worker, CanRenew(task, w), Write(Renewed(task)),
           claims' = claims, requests' = requests
    PROVE  RowInv'
<1>1. task.claimed_at \in 0..MaxClaims /\ task \in Row /\ RowOK(task) BY ClaimCounted
<1>2. task.status = "running" /\ task.claimed_by # NoWorker BY RowAssumption DEF CanRenew
<1> DEFINE u == Renewed(task)
<1>3. /\ RowOK(u) /\ u.status = task.status /\ u.claimed_at = task.claimed_at
      /\ u.acceptance = task.acceptance /\ u.closeout = task.closeout
  BY <1>1, <1>2, RenewedRow
<1>4. WriteUnder(task.claimed_at, u) BY DEF Write
<1> HIDE DEF u
<1>5. u.claimed_at <= claims' /\ claims' >= claims /\ requests' >= requests
      /\ claims' \in 0..MaxClaims /\ requests' \in 0..MaxRequests
  BY <1>3, ProcAssumption DEF RowInv
<1> QED BY <1>1, <1>2, <1>3, <1>4, <1>5, WriteInv

LEMMA SameInv ==
    ASSUME RowInv, Write(task), claims' = claims, requests' = requests
    PROVE  RowInv'
<1>1. task.claimed_at \in 0..MaxClaims /\ RowOK(task) BY ClaimCounted
<1>2. WriteUnder(task.claimed_at, task) BY DEF Write
<1>3. task.claimed_at <= claims' /\ claims' >= claims /\ requests' >= requests
      /\ claims' \in 0..MaxClaims /\ requests' \in 0..MaxRequests
  BY ProcAssumption DEF RowInv
<1> QED BY <1>1, <1>2, <1>3, WriteInv DEF RowInv, GivenUp

(* Writing a row that no longer runs accepted work and whose closeout, if  *)
(* local, is the one it had: releases, resets, status changes, completion. *)
LEMMA LifecycleInv ==
    ASSUME RowInv, NEW u, RowOK(u), Write(u), requests' = requests, claims' = claims,
           u.claimed_at \in {0, task.claimed_at},
           u.status # "running" \/ (u.acceptance.state # "success" /\ u.closeout.kind # "local"),
           u.status = "pending" => u.acceptance.state # "success",
           u.closeout.kind = "local" => u.closeout = task.closeout
    PROVE  RowInv'
<1>1. task.claimed_at \in 0..MaxClaims /\ RowOK(task) BY ClaimCounted
<1>2. WriteUnder(task.claimed_at, u) BY DEF Write
<1>3. u.claimed_at <= claims' /\ claims' >= claims /\ requests' >= requests
      /\ claims' \in 0..MaxClaims /\ requests' \in 0..MaxRequests
  BY ProcAssumption DEF RowInv
<1> QED BY <1>1, <1>2, <1>3, WriteInv
----------------------------------------------------------------------------
(* st claim                                                                *)
LEMMA ClaimReadsInv ==
    ASSUME IInv, NEW p \in Proc, ClaimReads(p)
    PROVE  IInv'
<1>1. RowInv /\ ProcInv /\ cli[p].pc = "idle" BY DEF IInv, ClaimReads
<1>2. RowInv' BY <1>1, QuietInv DEF ClaimReads, ghosts, counters
<1>3. PICK x \in {"renew", "claim"}, h \in BOOLEAN :
        cli' = [cli EXCEPT ![p] = [Idle EXCEPT !.pc = x, !.had = h]]
  BY DEF ClaimReads, IInv
<1> DEFINE r == [Idle EXCEPT !.pc = x, !.had = h]
<1>4. r \in Session /\ r.pc = x BY IdleSession DEF Session, Claiming
<1>5. r.pc \notin Locked /\ HasRead(r, requests') BY <1>4 DEF Locked, Resuming, HasRead
<1>6. requests' = requests /\ closer' = closer BY DEF ClaimReads, counters
<1>7. closer # p BY <1>1 DEF ProcInv, Locked, Resuming
<1>8. requests' \in Nat /\ requests' >= requests BY <1>1, <1>6, ProcAssumption DEF RowInv
<1> HIDE DEF r
<1>9. cli' = [cli EXCEPT ![p] = r] BY <1>3 DEF r
<1>10. ProcInv' BY <1>1, <1>4, <1>5, <1>6, <1>7, <1>8, <1>9, MoveInv
<1> QED BY <1>2, <1>10 DEF IInv, ClaimReads, counters

LEMMA RenewsClaimInv ==
    ASSUME IInv, NEW p \in Proc, RenewsClaim(p)
    PROVE  IInv'
<1>1. RowInv /\ ProcInv /\ cli[p].pc \notin Locked BY DEF IInv, RenewsClaim, Locked, Resuming
<1>2. claims' = claims /\ requests' = requests /\ closer' = closer BY DEF RenewsClaim, counters
<1>3. WorkerOf[p] \in Worker BY ProcAssumption
<1>4. RowInv'
  <2>1. CASE CanRenew(task, WorkerOf[p])
    BY <1>1, <1>2, <1>3, <2>1, RenewInv DEF RenewsClaim
  <2>2. CASE ~CanRenew(task, WorkerOf[p])
    BY <1>1, <1>2, <2>2, SameInv DEF RenewsClaim
  <2> QED BY <2>1, <2>2
<1>5. ProcInv' BY <1>1, <1>2, LeaveInv DEF RenewsClaim
<1> QED BY <1>4, <1>5 DEF IInv, RenewsClaim, counters

(* What claim_task and the renewal before st done leave in the process.    *)
LEMMA KeepsClaim ==
    ASSUME ProcInv, RowInv, NEW p \in Proc, cli[p].pc \notin Locked, closer' = closer,
           requests' = requests, NEW x \in (Claiming \cup Finishing) \ {"asking"}, NEW t \in Row,
           cli' = [cli EXCEPT ![p] = [cli[p] EXCEPT !.pc = x, !.claim = Held(t)]]
    PROVE  ProcInv'
<1> DEFINE r == [cli[p] EXCEPT !.pc = x, !.claim = Held(t)]
<1>1. cli[p] \in Session BY DEF ProcInv
<1>2. r \in Session /\ r.pc = x BY <1>1, ReadRow DEF Session
<1>3. r.pc \notin Locked /\ HasRead(r, requests')
  BY <1>2 DEF Locked, Resuming, Claiming, Finishing, HasRead
<1>4. closer # p BY DEF ProcInv
<1>5. requests' \in Nat /\ requests' >= requests BY ProcAssumption DEF RowInv
<1>6. cli' = [cli EXCEPT ![p] = r] OBVIOUS
<1>7. r.pc # "asking" BY <1>3 DEF Locked
<1> HIDE DEF r
<1> QED BY <1>2, <1>3, <1>4, <1>5, <1>6, <1>7, MoveInv

LEMMA ClaimsAgainInv ==
    ASSUME IInv, NEW p \in Proc, ClaimsAgain(p)
    PROVE  IInv'
<1>1. RowInv /\ ProcInv /\ cli[p].pc \notin Locked BY DEF IInv, ClaimsAgain, Locked, Resuming
<1>2. claims' = claims /\ requests' = requests /\ closer' = closer BY DEF ClaimsAgain, counters
<1>3. WorkerOf[p] \in Worker BY ProcAssumption
<1>4. RowInv' BY <1>1, <1>2, <1>3, RenewInv DEF ClaimsAgain
<1>5. task \in Row BY <1>1, ClaimCounted
<1>6. ProcInv'
  <2>1. CASE cli[p].had BY <1>1, <1>2, <2>1, LeaveInv DEF ClaimsAgain, Leave
  <2>2. CASE ~cli[p].had
    <3>1. cli' = [cli EXCEPT ![p] = [cli[p] EXCEPT !.pc = "snapshot", !.claim = Held(task)]]
      BY <2>2 DEF ClaimsAgain
    <3> QED BY <1>1, <1>2, <1>5, <3>1, KeepsClaim DEF Claiming
  <2> QED BY <2>1, <2>2
<1> QED BY <1>4, <1>6 DEF IInv, ClaimsAgain, counters

LEMMA ClaimsInv ==
    ASSUME IInv, NEW p \in Proc, Claims(p)
    PROVE  IInv'
<1> DEFINE t == Claimed(task, WorkerOf[p], claims + 1)
<1>1. RowInv /\ ProcInv /\ cli[p].pc \notin Locked BY DEF IInv, Claims, Locked, Resuming
<1>2. /\ claims' = claims + 1 /\ requests' = requests /\ closer' = closer /\ claims \in Nat
      /\ claims' \in 0..MaxClaims /\ claims' >= claims
      /\ requests' \in 0..MaxRequests /\ requests' >= requests
  BY <1>1, ProcAssumption DEF Claims, RowInv
<1>3. task.claimed_at \in 0..MaxClaims /\ task \in Row /\ RowOK(task) BY <1>1, ClaimCounted
<1>4. /\ RowOK(t) /\ t.claimed_at = claims + 1
      /\ t.acceptance.state # "success" /\ t.closeout.kind # "local"
  BY <1>2, <1>3, ClaimedRow, ProcAssumption
<1>5. WriteUnder(task.claimed_at, t) BY DEF Claims, Write
<1>6. t \in Row BY <1>4 DEF RowOK
<1>7. cli' = [cli EXCEPT ![p] = IF cli[p].had THEN Idle
                                ELSE [cli[p] EXCEPT !.pc = "snapshot", !.claim = Held(t)]]
  BY DEF Claims
<1> HIDE DEF t
<1>8. RowInv' BY <1>1, <1>2, <1>3, <1>4, <1>5, WriteInv
<1>9. ProcInv'
  <2>1. CASE cli[p].had BY <1>1, <1>2, <1>7, <2>1, LeaveInv DEF Leave
  <2>2. CASE ~cli[p].had
    <3>1. cli' = [cli EXCEPT ![p] = [cli[p] EXCEPT !.pc = "snapshot", !.claim = Held(t)]]
      BY <1>7, <2>2
    <3> QED BY <1>1, <1>2, <1>6, <3>1, KeepsClaim DEF Claiming
  <2> QED BY <2>1, <2>2
<1> QED BY <1>8, <1>9 DEF IInv, Claims

(* Steps of a process that leave the row alone and then end it.            *)
LEMMA LeavingInv ==
    ASSUME IInv, NEW p \in Proc, Leave(p), UNCHANGED <<task, claims, requests, ghosts>>,
           checkpoint' \in BOOLEAN, stops' \in 0..MaxStops,
           Unlock(p) \/ (closer' = closer /\ cli[p].pc \notin Locked)
    PROVE  IInv'
<1>1. RowInv /\ ProcInv BY DEF IInv
<1>2. RowInv' BY <1>1, QuietInv DEF ghosts
<1>3. ProcInv' BY <1>1, LeaveInv
<1> QED BY <1>2, <1>3 DEF IInv

(* Steps of a process that leave the row alone and only move it on.        *)
LEMMA GoingInv ==
    ASSUME IInv, NEW p \in Proc, NEW x \in Claiming \cup Finishing \cup Resuming, x # "asking",
           Go(p, x), UNCHANGED <<task, closer, counters, ghosts>>, checkpoint' \in BOOLEAN,
           (x \in Locked) = (cli[p].pc \in Locked), x \in Locked => cli[p].pc # "asking"
    PROVE  IInv'
<1>1. RowInv /\ ProcInv BY DEF IInv
<1>2. RowInv' BY <1>1, QuietInv DEF ghosts, counters
<1>3. ProcInv' BY <1>1, GoInv DEF counters
<1> QED BY <1>2, <1>3 DEF IInv, counters

LEMMA ClaimStepsInv ==
    ASSUME IInv, NEW p \in Proc,
           ClaimRefused(p) \/ CreatesSnapshot(p) \/ SnapshotFails(p) \/ ReleaseReads(p)
    PROVE  IInv'
<1>1. checkpoint \in BOOLEAN /\ stops \in 0..MaxStops BY DEF IInv
<1>2. CASE ClaimRefused(p)
  BY <1>1, <1>2, LeavingInv DEF ClaimRefused, counters, Locked, Resuming
<1>3. CASE CreatesSnapshot(p)
  BY <1>1, <1>3, LeavingInv DEF CreatesSnapshot, counters, Locked, Resuming
<1>4. CASE SnapshotFails(p)
  <2>1. cli[p].pc \notin Locked BY <1>4 DEF SnapshotFails, Locked, Resuming
  <2>2. "release" \in Claiming \cup Finishing \cup Resuming /\ "release" \notin Locked
    BY DEF Claiming, Locked, Resuming
  <2>3. Go(p, "release") /\ UNCHANGED <<task, closer, counters, ghosts>> /\ checkpoint' \in BOOLEAN
    BY <1>4 DEF SnapshotFails
  <2> QED BY <2>1, <2>2, <2>3, GoingInv
<1>5. CASE ReleaseReads(p)
  <2>1. cli[p].pc \notin Locked BY <1>5 DEF ReleaseReads, Locked, Resuming
  <2>2. "releasing" \in Claiming \cup Finishing \cup Resuming /\ "releasing" \notin Locked
    BY DEF Claiming, Locked, Resuming
  <2>3. UNCHANGED <<task, closer, counters, ghosts>> /\ checkpoint' = checkpoint
    BY <1>5 DEF ReleaseReads
  <2>4. CASE Leave(p) BY <1>1, <2>1, <2>3, <2>4, LeavingInv DEF counters
  <2>5. CASE Go(p, "releasing") BY <1>1, <2>1, <2>2, <2>3, <2>5, GoingInv
  <2> QED BY <1>5, <2>4, <2>5 DEF ReleaseReads
<1> QED BY <1>2, <1>3, <1>4, <1>5

LEMMA ReleasesInv ==
    ASSUME IInv, NEW p \in Proc, Releases(p)
    PROVE  IInv'
<1>1. RowInv /\ ProcInv /\ cli[p].pc \notin Locked BY DEF IInv, Releases, Locked, Resuming
<1>2. claims' = claims /\ requests' = requests /\ closer' = closer BY DEF Releases, counters
<1>3. RowOK(task) BY <1>1, ClaimCounted
<1> DEFINE u == Released(task)
<1>4. /\ RowOK(u) /\ u.status = "pending" /\ u.claimed_at = 0 /\ u.closeout.kind # "local"
      /\ u.acceptance.state # "success"
  BY <1>3, ReleasedRow
<1>5. Write(u) BY DEF Releases
<1> HIDE DEF u
<1>6. RowInv' BY <1>1, <1>2, <1>4, <1>5, LifecycleInv
<1>7. ProcInv' BY <1>1, <1>2, LeaveInv DEF Releases
<1> QED BY <1>6, <1>7 DEF IInv, Releases, counters
----------------------------------------------------------------------------
(* st done                                                                 *)
LEMMA DoneReadsInv ==
    ASSUME IInv, NEW p \in Proc, DoneReads(p)
    PROVE  IInv'
<1>1. RowInv /\ ProcInv /\ cli[p].pc = "idle" BY DEF IInv, DoneReads
<1>2. RowInv' BY <1>1, QuietInv DEF DoneReads, ghosts, counters
<1> DEFINE x == IF Active(task.closeout) THEN "resume"
                ELSE IF task.status = "completed"
                THEN IF Requires(task) THEN "clean" ELSE "clean_record"
                ELSE IF Requires(task) THEN "own" ELSE "own_record"
           sn == IF task.status = "completed" THEN Read(task) ELSE Idle.seen
           r == [Idle EXCEPT !.had = checkpoint, !.seen = sn, !.pc = x]
<1>3. cli' = [cli EXCEPT ![p] = r] BY DEF DoneReads
<1>4. task \in Row BY <1>1, ClaimCounted
<1>5. sn \in [status : Status, acceptance : Acceptance, closeout : Closeout]
  BY <1>4, ReadRow, IdleSession DEF Session
<1>6. x \in {"resume", "clean", "clean_record", "own", "own_record"} OBVIOUS
<1>7. checkpoint \in BOOLEAN BY DEF IInv
<1> HIDE DEF x, sn
<1>8. r \in Session /\ r.pc = x BY <1>5, <1>6, <1>7, IdleSession DEF Session, Finishing, Resuming
<1>9. r.pc \notin Locked /\ HasRead(r, requests') BY <1>6, <1>8 DEF Locked, Resuming, HasRead
<1>10. requests' = requests /\ closer' = closer BY DEF DoneReads, counters
<1>11. closer # p /\ r.pc # "asking" BY <1>1, <1>6, <1>8 DEF ProcInv, Locked, Resuming
<1>12. requests' \in Nat /\ requests' >= requests BY <1>1, <1>10, ProcAssumption DEF RowInv
<1> HIDE DEF r
<1>13. ProcInv' BY <1>1, <1>3, <1>8, <1>9, <1>10, <1>11, <1>12, MoveInv
<1> QED BY <1>2, <1>13 DEF IInv, DoneReads, counters

LEMMA OwnsInv ==
    ASSUME IInv, NEW p \in Proc, Owns(p)
    PROVE  IInv'
<1>1. RowInv /\ ProcInv /\ cli[p].pc \notin Locked BY DEF IInv, Owns, Locked, Resuming
<1>2. claims' = claims /\ requests' = requests /\ closer' = closer BY DEF Owns, counters
<1>3. WorkerOf[p] \in Worker BY ProcAssumption
<1>4. RowInv' BY <1>1, <1>2, <1>3, RenewInv DEF Owns
<1>5. task \in Row BY <1>1, ClaimCounted
<1> DEFINE x == IF cli[p].pc = "own" THEN "accept" ELSE "close"
<1>6. x \in (Claiming \cup Finishing) \ {"asking"} BY DEF Finishing
<1>7. cli' = [cli EXCEPT ![p].pc = x, ![p].claim = Held(task)] BY DEF Owns
<1>8. cli \in [Proc -> Session] BY <1>1 DEF ProcInv
<1> HIDE DEF x
<1>9. cli' = [cli EXCEPT ![p] = [cli[p] EXCEPT !.pc = x, !.claim = Held(task)]] BY <1>7, <1>8
<1>10. ProcInv' BY <1>1, <1>2, <1>5, <1>6, <1>9, KeepsClaim
<1> QED BY <1>4, <1>10 DEF IInv, Owns, counters

LEMMA AcceptsWorkInv ==
    ASSUME IInv, NEW p \in Proc, NEW s \in Source, AcceptsWork(p, s)
    PROVE  IInv'
<1> DEFINE u == Attached(task, s)
           at == cli[p].claim.claimed_at
<1>1. RowInv /\ ProcInv /\ cli[p].pc \notin Locked BY DEF IInv, AcceptsWork, Locked, Resuming
<1>2. claims' = claims /\ requests' = requests /\ closer' = closer BY DEF AcceptsWork, counters
<1>3. task.claimed_at \in 0..MaxClaims /\ RowOK(task) BY <1>1, ClaimCounted
<1>4. task.status = "running" /\ at = task.claimed_at BY DEF AcceptsWork, CanAttach, SameClaim
<1>5. RowOK(u) /\ u.status = "running" /\ u.claimed_at = task.claimed_at /\ u.closeout = task.closeout
  BY <1>3, <1>4, AttachedRow
<1>6. WriteUnder(task.claimed_at, u) BY <1>4 DEF AcceptsWork
<1>7. task.claimed_at <= claims' /\ claims' >= claims /\ requests' >= requests
      /\ claims' \in 0..MaxClaims /\ requests' \in 0..MaxRequests
  BY <1>1, <1>2, ProcAssumption DEF RowInv
<1> HIDE DEF u, at
<1>8. RowInv' BY <1>1, <1>3, <1>4, <1>5, <1>6, <1>7, WriteInv
<1> DEFINE r == [cli[p] EXCEPT !.pc = "ask", !.source = s]
<1>9. cli \in [Proc -> Session] BY <1>1 DEF ProcInv
<1>10. cli' = [cli EXCEPT ![p] = r] BY <1>9 DEF AcceptsWork
<1>11. r \in Session /\ r.pc = "ask" BY <1>9 DEF Session, Finishing
<1>12. r.pc \notin Locked /\ HasRead(r, requests') /\ r.pc # "asking"
  BY <1>11 DEF Locked, Resuming, HasRead
<1>13. closer # p BY <1>1 DEF ProcInv
<1>14. requests' \in Nat BY <1>7, ProcAssumption
<1> HIDE DEF r
<1>15. ProcInv' BY <1>1, <1>2, <1>7, <1>10, <1>11, <1>12, <1>13, <1>14, MoveInv
<1> QED BY <1>8, <1>15 DEF IInv, AcceptsWork, counters

(* Reading the row under the advisory lock: a request asks for room, a     *)
(* resumption for a local closeout.                                        *)
LEMMA LocksAndReads ==
    ASSUME IInv, NEW p \in Proc, closer = NoProc, closer' = p, NEW x \in {"asking", "validate"},
           cli' = [cli EXCEPT ![p].pc = x, ![p].seen = Read(task)],
           UNCHANGED <<task, checkpoint, counters, ghosts>>,
           x = "asking" => requests < MaxRequests,
           x = "validate" => Active(task.closeout)
    PROVE  IInv'
<1>1. RowInv /\ ProcInv BY DEF IInv
<1>2. RowInv' BY <1>1, QuietInv DEF ghosts, counters
<1>3. task \in Row /\ RowOK(task) BY <1>1, ClaimCounted
<1> DEFINE r == [cli[p] EXCEPT !.pc = x, !.seen = Read(task)]
<1>4. cli \in [Proc -> Session] BY <1>1 DEF ProcInv
<1>5. cli' = [cli EXCEPT ![p] = r] BY <1>4
<1>6. r \in Session /\ r.pc = x /\ r.seen = Read(task)
  BY <1>3, <1>4, ReadRow DEF Session, Finishing, Resuming
<1>7. r.pc \in Locked BY <1>6 DEF Locked, Resuming
<1>8. requests' = requests /\ requests' \in Nat /\ requests' >= requests
  BY <1>1, ProcAssumption DEF RowInv, counters
<1>9. HasRead(r, requests')
  <2>1. r.seen.closeout = task.closeout BY <1>3, <1>6, ReadRow
  <2> QED BY <1>1, <1>6, <1>8, <2>1 DEF HasRead, Active, RowInv, Resuming
<1>10. r.pc = "asking" => requests' < MaxRequests BY <1>6, <1>8
<1> HIDE DEF r
<1>11. ProcInv' BY <1>1, <1>5, <1>6, <1>7, <1>8, <1>9, <1>10, MoveInv
<1> QED BY <1>2, <1>11 DEF IInv, counters

LEMMA RequestReadsInv ==
    ASSUME IInv, NEW p \in Proc, RequestReads(p)
    PROVE  IInv'
<1>1. cli[p].pc \notin Locked BY DEF RequestReads, Locked, Resuming
<1>2. UNCHANGED <<task, checkpoint, counters, ghosts>> BY DEF RequestReads
<1>3. checkpoint \in BOOLEAN /\ stops \in 0..MaxStops BY DEF IInv
<1>4. CASE Go(p, "resume") /\ closer' = closer
  <2>1. "resume" \in Resuming /\ "resume" \notin Locked BY DEF Resuming, Locked
  <2> QED BY <1>1, <1>2, <1>3, <1>4, <2>1, GoingInv
<1>5. CASE /\ closer = NoProc /\ requests < MaxRequests /\ closer' = p
           /\ cli' = [cli EXCEPT ![p].pc = "asking", ![p].seen = Read(task)]
  BY <1>2, <1>5, LocksAndReads
<1>6. CASE Leave(p) /\ closer' = closer
  BY <1>1, <1>2, <1>3, <1>6, LeavingInv DEF counters
<1> QED BY <1>4, <1>5, <1>6 DEF RequestReads

LEMMA RequestsInv ==
    ASSUME IInv, NEW p \in Proc, Requests(p)
    PROVE  IInv'
<1> DEFINE c == [kind |-> "local", request_id |-> requests + 1, state |-> "pending", source |-> cli[p].source]
           u == Requested(task, requests + 1, cli[p].source)
<1>1. RowInv /\ ProcInv /\ cli[p].pc = "asking" BY DEF IInv, Requests
<1>2. claims' = claims /\ requests' = requests + 1 /\ requests \in Nat /\ requests < MaxRequests
  BY <1>1, ProcAssumption DEF Requests, RowInv, ProcInv
<1>3. task.claimed_at \in 0..MaxClaims /\ RowOK(task) BY <1>1, ClaimCounted
<1>4. cli[p].claim.claimed_at = task.claimed_at /\ task.status = "running"
  BY DEF Requests, CanRequest, SameClaim
<1>5. cli \in [Proc -> Session] BY <1>1 DEF ProcInv
<1>6. cli[p].source \in Source \cup {NoSource} BY <1>5 DEF Session
<1>7. c \in Closeout /\ c.kind = "local" /\ c.request_id = requests + 1 BY <1>2, <1>6 DEF Closeout
<1>8. u = [task EXCEPT !.closeout = c] BY DEF Requested
<1>9. WriteUnder(task.claimed_at, u) BY <1>4 DEF Requests
<1> HIDE DEF c, u
<1>10. Stored(u, task, c) BY <1>3, <1>7, <1>8, StoredRow
<1>11. task.claimed_at <= claims' /\ claims' >= claims /\ requests' >= requests
      /\ claims' \in 0..MaxClaims /\ requests' \in 0..MaxRequests
  BY <1>1, <1>2, ProcAssumption DEF RowInv
<1>12. RowInv' BY <1>1, <1>2, <1>3, <1>4, <1>7, <1>9, <1>10, <1>11, WriteInv DEF Stored
<1> DEFINE r == [cli[p] EXCEPT !.pc = "resume"]
<1>13. cli' = [cli EXCEPT ![p] = r] BY <1>5 DEF Requests, Go
<1>14. r \in Session /\ r.pc = "resume" BY <1>5 DEF Session, Resuming
<1>15. r.pc \notin Locked /\ HasRead(r, requests') /\ r.pc # "asking"
  BY <1>14 DEF Locked, Resuming, HasRead
<1>16. closer = p /\ closer' = NoProc /\ NoProc # p
  BY <1>1, ProcAssumption DEF ProcInv, Locked, Requests, Unlock
<1>17. requests' \in Nat BY <1>2
<1> HIDE DEF r
<1>18. ProcInv' BY <1>1, <1>11, <1>13, <1>14, <1>15, <1>16, <1>17, MoveInv
<1> QED BY <1>12, <1>18 DEF IInv, Requests

LEMMA DoneStepsInv ==
    ASSUME IInv, NEW p \in Proc,
           \/ OwnRefused(p) \/ AcceptFails(p) \/ RequestSuperseded(p) \/ CleanupSuperseded(p)
           \/ CleansCompleted(p) \/ Stops(p)
    PROVE  IInv'
<1>1. checkpoint \in BOOLEAN /\ stops \in 0..MaxStops BY DEF IInv
<1>2. CASE OwnRefused(p)
  BY <1>1, <1>2, LeavingInv DEF OwnRefused, counters, Locked, Resuming
<1>3. CASE AcceptFails(p)
  BY <1>1, <1>3, LeavingInv DEF AcceptFails, counters, Locked, Resuming
<1>4. CASE RequestSuperseded(p)
  BY <1>1, <1>4, LeavingInv DEF RequestSuperseded, counters
<1>5. CASE CleanupSuperseded(p)
  BY <1>1, <1>5, LeavingInv DEF CleanupSuperseded, counters
<1>6. CASE CleansCompleted(p)
  BY <1>1, <1>6, LeavingInv DEF CleansCompleted, counters, Locked, Resuming
<1>7. CASE Stops(p)
  <2>1. stops' \in 0..MaxStops BY <1>1, <1>7, ProcAssumption DEF Stops
  <2> QED BY <1>1, <1>7, <2>1, LeavingInv DEF Stops
<1> QED BY <1>2, <1>3, <1>4, <1>5, <1>6, <1>7
----------------------------------------------------------------------------
(* resume_closeout                                                         *)
LEMMA ResumeReadsInv ==
    ASSUME IInv, NEW p \in Proc, ResumeReads(p)
    PROVE  IInv'
<1>1. cli[p].pc \notin Locked BY DEF ResumeReads, Locked, Resuming
<1>2. UNCHANGED <<task, checkpoint, counters, ghosts>> BY DEF ResumeReads
<1>3. checkpoint \in BOOLEAN /\ stops \in 0..MaxStops BY DEF IInv
<1>4. CASE /\ closer = NoProc /\ Active(task.closeout) /\ closer' = p
           /\ cli' = [cli EXCEPT ![p].pc = "validate", ![p].seen = Read(task)]
  BY <1>2, <1>4, LocksAndReads
<1>5. CASE Leave(p) /\ closer' = closer
  BY <1>1, <1>2, <1>3, <1>5, LeavingInv DEF counters
<1> QED BY <1>4, <1>5 DEF ResumeReads

(* The steps of a resumption that only move on, under the lock it has.     *)
LEMMA ResumeStepsInv ==
    ASSUME IInv, NEW p \in Proc, Validates(p) \/ CleanupFails(p) \/ LogsCompletion(p)
    PROVE  IInv'
<1>1. checkpoint \in BOOLEAN /\ stops \in 0..MaxStops BY DEF IInv
<1>2. /\ cli[p].pc \in Locked /\ cli[p].pc # "asking"
      /\ UNCHANGED <<task, counters, ghosts>> /\ checkpoint' \in BOOLEAN
  BY <1>1 DEF Validates, CleanupFails, LogsCompletion, Locked, Resuming
<1>3. ASSUME NEW x \in {"finish", "complete", "block"}, Go(p, x), closer' = closer PROVE IInv'
  <2>1. x \in Claiming \cup Finishing \cup Resuming /\ x \in Locked /\ x # "asking"
    BY DEF Resuming, Locked
  <2> QED BY <1>2, <1>3, <2>1, GoingInv
<1>4. CASE Validates(p) BY <1>3, <1>4 DEF Validates
<1>5. CASE CleanupFails(p) BY <1>3, <1>5 DEF CleanupFails
<1>6. CASE LogsCompletion(p)
  <2>1. CASE Leave(p) /\ Unlock(p) BY <1>1, <1>2, <2>1, LeavingInv DEF counters
  <2>2. CASE Go(p, "block") /\ closer' = closer BY <1>3, <2>2
  <2> QED BY <1>6, <2>1, <2>2 DEF LogsCompletion
<1> QED BY <1>4, <1>5, <1>6

(* Completion of the row, by any of its four ways.                         *)
LEMMA CompleteInv ==
    ASSUME RowInv, Write(Updated(task, "completed")),
           claims' = claims, requests' = requests
    PROVE  RowInv'
<1> DEFINE u == Updated(task, "completed")
<1>1. RowOK(task) BY ClaimCounted
<1>2. RowOK(u) /\ u.status = "completed" /\ u.claimed_at = 0 /\ u.closeout = task.closeout
  BY <1>1, CompletedRow
<1> HIDE DEF u
<1>3. Write(u) BY DEF u
<1> QED BY <1>2, <1>3, LifecycleInv

LEMMA CompletesRequestInv ==
    ASSUME IInv, NEW p \in Proc, CompletesRequest(p)
    PROVE  IInv'
<1>1. RowInv /\ ProcInv /\ cli[p].pc \in Locked /\ cli[p].pc # "asking"
  BY DEF IInv, CompletesRequest, Locked, Resuming
<1>2. claims' = claims /\ requests' = requests /\ closer' = closer /\ checkpoint' = checkpoint
      /\ stops' = stops
  BY DEF CompletesRequest, counters
<1>3. RowInv'
  <2>1. CASE CanCompleteRequest(task, cli[p].seen.closeout.request_id)
    BY <1>1, <1>2, <2>1, CompleteInv DEF CompletesRequest
  <2>2. CASE ~CanCompleteRequest(task, cli[p].seen.closeout.request_id)
    BY <1>1, <1>2, <2>2, QuietInv DEF CompletesRequest, ghosts
  <2> QED BY <2>1, <2>2
<1>4. PICK x \in {"finish", "block"} : Go(p, x) BY DEF CompletesRequest
<1>5. x \in Claiming \cup Finishing \cup Resuming /\ x \in Locked /\ x # "asking"
  BY DEF Resuming, Locked
<1>6. ProcInv' BY <1>1, <1>2, <1>4, <1>5, GoInv
<1> QED BY <1>2, <1>3, <1>6 DEF IInv

(* Another state of the request the row already has.                       *)
LEMMA StoreInv ==
    ASSUME RowInv, NEW c \in Closeout, c.kind = "local", task.closeout.kind = "local",
           c.request_id = task.closeout.request_id,
           NEW u, u = [task EXCEPT !.closeout = c], Write(u), claims' = claims, requests' = requests
    PROVE  RowInv'
<1>1. task.claimed_at \in 0..MaxClaims /\ RowOK(task) BY ClaimCounted
<1>2. Stored(u, task, c) BY <1>1, StoredRow
<1>3. WriteUnder(task.claimed_at, u) BY DEF Write
<1>4. task.claimed_at <= claims' /\ claims' >= claims /\ requests' >= requests
      /\ claims' \in 0..MaxClaims /\ requests' \in 0..MaxRequests
  BY ProcAssumption DEF RowInv
<1>5. u.status = "pending" /\ u.acceptance.state = "success" => u.claimed_at = 0
  BY <1>2 DEF Stored, RowInv, GivenUp
<1> QED BY <1>1, <1>2, <1>3, <1>4, <1>5, WriteInv DEF Stored

LEMMA FinishesCleanupInv ==
    ASSUME IInv, NEW p \in Proc, FinishesCleanup(p)
    PROVE  IInv'
<1>1. RowInv /\ ProcInv /\ cli[p].pc \in Locked /\ cli[p].pc # "asking"
  BY DEF IInv, FinishesCleanup, Locked, Resuming
<1>2. claims' = claims /\ requests' = requests /\ closer' = closer /\ stops' = stops
      /\ checkpoint' \in BOOLEAN
  BY DEF FinishesCleanup, counters
<1> DEFINE c == [task.closeout EXCEPT !.state = "complete"]
           u == Finished(task)
<1>3. task \in Row BY <1>1, ClaimCounted
<1>4. task.closeout \in Closeout /\ task.closeout.kind = "local"
  BY <1>3, RowFields DEF FinishesCleanup, CanFinish
<1>5. c \in Closeout /\ c.kind = "local" /\ c.request_id = task.closeout.request_id
  BY <1>4 DEF Closeout
<1>6. u = [task EXCEPT !.closeout = c] /\ Write(u) BY <1>3 DEF Finished, FinishesCleanup, Row
<1> HIDE DEF c, u
<1>7. RowInv' BY <1>1, <1>2, <1>4, <1>5, <1>6, StoreInv
<1>8. "log" \in Resuming /\ "log" \in Locked /\ "log" # "asking" BY DEF Resuming, Locked
<1>9. ProcInv' BY <1>1, <1>2, <1>8, GoInv DEF FinishesCleanup
<1> QED BY <1>2, <1>7, <1>9 DEF IInv

(* A late blocked write finds the request it read, or writes nothing: a    *)
(* history closeout has no request id.                                     *)
LEMMA BlocksInv ==
    ASSUME IInv, NEW p \in Proc, Blocks(p)
    PROVE  IInv'
<1>1. RowInv /\ ProcInv /\ cli[p].pc = "block" BY DEF IInv, Blocks
<1>2. claims' = claims /\ requests' = requests BY DEF Blocks, counters
<1> DEFINE seen == cli[p].seen.closeout
           c == [seen EXCEPT !.state = "blocked"]
           u == Blocked(task, seen)
<1>3. cli[p] \in Session BY <1>1 DEF ProcInv
<1>4. seen \in Closeout BY <1>3 DEF Session
<1>5. seen.kind = "local" /\ seen.request_id \in 1..requests
  BY <1>1 DEF ProcInv, HasRead, Resuming
<1>6. c \in Closeout /\ c.kind = "local" /\ c.request_id = seen.request_id
  BY <1>4, <1>5 DEF Closeout
<1>7. u = [task EXCEPT !.closeout = c] BY DEF Blocked
<1>8. Write(IF CanBlock(task, seen) THEN u ELSE task) BY DEF Blocks
<1> HIDE DEF seen, c, u
<1>9. RowInv'
  <2>1. CASE CanBlock(task, seen)
    <3>1. task.closeout.request_id = seen.request_id BY <2>1 DEF CanBlock
    <3>2. task.closeout.kind = "local"
      <4>1. seen.request_id # 0 BY <1>1, <1>5 DEF RowInv
      <4> QED BY <1>1, <3>1, <4>1 DEF RowInv, RowOK
    <3>3. Write(u) BY <1>8, <2>1
    <3> QED BY <1>1, <1>2, <1>6, <1>7, <3>1, <3>2, <3>3, StoreInv
  <2>2. CASE ~CanBlock(task, seen)
    BY <1>1, <1>2, <1>8, <2>2, SameInv
  <2> QED BY <2>1, <2>2
<1>10. ProcInv' BY <1>1, <1>2, LeaveInv DEF Blocks
<1> QED BY <1>9, <1>10 DEF IInv, Blocks, counters

LEMMA ClosesOwnedInv ==
    ASSUME IInv, NEW p \in Proc, ClosesOwned(p)
    PROVE  IInv'
<1>1. RowInv /\ ProcInv /\ cli[p].pc \notin Locked BY DEF IInv, ClosesOwned, Locked, Resuming
<1>2. claims' = claims /\ requests' = requests /\ closer' = closer /\ stops' = stops
      /\ checkpoint' = checkpoint
  BY DEF ClosesOwned, counters
<1>3. CASE Leave(p) /\ UNCHANGED <<task, ghosts>>
  <2>1. RowInv' BY <1>1, <1>2, <1>3, QuietInv DEF ghosts
  <2>2. ProcInv' BY <1>1, <1>2, <1>3, LeaveInv
  <2> QED BY <1>2, <2>1, <2>2 DEF IInv
<1>4. CASE /\ CanCompleteOwned(task, cli[p].claim)
           /\ Write(Updated(task, "completed"))
           /\ cli' = [cli EXCEPT ![p] = IF cli[p].had
                        THEN [cli[p] EXCEPT !.pc = "clean_record", !.seen = Read(Updated(task, "completed"))]
                        ELSE Idle]
  <2> DEFINE u == Updated(task, "completed")
  <2>1. RowInv' BY <1>1, <1>2, <1>4, CompleteInv
  <2>2. RowOK(task) BY <1>1, ClaimCounted
  <2>3. u \in Row BY <2>2, CompletedRow DEF RowOK
  <2>4. CASE ~cli[p].had
    <3>1. Leave(p) BY <1>4, <2>4 DEF Leave
    <3>2. ProcInv' BY <1>1, <1>2, <3>1, LeaveInv
    <3> QED BY <1>2, <2>1, <3>2 DEF IInv
  <2>5. CASE cli[p].had
    <3> DEFINE r == [cli[p] EXCEPT !.pc = "clean_record", !.seen = Read(u)]
    <3>1. cli' = [cli EXCEPT ![p] = r] BY <1>4, <2>5
    <3>2. cli[p] \in Session BY <1>1 DEF ProcInv
    <3> HIDE DEF u
    <3>3. r \in Session /\ r.pc = "clean_record" BY <2>3, <3>2, ReadRow DEF Session, Finishing
    <3>4. r.pc \notin Locked /\ HasRead(r, requests') /\ r.pc # "asking"
      BY <3>3 DEF Locked, Resuming, HasRead
    <3>5. closer # p BY <1>1 DEF ProcInv
    <3>6. requests' \in Nat /\ requests' >= requests BY <1>1, <1>2, ProcAssumption DEF RowInv
    <3> HIDE DEF r
    <3>7. ProcInv' BY <1>1, <1>2, <3>1, <3>3, <3>4, <3>5, <3>6, MoveInv
    <3> QED BY <1>2, <2>1, <3>7 DEF IInv
  <2> QED BY <2>4, <2>5
<1> QED BY <1>3, <1>4 DEF ClosesOwned

LEMMA WorldInv ==
    ASSUME IInv, World
    PROVE  IInv'
<1>1. RowInv /\ ProcInv BY DEF IInv
<1>2. /\ claims' = claims /\ requests' = requests /\ closer' = closer /\ cli' = cli
      /\ stops' = stops /\ checkpoint' = checkpoint
  BY DEF World, UpdatesStatus, CompletesByApi, AddsCommit, HandsOver, LockExpires, ResetsExpired, counters
<1>3. ProcInv' BY <1>1, <1>2, StayInv
<1>4. RowOK(task) /\ task \in Row BY <1>1, ClaimCounted
<1>5. ASSUME NEW s \in Status, UpdatesStatus(s) PROVE RowInv'
  <2> DEFINE u == Updated(task, s)
  <2>1. /\ RowOK(u) /\ u.claimed_at \in {0, task.claimed_at}
        /\ u.acceptance.state # "success" /\ u.closeout.kind # "local"
    BY <1>4, <1>5, MovedRow DEF UpdatesStatus
  <2>2. Write(u) BY <1>5 DEF UpdatesStatus
  <2> HIDE DEF u
  <2> QED BY <1>1, <1>2, <2>1, <2>2, LifecycleInv
<1>6. ASSUME NEW skip \in BOOLEAN, CompletesByApi(skip) PROVE RowInv'
  BY <1>1, <1>2, <1>6, CompleteInv DEF CompletesByApi
<1>7. ASSUME LockExpires PROVE RowInv'
  <2>1. /\ task' \in Row /\ task'.lock = "expired" /\ task'.status = task.status
        /\ task'.claimed_by = task.claimed_by /\ task'.claimed_at = task.claimed_at
        /\ task'.acceptance = task.acceptance /\ task'.closeout = task.closeout
    BY <1>4, <1>7 DEF LockExpires, Row
  <2>2. task.lock = "live" /\ UNCHANGED <<evidence, asked, dead>> BY <1>7 DEF LockExpires, ghosts
  <2>3. RowOK(task)' BY <1>4, <2>1, <2>2 DEF RowOK
  <2> QED BY <1>1, <1>2, <2>1, <2>2, <2>3 DEF RowInv, AcceptanceOfThisClaim, SupersededStaysDead, GivenUp
<1>8. ASSUME ResetsExpired PROVE RowInv'
  <2> DEFINE u == Reset(task)
  <2>1. /\ RowOK(u) /\ u.status = "pending" /\ u.claimed_at = 0
        /\ u.closeout.kind = "local" => u.closeout = task.closeout
        /\ u.acceptance.state # "success"
    BY <1>4, ResetRow
  <2>2. Write(u) BY <1>8 DEF ResetsExpired
  <2> HIDE DEF u
  <2> QED BY <1>1, <1>2, <2>1, <2>2, LifecycleInv
<1>9. task.claimed_at \in 0..MaxClaims /\ task.claimed_at <= claims' /\ 0 <= claims'
      /\ claims' >= claims /\ requests' >= requests
      /\ claims' \in 0..MaxClaims /\ requests' \in 0..MaxRequests
  BY <1>1, <1>2, ClaimCounted, ProcAssumption DEF RowInv
<1>10. ASSUME NEW s \in Landed, AddsCommit(s) PROVE RowInv'
  <2> DEFINE u == Committed(task, s)
  <2>1. /\ RowOK(u) /\ u.status = task.status /\ u.claimed_at = task.claimed_at
        /\ u.closeout = task.closeout
        /\ u.acceptance = task.acceptance \/ u.acceptance.state # "success"
    BY <1>4, CommittedRow
  <2>2. WriteUnder(task.claimed_at, u) BY <1>10 DEF AddsCommit, Write
  <2> HIDE DEF u
  <2>3. u.status = "pending" /\ u.acceptance.state = "success" => u.claimed_at = 0
    BY <1>1, <2>1 DEF RowInv, GivenUp
  <2> QED BY <1>1, <1>9, <2>1, <2>2, <2>3, WriteInv
<1>11. ASSUME NEW q \in 1..requests, HandsOver(q) PROVE RowInv'
  <2> DEFINE u == HandedOver(task)
  <2>1. /\ RowOK(u) /\ u.status = "pending" /\ u.claimed_at = 0
        /\ u.acceptance = task.acceptance /\ u.closeout = task.closeout
    BY <1>4, HandedOverRow
  <2>2. WriteUnder(task.claimed_at, u) /\ task.status \in {"pending", "running"}
    BY <1>11 DEF HandsOver, CanHandOver, Write
  <2> HIDE DEF u
  <2> QED BY <1>1, <1>9, <2>1, <2>2, WriteInv
<1> QED BY <1>2, <1>3, <1>5, <1>6, <1>7, <1>8, <1>10, <1>11 DEF IInv, World
----------------------------------------------------------------------------
LEMMA InitInv == Init => IInv
<1> SUFFICES ASSUME Init PROVE IInv OBVIOUS
<1>1. NewRow \in Row
  BY DEF NewRow, NoAcceptance, NoCloseout, Row, Acceptance, Closeout, Status
<1>2. RowOK(NewRow) BY <1>1 DEF NewRow, NoAcceptance, NoCloseout, RowOK
<1>3. RowInv
  BY <1>2, ProcAssumption DEF Init, RowInv, NewRow, NoAcceptance, NoCloseout, AcceptanceOfThisClaim, SupersededStaysDead, GivenUp
<1>4. ProcInv
  BY IdleSession, ProcAssumption DEF Init, ProcInv, HasRead, Locked, Resuming
<1>5. checkpoint \in BOOLEAN BY DEF Init
<1>6. stops \in 0..MaxStops BY ProcAssumption DEF Init
<1> QED BY <1>3, <1>4, <1>5, <1>6 DEF IInv

LEMMA NextInv == IInv /\ [Next]_vars => IInv'
<1> SUFFICES ASSUME IInv, [Next]_vars PROVE IInv' OBVIOUS
<1>1. CASE UNCHANGED vars
  <2>1. RowInv' /\ ProcInv' BY <1>1, QuietInv, StayInv DEF IInv, vars
  <2> QED BY <1>1, <2>1 DEF IInv, vars
<1>2. CASE World BY <1>2, WorldInv
<1>3. ASSUME NEW p \in Proc, Starts(p) \/ Stops(p) PROVE IInv'
  BY <1>3, ClaimReadsInv, DoneReadsInv, DoneStepsInv DEF Starts
<1>4. ASSUME NEW p \in Proc, Step(p) PROVE IInv'
  BY <1>4, RenewsClaimInv, ClaimsAgainInv, ClaimsInv, ClaimStepsInv, ReleasesInv, OwnsInv,
     AcceptsWorkInv, RequestReadsInv, RequestsInv, DoneStepsInv, ResumeReadsInv, ResumeStepsInv,
     CompletesRequestInv, FinishesCleanupInv, BlocksInv, ClosesOwnedInv DEF Step
<1> QED BY <1>1, <1>2, <1>3, <1>4 DEF Next

(* The strengthened invariant holds in every behaviour.                    *)
THEOREM Inductive == Spec => []IInv
BY InitInv, NextInv, PTL DEF Spec

(* The row, the sessions and the counters keep their types, a row has a    *)
(* claim time and a lock exactly when it has an owner, and exactly one     *)
(* process holds the closeout lock: the one inside request or resume.      *)
THEOREM TypeCorrect == Spec => []TypeOK
<1>1. IInv => TypeOK
  <2> SUFFICES ASSUME IInv PROVE TypeOK OBVIOUS
  <2>1. dead \subseteq 1..MaxRequests
    <3>1. requests \in Nat /\ requests <= MaxRequests /\ dead \subseteq 1..requests
      BY ProcAssumption DEF IInv, RowInv
    <3> QED BY <3>1, ProcAssumption
  <2> QED BY <2>1 DEF IInv, RowInv, RowOK, ProcInv, TypeOK, Session
<1> QED BY <1>1, Inductive, PTL

(* No claim inherits an earlier claim's acceptance.                        *)
THEOREM AcceptanceProved == Spec => []AcceptanceOfThisClaim
<1>1. IInv => AcceptanceOfThisClaim BY DEF IInv, RowInv
<1> QED BY <1>1, Inductive, PTL

(* A superseded closeout request never becomes the task's closeout again.  *)
THEOREM SupersededProved == Spec => []SupersededStaysDead
<1>1. IInv => SupersededStaysDead BY DEF IInv, RowInv
<1> QED BY <1>1, Inductive, PTL

(* What a step leaves in a completed row: it completed the row past the    *)
(* gate, left status and evidence alone, or recorded a commit.             *)
LEMMA CompletedSteps ==
    ASSUME IInv, Next
    PROVE  \/ task'.status # "completed"
           \/ /\ task'.acceptance = task.acceptance /\ task'.commits = task.commits
              /\ task'.status = task.status \/ ~Gated(task)
           \/ task'.status = task.status /\ task'.commits # task.commits
<1>1. RowOK(task) BY DEF IInv, RowInv
<1> DEFINE Kept(u) == u.acceptance = task.acceptance /\ u.commits = task.commits /\ u.status = task.status
           Fine(u) == \/ u.status # "completed"
                      \/ /\ u.acceptance = task.acceptance /\ u.commits = task.commits
                         /\ u.status = task.status \/ ~Gated(task)
                      \/ u.status = task.status /\ u.commits # task.commits
<1>2. ASSUME NEW w \in Worker, CanRenew(task, w) PROVE Kept(Renewed(task))
  <2>1. task.status = "running" /\ task.claimed_by # NoWorker BY <1>2, RowAssumption DEF CanRenew
  <2> QED BY <1>1, <2>1, RenewedRow
<1>3. ~Gated(task) => Fine(Updated(task, "completed")) BY <1>1, CompletedRow
<1>4. CASE World
  <2>1. ASSUME NEW s \in Status, UpdatesStatus(s) PROVE Fine(task')
    BY <1>1, <2>1, MovedRow DEF UpdatesStatus, Write, WriteUnder
  <2>2. ASSUME NEW skip \in BOOLEAN, CompletesByApi(skip) PROVE Fine(task')
    BY <1>3, <2>2 DEF CompletesByApi, Write, WriteUnder
  <2>3. ASSUME NEW s \in Landed, AddsCommit(s) PROVE Fine(task')
    BY <1>1, <2>3, CommittedRow DEF AddsCommit, Write, WriteUnder
  <2>4. ASSUME NEW q \in 1..requests, HandsOver(q) PROVE Fine(task')
    BY <1>1, <2>4, HandedOverRow DEF HandsOver, Write, WriteUnder
  <2>5. CASE LockExpires
    <3>1. task \in Row BY <1>1 DEF RowOK
    <3> QED BY <2>5, <3>1 DEF LockExpires, Row
  <2>6. CASE ResetsExpired
    BY <1>1, <2>6, ResetRow DEF ResetsExpired, Write, WriteUnder
  <2> QED BY <1>4, <2>1, <2>2, <2>3, <2>4, <2>5, <2>6 DEF World
<1>5. ASSUME NEW p \in Proc, Starts(p) \/ Stops(p) PROVE task' = task
  BY <1>5 DEF Starts, Stops, ClaimReads, DoneReads
<1>6. ASSUME NEW p \in Proc, Step(p) PROVE Fine(task')
  <2>1. WorkerOf[p] \in Worker BY ProcAssumption
  <2>2. CASE RenewsClaim(p) BY <1>2, <2>1, <2>2 DEF RenewsClaim, Write, WriteUnder
  <2>3. CASE ClaimsAgain(p) BY <1>2, <2>1, <2>3 DEF ClaimsAgain, Write, WriteUnder
  <2>4. CASE Claims(p)
    <3>1. claims + 1 \in Nat \ {0} BY ProcAssumption DEF IInv, RowInv
    <3>2. Claimed(task, WorkerOf[p], claims + 1).status = "running" BY <1>1, <2>1, <3>1, ClaimedRow
    <3> QED BY <2>4, <3>2 DEF Claims, Write, WriteUnder
  <2>5. CASE Releases(p) BY <1>1, <2>5, ReleasedRow DEF Releases, Write, WriteUnder
  <2>6. CASE Owns(p) BY <1>2, <2>1, <2>6 DEF Owns, Write, WriteUnder
  <2>7. ASSUME NEW s \in Source, AcceptsWork(p, s) PROVE Fine(task')
    BY <1>1, <2>7, AttachedRow DEF AcceptsWork, CanAttach, SameClaim, WriteUnder
  <2>8. CASE Requests(p)
    <3>1. task \in Row BY <1>1 DEF RowOK
    <3>2. Requested(task, requests + 1, cli[p].source).status = task.status BY <3>1 DEF Requested, Row
    <3> QED BY <2>8, <3>2 DEF Requests, CanRequest, SameClaim, WriteUnder
  <2>9. CASE CompletesRequest(p)
    BY <1>3, <2>9 DEF CompletesRequest, CanCompleteRequest, Write, WriteUnder
  <2>10. CASE ClosesOwned(p)
    BY <1>3, <2>10 DEF ClosesOwned, CanCompleteOwned, Write, WriteUnder
  <2>11. CASE FinishesCleanup(p)
    <3>1. task \in Row BY <1>1 DEF RowOK
    <3>2. Kept(Finished(task)) BY <3>1 DEF Finished, Row
    <3> QED BY <2>11, <3>2 DEF FinishesCleanup, Write, WriteUnder
  <2>12. CASE Blocks(p)
    <3>1. task \in Row BY <1>1 DEF RowOK
    <3>2. Kept(Blocked(task, cli[p].seen.closeout)) BY <3>1 DEF Blocked, Row
    <3> QED BY <2>12, <3>2 DEF Blocks, Write, WriteUnder
  <2>13. CASE UNCHANGED task BY <2>13
  <2> QED BY <1>6, <2>2, <2>3, <2>4, <2>5, <2>6, <2>7, <2>8, <2>9, <2>10, <2>11, <2>12, <2>13
    DEF Step, ClaimRefused, CreatesSnapshot, SnapshotFails, ReleaseReads, OwnRefused, AcceptFails,
        RequestReads, RequestSuperseded, ResumeReads, Validates, CleanupSuperseded, CleanupFails,
        LogsCompletion, CleansCompleted
<1> QED BY <1>4, <1>5, <1>6 DEF Next

(* A task that needs acceptance is completed only with it, whichever of    *)
(* the four ways completes it; a completed row without one had a commit    *)
(* recorded on it afterwards.                                              *)
THEOREM EvidenceProved == Spec => CompletedOnEvidence
<1> DEFINE A == task'.status = "completed" /\ Gated(task')
         => task.status = "completed" /\ (Gated(task) \/ task'.commits # task.commits)
<1>1. IInv /\ [Next]_vars => [A]_vars
  <2> SUFFICES ASSUME IInv, Next, task'.status = "completed", Gated(task')
               PROVE  task.status = "completed" /\ (Gated(task) \/ task'.commits # task.commits)
    BY DEF vars
  <2>1. task'.acceptance = task.acceptance /\ task'.commits = task.commits => Gated(task)
    BY DEF Gated, Requires
  <2> QED BY <2>1, CompletedSteps
<1> QED BY <1>1, Inductive, PTL DEF Spec, CompletedOnEvidence

(* A resumption completes an open task on the acceptance of the claim that *)
(* asked for the closeout, inside that claim or once it was given up.      *)
THEOREM RequestClaimProved == Spec => RequestCompletesItsClaim
<1> DEFINE A == \A p \in Proc :
         cli[p].pc = "complete" /\ task.status # "completed" /\ task'.status = "completed"
             /\ cli'[p].pc = "finish"
           => evidence = asked /\ task.claimed_at \in {asked, 0}
<1>1. IInv /\ [Next]_vars => [A]_vars
  <2> SUFFICES ASSUME IInv, Next, NEW p \in Proc, cli[p].pc = "complete",
                      task.status # "completed", task'.status = "completed", cli'[p].pc = "finish"
               PROVE  evidence = asked /\ task.claimed_at \in {asked, 0}
    BY DEF vars
  <2>1. cli \in [Proc -> Session] BY DEF IInv, ProcInv
  <2>2. cli'[p] # cli[p] OBVIOUS
  <2>3. CompletesRequest(p)
    <3>1. PICK q \in Proc : Starts(q) \/ Step(q) \/ Stops(q)
      BY <2>2 DEF Next, World, UpdatesStatus, CompletesByApi, AddsCommit, HandsOver, LockExpires, ResetsExpired
    <3>2. q = p
      <4> SUFFICES ASSUME q # p PROVE cli'[p] = cli[p] BY <2>2
      <4>1. CASE Starts(q)
        BY <2>1, <4>1 DEF Starts, ClaimReads, DoneReads
      <4>2. CASE Stops(q) BY <2>1, <4>2 DEF Stops, Leave
      <4>3. CASE Step(q)
        BY <2>1, <4>3 DEF Step, RenewsClaim, ClaimsAgain, Claims, ClaimRefused, CreatesSnapshot,
           SnapshotFails, ReleaseReads, Releases, Owns, OwnRefused, AcceptFails, AcceptsWork,
           RequestReads, Requests, RequestSuperseded, ResumeReads, Validates, CompletesRequest,
           FinishesCleanup, CleanupSuperseded, CleanupFails, LogsCompletion, Blocks, ClosesOwned,
           CleansCompleted, Go, Leave
      <4> QED BY <3>1, <4>1, <4>2, <4>3
    <3>3. ~Starts(p) BY DEF Starts, ClaimReads, DoneReads
    <3>4. ~Stops(p)
      <4>1. Idle.pc # "finish" BY IdleSession
      <4> QED BY <2>1, <4>1 DEF Stops, Leave
    <3> QED BY <3>1, <3>2, <3>3, <3>4
      DEF Step, RenewsClaim, ClaimsAgain, Claims, ClaimRefused, CreatesSnapshot,
          SnapshotFails, ReleaseReads, Releases, Owns, OwnRefused, AcceptFails, AcceptsWork,
          RequestReads, Requests, RequestSuperseded, ResumeReads, Validates,
          FinishesCleanup, CleanupSuperseded, CleanupFails, LogsCompletion, Blocks, ClosesOwned,
          CleansCompleted
  <2>4. CanCompleteRequest(task, cli[p].seen.closeout.request_id)
    BY <2>1, <2>3 DEF CompletesRequest, ghosts
  <2>5. task.closeout.kind = "local" /\ task.acceptance.state = "success"
        /\ task.status \in {"pending", "running"}
    BY <2>4 DEF CanCompleteRequest, Accepted
  <2>6. CASE task.status = "running" BY <2>5, <2>6 DEF IInv, RowInv, AcceptanceOfThisClaim
  <2>7. CASE task.status = "pending" BY <2>5, <2>7 DEF IInv, RowInv, GivenUp
  <2> QED BY <2>5, <2>6, <2>7
<1> QED BY <1>1, Inductive, PTL DEF Spec, RequestCompletesItsClaim

(* Completion's cleanup takes the checkpoint only of a completed task.     *)
THEOREM CleanupProved == Spec => CleanupSparesOpenWork
<1> DEFINE B == checkpoint /\ ~checkpoint' =>
                  task.status = "completed" \/ \E p \in Proc : cli[p].pc = "snapshot"
<1>1. IInv /\ [Next]_vars => [B]_vars
  <2> SUFFICES ASSUME IInv, Next, checkpoint, ~checkpoint'
               PROVE  task.status = "completed" \/ \E p \in Proc : cli[p].pc = "snapshot"
    BY DEF vars
  <2>1. PICK p \in Proc : SnapshotFails(p) \/ FinishesCleanup(p) \/ CleanupFails(p) \/ CleansCompleted(p)
    BY DEF Next, World, UpdatesStatus, CompletesByApi, AddsCommit, HandsOver, LockExpires, ResetsExpired, Starts,
       ClaimReads, DoneReads, Stops, Step, RenewsClaim, ClaimsAgain, Claims, ClaimRefused,
       CreatesSnapshot, ReleaseReads, Releases, Owns, OwnRefused, AcceptFails, AcceptsWork,
       RequestReads, Requests, RequestSuperseded, ResumeReads, Validates, CompletesRequest,
       CleanupSuperseded, LogsCompletion, Blocks, ClosesOwned
  <2> QED BY <2>1 DEF SnapshotFails, FinishesCleanup, CleanupFails, CleansCompleted, CanFinish,
                      CanCleanCompleted
<1> QED BY <1>1, Inductive, PTL DEF Spec, CleanupSparesOpenWork
============================================================================
