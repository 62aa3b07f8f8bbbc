---------------------------- MODULE HostProofs ----------------------------
(***************************************************************************)
(* Safety of the host backup for any subvolumes, dumps and guests and any  *)
(* number of runs, copies and faults: what last-good names can be          *)
(* restored, a copy reads one run, and Drive keeps what a recorded success *)
(* stands for.  The inductive invariant says what the holder of run.lock   *)
(* has on disk at each point of a run.                                     *)
(*                                                                         *)
(* Then two smaller services of the host: the write window of a backup     *)
(* target, whose mount follows the holder files while the helper works,    *)
(* and the health cache, whose waiting requests find what was stored since *)
(* they asked.                                                             *)
(***************************************************************************)
EXTENDS HostBackup, WriteWindow, HealthCache, WellFoundedInduction, FiniteSetTheorems, TLAPS

Outside == {"off", "lock"}
Before == {"off", "lock", "recover", "admit"}
Booted == {"btrbk", "verify", "cleanup", "remove", "unlist", "publish", "local", "good"}
InCapture == {"boot", "rescue", "record"} \cup Booted
UnitOnly == {"recover", "due", "offsite", "jobs", "retain", "final", "unlink"}

Copy == 0..MaxCopies
StateType == [status : {"none", "running", "ok", "failed"}, jobs : [Job -> Copy], success : Copy,
              oks : Nat, checked : Nat]

Types ==
    /\ BackupTypeOK
    /\ state \in StateType /\ memory \in StateType /\ state.checked = 0
    /\ verify \in [checked : Nat, spot : Nat] /\ checks \in Nat /\ verify.checked <= checks
    /\ check \in [at : {"off", "check", "spot"}, jobs : [Job -> Copy]]
    /\ runs \in 0..MaxRuns /\ copies \in Copy /\ faults \in 0..MaxFaults

(* run.lock belongs to the one process that is past it.                    *)
LockInv ==
    \A p \in Runner : /\ lock = p <=> where[p] \notin Outside
                      /\ where[p] \in Before => id[p] = NoRun
                      /\ where[p] \in UnitOnly => p = "unit"

(* The run that is being captured is the newest one and not last-good.     *)
NewestOf(p) == where[p] \in InCapture => id[p] = runs /\ runs \in Run /\ good.run # runs
NewestRun ==
    /\ good.run <= runs
    /\ \A v \in Subvol : target[v] \subseteq 1..runs
    /\ \A p \in Runner : NewestOf(p)

(* What it has on the T7, in its receipts and on the source so far.        *)
OnDiskOf(p) ==
    /\ where[p] \in Booted => capture[id[p]].boot
    /\ where[p] \in {"local", "good"} => capture[id[p]].receipt = "completed"
    /\ where[p] \in {"boot", "btrbk"} => local[id[p]] = "running"
    /\ where[p] \in Booted \ {"btrbk"} \/ (id[p] # NoRun /\ local[id[p]] = "completed")
         => \A v \in Subvol : id[p] \in snaps[v]
OnDisk == \A p \in Runner : OnDiskOf(p)

(* Cleanup removes captures without points, and never its own run's.       *)
Removable ==
    /\ todo # {} => \E p \in Runner : where[p] \in {"remove", "unlist"}
    /\ runs \notin todo
    /\ \A d \in todo : \A v \in Subvol : d \notin target[v]

(* Every required part has a copy with data at least as new as the         *)
(* success n.                                                              *)
Kept(n) == n # NoRun => \A j \in Required : \E c \in Restorable(j) : c >= n

(* A copy of every part a job or a whole copy has stored is in Drive, and  *)
(* the jobs still to run have left nothing under the number of this copy.  *)
CopyInv ==
    /\ \A j \in Job : repo[j] \subseteq 0..copies /\ blank[j] \subseteq 0..copies
    /\ Kept(state.success) /\ Kept(memory.success)
    /\ state.success <= copies /\ memory.success <= copies
    /\ where["unit"] = "offsite" => copies < MaxCopies
    /\ where["unit"] \in {"offsite", "jobs"} => \A v \in Subvol : source \in snaps[v]
    /\ where["unit"] = "jobs" =>
         \A i \in DOMAIN JobOrder :
            IF i \in DOMAIN done THEN done[i] = "ok" => copies \in Restorable(JobOrder[i])
            ELSE copies \notin repo[JobOrder[i]] \cup blank[JobOrder[i]]
    /\ where["unit"] \in {"jobs", "retain"} => copies > 0
    /\ where["unit"] = "retain" => memory.status = "ok"
    /\ where["unit"] \in {"retain", "final"} /\ memory.status = "ok" =>
         \A j \in Required : copies \in Restorable(j)

IInv ==
    /\ Types /\ LockInv /\ NewestRun /\ OnDisk /\ Removable /\ CopyInv /\ LastGoodRestorable
----------------------------------------------------------------------------
(* Naturals are well-founded: a set of them has a least element, and a     *)
(* bounded one a greatest.                                                 *)
LEMMA Least ==
    ASSUME NEW S, S \subseteq Nat, S # {}
    PROVE  \E x \in S : \A y \in S : x =< y
<1> DEFINE R == {ss \in Nat \X Nat : ss[1] < ss[2]}
<1>1. IsWellFoundedOn(R, Nat) BY NatLessThanWellFounded, Zenon DEF OpToRel
<1> HIDE DEF R
<1>2. PICK x \in S : \A y \in S : ~(<<y, x>> \in R) BY <1>1, WFMin
<1>3. \A a, b \in Nat : b < a => <<b, a>> \in R BY DEF R
<1>4. \A y \in S : x =< y
  <2> TAKE y \in S
  <2>1. x \in Nat /\ y \in Nat /\ ~(y < x) BY <1>2, <1>3
  <2> QED BY <2>1
<1> QED BY <1>4

LEMMA MinIsIn ==
    ASSUME NEW S, S \subseteq Nat, S # {}
    PROVE  Min(S) \in S
BY Least DEF Min

LEMMA MaxIsIn ==
    ASSUME NEW n \in Nat, NEW S, S \subseteq 0..n, S # {}
    PROVE  Max(S) \in S /\ \A y \in S : Max(S) >= y
<1> DEFINE T == {n - x : x \in S}
<1>1. T \subseteq Nat /\ T # {}
  <2>1. \A x \in S : n - x \in Nat OBVIOUS
  <2>2. PICK x \in S : TRUE OBVIOUS
  <2>3. n - x \in T OBVIOUS
  <2> QED BY <2>1, <2>3
<1>2. \E m \in T : \A t \in T : m =< t
  <2> HIDE DEF T
  <2> QED BY <1>1, Least
<1>3. PICK x \in S : \A y \in S : n - x =< n - y BY <1>2
<1>4. \A y \in S : x >= y
  <2> TAKE y \in S
  <2>1. x \in Nat /\ y \in Nat /\ n - x =< n - y BY <1>3
  <2> QED BY <2>1
<1> QED BY <1>4 DEF Max
----------------------------------------------------------------------------
(* Type correctness, step by step.                                         *)
LEMMA PlaceTypes ==
    ASSUME Types, NEW p \in Runner
    PROVE  /\ where[p] \in Places /\ id[p] \in Run \cup {NoRun}
           /\ \A x \in Places : [where EXCEPT ![p] = x] \in [Runner -> Places]
           /\ [id EXCEPT ![p] = NoRun] \in [Runner -> Run \cup {NoRun}]
BY DEF Types, BackupTypeOK

CaptureType == [Run -> [receipt : {"none", "failed", "completed"}, boot : BOOLEAN]]
LocalType == [Run -> {"none", "running", "failed", "completed"}]

LEMMA ReceiptTypes ==
    ASSUME Types, NEW d
    PROVE  /\ \A b \in BOOLEAN : [capture EXCEPT ![d].boot = b] \in CaptureType
           /\ \A x \in {"failed", "completed"} : [capture EXCEPT ![d].receipt = x] \in CaptureType
           /\ [capture EXCEPT ![d] = Missing] \in CaptureType
           /\ \A x \in {"none", "failed", "completed"} : [local EXCEPT ![d] = x] \in LocalType
           /\ [good EXCEPT !.expired = TRUE] \in [run : Run \cup {NoRun}, expired : BOOLEAN]
<1>1. capture \in CaptureType /\ local \in LocalType BY DEF Types, BackupTypeOK, CaptureType, LocalType
<1>2. Missing \in [receipt : {"none", "failed", "completed"}, boot : BOOLEAN] BY DEF Missing
<1>3. [capture EXCEPT ![d] = Missing] \in CaptureType BY <1>1, <1>2 DEF CaptureType
<1>4. \A b \in BOOLEAN : [capture EXCEPT ![d].boot = b] \in CaptureType BY <1>1 DEF CaptureType
<1>5. \A x \in {"failed", "completed"} : [capture EXCEPT ![d].receipt = x] \in CaptureType
  BY <1>1 DEF CaptureType
<1>6. \A x \in {"none", "failed", "completed"} : [local EXCEPT ![d] = x] \in LocalType
  BY <1>1 DEF LocalType
<1>7. [good EXCEPT !.expired = TRUE] \in [run : Run \cup {NoRun}, expired : BOOLEAN]
  BY DEF Types, BackupTypeOK
<1> QED BY <1>3, <1>4, <1>5, <1>6, <1>7

LEMMA CaptureTypes ==
    ASSUME Types, NEW p \in Runner, CaptureStep(p), LockInv, NewestRun
    PROVE  Types'
<1> USE DEF Runner, NoRun
<1>0. MaxRuns \in Nat /\ MaxCopies \in Nat /\ MaxFaults \in Nat BY BackupAssumption
<1>1. CASE Lock(p)
  BY <1>1 DEF Types, BackupTypeOK, Lock, To, captureVars, copyVars, verifyVars, outside, Places
<1>2. CASE Admit(p)
  BY <1>0, <1>2 DEF Types, BackupTypeOK, Admit, To, Stands, copyVars, verifyVars, outside, Places, Run
<1>3. CASE CopyBoot(p)
  <2>1. capture' \in CaptureType
    BY <1>3, ReceiptTypes DEF CopyBoot
  <2> QED BY <2>1, <1>3 DEF Types, BackupTypeOK, CaptureType, LocalType, CopyBoot, To, copyVars, verifyVars, outside, Places
<1>4. CASE Btrbk(p)
  BY <1>0, <1>4 DEF Types, BackupTypeOK, Btrbk, To, Stands, Fault, copyVars, verifyVars, outside, Places, NewestRun, NewestOf, InCapture, Booted
<1>5. CASE VerifyPoints(p)
  BY <1>5 DEF Types, BackupTypeOK, VerifyPoints, To, captureVars, copyVars, verifyVars, outside, Places
<1>6. CASE Cleanup(p)
  BY <1>6 DEF Types, BackupTypeOK, Cleanup, Superseded, To, copyVars, verifyVars, outside, Places
<1>7. CASE RemoveCapture(p)
  <2>1. capture' \in CaptureType BY <1>7, ReceiptTypes DEF RemoveCapture
  <2>2. Min(todo) \in Run
    <3>1. todo \subseteq Run /\ todo \subseteq Nat /\ todo # {} BY <1>7 DEF Types, BackupTypeOK, RemoveCapture, Run
    <3> QED BY <3>1, MinIsIn
  <2>3. todo' \subseteq Run /\ gone' \in Run \cup {NoRun} /\ faults' \in 0..MaxFaults
        /\ where' \in [Runner -> Places]
    BY <1>0, <1>7, <2>2 DEF Types, BackupTypeOK, RemoveCapture, To, Fault, Places
  <2> QED BY <1>7, <2>1, <2>3 DEF Types, BackupTypeOK, CaptureType, RemoveCapture, copyVars, verifyVars, outside
<1>8. CASE Unlist(p)
  <2>1. good' \in [run : Run \cup {NoRun}, expired : BOOLEAN] /\ local' \in LocalType
    BY <1>8, ReceiptTypes DEF Unlist, Types, BackupTypeOK, LocalType
  <2> QED BY <2>1, <1>0, <1>8 DEF Types, BackupTypeOK, CaptureType, LocalType, Unlist, To, Fault, copyVars, verifyVars, outside, Places
<1>9. CASE CleanedUp(p)
  BY <1>9 DEF Types, BackupTypeOK, CleanedUp, To, captureVars, copyVars, verifyVars, outside, Places
<1>10. CASE Publish(p)
  <2>1. capture' \in CaptureType
    BY <1>10, ReceiptTypes DEF Publish
  <2> QED BY <2>1, <1>10 DEF Types, BackupTypeOK, CaptureType, LocalType, Publish, To, copyVars, verifyVars, outside, Places
<1>11. CASE WriteLocal(p)
  <2>1. local' \in LocalType
    BY <1>11, ReceiptTypes DEF WriteLocal
  <2> QED BY <2>1, <1>11 DEF Types, BackupTypeOK, CaptureType, LocalType, WriteLocal, To, copyVars, verifyVars, outside, Places
<1>12. CASE WriteGood(p)
  BY <1>12 DEF Types, BackupTypeOK, WriteGood, Captured, Ends, To, Stands, copyVars, verifyVars, outside, Places, NewestRun, NewestOf, InCapture, Booted
<1>13. CASE Rescue(p)
  <2>1. capture' \in CaptureType
    <3>1. capture \in CaptureType BY DEF Types, BackupTypeOK, CaptureType
    <3>2. [capture EXCEPT ![id[p]].receipt = "failed"] \in CaptureType BY ReceiptTypes
    <3>3. capture' \in {capture, [capture EXCEPT ![id[p]].receipt = "failed"]} BY <1>13 DEF Rescue
    <3> QED BY <3>1, <3>2, <3>3
  <2> QED BY <2>1, <1>0, <1>13 DEF Types, BackupTypeOK, CaptureType, LocalType, Rescue, Fault, To, copyVars, verifyVars, outside, Places
<1>14. CASE Record(p)
  <2>1. local' \in LocalType
    BY <1>14, ReceiptTypes DEF Record
  <2> QED BY <2>1, <1>14 DEF Types, BackupTypeOK, CaptureType, LocalType, Record, Captured, Ends, To, copyVars, verifyVars, outside, Places
<1>15. CASE NotReady(p)
  BY <1>0, <1>15 DEF Types, BackupTypeOK, NotReady, Fault, Captured, Ends, To, copyVars, verifyVars, outside, Places
<1> QED BY <1>1, <1>2, <1>3, <1>4, <1>5, <1>6, <1>7, <1>8, <1>9, <1>10, <1>11, <1>12, <1>13, <1>14, <1>15
       DEF CaptureStep

(* What state.json is written from.                                        *)
LEMMA StateTypes ==
    ASSUME NEW m \in StateType
    PROVE  /\ Written(m) \in StateType /\ Written(m).checked = 0
           /\ Written(m).status = m.status /\ Written(m).success = m.success
           /\ \A x \in {"none", "running", "ok", "failed"} :
                /\ [m EXCEPT !.status = x] \in StateType
                /\ [m EXCEPT !.status = x].status = x
                /\ [m EXCEPT !.status = x].success = m.success
                /\ [m EXCEPT !.status = x].checked = m.checked
           /\ \A n \in Nat : [m EXCEPT !.checked = n] \in StateType /\ [m EXCEPT !.checked = n].success = m.success
BY DEF StateType, Written

LEMMA ReadTypes ==
    ASSUME Types
    PROVE  Read \in StateType /\ Read.success = state.success /\ Read.checked = verify.checked
<1>1. state \in StateType /\ verify.checked \in Nat /\ state.checked = 0 BY DEF Types
<1>2. CASE verify.checked = 0 BY <1>1, <1>2 DEF Read
<1>3. CASE verify.checked # 0
  <2>1. Read = [state EXCEPT !.checked = verify.checked] BY <1>3 DEF Read
  <2>2. Read \in StateType /\ Read.success = state.success BY <1>1, <2>1, StateTypes
  <2>3. Read.checked = verify.checked BY <1>1, <2>1 DEF StateType
  <2> QED BY <2>2, <2>3
<1> QED BY <1>2, <1>3

LEMMA CopyTypes ==
    ASSUME Types, CopyStep, CopyInv
    PROVE  Types'
<1> USE DEF Runner, NoRun
<1>0. MaxRuns \in Nat /\ MaxCopies \in Nat /\ MaxFaults \in Nat /\ copies \in Nat BY BackupAssumption DEF Types, Copy
<1>a. state \in StateType /\ memory \in StateType BY DEF Types
<1>1. CASE Recover
  <2>1. state' \in StateType /\ state'.checked = 0
    BY <1>1, <1>a, StateTypes DEF Recover, Types
  <2>2. where' \in [Runner -> Places] BY <1>1 DEF Recover, To, Types, BackupTypeOK, Places
  <2>3. UNCHANGED <<lock, flag, force, today, faults, captureVars, copyVars, verifyVars, outside>> BY <1>1 DEF Recover
  <2> QED BY <2>1, <2>2, <2>3 DEF Types, BackupTypeOK, StateType, captureVars, copyVars, verifyVars, outside
<1>2. CASE Decide
  <2>1. source' \in Run \cup {NoRun} BY <1>2 DEF Decide, Points, Types, BackupTypeOK
  <2>2. where' \in [Runner -> Places] /\ lock' \in Runner \cup {"none"} /\ id' \in [Runner -> Run \cup {NoRun}]
    BY <1>2 DEF Types, BackupTypeOK, Decide, To, Ends, Places
  <2> QED BY <1>2, <2>1, <2>2 DEF Types, BackupTypeOK, Decide, verifyVars, outside
<1>3. CASE BeginCopy
  <2>1. memory' \in StateType BY <1>3, StateTypes, ReadTypes DEF BeginCopy
  <2>2. state' \in StateType /\ state'.checked = 0 BY <1>3, <2>1, StateTypes DEF BeginCopy
  <2>3. copies' \in Copy BY <1>0, <1>3 DEF BeginCopy, Stands, CopyInv, Copy
  <2>4. done' \in Seq({"ok", "failed", "offline"}) /\ Len(done') <= Len(JobOrder)
    BY <1>3, BackupAssumption DEF BeginCopy
  <2>5. where' \in [Runner -> Places] BY <1>3 DEF BeginCopy, To, Types, BackupTypeOK, Places
  <2> QED BY <1>3, <2>1, <2>2, <2>3, <2>4, <2>5
    DEF Types, BackupTypeOK, StateType, BeginCopy, SourceJobs, captureVars, verifyVars, outside
<1>4. CASE RunJob
  <2>1. state' \in StateType /\ state'.checked = 0 /\ memory' \in StateType
    BY <1>4, <1>a, StateTypes DEF RunJob
  <2>2. done' \in Seq({"ok", "failed", "offline"}) /\ Len(done') <= Len(JobOrder)
    <3>1. PICK x \in {"ok", "failed", "offline"} : done' = Append(done, x) BY <1>4 DEF RunJob
    <3>2. done \in Seq({"ok", "failed", "offline"}) /\ Len(done) < Len(JobOrder) /\ JobOrder \in Seq(Job)
      BY <1>4, BackupAssumption DEF RunJob, Types, BackupTypeOK
    <3>3. Len(done') = Len(done) + 1 /\ Len(done) \in Nat /\ Len(JobOrder) \in Nat BY <3>1, <3>2
    <3> QED BY <3>1, <3>2, <3>3
  <2>3. /\ repo' \in [Job -> SUBSET (0..MaxCopies)] /\ blank' \in [Job -> SUBSET (0..MaxCopies)]
        /\ faults' \in 0..MaxFaults
    <3>1. /\ repo \in [Job -> SUBSET (0..MaxCopies)] /\ copies \in 0..MaxCopies /\ faults \in 0..MaxFaults
          /\ blank \in [Job -> SUBSET (0..MaxCopies)]
      BY DEF Types, BackupTypeOK, Copy
    <3>2. faults' \in 0..MaxFaults BY <1>0, <1>4, <3>1 DEF RunJob, Fault
    <3>3. \A j : /\ [repo EXCEPT ![j] = @ \cup {copies}] \in [Job -> SUBSET (0..MaxCopies)]
                 /\ [blank EXCEPT ![j] = @ \cup {copies}] \in [Job -> SUBSET (0..MaxCopies)]
      BY <3>1
    <3>4. \E j : /\ repo' \in {repo, [repo EXCEPT ![j] = @ \cup {copies}]}
                 /\ blank' \in {blank, [blank EXCEPT ![j] = @ \cup {copies}]}
      BY <1>4 DEF RunJob
    <3> QED BY <3>1, <3>2, <3>3, <3>4
  <2> QED BY <1>4, <2>1, <2>2, <2>3 DEF Types, BackupTypeOK, StateType, RunJob, captureVars, verifyVars, outside
<1>5. CASE Conclude
  <2> DEFINE js == [j \in Job |-> IF Stored(j) THEN copies ELSE memory.jobs[j]]
             x == IF AllRequired THEN "ok" ELSE "failed"
  <2>1. js \in [Job -> Copy] BY <1>a DEF Types, StateType
  <2>2. x \in {"none", "running", "ok", "failed"} OBVIOUS
  <2>3. memory' = [memory EXCEPT !.jobs = js, !.status = x] BY <1>5 DEF Conclude
  <2> HIDE DEF js, x
  <2>4. memory' \in StateType
    <3>1. ASSUME NEW m \in StateType, NEW f \in [Job -> Copy], NEW y \in {"none", "running", "ok", "failed"}
          PROVE  [m EXCEPT !.jobs = f, !.status = y] \in StateType
      BY DEF StateType
    <3> QED BY <1>a, <2>1, <2>2, <2>3, <3>1
  <2>5. where' \in [Runner -> Places] BY <1>5 DEF Conclude, To, Types, BackupTypeOK, Places
  <2> QED BY <1>5, <2>4, <2>5 DEF Types, BackupTypeOK, Conclude, captureVars, verifyVars, outside
<1>6. CASE Retain
  <2>1. memory' \in StateType
    <3>1. memory' = memory \/ memory' = [memory EXCEPT !.status = "failed"] BY <1>6, Zenon DEF Retain
    <3>2. [memory EXCEPT !.status = "failed"] \in StateType BY <1>a, StateTypes
    <3> QED BY <1>a, <3>1, <3>2
  <2>2. where' \in [Runner -> Places] BY <1>6 DEF Retain, To, Types, BackupTypeOK, Places
  <2>3. faults' \in 0..MaxFaults BY <1>0, <1>6 DEF Retain, Fault, Types
  <2>4. repo' \in [Job -> SUBSET (0..MaxCopies)]
    <3>1. repo \in [Job -> SUBSET (0..MaxCopies)] BY DEF Types, BackupTypeOK
    <3>2. \A old : ForgetDaily(old) \in [Job -> SUBSET (0..MaxCopies)] BY <3>1 DEF ForgetDaily
    <3>3. \A L \in [Job -> SUBSET (0..MaxCopies)] : \A T :
            [j \in Job |-> IF j \in T THEN L[j] \ {OldCopy} ELSE L[j]] \in [Job -> SUBSET (0..MaxCopies)]
      OBVIOUS
    <3>4. \/ repo' = repo
          \/ \E old : repo' = ForgetDaily(old)
          \/ \E old, T : repo' = [j \in Job |-> IF j \in T THEN ForgetDaily(old)[j] \ {OldCopy} ELSE ForgetDaily(old)[j]]
      <4>1. ASSUME NEW old \in SUBSET (1..copies), NEW aged \in BOOLEAN,
                   repo' = [j \in Job |->
                     IF aged /\ memory.oks >= LegacyAfter /\ j \in RetentionIds(ForgetDaily(old))
                     THEN ForgetDaily(old)[j] \ {OldCopy} ELSE ForgetDaily(old)[j]]
            PROVE  \E T : repo' = [j \in Job |-> IF j \in T THEN ForgetDaily(old)[j] \ {OldCopy} ELSE ForgetDaily(old)[j]]
        <5> WITNESS {j \in Job : aged /\ memory.oks >= LegacyAfter /\ j \in RetentionIds(ForgetDaily(old))}
        <5> QED BY <4>1
      <4> QED BY <1>6, <4>1 DEF Retain
    <3> QED BY <3>1, <3>2, <3>3, <3>4
  <2> QED BY <1>6, <2>1, <2>2, <2>3, <2>4 DEF Types, BackupTypeOK, Retain, captureVars, verifyVars, outside
<1>7. CASE Finish
  <2> DEFINE n == IF memory.oks < LegacyAfter THEN memory.oks + 1 ELSE memory.oks
             m == [memory EXCEPT !.success = copies, !.oks = n]
  <2>1. n \in Nat /\ copies \in Copy BY <1>a DEF StateType, Types
  <2>2. state' \in {Written(m), Written(memory)} BY <1>7 DEF Finish
  <2> HIDE DEF n
  <2>3. m \in StateType BY <1>a, <2>1 DEF StateType
  <2> HIDE DEF m
  <2>4. state' \in StateType /\ state'.checked = 0
    <3>1. Written(m) \in StateType /\ Written(m).checked = 0 BY <2>3, StateTypes
    <3>2. Written(memory) \in StateType /\ Written(memory).checked = 0 BY <1>a, StateTypes
    <3> QED BY <2>2, <3>1, <3>2
  <2>5. where' \in [Runner -> Places] /\ today' \in BOOLEAN
    BY <1>7 DEF Finish, To, Types, BackupTypeOK, Places
  <2> QED BY <1>7, <2>4, <2>5 DEF Types, BackupTypeOK, StateType, Finish, captureVars, copyVars, verifyVars, outside
<1>8. CASE Unlink
  BY <1>8 DEF Types, BackupTypeOK, Unlink, Ends, To, copyVars, verifyVars, outside, Places
<1> QED BY <1>1, <1>2, <1>3, <1>4, <1>5, <1>6, <1>7, <1>8 DEF CopyStep

LEMMA OtherTypes ==
    ASSUME Types,
           \/ Request \/ StartUnit \/ Command \/ NewDay \/ BeginVerify \/ Interruption \/ VerifyStep
           \/ SetEnabled
    PROVE  Types'
<1> USE DEF Runner, NoRun
<1>0. MaxRuns \in Nat /\ MaxCopies \in Nat /\ MaxFaults \in Nat /\ copies \in Nat BY BackupAssumption DEF Types, Copy
<1>a. state \in StateType /\ memory \in StateType BY DEF Types
<1>1. CASE Request
  BY <1>1 DEF Types, BackupTypeOK, Request, Copy, captureVars, copyVars, verifyVars, outside
<1>2. CASE StartUnit
  BY <1>2 DEF Types, BackupTypeOK, StartUnit, Seen, To, captureVars, copyVars, verifyVars, outside, Places
<1>3. CASE Command
  BY <1>3 DEF Types, BackupTypeOK, Command, To, captureVars, copyVars, verifyVars, outside, Places
<1>4. CASE NewDay
  <2>1. today' \in BOOLEAN BY <1>4 DEF NewDay
  <2>2. UNCHANGED <<lock, where, flag, force, state, faults, captureVars, copyVars, verifyVars, outside>>
    BY <1>4 DEF NewDay
  <2> QED BY <2>1, <2>2 DEF Types, BackupTypeOK, captureVars, copyVars, verifyVars, outside
<1>5. CASE BeginVerify
  <2>1. check' \in [at : {"off", "check", "spot"}, jobs : [Job -> Copy]]
    BY <1>5, <1>a DEF BeginVerify, StateType
  <2>2. checks' \in Nat /\ checks' >= checks BY <1>5 DEF BeginVerify, Types
  <2> QED BY <1>5, <2>1, <2>2 DEF Types, BackupTypeOK, BeginVerify, captureVars, copyVars, outside
<1>6. CASE NoTarget
  BY <1>0, <1>6 DEF Types, BackupTypeOK, NoTarget, Fault, Ends, To, copyVars, verifyVars, outside, Places
<1>7. CASE JobsRaise
  <2>1. memory' \in StateType BY <1>7, <1>a, StateTypes DEF JobsRaise
  <2> QED BY <1>0, <1>7, <2>1 DEF Types, BackupTypeOK, JobsRaise, Fault, To, captureVars, verifyVars, outside, Places
<1>8. ASSUME NEW p \in Runner, Raises(p) PROVE Types'
  BY <1>0, <1>8 DEF Types, BackupTypeOK, Raises, Fault, Ends, To, copyVars, verifyVars, outside, Places
<1>9. ASSUME NEW p \in Runner, Fails(p) PROVE Types'
  BY <1>0, <1>9 DEF Types, BackupTypeOK, Fails, Fault, To, copyVars, verifyVars, outside, Places
<1>10. ASSUME NEW p \in Runner, StopRunner(p) PROVE Types'
  BY <1>0, <1>10 DEF Types, BackupTypeOK, StopRunner, Fault, To, copyVars, verifyVars, outside, Places
<1>11. CASE RunCheck
  <2>1. check' \in [at : {"off", "check", "spot"}, jobs : [Job -> Copy]]
    BY <1>11 DEF RunCheck, Types
  <2>2. verify' \in [checked : Nat, spot : Nat] /\ verify'.checked = checks
    BY <1>11 DEF RunCheck, Update, Types
  <2>3. checks' = checks /\ checks \in Nat BY <1>11 DEF RunCheck, Types
  <2> QED BY <1>11, <2>1, <2>2, <2>3 DEF Types, BackupTypeOK, RunCheck, Update, captureVars, copyVars, outside
<1>12. CASE SpotRestore
  <2>1. check' \in [at : {"off", "check", "spot"}, jobs : [Job -> Copy]]
    BY <1>12 DEF SpotRestore, Types
  <2>2. verify' \in [checked : Nat, spot : Nat] /\ verify'.checked = verify.checked
    BY <1>12 DEF SpotRestore, Update, Types
  <2>3. checks' = checks BY <1>12 DEF SpotRestore
  <2> QED BY <1>12, <2>1, <2>2, <2>3 DEF Types, BackupTypeOK, SpotRestore, Update, captureVars, copyVars, outside
<1>13. CASE SetEnabled
  BY <1>13 DEF Types, BackupTypeOK, SetEnabled, captureVars, copyVars, verifyVars
<1> QED BY <1>1, <1>2, <1>3, <1>4, <1>5, <1>6, <1>7, <1>8, <1>9, <1>10, <1>11, <1>12, <1>13
       DEF Interruption, VerifyStep
----------------------------------------------------------------------------
(* Whoever is past run.lock is alone there.                                *)
LEMMA Alone ==
    ASSUME LockInv, NEW p \in Runner, where[p] \notin Outside
    PROVE  lock = p /\ \A q \in Runner \ {p} : where[q] \in Outside /\ id[q] = NoRun
BY DEF LockInv, Outside, Before

(* How a step moves processes: p moves on inside its run, takes a number,  *)
(* ends, or is not yet in it.                                              *)
Moves(p, places) ==
    /\ where[p] \notin Outside /\ lock' = lock /\ id' = id
    /\ \E x \in places : where' = [where EXCEPT ![p] = x]
Finishes(p) == where[p] \notin Outside /\ Ends(p)

LEMMA LockSteps ==
    ASSUME Types, LockInv, NEW p \in Runner, NEW places,
           \/ Moves(p, places) /\ places \cap Before = {} /\ (p # "unit" => places \cap UnitOnly = {})
           \/ Finishes(p)
           \/ UNCHANGED <<lock, where, id>>
    PROVE  LockInv'
<1> USE DEF Runner, NoRun
<1>1. where \in [Runner -> Places] /\ id \in [Runner -> Run \cup {NoRun}] BY DEF Types, BackupTypeOK
<1>2. CASE Moves(p, places) /\ places \cap Before = {} /\ (p # "unit" => places \cap UnitOnly = {})
  <2>1. PICK x \in places : where' = [where EXCEPT ![p] = x] BY <1>2 DEF Moves
  <2>2. x \notin Before /\ (x \in UnitOnly => p = "unit") BY <1>2, <2>1
  <2> QED BY <1>1, <1>2, <2>1, <2>2 DEF Moves, LockInv, Outside, Before
<1>3. CASE Finishes(p)
  BY <1>1, <1>3 DEF Finishes, Ends, To, LockInv, Outside, Before, UnitOnly
<1>4. CASE UNCHANGED <<lock, where, id>> BY <1>4 DEF LockInv
<1> QED BY <1>2, <1>3, <1>4

LEMMA CaptureLock ==
    ASSUME Types, LockInv, NEW p \in Runner, CaptureStep(p)
    PROVE  LockInv'
<1> USE DEF Runner, NoRun
<1>1. where \in [Runner -> Places] /\ id \in [Runner -> Run \cup {NoRun}] BY DEF Types, BackupTypeOK
<1>2. CASE Lock(p)
  BY <1>1, <1>2 DEF Lock, Stands, To, LockInv, Outside, Before, UnitOnly, captureVars
<1>3. CASE Admit(p)
  BY <1>1, <1>3 DEF Admit, Stands, To, LockInv, Outside, Before, UnitOnly
<1>4. CASE \/ CopyBoot(p) \/ Btrbk(p) \/ VerifyPoints(p) \/ Cleanup(p) \/ RemoveCapture(p)
           \/ Unlist(p) \/ CleanedUp(p) \/ Publish(p) \/ WriteLocal(p) \/ Rescue(p)
  <2> DEFINE places == InCapture
  <2>1. where[p] \notin Outside /\ lock' = lock /\ id' = id
    BY <1>4 DEF CopyBoot, Btrbk, VerifyPoints, Cleanup, RemoveCapture, Unlist, CleanedUp, Publish,
       WriteLocal, Rescue, Stands, Outside, captureVars
  <2>2. where' = where \/ \E x \in InCapture : where' = [where EXCEPT ![p] = x]
    BY <1>4 DEF CopyBoot, Btrbk, VerifyPoints, Cleanup, RemoveCapture, Unlist, CleanedUp, Publish,
       WriteLocal, Rescue, To, InCapture, Booted
  <2>3. InCapture \cap Before = {} /\ InCapture \cap UnitOnly = {}
    BY DEF InCapture, Booted, Before, UnitOnly
  <2> QED BY <2>1, <2>2, <2>3, LockSteps DEF Moves
<1>5. CASE WriteGood(p) \/ Record(p) \/ NotReady(p)
  <2>1. where[p] \notin Outside /\ Captured(p)
    BY <1>5 DEF WriteGood, Record, NotReady, Stands, Outside
  <2>2. CASE p = "unit"
    <3>1. Moves(p, {"due"}) BY <2>1, <2>2 DEF Captured, To, Moves
    <3>2. {"due"} \cap Before = {} BY DEF Before
    <3> QED BY <2>2, <3>1, <3>2, LockSteps
  <2>3. CASE p # "unit"
    <3>1. Finishes(p) BY <2>1, <2>3 DEF Captured, Finishes
    <3> QED BY <3>1, LockSteps
  <2> QED BY <2>2, <2>3
<1> QED BY <1>2, <1>3, <1>4, <1>5 DEF CaptureStep

LEMMA OtherLock ==
    ASSUME Types, LockInv,
           CopyStep \/ Request \/ StartUnit \/ Command \/ NewDay \/ BeginVerify \/ SetEnabled \/ Interruption \/ VerifyStep
    PROVE  LockInv'
<1> USE DEF Runner, NoRun
<1>1. where \in [Runner -> Places] /\ id \in [Runner -> Run \cup {NoRun}] BY DEF Types, BackupTypeOK
<1>2. CASE StartUnit \/ Command \/ Recover
  BY <1>1, <1>2 DEF StartUnit, Command, Recover, Stands, To, LockInv, Outside, Before, UnitOnly, captureVars
<1>3. CASE BeginCopy \/ Conclude \/ Retain \/ Finish \/ JobsRaise
  <2> DEFINE places == {"jobs", "retain", "final", "unlink"}
  <2>1. Moves("unit", places)
    BY <1>3 DEF BeginCopy, Conclude, Retain, Finish, JobsRaise, Moves, Stands, To, Outside, captureVars
  <2>2. places \cap Before = {} BY DEF Before
  <2> QED BY <2>1, <2>2, LockSteps
<1>4. CASE Decide
  <2>1. Moves("unit", {"offsite"}) \/ Finishes("unit")
    BY <1>4 DEF Decide, Moves, Finishes, Stands, To, Outside
  <2>2. {"offsite"} \cap Before = {} BY DEF Before
  <2> QED BY <2>1, <2>2, LockSteps
<1>5. CASE Unlink \/ NoTarget
  <2>1. Finishes("unit") BY <1>5 DEF Unlink, NoTarget, Finishes, Stands, Outside
  <2> QED BY <2>1, LockSteps
<1>6. CASE Request \/ RunJob \/ NewDay \/ BeginVerify \/ SetEnabled \/ RunCheck \/ SpotRestore
  BY <1>6, LockSteps DEF Request, RunJob, NewDay, BeginVerify, SetEnabled, RunCheck, SpotRestore, captureVars
<1>7. ASSUME NEW p \in Runner, Raises(p) PROVE LockInv'
  <2>1. Finishes(p) BY <1>7 DEF Raises, Finishes, Outside
  <2> QED BY <2>1, LockSteps
<1>8. ASSUME NEW p \in Runner, Fails(p) PROVE LockInv'
  <2>1. Moves(p, {"rescue"}) BY <1>8 DEF Fails, Moves, To, Outside
  <2>2. {"rescue"} \cap Before = {} /\ {"rescue"} \cap UnitOnly = {} BY DEF Before, UnitOnly
  <2> QED BY <2>1, <2>2, LockSteps
<1>9. ASSUME NEW p \in Runner, StopRunner(p) PROVE LockInv'
  BY <1>1, <1>9 DEF StopRunner, To, LockInv, Outside, Before, UnitOnly
<1> QED BY <1>2, <1>3, <1>4, <1>5, <1>6, <1>7, <1>8, <1>9 DEF CopyStep, Interruption, VerifyStep
----------------------------------------------------------------------------
(* The capture parts of the invariant when a step leaves the captures, the *)
(* points and the receipts alone: a process moves on inside a run to a     *)
(* place that promises no more, ends, or is stopped.                       *)
CaptureSame == UNCHANGED <<snaps, target, capture, local, good, runs>>
CaptureParts == NewestRun /\ OnDisk /\ Removable /\ LastGoodRestorable

LEMMA QuietCapture ==
    ASSUME CaptureParts, CaptureSame, UNCHANGED todo,
           \A p \in Runner :
             \/ where'[p] = where[p] /\ id'[p] = id[p]
             \/ where'[p] \notin InCapture /\ where[p] \notin InCapture /\ id'[p] \in {NoRun, id[p]}
    PROVE  CaptureParts'
<1>1. NewestRun' BY DEF CaptureParts, CaptureSame, NewestRun, NewestOf
<1>2. LastGoodRestorable' BY DEF CaptureParts, CaptureSame, LastGoodRestorable
<1>3. OnDisk' BY DEF CaptureParts, CaptureSame, OnDisk, OnDiskOf, InCapture, Booted, NoRun
<1>4. Removable' BY DEF CaptureParts, CaptureSame, Removable, InCapture, Booted
<1> QED BY <1>1, <1>2, <1>3, <1>4 DEF CaptureParts

(* Only the holder of the lock has a run to answer for.                    *)
LEMMA Focus ==
    ASSUME LockInv', NEW p \in Runner, lock' \in {p, "none"}, NewestOf(p)', OnDiskOf(p)',
           good'.run <= runs', \A v \in Subvol : target'[v] \subseteq 1..runs'
    PROVE  NewestRun' /\ OnDisk'
<1>1. \A q \in Runner \ {p} : where'[q] \in Outside /\ id'[q] = NoRun
  BY DEF LockInv, Runner, Outside, Before
<1>2. \A q \in Runner \ {p} : NewestOf(q)' /\ OnDiskOf(q)'
  BY <1>1 DEF NewestOf, OnDiskOf, Outside, InCapture, Booted
<1> QED BY <1>2 DEF NewestRun, OnDisk

(* Cleanup's list is empty unless its owner is removing.                   *)
LEMMA NothingToRemove ==
    ASSUME LockInv, Removable, NEW p \in Runner, where[p] \notin Outside, where[p] \notin {"remove", "unlist"}
    PROVE  todo = {}
<1>1. \A q \in Runner \ {p} : where[q] \in Outside BY Alone
<1>2. \A q \in Runner : where[q] \notin {"remove", "unlist"} BY <1>1 DEF Outside
<1> QED BY <1>2 DEF Removable

LEMMA AdmitCapture ==
    ASSUME Types, LockInv, CaptureParts, LockInv', NEW p \in Runner, Admit(p)
    PROVE  CaptureParts'
<1>1. /\ runs \in Nat /\ runs' = runs + 1 /\ runs' \in Run /\ good' = good /\ target' = target
      /\ capture' = capture /\ todo' = todo /\ where[p] = "admit"
  BY BackupAssumption DEF Admit, Stands, Types, Run
<1>2. where'[p] = "boot" /\ id'[p] = runs' /\ local'[runs'] = "running" /\ lock' = p
  BY <1>1, Alone DEF Admit, To, Types, BackupTypeOK, Outside
<1>3. good.run \in Nat /\ good.run <= runs /\ \A v \in Subvol : target[v] \subseteq 1..runs
  BY DEF CaptureParts, NewestRun, Types, BackupTypeOK, Run, NoRun
<1>4. todo' = {} BY <1>1, NothingToRemove DEF CaptureParts, Outside
<1>5. NewestOf(p)' BY <1>1, <1>2, <1>3 DEF NewestOf
<1>6. OnDiskOf(p)' BY <1>2 DEF OnDiskOf, Booted
<1>7. NewestRun' /\ OnDisk'
  <2>1. good'.run <= runs' BY <1>1, <1>3
  <2>2. \A v \in Subvol : target'[v] \subseteq 1..runs' BY <1>1, <1>3
  <2> QED BY <1>2, <1>5, <1>6, <2>1, <2>2, Focus
<1>8. Removable' BY <1>4 DEF Removable
<1>9. LastGoodRestorable' BY <1>1 DEF LastGoodRestorable, CaptureParts
<1> QED BY <1>7, <1>8, <1>9 DEF CaptureParts

LEMMA BtrbkCapture ==
    ASSUME Types, LockInv, CaptureParts, LockInv', NEW p \in Runner, Btrbk(p)
    PROVE  CaptureParts'
<1>1. /\ runs' = runs /\ good' = good /\ id' = id /\ local' = local /\ lock' = lock
      /\ capture' = capture /\ todo' = todo /\ where[p] = "btrbk"
  BY DEF Btrbk, Stands
<1>2. id[p] = runs /\ runs \in Run /\ good.run # runs /\ good.run <= runs
  BY <1>1 DEF CaptureParts, NewestRun, NewestOf, InCapture, Booted
<1>3. /\ capture[runs].boot /\ local[runs] = "running"
  BY <1>1, <1>2 DEF CaptureParts, OnDisk, OnDiskOf, Booted
<1>4. lock = p BY <1>1, Alone DEF Outside
<1>5. where'[p] \in {"verify", "rescue"} BY DEF Btrbk, To, Types, BackupTypeOK
<1>6. where'[p] = "verify" => \A v \in Subvol : runs \in snaps'[v]
  BY <1>2 DEF Btrbk, To, Types, BackupTypeOK
<1>7. \A v \in Subvol : target'[v] \subseteq target[v] \cup {runs}
  BY <1>2 DEF Btrbk
<1>8. NewestOf(p)' BY <1>1, <1>2 DEF NewestOf
<1>9. OnDiskOf(p)' BY <1>1, <1>2, <1>3, <1>5, <1>6 DEF OnDiskOf, Booted
<1>10. NewestRun' /\ OnDisk'
  <2>1. \A v \in Subvol : target'[v] \subseteq 1..runs'
    BY <1>1, <1>2, <1>7 DEF CaptureParts, NewestRun, Run
  <2> QED BY <1>1, <1>2, <1>4, <1>8, <1>9, <2>1, Focus
<1>11. Removable'
  <2>1. todo = {} BY <1>1, NothingToRemove DEF CaptureParts, Outside
  <2> QED BY <1>1, <2>1 DEF Removable
<1>12. LastGoodRestorable' BY <1>1, <1>2, <1>7 DEF LastGoodRestorable, CaptureParts
<1> QED BY <1>10, <1>11, <1>12 DEF CaptureParts

(* Writes of the newest run's own receipts leave every other run alone.    *)
LEMMA OwnReceipts ==
    ASSUME Types, LockInv, CaptureParts, LockInv', NEW p \in Runner,
           CopyBoot(p) \/ Publish(p) \/ WriteLocal(p) \/ Rescue(p)
    PROVE  CaptureParts'
<1>1. /\ runs' = runs /\ good' = good /\ id' = id /\ lock' = lock /\ snaps' = snaps
      /\ target' = target /\ todo' = todo /\ where[p] \in {"boot", "publish", "local", "rescue"}
  BY DEF CopyBoot, Publish, WriteLocal, Rescue, Stands
<1>2. id[p] = runs /\ runs \in Run /\ good.run # runs /\ good.run <= runs
      /\ \A v \in Subvol : target[v] \subseteq 1..runs
  BY <1>1 DEF CaptureParts, NewestRun, NewestOf, InCapture, Booted
<1>3. OnDiskOf(p) BY DEF CaptureParts, OnDisk
<1>4. lock = p BY <1>1, Alone DEF Outside
<1>5. \A r \in Run \ {runs} : capture'[r] = capture[r]
  BY <1>2 DEF CopyBoot, Publish, WriteLocal, Rescue, Types, BackupTypeOK
<1>6. OnDiskOf(p)'
  <2>1. CASE CopyBoot(p)
    <3>1. where'[p] = "btrbk" /\ local' = local /\ capture'[runs].boot
      BY <1>2, <2>1 DEF CopyBoot, To, Types, BackupTypeOK
    <3>2. local[runs] = "running" BY <1>2, <1>3, <2>1 DEF CopyBoot, Stands, OnDiskOf
    <3> QED BY <1>1, <1>2, <3>1, <3>2 DEF OnDiskOf
  <2>2. CASE Publish(p)
    <3>1. where'[p] = "local" /\ local' = local /\ capture'[runs].receipt = "completed"
          /\ capture'[runs].boot = capture[runs].boot
      BY <1>2, <2>2 DEF Publish, To, Types, BackupTypeOK
    <3>2. capture[runs].boot /\ \A v \in Subvol : runs \in snaps[v]
      BY <1>2, <1>3, <2>2 DEF Publish, Stands, OnDiskOf, Booted
    <3> QED BY <1>1, <1>2, <3>1, <3>2 DEF OnDiskOf
  <2>3. CASE WriteLocal(p)
    <3>1. where'[p] = "good" /\ capture' = capture
      BY <1>2, <2>3 DEF WriteLocal, To, Types, BackupTypeOK
    <3>2. /\ capture[runs].boot /\ capture[runs].receipt = "completed"
          /\ \A v \in Subvol : runs \in snaps[v]
      BY <1>2, <1>3, <2>3 DEF WriteLocal, Stands, OnDiskOf, Booted
    <3> QED BY <1>1, <1>2, <3>1, <3>2 DEF OnDiskOf
  <2>4. CASE Rescue(p)
    <3>1. where'[p] = "record" /\ local' = local
      BY <2>4 DEF Rescue, To, Types, BackupTypeOK
    <3> QED BY <1>1, <1>3, <3>1 DEF OnDiskOf, Booted
  <2> QED BY <2>1, <2>2, <2>3, <2>4
<1>7. NewestOf(p)' BY <1>1, <1>2 DEF NewestOf
<1>8. NewestRun' /\ OnDisk' BY <1>1, <1>2, <1>4, <1>6, <1>7, Focus
<1>9. Removable'
  <2>1. todo = {} BY <1>1, NothingToRemove DEF CaptureParts, Outside
  <2> QED BY <1>1, <2>1 DEF Removable
<1>10. LastGoodRestorable'
  <2> SUFFICES ASSUME NEW v \in Subvol, good.run \in target[v]
               PROVE  capture'[good.run] = [receipt |-> "completed", boot |-> TRUE]
    BY <1>1 DEF LastGoodRestorable
  <2>1. capture[good.run] = [receipt |-> "completed", boot |-> TRUE]
    BY DEF CaptureParts, LastGoodRestorable
  <2>2. good.run \in Run \ {runs} BY <1>2 DEF Types, BackupTypeOK
  <2> QED BY <1>5, <2>1, <2>2
<1> QED BY <1>8, <1>9, <1>10 DEF CaptureParts

(* The steps of the capture that write nothing of it, and cleanup's list.  *)
LEMMA PlainCapture ==
    ASSUME Types, LockInv, CaptureParts, LockInv', NEW p \in Runner,
           VerifyPoints(p) \/ Cleanup(p) \/ CleanedUp(p) \/ Fails(p)
    PROVE  CaptureParts'
<1>1. /\ CaptureSame /\ id' = id /\ lock' = lock
      /\ where[p] \in {"boot", "verify", "cleanup", "remove", "publish", "local", "good"}
  BY DEF VerifyPoints, Cleanup, CleanedUp, Fails, Stands, CaptureSame, captureVars
<1>2. NewestOf(p) /\ OnDiskOf(p) /\ good.run <= runs /\ \A v \in Subvol : target[v] \subseteq 1..runs
  BY DEF CaptureParts, NewestRun, OnDisk
<1>3. id[p] = runs BY <1>1, <1>2 DEF NewestOf, InCapture, Booted
<1>4. lock = p BY <1>1, Alone DEF Outside
<1>5. /\ where'[p] \in {"cleanup", "remove", "publish", "rescue"}
      /\ where'[p] # "rescue" => where[p] \in {"verify", "cleanup", "remove"}
  BY DEF VerifyPoints, Cleanup, CleanedUp, Fails, To, Stands, Types, BackupTypeOK
<1>6. NewestOf(p)' BY <1>1, <1>2 DEF NewestOf, CaptureSame, InCapture, Booted
<1>7. OnDiskOf(p)' BY <1>1, <1>2, <1>5 DEF OnDiskOf, CaptureSame, Booted
<1>8. NewestRun' /\ OnDisk' BY <1>1, <1>2, <1>4, <1>6, <1>7, Focus DEF CaptureSame
<1>9. Removable'
  <2>1. CASE Cleanup(p)
    <3>1. todo' = Superseded(runs) /\ where'[p] = "remove"
      BY <1>3, <2>1 DEF Cleanup, To, Types, BackupTypeOK
    <3> QED BY <1>1, <3>1 DEF Removable, Superseded, CaptureSame
  <2>2. CASE ~Cleanup(p)
    <3>1. todo' = {}
      <4>1. CASE VerifyPoints(p)
        <5>1. where[p] = "verify" /\ todo' = todo BY <4>1 DEF VerifyPoints, Stands, captureVars
        <5> QED BY <5>1, NothingToRemove DEF CaptureParts, Outside
      <4>2. CASE CleanedUp(p) BY <4>2 DEF CleanedUp, captureVars
      <4>3. CASE Fails(p) BY <4>3 DEF Fails
      <4> QED BY <2>2, <4>1, <4>2, <4>3
    <3> QED BY <3>1 DEF Removable
  <2> QED BY <2>1, <2>2
<1>10. LastGoodRestorable' BY <1>1 DEF CaptureParts, LastGoodRestorable, CaptureSame
<1> QED BY <1>8, <1>9, <1>10 DEF CaptureParts

(* Cleanup touches captures without points only.                           *)
LEMMA RemoveKeeps ==
    ASSUME Types, LockInv, CaptureParts, LockInv', NEW p \in Runner, RemoveCapture(p)
    PROVE  CaptureParts'
<1> DEFINE d == Min(todo)
<1>1. /\ runs' = runs /\ good' = good /\ id' = id /\ lock' = lock /\ snaps' = snaps /\ local' = local
      /\ target' = target /\ where[p] = "remove" /\ todo' = todo \ {d}
  BY DEF RemoveCapture, Stands
<1>2. d \in todo
  <2>1. todo \subseteq Nat /\ todo # {} BY DEF RemoveCapture, Types, BackupTypeOK, Run
  <2> QED BY <2>1, MinIsIn
<1>3. d # runs /\ \A v \in Subvol : d \notin target[v] BY <1>2 DEF CaptureParts, Removable
<1>4. \A r \in Run \ {d} : capture'[r] = capture[r] BY DEF RemoveCapture, Types, BackupTypeOK
<1>5. where'[p] \in {"remove", "unlist"} BY <1>1 DEF RemoveCapture, To, Types, BackupTypeOK
<1> HIDE DEF d
<1>6. id[p] = runs /\ runs \in Run /\ good.run # runs /\ good.run <= runs
      /\ \A v \in Subvol : target[v] \subseteq 1..runs
  BY <1>1 DEF CaptureParts, NewestRun, NewestOf, InCapture, Booted
<1>7. OnDiskOf(p) BY DEF CaptureParts, OnDisk
<1>8. lock = p BY <1>1, Alone DEF Outside
<1>9. NewestOf(p)' BY <1>1, <1>6 DEF NewestOf
<1>10. OnDiskOf(p)'
  <2>1. capture'[runs] = capture[runs] BY <1>3, <1>4, <1>6
  <2> QED BY <1>1, <1>5, <1>6, <1>7, <2>1 DEF OnDiskOf, Booted
<1>11. NewestRun' /\ OnDisk' BY <1>1, <1>6, <1>8, <1>9, <1>10, Focus
<1>12. Removable' BY <1>1, <1>5 DEF CaptureParts, Removable
<1>13. LastGoodRestorable'
  <2> SUFFICES ASSUME NEW v \in Subvol, good.run \in target[v]
               PROVE  capture'[good.run] = [receipt |-> "completed", boot |-> TRUE]
    BY <1>1 DEF LastGoodRestorable
  <2>1. capture[good.run] = [receipt |-> "completed", boot |-> TRUE]
    BY DEF CaptureParts, LastGoodRestorable
  <2>2. good.run \in Run \ {d} BY <1>3 DEF Types, BackupTypeOK
  <2> QED BY <1>4, <2>1, <2>2
<1> QED BY <1>11, <1>12, <1>13 DEF CaptureParts

LEMMA UnlistCapture ==
    ASSUME Types, LockInv, CaptureParts, LockInv', NEW p \in Runner, Unlist(p)
    PROVE  CaptureParts'
<1>1. /\ runs' = runs /\ id' = id /\ lock' = lock /\ snaps' = snaps /\ capture' = capture
      /\ target' = target /\ where[p] = "unlist" /\ todo' = todo
  BY DEF Unlist, Stands
<1>2. where'[p] = "remove" /\ good'.run = good.run BY DEF Unlist, To, Types, BackupTypeOK
<1>3. id[p] = runs /\ runs \in Run /\ good.run # runs /\ good.run <= runs
      /\ \A v \in Subvol : target[v] \subseteq 1..runs
  BY <1>1 DEF CaptureParts, NewestRun, NewestOf, InCapture, Booted
<1>4. OnDiskOf(p) BY DEF CaptureParts, OnDisk
<1>5. lock = p BY <1>1, Alone DEF Outside
<1>6. NewestOf(p)' BY <1>1, <1>2, <1>3 DEF NewestOf
<1>7. OnDiskOf(p)' BY <1>1, <1>2, <1>4 DEF OnDiskOf, Booted
<1>8. NewestRun' /\ OnDisk' BY <1>1, <1>2, <1>3, <1>5, <1>6, <1>7, Focus
<1>9. Removable' BY <1>1, <1>2 DEF CaptureParts, Removable
<1>10. LastGoodRestorable' BY <1>1, <1>2 DEF CaptureParts, LastGoodRestorable
<1> QED BY <1>8, <1>9, <1>10 DEF CaptureParts

(* A process leaves the capture: it is done, it failed, or it was stopped. *)
LEMMA LeaveCapture ==
    ASSUME Types, LockInv, CaptureParts, LockInv', NEW p \in Runner,
           lock' \in {p, "none"}, UNCHANGED <<snaps, target, capture, runs>>, todo' = {},
           where'[p] \notin InCapture, id'[p] \in {NoRun, id[p]},
           id'[p] # NoRun /\ local'[id'[p]] = "completed" => \A v \in Subvol : id'[p] \in snaps[v],
           good'.run <= runs, LastGoodRestorable'
    PROVE  CaptureParts'
<1>1. NewestOf(p)' BY DEF NewestOf
<1>2. OnDiskOf(p)' BY DEF OnDiskOf, InCapture, Booted
<1>3. \A v \in Subvol : target'[v] \subseteq 1..runs' BY DEF CaptureParts, NewestRun
<1>4. NewestRun' /\ OnDisk' BY <1>1, <1>2, <1>3, Focus
<1>5. Removable' BY DEF Removable
<1> QED BY <1>4, <1>5 DEF CaptureParts

LEMMA EndCapture ==
    ASSUME Types, LockInv, CaptureParts, LockInv', NEW p \in Runner,
           WriteGood(p) \/ Record(p) \/ (Raises(p) /\ where[p] = "record") \/ (StopRunner(p) /\ lock = p)
    PROVE  CaptureParts'
<1>1. lock = p BY Alone DEF WriteGood, Record, Stands, Outside
<1>2. UNCHANGED <<snaps, target, capture, runs>> BY DEF WriteGood, Record, Raises, StopRunner
<1>3. lock' \in {p, "none"}
  BY <1>1 DEF WriteGood, Record, Raises, StopRunner, Captured, Ends
<1>4. where'[p] \in {"due", "off"} /\ id'[p] \in {NoRun, id[p]}
  BY DEF WriteGood, Record, Raises, StopRunner, Captured, Ends, To, Types, BackupTypeOK
<1>5. todo' = {}
  <2>1. CASE StopRunner(p) /\ lock = p BY <2>1 DEF StopRunner
  <2>2. CASE ~StopRunner(p)
    <3>1. where[p] \in {"good", "record"} /\ todo' = todo BY <1>1, <2>2 DEF WriteGood, Record, Raises, Stands
    <3> QED BY <3>1, NothingToRemove DEF CaptureParts, Outside
  <2> QED BY <1>1, <2>1, <2>2
<1>6. OnDiskOf(p) /\ NewestOf(p) /\ good.run <= runs /\ LastGoodRestorable
  BY DEF CaptureParts, OnDisk, NewestRun
<1>7. where'[p] \notin InCapture BY <1>4 DEF InCapture, Booted
<1>8. CASE WriteGood(p)
  <2>1. /\ local' = local /\ where[p] = "good" /\ good' = [run |-> id[p], expired |-> FALSE]
    BY <1>8 DEF WriteGood, Stands
  <2>2. id[p] = runs /\ runs \in Run BY <1>6, <2>1 DEF NewestOf, InCapture, Booted
  <2>3. /\ capture[runs].boot /\ capture[runs].receipt = "completed"
        /\ \A v \in Subvol : runs \in snaps[v]
    BY <1>6, <2>1, <2>2 DEF OnDiskOf, Booted
  <2>4. capture[runs] = [receipt |-> "completed", boot |-> TRUE]
    <3>1. capture[runs] \in [receipt : {"none", "failed", "completed"}, boot : BOOLEAN]
      BY <2>2 DEF Types, BackupTypeOK
    <3> QED BY <2>3, <3>1
  <2>5. LastGoodRestorable' BY <1>2, <2>1, <2>2, <2>4 DEF LastGoodRestorable
  <2>6. good'.run <= runs BY <2>1, <2>2 DEF Run
  <2>7. id'[p] # NoRun => \A v \in Subvol : id'[p] \in snaps[v] BY <1>4, <2>2, <2>3
  <2> QED BY <1>2, <1>3, <1>4, <1>5, <1>7, <2>5, <2>6, <2>7, LeaveCapture
<1>9. CASE ~WriteGood(p)
  <2>1. good' = good BY <1>1, <1>9 DEF Record, Raises, StopRunner
  <2>2. LastGoodRestorable' BY <1>2, <1>6, <2>1 DEF LastGoodRestorable
  <2>3. id'[p] # NoRun /\ local'[id'[p]] = "completed" => \A v \in Subvol : id'[p] \in snaps[v]
    <3>1. CASE Record(p)
      <4>1. local'[id[p]] = "failed"
        <5>1. where[p] = "record" /\ local' = [local EXCEPT ![id[p]] = "failed"] BY <3>1 DEF Record, Stands
        <5>2. id[p] \in Run BY <1>6, <5>1 DEF NewestOf, InCapture
        <5> QED BY <5>1, <5>2 DEF Types, BackupTypeOK
      <4> QED BY <1>4, <4>1
    <3>2. CASE ~Record(p)
      <4>1. id'[p] = NoRun BY <1>1, <1>9, <3>2 DEF Raises, StopRunner, Ends, Types, BackupTypeOK
      <4> QED BY <4>1
    <3> QED BY <3>1, <3>2
  <2> QED BY <1>2, <1>3, <1>4, <1>5, <1>6, <1>7, <2>1, <2>2, <2>3, LeaveCapture
<1> QED BY <1>8, <1>9

(* The steps outside a capture.                                            *)
LEMMA OutsideCapture ==
    ASSUME Types, LockInv, CaptureParts, NEW p \in Runner,
           \/ Lock(p) \/ NotReady(p) \/ (Raises(p) /\ where[p] = "admit") \/ (StopRunner(p) /\ lock # p)
           \/ CopyStep \/ NoTarget \/ JobsRaise \/ VerifyStep
           \/ Request \/ StartUnit \/ Command \/ NewDay \/ BeginVerify \/ SetEnabled
    PROVE  CaptureParts'
<1> DEFINE Still == /\ CaptureSame /\ todo' = todo
                    /\ \A q \in Runner : \/ where'[q] = where[q] /\ id'[q] = id[q]
                                         \/ /\ where'[q] \notin InCapture /\ where[q] \notin InCapture
                                            /\ id'[q] \in {NoRun, id[q]}
<1> USE DEF Runner
<1>0. where \in [Runner -> Places] /\ id \in [Runner -> Run \cup {NoRun}] BY DEF Types, BackupTypeOK
<1>1. CASE Request \/ NewDay \/ BeginVerify \/ SetEnabled \/ VerifyStep \/ RunJob
  <2>1. Still BY <1>1 DEF Request, NewDay, BeginVerify, SetEnabled, VerifyStep, RunCheck, SpotRestore, RunJob,
          captureVars, CaptureSame
  <2> QED BY <2>1, QuietCapture
<1>2. CASE StartUnit \/ Command \/ Recover \/ BeginCopy \/ Conclude \/ Retain \/ Finish \/ JobsRaise
  <2>1. CaptureSame /\ todo' = todo /\ id' = id
    BY <1>2 DEF StartUnit, Command, Recover, BeginCopy, Conclude, Retain, Finish, JobsRaise, captureVars, CaptureSame
  <2>2. \E q \in Runner : \E x \in Places \ InCapture :
          where[q] \notin InCapture /\ where' = [where EXCEPT ![q] = x]
    BY <1>2 DEF StartUnit, Command, Recover, BeginCopy, Conclude, Retain, Finish, JobsRaise, Stands, To,
       Places, InCapture, Booted
  <2>3. Still BY <1>0, <2>1, <2>2
  <2> QED BY <2>3, QuietCapture
<1>3. CASE Lock(p)
  <2>1. CaptureSame /\ todo' = todo /\ id' = id BY <1>3 DEF Lock, captureVars, CaptureSame
  <2>2. \E x \in Places \ InCapture : where[p] \notin InCapture /\ where' = [where EXCEPT ![p] = x]
    BY <1>3 DEF Lock, Stands, To, Places, InCapture, Booted
  <2>3. Still BY <1>0, <2>1, <2>2
  <2> QED BY <2>3, QuietCapture
<1>4. CASE NotReady(p) \/ (Raises(p) /\ where[p] = "admit") \/ (StopRunner(p) /\ lock # p)
  <2>1. CaptureSame /\ todo' = todo BY <1>4 DEF NotReady, Raises, StopRunner, CaptureSame
  <2>2. where[p] \notin InCapture
    <3>1. CASE StopRunner(p) /\ lock # p BY <3>1 DEF LockInv, Outside, InCapture, Booted
    <3>2. CASE where[p] = "admit" BY <3>2 DEF InCapture, Booted
    <3> QED BY <1>4, <3>1, <3>2 DEF NotReady, Stands
  <2>3. /\ \E x \in {"off", "due"} : where' = [where EXCEPT ![p] = x]
        /\ id' = id \/ id' = [id EXCEPT ![p] = NoRun]
    BY <1>4 DEF NotReady, Raises, StopRunner, Captured, Ends, To
  <2>4. {"off", "due"} \cap InCapture = {} BY DEF InCapture, Booted
  <2>5. Still BY <1>0, <2>1, <2>2, <2>3, <2>4
  <2> QED BY <2>5, QuietCapture
<1>5. CASE Decide \/ Unlink \/ NoTarget
  <2>1. CaptureSame /\ todo' = todo BY <1>5 DEF Decide, Unlink, NoTarget, CaptureSame
  <2>2. where["unit"] \notin InCapture BY <1>5 DEF Decide, Unlink, NoTarget, Stands, InCapture, Booted
  <2>3. /\ \E x \in {"off", "offsite"} : where' = [where EXCEPT !["unit"] = x]
        /\ id' = id \/ id' = [id EXCEPT !["unit"] = NoRun]
    BY <1>5 DEF Decide, Unlink, NoTarget, Ends, To
  <2>4. {"off", "offsite"} \cap InCapture = {} BY DEF InCapture, Booted
  <2>5. Still BY <1>0, <2>1, <2>2, <2>3, <2>4
  <2> QED BY <2>5, QuietCapture
<1> QED BY <1>1, <1>2, <1>3, <1>4, <1>5 DEF CopyStep
----------------------------------------------------------------------------
(* The copy's part of the invariant.  Nearly every step leaves Drive, its  *)
(* records and the snapshots a copy reads alone.                           *)
CopyPlaces == {"offsite", "jobs", "retain", "final"}

LEMMA QuietCopy ==
    ASSUME CopyInv, UNCHANGED <<repo, blank, copies, memory, done>>, state'.success = state.success,
           \/ where'["unit"] = where["unit"] /\ source' = source /\ snaps' = snaps
           \/ where'["unit"] \notin CopyPlaces
    PROVE  CopyInv'
<1>1. Kept(state.success)' /\ Kept(memory.success)' BY DEF CopyInv, Kept, Restorable
<1> QED BY <1>1 DEF CopyInv, CopyPlaces, Restorable

LEMMA CaptureCopy ==
    ASSUME Types, LockInv, CopyInv, NEW p \in Runner,
           CaptureStep(p) \/ Raises(p) \/ Fails(p) \/ StopRunner(p)
    PROVE  CopyInv'
<1>0. where \in [Runner -> Places] /\ "unit" \in Runner /\ p \in Runner BY DEF Types, BackupTypeOK, Runner
<1>1. UNCHANGED <<repo, blank, copies, memory, done, state, source>>
  BY DEF CaptureStep, Lock, Admit, CopyBoot, Btrbk, VerifyPoints, Cleanup, RemoveCapture, Unlist, CleanedUp,
     Publish, WriteLocal, WriteGood, Rescue, Record, NotReady, Raises, Fails, StopRunner, copyVars
<1>2. CASE Btrbk(p)
  <2>1. where[p] = "btrbk" /\ where'[p] \in {"verify", "rescue"} BY <1>0, <1>2 DEF Btrbk, Stands, To
  <2>2. p # "unit" => where'["unit"] = where["unit"] BY <1>0, <1>2 DEF Btrbk, To
  <2>3. p # "unit" => where["unit"] \in Outside BY <1>0, <2>1, Alone DEF Outside
  <2>4. where'["unit"] \notin CopyPlaces BY <2>1, <2>2, <2>3 DEF CopyPlaces, Outside
  <2> QED BY <1>1, <2>4, QuietCopy
<1>3. CASE ~Btrbk(p)
  <2>1. snaps' = snaps
    BY <1>3 DEF CaptureStep, Lock, Admit, CopyBoot, VerifyPoints, Cleanup, RemoveCapture, Unlist, CleanedUp,
       Publish, WriteLocal, WriteGood, Rescue, Record, NotReady, Raises, Fails, StopRunner, captureVars
  <2>2. where' = where \/ \E x \in Places \ CopyPlaces : where' = [where EXCEPT ![p] = x]
    <3>1. CASE RemoveCapture(p) BY <3>1 DEF RemoveCapture, To, Places, CopyPlaces
    <3>2. CASE WriteGood(p) \/ Record(p) \/ NotReady(p)
      BY <3>2 DEF WriteGood, Record, NotReady, Captured, Ends, To, Places, CopyPlaces
    <3>3. CASE Raises(p) \/ Fails(p) \/ StopRunner(p)
      BY <3>3 DEF Raises, Fails, StopRunner, Ends, To, Places, CopyPlaces
    <3>4. CASE Lock(p) BY <3>4 DEF Lock, To, Places, CopyPlaces
    <3>5. CASE \/ Admit(p) \/ CopyBoot(p) \/ VerifyPoints(p) \/ Cleanup(p) \/ Unlist(p) \/ CleanedUp(p)
               \/ Publish(p) \/ WriteLocal(p) \/ Rescue(p)
      BY <3>5 DEF Admit, CopyBoot, VerifyPoints, Cleanup, Unlist, CleanedUp, Publish, WriteLocal, Rescue,
         To, Places, CopyPlaces
    <3> QED BY <1>3, <3>1, <3>2, <3>3, <3>4, <3>5 DEF CaptureStep
  <2>3. where'["unit"] = where["unit"] \/ where'["unit"] \notin CopyPlaces BY <1>0, <2>2
  <2> QED BY <1>1, <2>1, <2>3, QuietCopy
<1> QED BY <1>2, <1>3

LEMMA OtherCopy ==
    ASSUME Types, CopyInv,
           \/ Request \/ StartUnit \/ Command \/ NewDay \/ BeginVerify \/ SetEnabled \/ VerifyStep
           \/ Recover \/ Unlink \/ NoTarget
    PROVE  CopyInv'
<1>0. where \in [Runner -> Places] /\ "unit" \in Runner /\ state \in StateType BY DEF Types, BackupTypeOK, Runner
<1>1. UNCHANGED <<repo, blank, copies, memory, done, source, snaps>>
  BY DEF Request, StartUnit, Command, NewDay, BeginVerify, SetEnabled, VerifyStep, RunCheck, SpotRestore, Recover,
     Unlink, NoTarget, captureVars, copyVars
<1>2. state'.success = state.success
  <2>1. CASE Recover BY <1>0, <2>1, StateTypes DEF Recover
  <2>2. CASE VerifyStep BY <2>2 DEF VerifyStep, RunCheck, SpotRestore, Update
  <2> QED BY <2>1, <2>2 DEF Request, StartUnit, Command, NewDay, BeginVerify, SetEnabled, Unlink, NoTarget
<1>3. where'["unit"] = where["unit"] \/ where'["unit"] \notin CopyPlaces
  <2>1. CASE Request \/ NewDay \/ BeginVerify \/ SetEnabled \/ VerifyStep
    BY <2>1 DEF Request, NewDay, BeginVerify, SetEnabled, VerifyStep, RunCheck, SpotRestore
  <2>2. CASE StartUnit \/ Command \/ Recover \/ Unlink \/ NoTarget
    BY <1>0, <2>2 DEF StartUnit, Command, Recover, Unlink, NoTarget, Ends, To, CopyPlaces
  <2> QED BY <2>1, <2>2
<1> QED BY <1>1, <1>2, <1>3, QuietCopy

(* The snapshots a copy is given are there: this run's by what its capture *)
(* has done, the last good run's because _points looked.                   *)
LEMMA DecideCopy ==
    ASSUME Types, OnDisk, CopyInv, Decide
    PROVE  CopyInv'
<1>0. where \in [Runner -> Places] /\ "unit" \in Runner BY DEF Types, BackupTypeOK, Runner
<1>1. UNCHANGED <<repo, blank, copies, memory, done, state, snaps>> BY DEF Decide
<1>2. CASE where'["unit"] \notin CopyPlaces BY <1>1, <1>2, QuietCopy
<1>3. CASE where'["unit"] \in CopyPlaces
  <2>1. PICK held \in BOOLEAN :
           IF Due(held) /\ Points # NoRun /\ copies < MaxCopies - (IF force THEN 0 ELSE Reserve)
           THEN To("unit", "offsite") /\ source' = Points
           ELSE Ends("unit")
    BY DEF Decide
  <2>2. /\ where'["unit"] = "offsite" /\ source' = Points /\ Points # NoRun
        /\ copies < MaxCopies - (IF force THEN 0 ELSE Reserve)
    BY <1>0, <1>3, <2>1 DEF To, Ends, CopyPlaces
  <2>3. copies < MaxCopies
    <3>1. copies \in Nat /\ MaxCopies \in Nat /\ Reserve \in Nat BY BackupAssumption DEF Types, Copy
    <3> QED BY <2>2, <3>1
  <2>4. \A v \in Subvol : Points \in snaps[v]
    BY <1>0, <2>2 DEF Points, OnDisk, OnDiskOf
  <2>5. Kept(state.success)' /\ Kept(memory.success)' BY <1>1 DEF CopyInv, Kept, Restorable
  <2> QED BY <1>1, <2>2, <2>3, <2>4, <2>5 DEF CopyInv
<1> QED BY <1>2, <1>3

LEMMA BeginCopyKeeps ==
    ASSUME Types, CopyInv, BeginCopy
    PROVE  CopyInv'
<1>0. where \in [Runner -> Places] /\ "unit" \in Runner /\ copies \in Nat /\ state.success \in Nat
  BY DEF Types, BackupTypeOK, Runner, Copy, StateType
<1>1. /\ UNCHANGED <<repo, blank, source, snaps>> /\ copies' = copies + 1 /\ done' = <<>>
      /\ where["unit"] = "offsite" /\ where'["unit"] = "jobs"
  BY <1>0 DEF BeginCopy, Stands, To, captureVars
<1>2. memory' \in StateType /\ memory'.success = state.success
  BY ReadTypes, StateTypes DEF BeginCopy
<1>3. state'.success = state.success
  <2>1. state' = Written(memory') BY DEF BeginCopy
  <2> QED BY <1>2, <2>1, StateTypes
<1>4. Kept(state.success)' /\ Kept(memory.success)' BY <1>1, <1>2, <1>3 DEF CopyInv, Kept, Restorable
<1>5. \A j \in Job : /\ repo'[j] \subseteq 0..copies' /\ blank'[j] \subseteq 0..copies'
                     /\ copies' \notin repo'[j] \cup blank'[j]
  BY <1>0, <1>1 DEF CopyInv
<1>6. state'.success <= copies' /\ memory'.success <= copies' BY <1>0, <1>1, <1>2, <1>3 DEF CopyInv
<1>7. \A i \in DOMAIN JobOrder : i \notin DOMAIN done' /\ JobOrder[i] \in Job BY <1>1, BackupAssumption
<1>8. \A v \in Subvol : source' \in snaps'[v] BY <1>1 DEF CopyInv
<1>9. copies' > 0 BY <1>0, <1>1
<1> QED BY <1>1, <1>4, <1>5, <1>6, <1>7, <1>8, <1>9 DEF CopyInv

(* A job adds to its own group and to no other, and marks as empty only    *)
(* what it has just stored.                                                *)
LEMMA JobStores ==
    ASSUME Types, CopyInv, RunJob
    PROVE  \E x \in {"ok", "failed", "offline"} : LET j == JobOrder[Len(done) + 1] IN
             /\ done' = Append(done, x) /\ j \in Job
             /\ copies \notin repo[j] \cup blank[j]
             /\ x = "ok" => repo'[j] = repo[j] \cup {copies} /\ blank'[j] = blank[j]
             /\ repo[j] \subseteq repo'[j] /\ repo'[j] \subseteq repo[j] \cup {copies}
             /\ blank[j] \subseteq blank'[j] /\ blank'[j] \subseteq blank[j] \cup {copies}
             /\ \A k \in Job \ {j} : repo'[k] = repo[k] /\ blank'[k] = blank[k]
<1> DEFINE j == JobOrder[Len(done) + 1]
<1>0. /\ done \in Seq({"ok", "failed", "offline"}) /\ JobOrder \in Seq(Job) /\ Len(done) < Len(JobOrder)
      /\ repo \in [Job -> SUBSET (0..MaxCopies)] /\ blank \in [Job -> SUBSET (0..MaxCopies)]
      /\ where["unit"] = "jobs"
  BY BackupAssumption DEF RunJob, Types, BackupTypeOK, Stands
<1>1. Len(done) + 1 \in DOMAIN JobOrder /\ Len(done) + 1 \notin DOMAIN done BY <1>0
<1>2. j \in Job /\ copies \notin repo[j] \cup blank[j] BY <1>0, <1>1 DEF CopyInv
<1>3. PICK x \in {"ok", "failed", "offline"} :
         /\ done' = Append(done, x)
         /\ x = "ok" => repo' = [repo EXCEPT ![j] = @ \cup {copies}] /\ blank' = blank
         /\ x # "ok" => \/ repo' = repo /\ blank' = blank
                        \/ /\ repo' = [repo EXCEPT ![j] = @ \cup {copies}]
                           /\ blank' = [blank EXCEPT ![j] = @ \cup {copies}]
  BY DEF RunJob
<1> HIDE DEF j
<1>4. /\ x = "ok" => repo'[j] = repo[j] \cup {copies} /\ blank'[j] = blank[j]
      /\ repo[j] \subseteq repo'[j] /\ repo'[j] \subseteq repo[j] \cup {copies}
      /\ blank[j] \subseteq blank'[j] /\ blank'[j] \subseteq blank[j] \cup {copies}
      /\ \A k \in Job \ {j} : repo'[k] = repo[k] /\ blank'[k] = blank[k]
  BY <1>0, <1>2, <1>3
<1> QED BY <1>2, <1>3, <1>4 DEF j

LEMMA RunJobKeeps ==
    ASSUME Types, CopyInv, RunJob
    PROVE  /\ CopyInv'
           /\ \A k \in Job : Restorable(k) \subseteq Restorable(k)'
<1>0. /\ done \in Seq({"ok", "failed", "offline"}) /\ copies \in Nat /\ JobOrder \in Seq(Job)
      /\ Len(done) < Len(JobOrder) /\ memory \in StateType
  BY BackupAssumption DEF RunJob, Types, BackupTypeOK, Copy
<1>1. UNCHANGED <<source, snaps, copies, memory, where>> /\ where["unit"] = "jobs"
  BY DEF RunJob, Stands, captureVars
<1>2. PICK j \in Job, x \in {"ok", "failed", "offline"} :
         /\ j = JobOrder[Len(done) + 1] /\ done' = Append(done, x)
         /\ copies \notin repo[j] \cup blank[j]
         /\ x = "ok" => repo'[j] = repo[j] \cup {copies} /\ blank'[j] = blank[j]
         /\ repo[j] \subseteq repo'[j] /\ repo'[j] \subseteq repo[j] \cup {copies}
         /\ blank[j] \subseteq blank'[j] /\ blank'[j] \subseteq blank[j] \cup {copies}
         /\ \A k \in Job \ {j} : repo'[k] = repo[k] /\ blank'[k] = blank[k]
  BY JobStores
<1>4. \A k \in Job : Restorable(k) \subseteq Restorable(k)' BY <1>2 DEF Restorable
<1>5. x = "ok" => copies \in Restorable(j)' BY <1>2 DEF Restorable
<1>6. state'.success = memory.success BY <1>0, StateTypes DEF RunJob
<1>7. Kept(state.success)' /\ Kept(memory.success)'
  <2>1. Kept(memory.success) /\ Required \subseteq Job BY DEF CopyInv, Required, Job
  <2>2. Kept(memory.success)' BY <1>1, <1>4, <2>1 DEF Kept
  <2> QED BY <1>1, <1>6, <2>2 DEF Kept
<1>8. ASSUME NEW i \in DOMAIN JobOrder
      PROVE  IF i \in DOMAIN done' THEN done'[i] = "ok" => copies \in Restorable(JobOrder[i])'
             ELSE copies \notin repo'[JobOrder[i]] \cup blank'[JobOrder[i]]
  <2>1. JobOrder[i] \in Job BY <1>0
  <2>2. CASE i = Len(done) + 1
    <3>1. i \in DOMAIN done' /\ done'[i] = x BY <1>0, <1>2, <2>2
    <3> QED BY <1>2, <1>5, <2>2, <3>1
  <2>3. CASE i # Len(done) + 1
    <3>1. /\ i \in DOMAIN done' <=> i \in DOMAIN done
          /\ i \in DOMAIN done => done'[i] = done[i]
      BY <1>0, <1>2, <2>3
    <3>2. Len(done) + 1 \in DOMAIN JobOrder BY <1>0
    <3>3. JobOrder[i] # j BY <1>2, <2>3, <3>2, BackupAssumption
    <3>4. repo'[JobOrder[i]] = repo[JobOrder[i]] /\ blank'[JobOrder[i]] = blank[JobOrder[i]]
      BY <1>2, <2>1, <3>3
    <3>5. IF i \in DOMAIN done THEN done[i] = "ok" => copies \in Restorable(JobOrder[i])
          ELSE copies \notin repo[JobOrder[i]] \cup blank[JobOrder[i]]
      BY <1>1 DEF CopyInv
    <3> QED BY <1>4, <2>1, <3>1, <3>4, <3>5
  <2> QED BY <2>2, <2>3
<1>9. \A k \in Job : repo'[k] \subseteq 0..copies' /\ blank'[k] \subseteq 0..copies'
  <2>1. \A k \in Job : /\ repo'[k] \subseteq repo[k] \cup {copies}
                       /\ blank'[k] \subseteq blank[k] \cup {copies}
    BY <1>2
  <2> QED BY <1>0, <1>1, <2>1 DEF CopyInv
<1>10. /\ state'.success <= copies' /\ memory'.success <= copies'
       /\ \A v \in Subvol : source' \in snaps'[v]
  BY <1>1, <1>6 DEF CopyInv
<1> QED BY <1>1, <1>4, <1>7, <1>8, <1>9, <1>10 DEF CopyInv

LEMMA ConcludeKeeps ==
    ASSUME Types, CopyInv, Conclude \/ JobsRaise
    PROVE  CopyInv'
<1>0. where \in [Runner -> Places] /\ "unit" \in Runner /\ memory \in StateType BY DEF Types, BackupTypeOK, Runner
<1>1. UNCHANGED <<source, snaps, copies, repo, blank, state, done>> /\ where["unit"] = "jobs"
  BY DEF Conclude, JobsRaise, Stands, captureVars
<1>2. memory'.success = memory.success BY <1>0 DEF Conclude, JobsRaise, StateType
<1>3. Kept(state.success)' /\ Kept(memory.success)' BY <1>1, <1>2 DEF CopyInv, Kept, Restorable
<1>4. CASE memory'.status # "ok" /\ where'["unit"] = "final"
  BY <1>1, <1>2, <1>3, <1>4 DEF CopyInv, Restorable
<1>5. CASE AllRequired /\ memory'.status = "ok" /\ where'["unit"] = "retain"
  <2>1. \A j \in Required : copies \in Restorable(j)
    <3> TAKE j \in Required
    <3>1. PICK i \in DOMAIN done : JobOrder[i] = j /\ done[i] = "ok" BY <1>5 DEF AllRequired, Stored
    <3>2. i \in DOMAIN JobOrder
      <4>1. done \in Seq({"ok", "failed", "offline"}) /\ Len(done) <= Len(JobOrder) /\ JobOrder \in Seq(Job)
        BY BackupAssumption DEF Types, BackupTypeOK
      <4> QED BY <3>1, <4>1
    <3> QED BY <1>1, <3>1, <3>2 DEF CopyInv
  <2> QED BY <1>1, <1>2, <1>3, <1>5, <2>1 DEF CopyInv, Restorable
<1>6. CASE JobsRaise
  BY <1>0, <1>4, <1>6 DEF JobsRaise, To, StateType
<1>7. CASE Conclude
  <2>1. memory'.status = IF AllRequired THEN "ok" ELSE "failed" BY <1>0, <1>7 DEF Conclude, StateType
  <2>2. where'["unit"] = IF AllRequired THEN "retain" ELSE "final" BY <1>0, <1>7 DEF Conclude, To
  <2> QED BY <1>4, <1>5, <2>1, <2>2
<1> QED BY <1>6, <1>7

LEMMA FinishKeeps ==
    ASSUME Types, CopyInv, Finish
    PROVE  CopyInv'
<1>0. where \in [Runner -> Places] /\ "unit" \in Runner /\ memory \in StateType /\ copies \in Nat
  BY DEF Types, BackupTypeOK, Runner, Copy
<1>1. UNCHANGED <<source, snaps, copies, repo, blank, memory, done>> /\ where["unit"] = "final" /\ where'["unit"] = "unlink"
  BY <1>0 DEF Finish, Stands, To, captureVars, copyVars
<1>2. \/ state'.success = memory.success
      \/ memory.status = "ok" /\ state'.success = copies
  BY <1>0 DEF Finish, Written, StateType
<1>3. Kept(state.success)'
  <2>1. CASE state'.success = memory.success BY <1>1, <2>1 DEF CopyInv, Kept, Restorable
  <2>2. CASE memory.status = "ok" /\ state'.success = copies
    BY <1>0, <1>1, <2>2 DEF CopyInv, Kept, Restorable
  <2> QED BY <1>2, <2>1, <2>2
<1>4. Kept(memory.success)' BY <1>1 DEF CopyInv, Kept, Restorable
<1>5. state'.success <= copies BY <1>0, <1>2 DEF CopyInv, Restorable
<1> QED BY <1>1, <1>3, <1>4, <1>5 DEF CopyInv, Restorable

(* Retention: a group keeps its newest copy, and an old per-source copy is *)
(* only forgotten next to a newer one or when its source is disabled.      *)
LEMMA Forgotten ==
    ASSUME Types, CopyInv, NEW old, NEW j \in Job
    PROVE  /\ ForgetDaily(old)[j] \subseteq repo[j]
           /\ repo[j] # {} => Max(repo[j]) \in ForgetDaily(old)[j]
           /\ copies \in repo[j] => copies = Max(repo[j])
<1>0. copies \in Nat /\ repo[j] \subseteq 0..copies BY DEF Types, Copy, CopyInv
<1>1. ForgetDaily(old)[j] = repo[j] \ {c \in old \ {OldCopy} : c # Max(repo[j])} BY DEF ForgetDaily
<1>2. CASE repo[j] = {} BY <1>1, <1>2
<1>3. CASE repo[j] # {}
  <2>1. Max(repo[j]) \in repo[j] /\ \A y \in repo[j] : Max(repo[j]) >= y BY <1>0, <1>3, MaxIsIn
  <2>2. Max(repo[j]) \in ForgetDaily(old)[j] BY <1>1, <2>1
  <2>3. copies \in repo[j] => Max(repo[j]) = copies
    <3>1. Max(repo[j]) \in 0..copies BY <1>0, <2>1
    <3> QED BY <1>0, <2>1, <3>1
  <2> QED BY <1>1, <2>2, <2>3
<1> QED BY <1>2, <1>3

LEMMA RetainForgets ==
    ASSUME Types, CopyInv, Retain, NEW j \in Job
    PROVE  /\ repo'[j] \subseteq repo[j] /\ blank' = blank
           /\ repo[j] # {} => \/ Max(repo[j]) \in repo'[j]
                              \/ j \in Guest /\ j \notin enabled /\ repo[j] = {OldCopy}
<1>0. copies \in Nat /\ repo[j] \subseteq 0..copies BY DEF Types, Copy, CopyInv
<1>1. blank' = blank BY DEF Retain
<1>2. repo[j] # {} => Max(repo[j]) \in repo[j] /\ \A y \in repo[j] : Max(repo[j]) >= y BY <1>0, MaxIsIn
<1>3. CASE repo' = repo BY <1>1, <1>2, <1>3
<1>4. CASE \E old \in SUBSET (1..copies) : repo' = ForgetDaily(old) BY <1>1, <1>4, Forgotten
<1>5. CASE \E old \in SUBSET (1..copies), aged \in BOOLEAN :
             repo' = [k \in Job |->
                 IF aged /\ memory.oks >= LegacyAfter /\ k \in RetentionIds(ForgetDaily(old))
                 THEN ForgetDaily(old)[k] \ {OldCopy} ELSE ForgetDaily(old)[k]]
  <2>1. PICK old \in SUBSET (1..copies) :
           \/ repo'[j] = ForgetDaily(old)[j]
           \/ j \in RetentionIds(ForgetDaily(old)) /\ repo'[j] = ForgetDaily(old)[j] \ {OldCopy}
    BY <1>5
  <2>2. CASE repo'[j] = ForgetDaily(old)[j] BY <1>1, <2>2, Forgotten
  <2>3. CASE j \in RetentionIds(ForgetDaily(old)) /\ repo'[j] = ForgetDaily(old)[j] \ {OldCopy}
    <3>1. ForgetDaily(old)[j] \subseteq repo[j] /\ Max(repo[j]) \in ForgetDaily(old)[j]
      BY <2>3, Forgotten DEF RetentionIds
    <3>2. CASE Max(repo[j]) # OldCopy BY <1>1, <2>3, <3>1, <3>2
    <3>3. CASE Max(repo[j]) = OldCopy
      <4>1. repo[j] = {OldCopy}
        <5>1. \A y \in repo[j] : y \in Nat /\ y <= 0 BY <1>0, <1>2, <3>3 DEF OldCopy
        <5> QED BY <3>1, <3>3, <5>1 DEF OldCopy
      <4>2. j \in Guest /\ j \notin enabled BY <2>3, <3>1, <4>1 DEF RetentionIds
      <4> QED BY <1>1, <2>3, <3>1, <4>1, <4>2
    <3> QED BY <3>2, <3>3
  <2> QED BY <2>1, <2>2, <2>3
<1> QED BY <1>3, <1>4, <1>5 DEF Retain

LEMMA RetainKeeps ==
    ASSUME Types, CopyInv, Retain
    PROVE  CopyInv'
<1>0. /\ where \in [Runner -> Places] /\ "unit" \in Runner /\ memory \in StateType /\ copies \in Nat
      /\ state.success \in Nat
  BY DEF Types, BackupTypeOK, Runner, Copy, StateType
<1>1. /\ UNCHANGED <<source, snaps, copies, state, done, blank>>
      /\ where["unit"] = "retain" /\ where'["unit"] = "final"
  BY <1>0 DEF Retain, Stands, To, captureVars
<1>2. memory'.success = memory.success /\ memory.success \in Nat BY <1>0 DEF Retain, StateType, Copy
<1>3. \A j \in Required : copies \in Restorable(j) BY <1>1 DEF CopyInv
<1>4. Required \subseteq Job BY DEF Required, Job
<1>5. \A j \in Job : repo'[j] \subseteq repo[j] BY RetainForgets
<1>6. \A j \in Required : copies \in Restorable(j)'
  <2> TAKE j \in Required
  <2>1. copies \in repo[j] /\ copies \notin blank[j] /\ j \in Job BY <1>3, <1>4 DEF Restorable
  <2>2. copies = Max(repo[j]) BY <2>1, Forgotten
  <2>3. copies > 0 BY <1>1 DEF CopyInv
  <2>4. copies \in repo'[j] BY <1>0, <2>1, <2>2, <2>3, RetainForgets DEF OldCopy
  <2> QED BY <1>1, <2>1, <2>4 DEF Restorable
<1>7. Kept(state.success)' /\ Kept(memory.success)'
  <2>1. copies >= state.success /\ copies >= memory.success BY <1>0, <1>2 DEF CopyInv
  <2> QED BY <1>1, <1>2, <1>6, <2>1 DEF Kept
<1>8. \A j \in Job : repo'[j] \subseteq 0..copies' /\ blank'[j] \subseteq 0..copies' BY <1>1, <1>5 DEF CopyInv
<1>9. state'.success <= copies' /\ memory'.success <= copies' BY <1>1, <1>2 DEF CopyInv
<1> QED BY <1>1, <1>2, <1>6, <1>7, <1>8, <1>9 DEF CopyInv
----------------------------------------------------------------------------
LEMMA InitInv ==
    ASSUME BackupInit
    PROVE  IInv
<1> USE DEF Runner, NoRun, Absent
<1>0. MaxRuns \in Nat /\ MaxCopies \in Nat /\ MaxFaults \in Nat /\ JobOrder \in Seq(Job)
  BY BackupAssumption
<1>1. NoState \in StateType /\ NoState.checked = 0 /\ NoState.success = 0 /\ NoState.status = "none"
      /\ NoState.jobs \in [Job -> Copy]
  BY <1>0 DEF NoState, StateType, Copy
<1>2. capture \in [Run -> [receipt: {"none", "failed", "completed"}, boot: BOOLEAN]]
  BY DEF BackupInit, Missing
<1>3. repo \in [Job -> SUBSET (0..MaxCopies)] /\ blank \in [Job -> SUBSET (0..MaxCopies)]
  BY <1>0 DEF BackupInit, OldCopy
<1>4. done \in Seq({"ok", "failed", "offline"}) /\ Len(done) <= Len(JobOrder) BY <1>0 DEF BackupInit
<1>5. BackupTypeOK
  <2>1. state.status = "none" BY <1>1 DEF BackupInit
  <2> QED BY <1>0, <1>2, <1>3, <1>4, <2>1 DEF BackupInit, BackupTypeOK, Places
<1>6. Types
  <2>1. /\ state \in StateType /\ memory \in StateType /\ state.checked = 0
        /\ check \in [at : {"off", "check", "spot"}, jobs : [Job -> Copy]]
    BY <1>1 DEF BackupInit
  <2>2. /\ verify \in [checked : Nat, spot : Nat] /\ checks \in Nat /\ verify.checked <= checks
        /\ runs \in 0..MaxRuns /\ copies \in Copy /\ faults \in 0..MaxFaults
    BY <1>0 DEF BackupInit, Copy
  <2> QED BY <1>5, <2>1, <2>2 DEF Types
<1>7. LockInv BY DEF BackupInit, LockInv, Outside, Before, UnitOnly
<1>8. NewestRun BY DEF BackupInit, NewestRun, NewestOf, InCapture, Booted
<1>9. OnDisk BY DEF BackupInit, OnDisk, OnDiskOf, Booted
<1>10. Removable BY DEF BackupInit, Removable
<1>11. LastGoodRestorable BY DEF BackupInit, LastGoodRestorable
<1>12. CopyInv BY <1>1 DEF BackupInit, CopyInv, Kept, OldCopy, Job
<1> QED BY <1>6, <1>7, <1>8, <1>9, <1>10, <1>11, <1>12 DEF IInv

LEMMA StepInv ==
    ASSUME IInv, BackupNext
    PROVE  IInv'
<1>0. Types /\ LockInv /\ CopyInv /\ CaptureParts /\ NewestRun /\ OnDisk BY DEF IInv, CaptureParts
<1>1. Types' BY <1>0, CaptureTypes, CopyTypes, OtherTypes DEF BackupNext
<1>2. LockInv' BY <1>0, CaptureLock, OtherLock DEF BackupNext
<1>3. CaptureParts'
  <2>1. ASSUME NEW p \in Runner, CaptureStep(p) PROVE CaptureParts'
    BY <1>0, <1>2, <2>1, OutsideCapture, AdmitCapture, BtrbkCapture, OwnReceipts, PlainCapture,
       RemoveKeeps, UnlistCapture, EndCapture DEF CaptureStep
  <2>2. ASSUME NEW p \in Runner, Raises(p) \/ Fails(p) \/ StopRunner(p) PROVE CaptureParts'
    <3>1. Raises(p) => where[p] \in {"admit", "record"} BY DEF Raises
    <3> QED BY <1>0, <1>2, <2>2, <3>1, OutsideCapture, PlainCapture, EndCapture
  <2>3. CASE \/ CopyStep \/ NoTarget \/ JobsRaise \/ VerifyStep
             \/ Request \/ StartUnit \/ Command \/ NewDay \/ BeginVerify \/ SetEnabled
    <3>1. "unit" \in Runner BY DEF Runner
    <3> QED BY <1>0, <2>3, <3>1, OutsideCapture
  <2> QED BY <2>1, <2>2, <2>3 DEF BackupNext, Interruption
<1>4. CopyInv'
  <2>1. ASSUME NEW p \in Runner, CaptureStep(p) \/ Raises(p) \/ Fails(p) \/ StopRunner(p) PROVE CopyInv'
    BY <1>0, <2>1, CaptureCopy
  <2>2. CASE CopyStep \/ JobsRaise
    BY <1>0, <2>2, OtherCopy, DecideCopy, BeginCopyKeeps, RunJobKeeps, ConcludeKeeps, RetainKeeps, FinishKeeps
       DEF CopyStep
  <2>3. CASE Request \/ StartUnit \/ Command \/ NewDay \/ BeginVerify \/ SetEnabled \/ VerifyStep \/ NoTarget
    BY <1>0, <2>3, OtherCopy
  <2> QED BY <2>1, <2>2, <2>3 DEF BackupNext, Interruption
<1> QED BY <1>1, <1>2, <1>3, <1>4 DEF IInv, CaptureParts

LEMMA StutterInv ==
    ASSUME IInv, UNCHANGED backupVars
    PROVE  IInv'
<1>1. Types' BY DEF IInv, Types, BackupTypeOK, backupVars, captureVars, copyVars, verifyVars, outside
<1>2. LockInv' BY DEF IInv, LockInv, backupVars, captureVars
<1>3. CaptureParts' 
  <2>1. CaptureParts BY DEF IInv, CaptureParts
  <2> QED BY <2>1, QuietCapture DEF backupVars, captureVars, CaptureSame
<1>4. CopyInv'
  <2>1. CopyInv BY DEF IInv
  <2> QED BY <2>1, QuietCopy DEF backupVars, captureVars, copyVars
<1> QED BY <1>1, <1>2, <1>3, <1>4 DEF IInv, CaptureParts

(* What the holder of run.lock has on disk at each point of a run, and     *)
(* what Drive keeps, is an invariant of the backup.                        *)
THEOREM Inductive == BackupSpec => []IInv
<1>1. BackupInit => IInv BY InitInv
<1>2. IInv /\ [BackupNext]_backupVars => IInv' BY StepInv, StutterInv
<1> QED BY <1>1, <1>2, PTL DEF BackupSpec

(* Type correctness (backup_btrbk.py, backup_offsite.py, backup_run.py,    *)
(* backup_verify.py).                                                      *)
THEOREM TypeCorrect == BackupSpec => []BackupTypeOK
<1>1. IInv => BackupTypeOK BY DEF IInv, Types
<1> QED BY <1>1, Inductive, PTL

(* The run last-good.json names has its completed receipt and its boot     *)
(* copy on the T7 while any of its points is there, whichever step of a    *)
(* later run failed or was interrupted, cleanup's deletions included.      *)
THEOREM LastGoodProved == BackupSpec => []LastGoodRestorable
<1>1. IInv => LastGoodRestorable BY DEF IInv
<1> QED BY <1>1, Inductive, PTL

(* While a copy reads the subvolumes, btrbk cannot have thinned away the   *)
(* snapshots of the run the copy is of: run.lock is held from _points on.  *)
THEOREM ReadsOneRunProved == BackupSpec => []ReadsOneRun
<1>1. IInv => ReadsOneRun BY DEF IInv, CopyInv, ReadsOneRun, Stands
<1> QED BY <1>1, Inductive, PTL

(* Only a job and retention touch the copies in Drive.                     *)
LEMMA OtherSteps ==
    ASSUME BackupNext, ~RunJob, ~Retain
    PROVE  UNCHANGED <<repo, blank>>
BY DEF BackupNext, CaptureStep, Lock, Admit, CopyBoot, Btrbk, VerifyPoints, Cleanup, RemoveCapture,
   Unlist, CleanedUp, Publish, WriteLocal, WriteGood, Rescue, Record, NotReady, CopyStep, Recover,
   Decide, BeginCopy, Conclude, Finish, Unlink, Interruption, NoTarget, JobsRaise, Raises, Fails,
   StopRunner, Request, StartUnit, Command, NewDay, BeginVerify, SetEnabled, VerifyStep, RunCheck,
   SpotRestore, copyVars

(* A success in state.json stands for a copy with data of every required   *)
(* part that retention has not forgotten; and a registered source loses    *)
(* its last one only while it is disabled and the daily job never copied   *)
(* it, or behind an empty copy that a failed job left.                     *)
THEOREM DriveKeepsCopiesProved == BackupSpec => DriveKeepsCopies
<1> DEFINE Step == /\ state'.success # NoRun =>
                         \A j \in Required : \E c \in Restorable(j)' : c >= state'.success
                   /\ \A j \in Guest : Restorable(j) # {} /\ Restorable(j)' = {} =>
                         (j \notin enabled /\ repo[j] = {OldCopy}) \/ Max(repo[j]) \in blank[j]
<1>1. IInv /\ IInv' /\ [BackupNext]_backupVars => [Step]_backupVars
  <2> SUFFICES ASSUME IInv, IInv', BackupNext PROVE Step
    OBVIOUS
  <2>1. state'.success # NoRun => \A j \in Required : \E c \in Restorable(j)' : c >= state'.success
    BY DEF IInv, CopyInv, Kept
  <2>2. ASSUME NEW j \in Guest, Restorable(j) # {}, Restorable(j)' = {}, Max(repo[j]) \notin blank[j]
        PROVE  j \notin enabled /\ repo[j] = {OldCopy}
    <3>1. Types /\ CopyInv /\ j \in Job BY DEF IInv, Job
    <3>2. ~RunJob BY <2>2, <3>1, RunJobKeeps
    <3>3. Retain BY <2>2, <3>2, OtherSteps DEF Restorable
    <3>4. repo[j] # {} BY <2>2 DEF Restorable
    <3>5. Max(repo[j]) \notin repo'[j] BY <2>2, <3>1, <3>3, RetainForgets DEF Restorable
    <3> QED BY <3>1, <3>3, <3>4, <3>5, RetainForgets
  <2> QED BY <2>1, <2>2
<1> QED BY <1>1, Inductive, PTL DEF BackupSpec, DriveKeepsCopies

(* What the weekly read-back recorded is never lost to a backup that read  *)
(* the state before it (backup_offsite.py, write_state and read_state).    *)
THEOREM VerifyRecordProved == BackupSpec => VerifyRecordKept
<1>1. IInv /\ IInv' /\ [BackupNext]_backupVars => [Read'.checked >= Read.checked]_backupVars
  <2> SUFFICES ASSUME IInv, IInv', BackupNext PROVE Read'.checked >= Read.checked
    OBVIOUS
  <2>1. Read.checked = verify.checked /\ verify.checked \in Nat /\ verify.checked <= checks /\ checks \in Nat
    BY ReadTypes DEF IInv, Types
  <2>2. Read'.checked = verify'.checked
    <3>1. Types' BY DEF IInv
    <3>2. state' \in StateType /\ verify'.checked \in Nat /\ state'.checked = 0 BY <3>1 DEF Types
    <3> QED BY <3>2 DEF Read, StateType
  <2>3. verify'.checked \in {verify.checked, checks}
    <3>1. verify \in [checked : Nat, spot : Nat] BY DEF IInv, Types
    <3>2. CASE RunCheck BY <3>1, <3>2 DEF RunCheck, Update
    <3>3. CASE SpotRestore BY <3>1, <3>3 DEF SpotRestore, Update
    <3>4. CASE ~VerifyStep
      <4>1. verify' = verify
        BY <3>4 DEF BackupNext, CaptureStep, Lock, Admit, CopyBoot, Btrbk, VerifyPoints, Cleanup, RemoveCapture,
           Unlist, CleanedUp, Publish, WriteLocal, WriteGood, Rescue, Record, NotReady, CopyStep, Recover,
           Decide, BeginCopy, RunJob, Conclude, Retain, Finish, Unlink, Interruption, NoTarget, JobsRaise,
           Raises, Fails, StopRunner, Request, StartUnit, Command, NewDay, BeginVerify, SetEnabled, verifyVars
      <4> QED BY <4>1
    <3> QED BY <3>2, <3>3, <3>4 DEF VerifyStep
  <2> QED BY <2>1, <2>2, <2>3
<1> QED BY <1>1, Inductive, PTL DEF BackupSpec, VerifyRecordKept

-----------------------------------------------------------------------------
(* The write window.                                                       *)

(* _counts of a process is the number of its threads inside, and a process *)
(* that is gone has none and is not live to the helper.                    *)
CountInv ==
    \A p \in Proc : /\ IsFiniteSet(inside[p]) /\ count[p] = Cardinality(inside[p])
                    /\ p \notin alive => inside[p] = {} /\ p \in expired

(* While the helper has not failed, the mount follows the holder files and *)
(* whoever is inside has one, if it has not run out.                       *)
HolderInv ==
    upsets = 0 => /\ strays = {} /\ (mode = "rw" <=> holders # {})
                  /\ \A p \in Proc : inside[p] # {} /\ p \notin expired => p \in holders

WindowInv == WindowTypeOK /\ CountInv /\ HolderInv

LEMMA ThreadCount ==
    ASSUME WindowInv, NEW p \in Proc, NEW t \in Thread
    PROVE  /\ count[p] \in Nat /\ (count[p] = 0 <=> inside[p] = {})
           /\ t \notin inside[p] => /\ IsFiniteSet(inside[p] \cup {t})
                                    /\ Cardinality(inside[p] \cup {t}) = count[p] + 1
           /\ t \in inside[p] => /\ IsFiniteSet(inside[p] \ {t})
                                 /\ Cardinality(inside[p] \ {t}) = count[p] - 1
                                 /\ count[p] - 1 = 0 <=> inside[p] \ {t} = {}
<1>1. IsFiniteSet(inside[p]) /\ count[p] = Cardinality(inside[p])
  BY DEF WindowInv, CountInv
<1>2. count[p] \in Nat /\ (count[p] = 0 <=> inside[p] = {})
  BY <1>1, FS_CardinalityType, FS_EmptySet
<1>3. t \notin inside[p] => /\ IsFiniteSet(inside[p] \cup {t})
                            /\ Cardinality(inside[p] \cup {t}) = count[p] + 1
  BY <1>1, FS_AddElement
<1>4. t \in inside[p] => /\ IsFiniteSet(inside[p] \ {t})
                         /\ Cardinality(inside[p] \ {t}) = count[p] - 1
  BY <1>1, FS_RemoveElement
<1>5. t \in inside[p] => (count[p] - 1 = 0 <=> inside[p] \ {t} = {})
  BY <1>4, FS_EmptySet
<1> QED BY <1>2, <1>3, <1>4, <1>5

(* A subset of the threads is no larger than all of them.                  *)
LEMMA CountBound ==
    ASSUME NEW S \in SUBSET Thread
    PROVE  IsFiniteSet(S) /\ Cardinality(S) \in 0..Cardinality(Thread)
<1>1. IsFiniteSet(S) /\ Cardinality(S) <= Cardinality(Thread)
  BY WindowAssumption, FS_Subset
<1>2. Cardinality(S) \in Nat /\ Cardinality(Thread) \in Nat
  BY <1>1, WindowAssumption, FS_CardinalityType
<1> QED BY <1>1, <1>2

(* One run of the helper keeps every holder that is live.                  *)
LiveKept(p) ==
    /\ holders' \subseteq Proc /\ expired' \subseteq Proc /\ mode' \in {"rw", "ro"}
    /\ expired \ {p} \subseteq expired' /\ expired' \subseteq expired
    /\ p \notin alive => expired' = expired /\ holders' = holders /\ mode' = mode
    /\ \A q \in Proc \ {p} : q \in holders /\ q \notin expired => q \in holders'

LEMMA HelperKeeps ==
    ASSUME WindowInv, NEW command \in {"open", "close"}, NEW p \in Proc, HelperRuns(command, p, TRUE)
    PROVE  /\ LiveKept(p)
           /\ p \in alive => /\ mode' = "rw" <=> holders' # {}
                             /\ command = "open" => p \in holders'
BY DEF WindowInv, WindowTypeOK, HelperRuns, Live, SetMode, LiveKept

LEMMA FailedHelperKeeps ==
    ASSUME WindowInv, NEW command \in {"open", "close"}, NEW p \in Proc, HelperRuns(command, p, FALSE)
    PROVE  LiveKept(p) /\ mode' = mode
BY DEF WindowInv, WindowTypeOK, HelperRuns, Live, LiveKept

LEMMA WindowInitInv ==
    ASSUME WindowInit
    PROVE  WindowInv
<1> USE WindowAssumption DEF WindowInit
<1>1. WindowTypeOK
  <2>1. 0 \in 0..Cardinality(Thread)
    BY CountBound
  <2> QED BY <2>1 DEF WindowTypeOK
<1>2. CountInv
  BY FS_EmptySet DEF CountInv
<1>3. HolderInv
  BY DEF HolderInv
<1> QED BY <1>1, <1>2, <1>3 DEF WindowInv

(* What a call does to the holders, for the process that makes it.         *)
LEMMA CallKeeps ==
    ASSUME WindowInv, NEW command \in {"open", "close"}, NEW p \in Proc, p \in alive, Call(command, p)
    PROVE  /\ holders' \subseteq Proc /\ expired' \subseteq Proc /\ mode' \in {"rw", "ro"}
           /\ strays' \subseteq {"open", "close"} \X Proc
           /\ calls' \in 0..MaxCalls /\ upsets' \in 0..MaxUpsets
           /\ \A q \in Proc : q \notin alive => (q \in expired => q \in expired')
           /\ upsets' = 0 => /\ upsets = 0 /\ strays' = strays /\ (mode' = "rw" <=> holders' # {})
                             /\ \A q \in Proc \ {p} : q \in expired => q \in expired'
                             /\ \A q \in Proc \ {p} : q \in holders /\ q \notin expired => q \in holders'
                             /\ command = "open" => p \in holders'
<1>1. calls \in 0..MaxCalls /\ upsets \in 0..MaxUpsets /\ MaxCalls \in Nat /\ MaxUpsets \in Nat
      /\ calls < MaxCalls /\ calls' = calls + 1
  BY WindowAssumption DEF WindowInv, WindowTypeOK, Call
<1>2. CASE HelperRuns(command, p, TRUE) /\ UNCHANGED <<strays, upsets>>
  <2>1. /\ LiveKept(p) /\ (mode' = "rw" <=> holders' # {}) /\ (command = "open" => p \in holders')
    BY <1>2, HelperKeeps
  <2> QED BY <1>1, <1>2, <2>1 DEF WindowInv, WindowTypeOK, LiveKept
<1>3. CASE /\ upsets < MaxUpsets /\ upsets' = upsets + 1
           /\ \/ HelperRuns(command, p, FALSE) /\ UNCHANGED strays
              \/ UNCHANGED <<holders, expired, mode, strays>>
              \/ strays' = strays \cup {<<command, p>>} /\ UNCHANGED <<holders, expired, mode>>
  <2>1. upsets' # 0 /\ upsets' \in 0..MaxUpsets
    BY <1>1, <1>3
  <2>2. CASE HelperRuns(command, p, FALSE) /\ UNCHANGED strays
    <3>1. LiveKept(p)
      BY <2>2, FailedHelperKeeps
    <3> QED BY <1>1, <2>1, <2>2, <3>1 DEF WindowInv, WindowTypeOK, LiveKept
  <2>3. CASE UNCHANGED <<holders, expired, mode>> /\ strays' \in {strays, strays \cup {<<command, p>>}}
    BY <1>1, <2>1, <2>3 DEF WindowInv, WindowTypeOK
  <2> QED BY <1>3, <2>2, <2>3
<1> QED BY <1>2, <1>3 DEF Call

LEMMA EnterInv ==
    ASSUME WindowInv, NEW p \in Proc, NEW t \in Thread, Enter(p, t)
    PROVE  WindowInv'
<1>1. /\ p \in alive /\ t \notin inside[p] /\ alive' = alive
      /\ inside' = [inside EXCEPT ![p] = @ \cup {t}] /\ count' = [count EXCEPT ![p] = @ + 1]
      /\ inside \in [Proc -> SUBSET Thread] /\ count \in [Proc -> 0..Cardinality(Thread)]
      /\ alive \subseteq Proc
  BY DEF Enter, WindowInv, WindowTypeOK
<1>2. /\ count[p] \in Nat /\ (count[p] = 0 <=> inside[p] = {})
      /\ inside'[p] = inside[p] \cup {t} /\ IsFiniteSet(inside'[p])
      /\ count'[p] = count[p] + 1 /\ Cardinality(inside'[p]) = count'[p]
      /\ \A q \in Proc \ {p} : inside'[q] = inside[q] /\ count'[q] = count[q]
  <2>1. /\ inside'[p] = inside[p] \cup {t} /\ count'[p] = count[p] + 1
        /\ \A q \in Proc \ {p} : inside'[q] = inside[q] /\ count'[q] = count[q]
    BY <1>1
  <2>2. /\ count[p] \in Nat /\ (count[p] = 0 <=> inside[p] = {})
        /\ IsFiniteSet(inside[p] \cup {t}) /\ Cardinality(inside[p] \cup {t}) = count[p] + 1
    BY <1>1, ThreadCount
  <2> QED BY <2>1, <2>2
<1>3. inside' \in [Proc -> SUBSET Thread] /\ count' \in [Proc -> 0..Cardinality(Thread)]
  <2>1. inside' \in [Proc -> SUBSET Thread]
    BY <1>1
  <2>2. count'[p] \in 0..Cardinality(Thread)
    BY <1>2, <2>1, CountBound
  <2> QED BY <1>1, <1>2, <2>1, <2>2
<1>4. CASE count[p] = 0
  <2>1. Call("open", p)
    BY <1>4 DEF Enter, Edge
  <2>2. WindowTypeOK'
    BY <1>1, <1>3, <2>1, CallKeeps DEF WindowTypeOK
  <2>3. \A q \in Proc : q \notin alive => (q \in expired => q \in expired')
    BY <1>1, <2>1, CallKeeps
  <2>4. CountInv'
    BY <1>1, <1>2, <2>3 DEF WindowInv, CountInv
  <2>5. HolderInv'
    BY <1>1, <1>2, <2>1, CallKeeps DEF WindowInv, HolderInv
  <2> QED BY <2>2, <2>4, <2>5 DEF WindowInv
<1>5. CASE count[p] # 0
  <2>1. NoCall
    <3>1. ~Edge(p, count[p], count'[p])
      BY <1>2, <1>5 DEF Edge
    <3> QED BY <3>1 DEF Enter
  <2>2. WindowTypeOK'
    BY <1>1, <1>3, <2>1 DEF WindowInv, WindowTypeOK, NoCall
  <2>3. CountInv'
    BY <1>1, <1>2, <2>1 DEF WindowInv, CountInv, NoCall
  <2>4. HolderInv'
    BY <1>1, <1>2, <1>5, <2>1 DEF WindowInv, HolderInv, NoCall
  <2> QED BY <2>2, <2>3, <2>4 DEF WindowInv
<1> QED BY <1>4, <1>5

LEMMA LeaveInv ==
    ASSUME WindowInv, NEW p \in Proc, NEW t \in Thread, Leave(p, t)
    PROVE  WindowInv'
<1>1. /\ t \in inside[p] /\ alive' = alive
      /\ inside' = [inside EXCEPT ![p] = @ \ {t}] /\ count' = [count EXCEPT ![p] = @ - 1]
      /\ inside \in [Proc -> SUBSET Thread] /\ count \in [Proc -> 0..Cardinality(Thread)]
      /\ alive \subseteq Proc
  BY DEF Leave, WindowInv, WindowTypeOK
<1>2. /\ count[p] \in Nat /\ count[p] # 0
      /\ inside'[p] = inside[p] \ {t} /\ IsFiniteSet(inside'[p])
      /\ count'[p] = count[p] - 1 /\ Cardinality(inside'[p]) = count'[p]
      /\ count'[p] = 0 <=> inside'[p] = {}
      /\ \A q \in Proc \ {p} : inside'[q] = inside[q] /\ count'[q] = count[q]
  BY <1>1, ThreadCount
<1>3. inside' \in [Proc -> SUBSET Thread] /\ count' \in [Proc -> 0..Cardinality(Thread)]
  <2>1. inside' \in [Proc -> SUBSET Thread]
    BY <1>1
  <2>2. count'[p] \in 0..Cardinality(Thread)
    BY <1>2, <2>1, CountBound
  <2> QED BY <1>1, <1>2, <2>1, <2>2
<1>4. p \in alive
  BY <1>1 DEF WindowInv, CountInv
<1>5. CASE count'[p] = 0
  <2>1. Call("close", p)
    BY <1>5 DEF Leave, Edge
  <2>2. WindowTypeOK'
    BY <1>1, <1>3, <1>4, <2>1, CallKeeps DEF WindowTypeOK
  <2>3. \A q \in Proc : q \notin alive => (q \in expired => q \in expired')
    BY <1>4, <2>1, CallKeeps
  <2>4. CountInv'
    BY <1>1, <1>2, <1>4, <2>3 DEF WindowInv, CountInv
  <2>5. HolderInv'
    BY <1>1, <1>2, <1>4, <1>5, <2>1, CallKeeps DEF WindowInv, HolderInv
  <2> QED BY <2>2, <2>4, <2>5 DEF WindowInv
<1>6. CASE count'[p] # 0
  <2>1. NoCall
    <3>1. ~Edge(p, count[p], count'[p])
      BY <1>2, <1>6 DEF Edge
    <3> QED BY <3>1 DEF Leave
  <2>2. WindowTypeOK'
    BY <1>1, <1>3, <2>1 DEF WindowInv, WindowTypeOK, NoCall
  <2>3. CountInv'
    BY <1>1, <1>2, <1>4, <2>1 DEF WindowInv, CountInv, NoCall
  <2>4. HolderInv'
    BY <1>1, <1>2, <1>6, <2>1 DEF WindowInv, HolderInv, NoCall
  <2> QED BY <2>2, <2>3, <2>4 DEF WindowInv
<1> QED BY <1>5, <1>6

LEMMA RunsLateInv ==
    ASSUME WindowInv, NEW c \in strays, RunsLate(c)
    PROVE  WindowInv'
<1>1. /\ c \in {"open", "close"} \X Proc /\ strays' = strays \ {c} /\ HelperRuns(c[1], c[2], TRUE)
      /\ UNCHANGED <<inside, count, alive, calls, upsets>>
  BY DEF RunsLate, WindowInv, WindowTypeOK
<1>2. LiveKept(c[2])
  BY <1>1, HelperKeeps
<1>3. upsets # 0
  BY DEF WindowInv, HolderInv
<1>4. WindowTypeOK' /\ HolderInv'
  BY <1>1, <1>2, <1>3 DEF WindowInv, WindowTypeOK, HolderInv, LiveKept
<1>5. CountInv'
  BY <1>1, <1>2 DEF WindowInv, CountInv, LiveKept
<1> QED BY <1>4, <1>5 DEF WindowInv

LEMMA GuardInv ==
    ASSUME WindowInv, NEW b \in BOOLEAN, Guard(b)
    PROVE  WindowInv'
<1>1. /\ holders' = holders \ expired /\ UNCHANGED <<inside, count, alive, expired, strays, calls>>
  BY DEF Guard, Live
<1>2. \/ upsets' = upsets /\ mode' = (IF holders' # {} THEN "rw" ELSE "ro")
      \/ upsets < MaxUpsets /\ upsets' = upsets + 1 /\ mode' = mode
  BY DEF Guard, SetMode
<1>3. upsets \in 0..MaxUpsets /\ MaxUpsets \in Nat
  BY WindowAssumption DEF WindowInv, WindowTypeOK
<1>4. WindowTypeOK'
  BY <1>1, <1>2, <1>3 DEF WindowInv, WindowTypeOK
<1>5. CountInv'
  BY <1>1 DEF WindowInv, CountInv
<1>6. HolderInv'
  BY <1>1, <1>2, <1>3 DEF WindowInv, HolderInv
<1> QED BY <1>4, <1>5, <1>6 DEF WindowInv

LEMMA DieInv ==
    ASSUME WindowInv, NEW p \in Proc, Die(p)
    PROVE  WindowInv'
<1>1. /\ alive' = alive \ {p} /\ inside' = [inside EXCEPT ![p] = {}] /\ count' = [count EXCEPT ![p] = 0]
      /\ expired' = expired \cup {p} /\ UNCHANGED <<holders, mode, strays, calls, upsets>>
      /\ inside \in [Proc -> SUBSET Thread] /\ count \in [Proc -> 0..Cardinality(Thread)]
  BY DEF Die, WindowInv, WindowTypeOK
<1>2. IsFiniteSet({}) /\ Cardinality({}) = 0 /\ 0 \in 0..Cardinality(Thread)
  BY FS_EmptySet, CountBound
<1>3. WindowTypeOK'
  BY <1>1, <1>2 DEF WindowInv, WindowTypeOK
<1>4. CountInv'
  BY <1>1, <1>2 DEF WindowInv, CountInv
<1>5. HolderInv'
  BY <1>1 DEF WindowInv, HolderInv
<1> QED BY <1>3, <1>4, <1>5 DEF WindowInv

LEMMA ExpireInv ==
    ASSUME WindowInv, NEW p \in Proc, Expire(p)
    PROVE  WindowInv'
BY DEF Expire, WindowInv, WindowTypeOK, CountInv, HolderInv

(* The reference counts are right and, while the helper has not failed,    *)
(* the mount follows the holder files (backup_write_window.py and the      *)
(* helper summitflow-backup-window).                                       *)
THEOREM WindowKept == WindowSpec => []WindowInv
<1>1. WindowInit => WindowInv
  BY WindowInitInv
<1>2. WindowInv /\ [WindowNext]_windowVars => WindowInv'
  <2> SUFFICES ASSUME WindowInv, [WindowNext]_windowVars
               PROVE  WindowInv'
    OBVIOUS
  <2>1. CASE WindowNext
    BY <2>1, EnterInv, LeaveInv, RunsLateInv, GuardInv, DieInv, ExpireInv DEF WindowNext
  <2>2. CASE UNCHANGED windowVars
    BY <2>2 DEF windowVars, WindowInv, WindowTypeOK, CountInv, HolderInv
  <2> QED BY <2>1, <2>2
<1> QED BY <1>1, <1>2, PTL DEF WindowSpec

(* While the helper has not failed, a thread inside a window can write,    *)
(* whichever thread opened it and whoever closed, died or was cleaned up   *)
(* meanwhile (write_window).                                               *)
THEOREM InsideCanWriteHolds == WindowSpec => []InsideCanWrite
<1>1. WindowInv => InsideCanWrite
  BY DEF WindowInv, HolderInv, InsideCanWrite
<1> QED BY <1>1, WindowKept, PTL

(* Whatever fails, a process loses the target before it has run out only   *)
(* by its own last thread leaving or its own close that comes late         *)
(* (summitflow-backup-window).                                             *)
THEOREM OnlyOwnCloseHolds == WindowSpec => OnlyOwnClose
<1> DEFINE Own(p) == (inside'[p] = {} /\ inside[p] # {}) \/ <<"close", p>> \in strays \ strays'
           A == mode = "rw" /\ mode' = "ro" =>
                  \A p \in holders \ expired :
                     \/ inside'[p] = {} /\ inside[p] # {}
                     \/ <<"close", p>> \in strays \ strays'
<1>1. WindowInv /\ [WindowNext]_windowVars => [A]_windowVars
  <2> SUFFICES ASSUME WindowInv, WindowNext, mode = "rw", mode' = "ro", NEW p \in holders \ expired
               PROVE  Own(p)
    OBVIOUS
  <2>0. p \in Proc
    BY DEF WindowInv, WindowTypeOK
  <2>1. ASSUME NEW q \in Proc, NEW t \in Thread, Enter(q, t)
        PROVE  Own(p)
    <3>1. q \in alive /\ Call("open", q)
      BY <2>1 DEF Enter, NoCall
    <3>2. HelperRuns("open", q, TRUE)
      BY <3>1, FailedHelperKeeps DEF Call
    <3> QED BY <3>1, <3>2, HelperKeeps
  <2>2. ASSUME NEW q \in Proc, NEW t \in Thread, Leave(q, t)
        PROVE  Own(p)
    <3>1. Call("close", q) /\ t \in inside[q] /\ Edge(q, count[q], count'[q])
      BY <2>2 DEF Leave, NoCall
    <3>2. HelperRuns("close", q, TRUE)
      BY <3>1, FailedHelperKeeps DEF Call
    <3>3. q \in alive
      BY <3>1 DEF WindowInv, CountInv
    <3>4. p = q
      BY <2>0, <3>2, <3>3, HelperKeeps DEF LiveKept
    <3>5. inside'[q] = inside[q] \ {t} /\ count'[q] = count[q] - 1
      BY <2>2 DEF Leave, WindowInv, WindowTypeOK
    <3>6. inside'[q] = {}
      BY <3>1, <3>5, ThreadCount DEF Edge
    <3> QED BY <3>1, <3>4, <3>6
  <2>3. ASSUME NEW c \in strays, RunsLate(c)
        PROVE  Own(p)
    <3>1. /\ c \in {"open", "close"} \X Proc /\ strays' = strays \ {c} /\ HelperRuns(c[1], c[2], TRUE)
      BY <2>3 DEF RunsLate, WindowInv, WindowTypeOK
    <3>2. PICK k \in {"open", "close"}, q \in Proc : c = <<k, q>>
      BY <3>1
    <3>3. HelperRuns(k, q, TRUE)
      BY <3>1, <3>2
    <3>4. q \in alive /\ k = "close" /\ p = q
      BY <2>0, <3>3, HelperKeeps DEF LiveKept
    <3> QED BY <3>1, <3>2, <3>4
  <2>4. ASSUME NEW b \in BOOLEAN, Guard(b)
        PROVE  Own(p)
    BY <2>4 DEF Guard, Live, SetMode
  <2>5. ASSUME NEW q \in Proc, Die(q) \/ Expire(q)
        PROVE  Own(p)
    BY <2>5 DEF Die, Expire
  <2> QED BY <2>1, <2>2, <2>3, <2>4, <2>5 DEF WindowNext
<1>2. WindowSpec => [][A]_windowVars
  BY <1>1, WindowKept, PTL DEF WindowSpec
<1> QED BY <1>2 DEF OnlyOwnClose

-----------------------------------------------------------------------------
(* The health cache.                                                       *)

(* A request that waits for a refresh that has ended finds a snapshot that *)
(* was stored since it asked, unless it was spoilt.                        *)
Finds(r) ==
    /\ req[r].at <= now
    /\ req[r].state = "waiting" =>
         /\ task.state # "none" /\ req[r].on <= task.n
         /\ r \notin spoilt /\ Ended(req[r].on) => cache # Unset /\ cache >= req[r].at

ClientInv == \A r \in Client : Finds(r)

CacheInv == CacheTypeOK /\ ClientInv /\ AnswerIsCurrent

ReqType == [state : {"idle", "waiting", "answered", "cancelled"}, on : Nat, at : 0..MaxTime]

LEMMA CacheTypes ==
    ASSUME CacheInv
    PROVE  /\ now \in 0..MaxTime /\ now \in Nat /\ MaxTime \in Nat /\ TTL \in Int
           /\ cache \in {Unset} \cup 0..MaxTime
           /\ task \in [n : Nat, state : {"none", "running", "cancelling", "done"}]
           /\ req \in [Client -> ReqType] /\ served \in [Client -> {Unset} \cup 0..MaxTime]
           /\ spoilt \subseteq Client
BY CacheAssumption DEF CacheInv, CacheTypeOK, ReqType

LEMMA CacheInitInv ==
    ASSUME CacheInit
    PROVE  CacheInv
<1>1. CacheTypeOK
  BY CacheAssumption DEF CacheInit, CacheTypeOK, Unset
<1>2. ClientInv /\ AnswerIsCurrent
  BY DEF CacheInit, ClientInv, Finds, AnswerIsCurrent
<1> QED BY <1>1, <1>2 DEF CacheInv

LEMMA GetInv ==
    ASSUME CacheInv, NEW r \in Client, NEW forced \in BOOLEAN, Get(r, forced)
    PROVE  CacheInv'
<1>1. /\ task' = Schedule(task) /\ UNCHANGED <<now, cache, spoilt>> /\ req[r].state = "idle"
  BY DEF Get
<1>2. /\ task' \in [n : Nat, state : {"none", "running", "cancelling", "done"}]
      /\ task'.state \in {"running", "cancelling"} /\ task.n <= task'.n
      /\ \/ task' = task
         \/ task.n < task'.n /\ task.state \in {"none", "done"}
  BY <1>1, CacheTypes DEF Schedule
<1>3. ASSUME NEW q \in Client, req'[q] = req[q]
      PROVE  Finds(q)'
  <2>1. Finds(q) /\ req[q].on \in Nat /\ task.n \in Nat
    BY CacheTypes DEF CacheInv, ClientInv, ReqType
  <2>2. CASE req[q].state # "waiting"
    BY <1>1, <1>3, <2>1, <2>2 DEF Finds
  <2>3. CASE req[q].state = "waiting"
    <3>1. task'.state # "none" /\ req'[q].on <= task'.n
      BY <1>2, <1>3, <2>1, <2>3 DEF Finds
    <3>2. Ended(req[q].on)' => Ended(req[q].on)
      BY <1>2, <1>3, <2>1, <2>3 DEF Finds, Ended
    <3> QED BY <1>1, <1>3, <2>1, <2>3, <3>1, <3>2 DEF Finds
  <2> QED BY <2>2, <2>3
<1>4. CASE /\ req' = [req EXCEPT ![r] = [state |-> "waiting", on |-> task'.n, at |-> now]]
           /\ UNCHANGED served
  <2>1. /\ req' \in [Client -> ReqType] /\ req'[r].state = "waiting" /\ req'[r].on = task'.n
        /\ req'[r].at = now /\ \A q \in Client \ {r} : req'[q] = req[q]
    BY <1>2, <1>4, CacheTypes DEF ReqType
  <2>2. CacheTypeOK'
    BY <1>1, <1>2, <1>4, <2>1, CacheTypes DEF CacheTypeOK, ReqType
  <2>3. ~Ended(req[r].on)'
    BY <1>2, <2>1 DEF Ended
  <2>4. ClientInv'
    <3> SUFFICES ASSUME NEW q \in Client
                 PROVE  Finds(q)'
      BY DEF ClientInv
    <3>1. CASE q = r
      BY <1>1, <1>2, <2>1, <2>3, <3>1, CacheTypes DEF Finds
    <3>2. CASE q # r
      BY <1>3, <2>1, <3>2
    <3> QED BY <3>1, <3>2
  <2>5. AnswerIsCurrent'
    BY <1>1, <1>4, <2>1 DEF CacheInv, AnswerIsCurrent
  <2> QED BY <2>2, <2>4, <2>5 DEF CacheInv
<1>5. CASE /\ req' = [req EXCEPT ![r] = [state |-> "answered", on |-> 0, at |-> now]]
           /\ served' = [served EXCEPT ![r] = cache] /\ IsFresh(cache)
  <2>1. /\ req' \in [Client -> ReqType] /\ req'[r].state = "answered"
        /\ req'[r].at = now /\ \A q \in Client \ {r} : req'[q] = req[q]
        /\ served' \in [Client -> {Unset} \cup 0..MaxTime] /\ served'[r] = cache
        /\ \A q \in Client \ {r} : served'[q] = served[q]
    BY <1>5, CacheTypes DEF ReqType
  <2>2. CacheTypeOK'
    BY <1>1, <1>2, <2>1, CacheTypes DEF CacheTypeOK, ReqType
  <2>3. ClientInv'
    <3> SUFFICES ASSUME NEW q \in Client
                 PROVE  Finds(q)'
      BY DEF ClientInv
    <3>1. CASE q = r
      BY <1>1, <2>1, <3>1, CacheTypes DEF Finds
    <3>2. CASE q # r
      BY <1>3, <2>1, <3>2
    <3> QED BY <3>1, <3>2
  <2>4. AnswerIsCurrent'
    BY <1>1, <1>5, <2>1 DEF CacheInv, AnswerIsCurrent, IsFresh
  <2> QED BY <2>2, <2>3, <2>4 DEF CacheInv
<1> QED BY <1>4, <1>5 DEF Get

LEMMA FetchEndsInv ==
    ASSUME CacheInv, NEW ok \in BOOLEAN, FetchEnds(ok)
    PROVE  CacheInv'
<1>1. /\ task.state = "running" /\ task' = [task EXCEPT !.state = "done"]
      /\ UNCHANGED <<now, req, served>> /\ spoilt \subseteq spoilt'
  BY DEF FetchEnds, TaskEnds
<1>2. \/ cache' = now /\ spoilt' = spoilt
      \/ cache' = cache /\ spoilt' = spoilt \cup Waiting
  BY DEF FetchEnds, NewEntry
<1>3. /\ task' \in [n : Nat, state : {"none", "running", "cancelling", "done"}]
      /\ task'.n = task.n /\ task'.state = "done" /\ Waiting \subseteq Client
  BY <1>1, CacheTypes DEF Waiting
<1>4. CacheTypeOK'
  BY <1>1, <1>2, <1>3, CacheTypes DEF CacheTypeOK, ReqType
<1>5. ASSUME NEW q \in Client
      PROVE  Finds(q)'
  <2>1. Finds(q) /\ req[q].at \in Nat /\ now # Unset
    BY CacheTypes DEF CacheInv, ClientInv, ReqType, Unset
  <2>2. CASE req[q].state # "waiting"
    BY <1>1, <2>1, <2>2 DEF Finds
  <2>3. CASE req[q].state = "waiting"
    <3>1. q \in Waiting
      BY <2>3 DEF Waiting
    <3> QED BY <1>1, <1>2, <1>3, <2>1, <2>3, <3>1, CacheTypes DEF Finds
  <2> QED BY <2>2, <2>3
<1>6. AnswerIsCurrent'
  BY <1>1 DEF CacheInv, AnswerIsCurrent
<1> QED BY <1>4, <1>5, <1>6 DEF CacheInv, ClientInv

LEMMA ResumeInv ==
    ASSUME CacheInv, NEW r \in Client, Resume(r)
    PROVE  CacheInv'
<1>1. /\ req[r].state = "waiting" /\ Ended(req[r].on) /\ UNCHANGED <<now, cache, task, spoilt>>
      /\ req' = [req EXCEPT ![r].state = "answered"] /\ served' = [served EXCEPT ![r] = cache]
  BY DEF Resume, Waiting
<1>2. /\ req' \in [Client -> ReqType] /\ req'[r].state = "answered" /\ req'[r].at = req[r].at
      /\ \A q \in Client \ {r} : req'[q] = req[q]
      /\ served' \in [Client -> {Unset} \cup 0..MaxTime] /\ served'[r] = cache
      /\ \A q \in Client \ {r} : served'[q] = served[q]
  BY <1>1, CacheTypes DEF ReqType
<1>3. CacheTypeOK'
  BY <1>1, <1>2, CacheTypes DEF CacheTypeOK, ReqType
<1>4. ASSUME NEW q \in Client
      PROVE  Finds(q)'
  <2>1. Finds(q)
    BY DEF CacheInv, ClientInv
  <2>2. CASE q = r
    BY <1>1, <1>2, <2>1, <2>2 DEF Finds
  <2>3. CASE q # r
    BY <1>1, <1>2, <2>1, <2>3 DEF Finds, Ended
  <2> QED BY <2>2, <2>3
<1>5. r \notin spoilt => cache # Unset /\ cache >= req[r].at
  BY <1>1 DEF CacheInv, ClientInv, Finds
<1>6. AnswerIsCurrent'
  <2> SUFFICES ASSUME NEW q \in Client, req'[q].state = "answered", q \notin spoilt'
               PROVE  served'[q] # Unset /\ (req'[q].at - served'[q] < TTL \/ served'[q] >= req'[q].at)
    BY DEF AnswerIsCurrent
  <2>1. CASE q = r
    BY <1>1, <1>2, <1>5, <2>1
  <2>2. CASE q # r
    BY <1>1, <1>2, <2>2 DEF CacheInv, AnswerIsCurrent
  <2> QED BY <2>1, <2>2
<1> QED BY <1>3, <1>4, <1>6 DEF CacheInv, ClientInv

(* What a cancellation does: requests are at most cancelled, and one that  *)
(* goes on waiting waits for a refresh that has not ended by it.           *)
Cancels ==
    /\ UNCHANGED <<now, cache, served, spoilt>>
    /\ task' \in [n : Nat, state : {"none", "running", "cancelling", "done"}] /\ task'.n = task.n
    /\ \/ task' = task
       \/ task.state = "running" /\ task'.state = "cancelling"
       \/ task.state = "cancelling" /\ task'.state = "done"
    /\ req' \in [Client -> ReqType]
    /\ \A q \in Client : /\ req'[q].at = req[q].at
                         /\ req'[q] = req[q] \/ req'[q].state = "cancelled"
                         /\ req[q].state = "waiting" /\ req'[q] = req[q] =>
                              (Ended(req[q].on)' => Ended(req[q].on))

LEMMA CancelStepInv ==
    ASSUME CacheInv, CancelEnds \/ \E r \in Client : Cancel(r)
    PROVE  CacheInv'
<1>1. Cancels
  <2>1. ASSUME NEW j \in ReqType
        PROVE  LET k == [j EXCEPT !.state = "cancelled"]
               IN  k \in ReqType /\ k.state = "cancelled" /\ k.at = j.at /\ k.on = j.on
    BY DEF ReqType
  <2>2. CASE CancelEnds
    <3>1. /\ task.state = "cancelling" /\ task' = [task EXCEPT !.state = "done"]
          /\ UNCHANGED <<now, cache, served, spoilt>>
      BY <2>2 DEF CancelEnds
    <3>2. /\ task' \in [n : Nat, state : {"none", "running", "cancelling", "done"}] /\ task'.n = task.n
          /\ task'.state = "done"
      BY <3>1, CacheTypes
    <3>3. req' \in [Client -> ReqType]
      BY <2>1, <2>2, CacheTypes DEF CancelEnds
    <3>4. ASSUME NEW q \in Client
          PROVE  /\ req'[q].at = req[q].at /\ (req'[q] = req[q] \/ req'[q].state = "cancelled")
                 /\ req[q].state = "waiting" /\ req'[q] = req[q] => req[q].on # task.n
      <4>1. req[q] \in ReqType
        BY CacheTypes
      <4>2. req'[q] = IF q \in Waiting /\ req[q].on = task.n
                      THEN [req[q] EXCEPT !.state = "cancelled"] ELSE req[q]
        BY <2>2 DEF CancelEnds
      <4> QED BY <2>1, <4>1, <4>2 DEF Waiting
    <3> QED BY <3>1, <3>2, <3>3, <3>4 DEF Cancels, Ended
  <2>3. ASSUME NEW r \in Client, Cancel(r)
        PROVE  Cancels
    <3>1. CASE req' = [req EXCEPT ![r].state = "cancelled"] /\ UNCHANGED task
      <4>1. req[r] \in ReqType
        BY CacheTypes
      <4>2. req' = [req EXCEPT ![r] = [req[r] EXCEPT !.state = "cancelled"]]
        BY <3>1, CacheTypes
      <4> QED BY <2>1, <2>3, <3>1, <4>1, <4>2, CacheTypes DEF Cancel, Cancels, Ended
    <3>2. CASE task.state = "running" /\ task' = [task EXCEPT !.state = "cancelling"] /\ UNCHANGED req
      BY <2>3, <3>2, CacheTypes DEF Cancel, Cancels, Ended
    <3> QED BY <2>3, <3>1, <3>2 DEF Cancel
  <2> QED BY <2>2, <2>3
<1>2. CacheTypeOK'
  BY <1>1, CacheTypes DEF Cancels, CacheTypeOK, ReqType
<1>3. ASSUME NEW q \in Client
      PROVE  Finds(q)'
  <2>1. Finds(q)
    BY DEF CacheInv, ClientInv
  <2>2. CASE req'[q].state = "cancelled"
    BY <1>1, <2>1, <2>2 DEF Cancels, Finds
  <2>3. CASE req'[q].state # "cancelled"
    BY <1>1, <2>1, <2>3 DEF Cancels, Finds
  <2> QED BY <2>2, <2>3
<1>4. AnswerIsCurrent'
  BY <1>1 DEF Cancels, CacheInv, AnswerIsCurrent
<1> QED BY <1>2, <1>3, <1>4 DEF CacheInv, ClientInv

LEMMA InvalidateInv ==
    ASSUME CacheInv, Invalidate
    PROVE  CacheInv'
<1>1. /\ cache' = Unset /\ spoilt' = spoilt \cup Waiting /\ UNCHANGED <<now, task, req, served>>
      /\ Waiting \subseteq Client
  BY DEF Invalidate, Waiting
<1>2. CacheTypeOK'
  BY <1>1, CacheTypes DEF CacheTypeOK, ReqType
<1>3. ClientInv'
  BY <1>1 DEF CacheInv, ClientInv, Finds, Waiting
<1>4. AnswerIsCurrent'
  BY <1>1 DEF CacheInv, AnswerIsCurrent
<1> QED BY <1>2, <1>3, <1>4 DEF CacheInv

LEMMA TickInv ==
    ASSUME CacheInv, Tick
    PROVE  CacheInv'
<1>1. /\ now' = now + 1 /\ now < MaxTime /\ UNCHANGED <<cache, task, req, served, spoilt>>
  BY DEF Tick
<1>2. CacheTypeOK'
  BY <1>1, CacheTypes DEF CacheTypeOK, ReqType
<1>3. ClientInv'
  BY <1>1, CacheTypes DEF CacheInv, ClientInv, Finds, Ended, ReqType
<1>4. AnswerIsCurrent'
  BY <1>1 DEF CacheInv, AnswerIsCurrent
<1> QED BY <1>2, <1>3, <1>4 DEF CacheInv

(* Who waits for a refresh that has ended finds a snapshot stored since it *)
(* asked, unless it was spoilt (health_cache.py).                          *)
THEOREM CacheKept == CacheSpec => []CacheInv
<1>1. CacheInit => CacheInv
  BY CacheInitInv
<1>2. CacheInv /\ [CacheNext]_cacheVars => CacheInv'
  <2> SUFFICES ASSUME CacheInv, [CacheNext]_cacheVars
               PROVE  CacheInv'
    OBVIOUS
  <2>1. CASE CacheNext
    BY <2>1, GetInv, ResumeInv, FetchEndsInv, CancelStepInv, InvalidateInv, TickInv DEF CacheNext
  <2>2. CASE UNCHANGED cacheVars
    BY <2>2 DEF cacheVars, CacheInv, CacheTypeOK, ClientInv, Finds, Ended, AnswerIsCurrent
  <2> QED BY <2>1, <2>2
<1> QED BY <1>1, <1>2, PTL DEF CacheSpec

(* A request is answered with a snapshot within the TTL when it asked or   *)
(* stored since, unless a refresh failed or the cache was invalidated      *)
(* while it waited (get_or_refresh).                                       *)
THEOREM AnswerIsCurrentHolds == CacheSpec => []AnswerIsCurrent
<1>1. CacheInv => AnswerIsCurrent
  BY DEF CacheInv
<1> QED BY <1>1, CacheKept, PTL
===========================================================================
