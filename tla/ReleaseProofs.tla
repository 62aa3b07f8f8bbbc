--------------------------- MODULE ReleaseProofs ----------------------------
(***************************************************************************)
(* Safety of deployment for any processes, launchers, commits and bounds:  *)
(* what pruning keeps, which release becomes the live one and what a       *)
(* restart without a build moves a unit onto.  The invariant follows a     *)
(* rebuild through its steps: what it has found out under the deployment   *)
(* lock still holds when it is used, because whoever else may act takes no *)
(* lock, moves no pointer and writes no receipt.                           *)
(***************************************************************************)
EXTENDS Release, TLAPS

(* Where a rebuild is, from its lock to its end; where a restart in place  *)
(* has the lock.                                                           *)
Making == {"receipt", "build", "migrate", "units", "late", "restart", "restore"}
Publishing == {"refs", "previous", "current"}
Published == {"record", "prune"}
Made == Making \union Publishing \union Published
Rebuilding == {"prepare"} \union Made
Restarting == {"onto", "go"}
Locked == Rebuilding \union Restarting

(* Whoever rebuilds, or restarts in place, holds the deployment lock. *)
LockOK(p) == deploying = p <=> proc[p].pc \in Locked

(* A rebuild has its scope and commit, and its own new release on disk. *)
RebuildOK(p) ==
    /\ proc[p].op = "rebuild" => proc[p].pc \in Rebuilding
    /\ proc[p].pc \in Rebuilding => proc[p].scope \in Scope /\ proc[p].commit \in Commit
    /\ proc[p].pc \in Made => proc[p].build \in disk /\ proc[p].build \in 1 .. used
    /\ proc[p].pc = "prepare" => used < MaxBuilds

(* That is not the live one before the pointer moves, and then it is. *)
LiveOK(p) ==
    /\ proc[p].pc \in Making \union Publishing => current # proc[p].build
    /\ proc[p].pc \in Published => current = proc[p].build

(* The forward check made in prepare_release still holds. *)
ForwardOK(p) ==
    /\ proc[p].pc \in Making \union Publishing => proc[p].back \/ Forward(proc[p].commit)
    /\ proc[p].pc \in Made \ {"receipt"} => receipt[proc[p].build].commit = proc[p].commit

(* Only a release found healthy is published. *)
VerifiedOK(p) == proc[p].pc \in Publishing => receipt[proc[p].build].verified

(* Units a command restarts, and the release it restarts them onto. *)
OntoOK(p) ==
    /\ proc[p].op = "heal" => /\ proc[p].pc \in Restarting
                              /\ proc[p].todo \in Seq({u \in Unit : Restartable(u)})
    /\ proc[p].pc = "go" => proc[p].todo # <<>>
    /\ proc[p].pc = "go" /\ ~overtaken => NamesCurrent(Head(proc[p].todo))

(* What unit files and processes use. *)
Used == {file[u] : u \in Unit} \union {running[u] : u \in Unit}

(* The references read before the pointers move cover what is used. *)
ReferOK(p) ==
    /\ proc[p].pc \in {"previous", "current"} /\ ~overtaken =>
          Used \subseteq proc[p].rels \union {None, current}
    /\ proc[p].pc = "record" /\ ~overtaken =>
          Used \subseteq proc[p].rels \union {None, current, previous}
    /\ proc[p].pc = "current" => current \in {None, previous}

(* What pruning is about to look at, or to remove, nobody needs. *)
Doomed(p) == proc[p].rels \union ({proc[p].doom} \ {None})

Spared(b) == b \notin {current, previous} /\ (~overtaken => b \notin Used)

PruneOK(p) ==
    /\ proc[p].pc \in Rebuilding \ {"prune"} => proc[p].doom = None
    /\ proc[p].pc = "prune" =>
          /\ \A b \in Doomed(p) : Spared(b)
          /\ proc[p].doom # None =>
                \A l \in Launch : launch[l].at = "running" /\ launch[l].pointed =>
                                     launch[l].build # proc[p].doom

CliOK(p) ==
    /\ LockOK(p) /\ RebuildOK(p) /\ LiveOK(p) /\ ForwardOK(p)
    /\ VerifiedOK(p) /\ OntoOK(p) /\ ReferOK(p) /\ PruneOK(p)

PointersInv ==
    /\ current \in 1 .. used \union {None}
    /\ current \in disk \union {None} /\ previous \in disk \union {None}

KeptInv == (~overtaken => Used \subseteq disk \union {None}) /\ LauncherKeepsRelease

HostInv == PointersInv /\ CurrentVerified /\ KeptInv

ReleaseInv == ReleaseTypeOK /\ HostInv /\ \A p \in Cli : CliOK(p)

-----------------------------------------------------------------------------
(* What the writes to a command's record and to a receipt do.              *)

LEMMA IdleFacts ==
    /\ Idle \in CliState /\ Idle.pc = "idle" /\ Idle.op = None /\ Idle.build = None
    /\ Idle.todo = <<>> /\ Idle.rels = {} /\ Idle.doom = None
BY DEF Idle, CliState, Pcs

LEMMA NoneFacts ==
    /\ None \notin Cli /\ None \notin Build /\ None # "rebuild" /\ None # "heal"
    /\ None \notin Scope
BY ReleaseAssumption DEF StCommand

LEMMA GoesOnWrites ==
    ASSUME ReleaseTypeOK, NEW p \in Cli, NEW to \in Pcs, GoesOn(p, to)
    PROVE  /\ proc' \in [Cli -> CliState]
           /\ \A q \in Cli \ {p} : proc'[q] = proc[q]
           /\ proc'[p].pc = to
           /\ proc'[p].op = proc[p].op /\ proc'[p].build = proc[p].build
           /\ proc'[p].scope = proc[p].scope /\ proc'[p].commit = proc[p].commit
           /\ proc'[p].back = proc[p].back /\ proc'[p].todo = proc[p].todo
           /\ proc'[p].rels = proc[p].rels /\ proc'[p].doom = proc[p].doom
<1>1. proc \in [Cli -> CliState]
  BY DEF ReleaseTypeOK
<1>2. ASSUME NEW j \in CliState
      PROVE  LET k == [j EXCEPT !.pc = to]
             IN  /\ k \in CliState /\ k.pc = to /\ k.op = j.op /\ k.build = j.build
                 /\ k.scope = j.scope /\ k.commit = j.commit /\ k.back = j.back
                 /\ k.todo = j.todo /\ k.rels = j.rels /\ k.doom = j.doom
  BY DEF CliState
<1> QED BY <1>1, <1>2 DEF GoesOn

LEMMA LeavesWrites ==
    ASSUME ReleaseTypeOK, NEW p \in Cli, Leaves(p)
    PROVE  /\ proc' \in [Cli -> CliState]
           /\ \A q \in Cli \ {p} : proc'[q] = proc[q]
           /\ proc'[p].pc = "idle" /\ proc'[p].op = None
           /\ deploying' = (IF deploying = p THEN None ELSE deploying)
           /\ deploying' \in Cli \union {None}
BY IdleFacts DEF Leaves, ReleaseTypeOK

(* A receipt whose state or rollback note changes keeps what matters.      *)
LEMMA FailWrites ==
    ASSUME ReleaseTypeOK, NEW p \in Cli, NEW r \in Receipt, proc[p].build \in Build,
           r.commit = receipt[proc[p].build].commit,
           r.migrated = receipt[proc[p].build].migrated,
           r.verified = receipt[proc[p].build].verified,
           FailWith(p, r)
    PROVE  /\ receipt' \in [Build -> Receipt] /\ Leaves(p)
           /\ \A b \in Build : /\ receipt'[b].commit = receipt[b].commit
                               /\ receipt'[b].migrated = receipt[b].migrated
                               /\ receipt'[b].verified = receipt[b].verified
<1>1. receipt \in [Build -> Receipt]
  BY DEF ReleaseTypeOK
<1>2. LET s == [r EXCEPT !.state = "failed"]
      IN  s \in Receipt /\ s.commit = r.commit /\ s.migrated = r.migrated /\ s.verified = r.verified
  BY DEF Receipt
<1> QED BY <1>1, <1>2 DEF FailWith

-----------------------------------------------------------------------------
(* Three kinds of step.  A process without the lock and out of a rebuild   *)
(* has nothing to show.                                                    *)

LEMMA FreeNext ==
    ASSUME NEW p \in Cli, proc'[p].pc \notin Locked, deploying' # p,
           proc'[p].op \notin {"rebuild", "heal"}
    PROVE  CliOK(p)'
BY DEF CliOK, LockOK, RebuildOK, LiveOK, ForwardOK, VerifiedOK, OntoOK, ReferOK, PruneOK,
       Locked, Rebuilding, Restarting, Made, Making, Publishing, Published

LEMMA FreeNow ==
    ASSUME ReleaseInv, NEW q \in Cli, deploying # q
    PROVE  proc[q].pc \notin Locked /\ proc[q].op \notin {"rebuild", "heal"}
BY DEF ReleaseInv, CliOK, LockOK, RebuildOK, OntoOK, Locked

(* A step of the process that has the lock, takes it or gives it back      *)
(* leaves the others as they were.                                         *)
LEMMA HolderStep ==
    ASSUME ReleaseInv, NEW p \in Cli, deploying \in {p, None}, deploying' \in {p, None},
           \A q \in Cli \ {p} : proc'[q] = proc[q],
           ReleaseTypeOK', HostInv', CliOK(p)'
    PROVE  ReleaseInv'
<1>1. ASSUME NEW q \in Cli \ {p}
      PROVE  CliOK(q)'
  <2>1. deploying # q /\ deploying' # q
    BY NoneFacts
  <2>2. proc[q].pc \notin Locked /\ proc[q].op \notin {"rebuild", "heal"}
    BY <2>1, FreeNow
  <2> QED BY <2>1, <2>2, FreeNext
<1> QED BY <1>1 DEF ReleaseInv

(* The command of the holder ends.                                         *)
LEMMA HolderLeaves ==
    ASSUME ReleaseInv, NEW p \in Cli, deploying = p, Leaves(p), ReleaseTypeOK', HostInv'
    PROVE  ReleaseInv'
<1>1. /\ \A q \in Cli \ {p} : proc'[q] = proc[q]
      /\ proc'[p].pc = "idle" /\ proc'[p].op = None /\ deploying' = None
  BY LeavesWrites DEF ReleaseInv
<1>2. CliOK(p)'
  BY <1>1, NoneFacts, FreeNext DEF Locked, Rebuilding, Restarting, Made, Making, Publishing, Published
<1> QED BY <1>1, <1>2, HolderStep

(* What happens without the lock.                                          *)
Outside(q) ==
    \/ proc'[q] = proc[q]
    \/ /\ proc[q].pc \notin Locked /\ proc'[q].pc \notin Locked
       /\ proc'[q].op \notin {"rebuild", "heal"}

Gentle ==
    ~overtaken' => /\ ~overtaken
                   /\ \A u \in Unit : /\ file'[u] \in {file[u], current}
                                      /\ running'[u] \in {running[u], file[u], None}

LaunchStep ==
    \A l \in Launch : launch'[l].at = "running" /\ launch'[l].pointed =>
        \/ /\ launch[l].at = "running" /\ launch[l].pointed
           /\ launch'[l].build = launch[l].build
        \/ launch'[l].build \in {current, previous} \intersect disk

LEMMA OutsideStep ==
    ASSUME ReleaseInv, ReleaseTypeOK', UNCHANGED <<deploying, rel, used>>,
           \A q \in Cli : Outside(q), Gentle, LaunchStep
    PROVE  ReleaseInv'
<1>1. UNCHANGED <<disk, current, previous, receipt>>
  BY DEF rel
<1>2. ~overtaken' => ~overtaken /\ Used' \subseteq Used \union {current, None}
  BY DEF Gentle, Used
<1>3. HostInv'
  <2>1. PointersInv' /\ CurrentVerified'
    BY <1>1 DEF ReleaseInv, HostInv, PointersInv, CurrentVerified
  <2>2. ~overtaken' => Used' \subseteq disk' \union {None}
    BY <1>1, <1>2 DEF ReleaseInv, HostInv, KeptInv, PointersInv
  <2>3. LauncherKeepsRelease'
    BY <1>1 DEF ReleaseInv, HostInv, KeptInv, LauncherKeepsRelease, LaunchStep
  <2> QED BY <2>1, <2>2, <2>3 DEF HostInv, KeptInv
<1>4. ASSUME NEW q \in Cli
      PROVE  CliOK(q)'
  <2>1. CASE proc'[q] = proc[q]
    <3> USE <2>1
    <3>1. CliOK(q)
      BY DEF ReleaseInv
    <3>2. LockOK(q)' /\ RebuildOK(q)' /\ LiveOK(q)' /\ VerifiedOK(q)'
      BY <1>1, <3>1 DEF CliOK, LockOK, RebuildOK, LiveOK, VerifiedOK
    <3>3. ForwardOK(q)'
      BY <1>1, <3>1 DEF CliOK, ForwardOK, Forward
    <3>4. OntoOK(q)'
      <4>1. Restartable("backend")' <=> Restartable("backend")
        BY <1>1 DEF Restartable
      <4>2. {u \in Unit : Restartable(u)}' = {u \in Unit : Restartable(u)}
        BY <1>1 DEF Restartable
      <4>3. ASSUME proc[q].pc = "go", ~overtaken'
            PROVE  NamesCurrent(Head(proc[q].todo))'
        <5>1. NamesCurrent(Head(proc[q].todo)) /\ proc[q].todo # <<>>
          BY <1>2, <3>1, <4>3 DEF CliOK, OntoOK
        <5>2. proc[q].todo \in Seq(Unit)
          BY DEF ReleaseInv, ReleaseTypeOK, CliState
        <5>3. Head(proc[q].todo) \in Unit
          BY <5>1, <5>2
        <5> QED BY <1>1, <4>3, <5>1, <5>3 DEF NamesCurrent, Gentle
      <4> QED BY <3>1, <4>2, <4>3 DEF CliOK, OntoOK
    <3>5. ReferOK(q)'
      BY <1>1, <1>2, <3>1 DEF CliOK, ReferOK
    <3>6. PruneOK(q)'
      <4> SUFFICES ASSUME proc[q].pc = "prune"
                   PROVE  PruneOK(q)'
        BY <3>1 DEF CliOK, PruneOK
      <4>1. /\ \A b \in Doomed(q) : Spared(b) /\ b # None
            /\ Doomed(q)' = Doomed(q)
        <5>1. proc[q].rels \subseteq Build
          BY DEF ReleaseInv, ReleaseTypeOK, CliState
        <5> QED BY <3>1, <5>1, NoneFacts DEF CliOK, PruneOK, Doomed
      <4>2. \A b \in Doomed(q) : Spared(b)'
        BY <1>1, <1>2, <4>1 DEF Spared
      <4>3. proc[q].doom # None => proc[q].doom \notin {current, previous}
        BY <4>1 DEF Doomed, Spared
      <4>4. proc[q].doom # None =>
              \A l \in Launch : launch'[l].at = "running" /\ launch'[l].pointed =>
                                   launch'[l].build # proc[q].doom
        BY <3>1, <4>3 DEF CliOK, PruneOK, LaunchStep
      <4> QED BY <4>1, <4>2, <4>4 DEF PruneOK
    <3> QED BY <3>2, <3>3, <3>4, <3>5, <3>6 DEF CliOK
  <2>2. CASE /\ proc[q].pc \notin Locked /\ proc'[q].pc \notin Locked
             /\ proc'[q].op \notin {"rebuild", "heal"}
    <3>1. deploying' # q
      BY <2>2 DEF ReleaseInv, CliOK, LockOK
    <3> QED BY <2>2, <3>1, FreeNext
  <2> QED BY <2>1, <2>2 DEF Outside
<1> QED BY <1>3, <1>4 DEF ReleaseInv

-----------------------------------------------------------------------------
(* Steps without the lock.                                                 *)

LEMMA InOrderType ==
    ASSUME NEW S
    PROVE  InOrder(S) \in Seq(S)
<1>1. \A u : Only(u, S) \in Seq(S)
  BY DEF Only
<1> QED BY <1>1 DEF InOrder

LEMMA RestartedType ==
    ASSUME NEW s \in Scope
    PROVE  Restarted(s) \subseteq Unit
BY DEF Restarted, Scope, Services, Unit

(* What a unit starts from is what its file names, if it starts at all.    *)
LEMMA StartedFacts ==
    ASSUME ReleaseTypeOK, NEW u \in Unit
    PROVE  /\ Started(u) \in {file[u], None} /\ Started(u) \in disk \union {None}
           /\ Started(u) \in Build \union {None}
BY DEF Started, ReleaseTypeOK

LEMMA InPlaceKeeps ==
    ASSUME ReleaseInv, NEW p \in Cli, NEW own \in Inside, NEW s \in Scopes,
           InPlace(p, own, s)
    PROVE  ReleaseInv'
<1> DEFINE k == [Idle EXCEPT !.pc = "ask", !.op = "restart", !.own = own,
                             !.todo = InOrder(Restarted(s))]
<1>1. k \in CliState /\ k.pc = "ask" /\ k.op = "restart"
  <2>1. InOrder(Restarted(s)) \in Seq(Unit)
    BY InOrderType, RestartedType, ReleaseAssumption
  <2>2. own \in Unit \union {None}
    BY ReleaseAssumption
  <2> QED BY <2>1, <2>2, IdleFacts DEF CliState, Pcs, StCommand
<1>2. proc' = [proc EXCEPT ![p] = k] /\ proc[p].pc = "idle"
  BY IdleFacts DEF InPlace
<1>3. UNCHANGED <<deploying, rel, file, running, recent, launch, used, slips, overtaken>>
  BY DEF InPlace
<1> HIDE DEF k
<1>4. ReleaseTypeOK'
  BY <1>1, <1>2, <1>3 DEF ReleaseInv, ReleaseTypeOK, rel
<1>5. \A q \in Cli : Outside(q)
  BY <1>1, <1>2 DEF ReleaseInv, ReleaseTypeOK, Outside, Locked, Rebuilding, Restarting, Made,
     Making, Publishing, Published
<1>6. Gentle /\ LaunchStep
  BY <1>3 DEF Gentle, LaunchStep
<1> QED BY <1>3, <1>4, <1>5, <1>6, OutsideStep

LEMMA StartReadKeeps ==
    ASSUME ReleaseInv, NEW p \in Cli, StartRead(p)
    PROVE  ReleaseInv'
<1> DEFINE k == [Idle EXCEPT !.pc = "render", !.op = "start", !.build = current]
<1>1. k \in CliState /\ k.pc = "render" /\ k.op = "start"
  BY IdleFacts DEF CliState, Pcs, StCommand, ReleaseInv, ReleaseTypeOK
<1>2. proc' = [proc EXCEPT ![p] = k] /\ proc[p].pc = "idle"
  BY IdleFacts DEF StartRead
<1>3. UNCHANGED <<deploying, rel, file, running, recent, launch, used, slips, overtaken>>
  BY DEF StartRead
<1> HIDE DEF k
<1>4. ReleaseTypeOK'
  BY <1>1, <1>2, <1>3 DEF ReleaseInv, ReleaseTypeOK, rel
<1>5. \A q \in Cli : Outside(q)
  BY <1>1, <1>2 DEF ReleaseInv, ReleaseTypeOK, Outside, Locked, Rebuilding, Restarting, Made,
     Making, Publishing, Published
<1>6. Gentle /\ LaunchStep
  BY <1>3 DEF Gentle, LaunchStep
<1> QED BY <1>3, <1>4, <1>5, <1>6, OutsideStep

LEMMA StartRenderKeeps ==
    ASSUME ReleaseInv, NEW p \in Cli, StartRender(p)
    PROVE  ReleaseInv'
<1>0. ReleaseTypeOK /\ CliOK(p) /\ GoesOn(p, "start") /\ "start" \in Pcs /\ proc[p].pc = "render"
  BY DEF ReleaseInv, StartRender, Pcs
<1>1. /\ proc' \in [Cli -> CliState] /\ \A q \in Cli \ {p} : proc'[q] = proc[q]
      /\ proc'[p].pc = "start" /\ proc'[p].op = proc[p].op
  BY <1>0, GoesOnWrites
<1>2. /\ UNCHANGED <<deploying, rel, running, recent, launch, used, slips>>
      /\ overtaken' = (overtaken \/ proc[p].build \in disk \ {current})
  BY DEF StartRender
<1>3. \A u \in Unit : file'[u] = file[u] \/ (proc[p].build \in disk /\ file'[u] = proc[p].build)
  BY DEF StartRender, Render
<1>4. file' \in [Unit -> Build \union {None}]
  BY <1>0 DEF StartRender, Render, ReleaseTypeOK
<1>5. ReleaseTypeOK'
  BY <1>0, <1>1, <1>2, <1>4 DEF ReleaseTypeOK, rel
<1>6. Outside(p)
  BY <1>0, <1>1 DEF CliOK, RebuildOK, OntoOK, Outside, Locked, Rebuilding, Restarting, Made,
     Making, Publishing, Published
<1>7. \A q \in Cli : Outside(q)
  BY <1>1, <1>6 DEF Outside
<1>8. Gentle /\ LaunchStep
  BY <1>2, <1>3 DEF Gentle, LaunchStep
<1> QED BY <1>2, <1>5, <1>7, <1>8, OutsideStep

(* A command without the lock ends.                                        *)
LEMMA OutsideLeaves ==
    ASSUME ReleaseInv, NEW p \in Cli, deploying # p, Leaves(p)
    PROVE  /\ \A q \in Cli : Outside(q)
           /\ deploying' = deploying /\ proc' \in [Cli -> CliState]
<1>1. /\ proc' \in [Cli -> CliState] /\ \A q \in Cli \ {p} : proc'[q] = proc[q]
      /\ proc'[p].pc = "idle" /\ proc'[p].op = None /\ deploying' = deploying
  BY LeavesWrites DEF ReleaseInv
<1>2. Outside(p)
  BY <1>1, FreeNow, NoneFacts DEF Outside, Locked, Rebuilding, Restarting, Made, Making,
     Publishing, Published
<1> QED BY <1>1, <1>2 DEF Outside

LEMMA StartServicesKeeps ==
    ASSUME ReleaseInv, NEW p \in Cli, StartServices(p)
    PROVE  ReleaseInv'
<1>0. ReleaseTypeOK /\ CliOK(p) /\ Leaves(p) /\ proc[p].pc = "start"
  BY DEF ReleaseInv, StartServices
<1>1. deploying # p
  BY <1>0 DEF CliOK, LockOK, Locked, Rebuilding, Restarting, Made, Making, Publishing, Published
<1>2. (\A q \in Cli : Outside(q)) /\ deploying' = deploying /\ proc' \in [Cli -> CliState]
  BY <1>0, <1>1, OutsideLeaves
<1>3. UNCHANGED <<rel, file, recent, launch, used, slips, overtaken>>
  BY DEF StartServices
<1>4. /\ running' \in [Unit -> Build \union {None}]
      /\ \A u \in Unit : running'[u] \in {running[u], file[u], None}
  <2>1. \A u \in Unit : running[u] \in Build \union {None}
    BY <1>0 DEF ReleaseTypeOK
  <2> QED BY <1>0, <2>1, StartedFacts DEF StartServices
<1>5. ReleaseTypeOK'
  BY <1>0, <1>2, <1>3, <1>4 DEF ReleaseTypeOK, rel
<1>6. Gentle /\ LaunchStep
  BY <1>3, <1>4 DEF Gentle, LaunchStep
<1> QED BY <1>2, <1>3, <1>5, <1>6, OutsideStep

LEMMA StopServicesKeeps ==
    ASSUME ReleaseInv, NEW p \in Cli, StopServices(p)
    PROVE  ReleaseInv'
<1>0. ReleaseTypeOK
  BY DEF ReleaseInv
<1>1. UNCHANGED <<deploying, rel, file, proc, recent, launch, used, slips, overtaken>>
  BY DEF StopServices
<1>2. /\ running' \in [Unit -> Build \union {None}]
      /\ \A u \in Unit : running'[u] \in {running[u], file[u], None}
  BY <1>0 DEF StopServices, ReleaseTypeOK
<1>3. ReleaseTypeOK'
  BY <1>0, <1>1, <1>2 DEF ReleaseTypeOK, rel
<1>4. (\A q \in Cli : Outside(q)) /\ Gentle /\ LaunchStep
  BY <1>1, <1>2 DEF Outside, Gentle, LaunchStep
<1> QED BY <1>1, <1>3, <1>4, OutsideStep

LEMMA RespawnKeeps ==
    ASSUME ReleaseInv, NEW u \in Unit, Respawn(u)
    PROVE  ReleaseInv'
<1>0. ReleaseTypeOK
  BY DEF ReleaseInv
<1>1. UNCHANGED <<deploying, rel, file, proc, recent, launch, used, slips, overtaken>>
  BY DEF Respawn
<1>2. /\ running' \in [Unit -> Build \union {None}]
      /\ \A v \in Unit : running'[v] \in {running[v], file[v], None}
  <2>1. running' = [running EXCEPT ![u] = Started(u)]
    BY DEF Respawn
  <2> QED BY <1>0, <2>1, StartedFacts DEF ReleaseTypeOK
<1>3. ReleaseTypeOK'
  BY <1>0, <1>1, <1>2 DEF ReleaseTypeOK, rel
<1>4. (\A q \in Cli : Outside(q)) /\ Gentle /\ LaunchStep
  BY <1>1, <1>2 DEF Outside, Gentle, LaunchStep
<1> QED BY <1>1, <1>3, <1>4, OutsideStep

LEMMA CooldownOverKeeps ==
    ASSUME ReleaseInv, NEW u \in Unit, CooldownOver(u)
    PROVE  ReleaseInv'
<1>1. UNCHANGED <<deploying, rel, file, running, proc, launch, used, slips, overtaken>>
  BY DEF CooldownOver
<1>2. ReleaseTypeOK'
  BY <1>1 DEF CooldownOver, ReleaseInv, ReleaseTypeOK, rel
<1>3. (\A q \in Cli : Outside(q)) /\ Gentle /\ LaunchStep
  BY <1>1 DEF Outside, Gentle, LaunchStep
<1> QED BY <1>1, <1>2, <1>3, OutsideStep

(* The launcher of st.                                                     *)
LEMMA LauncherKeeps ==
    ASSUME ReleaseInv, NEW l \in Launch, Resolve(l) \/ Exec(l) \/ Exit(l)
    PROVE  ReleaseInv'
<1>0. launch \in [Launch -> Launcher] /\ launch[l] \in Launcher /\ current \in Build \union {None}
  BY DEF ReleaseInv, ReleaseTypeOK
<1>1. UNCHANGED <<deploying, rel, file, running, proc, recent, used, slips, overtaken>>
  BY DEF Resolve, Exec, Exit
<1>2. PICK n \in Launcher : /\ launch' = [launch EXCEPT ![l] = n]
                            /\ n.at = "running" => n.build \in disk
                            /\ n.at = "running" /\ n.pointed => n.build \in {current, previous}
  <2>1. NoLaunch \in Launcher /\ NoLaunch.at = "idle"
    BY DEF NoLaunch, Launcher
  <2>2. CASE Resolve(l)
    <3> DEFINE n == [at |-> "resolved", build |-> current, pointed |-> FALSE]
    <3>1. n \in Launcher /\ n.at = "resolved"
      BY <1>0 DEF Launcher
    <3>2. launch' = [launch EXCEPT ![l] = n]
      BY <2>2 DEF Resolve
    <3> QED BY <3>1, <3>2
  <2>3. CASE Exec(l)
    <3> DEFINE n == [launch[l] EXCEPT !.at = "running",
                                      !.pointed = launch[l].build \in {current, previous}]
    <3>1. n \in Launcher /\ n.build = launch[l].build
          /\ (n.pointed => launch[l].build \in {current, previous})
      <4>1. ASSUME NEW b \in BOOLEAN
            PROVE  LET m == [launch[l] EXCEPT !.at = "running", !.pointed = b]
                   IN  m \in Launcher /\ m.build = launch[l].build /\ m.pointed = b
        BY <1>0 DEF Launcher
      <4>2. (launch[l].build \in {current, previous}) \in BOOLEAN
        OBVIOUS
      <4> QED BY <4>1, <4>2, Zenon
    <3>2. \/ launch[l].build \in disk /\ launch' = [launch EXCEPT ![l] = n]
          \/ launch' = [launch EXCEPT ![l] = NoLaunch]
      BY <2>3 DEF Exec
    <3> HIDE DEF n
    <3> QED BY <2>1, <3>1, <3>2
  <2>4. CASE Exit(l)
    BY <2>1, <2>4 DEF Exit
  <2> QED BY <2>2, <2>3, <2>4
<1>3. launch' \in [Launch -> Launcher] /\ LaunchStep
  BY <1>0, <1>2 DEF LaunchStep
<1>4. ReleaseTypeOK'
  BY <1>1, <1>3 DEF ReleaseInv, ReleaseTypeOK, rel
<1>5. (\A q \in Cli : Outside(q)) /\ Gentle
  BY <1>1 DEF Outside, Gentle
<1> QED BY <1>1, <1>3, <1>4, <1>5, OutsideStep

-----------------------------------------------------------------------------
(* Taking the lock, preparing a release.                                   *)

LEMMA HolderFacts ==
    ASSUME ReleaseInv, NEW p \in Cli, proc[p].pc \in Locked
    PROVE  deploying = p /\ ReleaseTypeOK /\ HostInv /\ CliOK(p)
BY DEF ReleaseInv, CliOK, LockOK

LEMMA MayType ==
    ASSUME ReleaseTypeOK, NEW ok \in BOOLEAN, May(ok)
    PROVE  slips' \in 0 .. MaxSlips
BY ReleaseAssumption DEF ReleaseTypeOK, May, NoSlip, Slip

LEMMA RenderWrites ==
    ASSUME ReleaseTypeOK, NEW S, NEW b \in Build, Render(S, b)
    PROVE  /\ file' \in [Unit -> Build \union {None}]
           /\ \A u \in Unit : file'[u] \in {file[u], b}
BY DEF Render, ReleaseTypeOK

LEMMA RestartServiceWrites ==
    ASSUME ReleaseTypeOK, NEW u \in Unit, NEW ok \in BOOLEAN, NEW own, RestartService(own, u, ok)
    PROVE  /\ running' \in [Unit -> Build \union {None}]
           /\ \A v \in Unit : running'[v] \in {running[v], None, Started(u)}
           /\ running'[u] \in {running[u], None, Started(u)}
           /\ running'[u] = running[u] => running' = running
<1>1. PICK r \in {running[u], None, Started(u)} :
          running' = [running EXCEPT ![u] = r]
  BY DEF RestartService
<1>2. r \in Build \union {None} /\ r \in {running[u], None, Started(u)}
  BY StartedFacts DEF ReleaseTypeOK
<1> QED BY <1>1, <1>2 DEF ReleaseTypeOK

LEMMA RebuildKeeps ==
    ASSUME ReleaseInv, NEW p \in Cli, NEW own \in Inside, NEW s \in Scopes, NEW c \in Commit,
           NEW back \in BOOLEAN, Rebuild(p, own, s, c, back)
    PROVE  ReleaseInv'
<1> DEFINE k == [Idle EXCEPT !.pc = "prepare", !.op = "rebuild", !.own = own,
                             !.scope = s, !.commit = c, !.back = back]
<1>1. /\ k \in CliState /\ k.pc = "prepare" /\ k.op = "rebuild" /\ k.scope = s /\ k.commit = c
      /\ k.doom = None
  BY IdleFacts, ReleaseAssumption DEF CliState, Pcs, StCommand
<1>2. proc' = [proc EXCEPT ![p] = k] /\ deploying = None /\ deploying' = p /\ used < MaxBuilds
  BY DEF Rebuild
<1>3. UNCHANGED <<rel, file, running, recent, launch, used, slips, overtaken>>
  BY DEF Rebuild
<1> HIDE DEF k
<1>4. ReleaseTypeOK'
  BY <1>1, <1>2, <1>3 DEF ReleaseInv, ReleaseTypeOK, rel
<1>5. HostInv'
  BY <1>3 DEF ReleaseInv, HostInv, PointersInv, CurrentVerified, KeptInv, Used,
     LauncherKeepsRelease, rel
<1>6. proc'[p] = k /\ \A q \in Cli \ {p} : proc'[q] = proc[q]
  BY <1>2 DEF ReleaseInv, ReleaseTypeOK
<1>7. CliOK(p)'
  BY <1>1, <1>2, <1>3, <1>6, ReleaseAssumption
     DEF CliOK, LockOK, RebuildOK, LiveOK, ForwardOK, VerifiedOK, OntoOK, ReferOK,
         PruneOK, Locked, Rebuilding, Restarting, Made, Making, Publishing, Published
<1> QED BY <1>2, <1>4, <1>5, <1>6, <1>7, HolderStep

LEMMA HealKeeps ==
    ASSUME ReleaseInv, NEW p \in Cli, NEW own \in Inside, NEW page \in BOOLEAN,
           Heal(p, own, page)
    PROVE  ReleaseInv'
<1> DEFINE S == {u \in Unit : Problem(u, page) /\ Restartable(u)} \ recent
           k == [Idle EXCEPT !.pc = "onto", !.op = "heal", !.own = own, !.todo = InOrder(S)]
<1>0. InOrder(S) \in Seq({u \in Unit : Restartable(u)}) /\ InOrder(S) \in Seq(Unit)
  <2>1. InOrder(S) \in Seq(S)
    BY InOrderType
  <2>2. S \subseteq {u \in Unit : Restartable(u)}
    OBVIOUS
  <2> HIDE DEF S
  <2> QED BY <2>1, <2>2
<1>1. proc' = [proc EXCEPT ![p] = k] /\ deploying = None /\ deploying' = p
  BY DEF Heal
<1>2. UNCHANGED <<rel, file, running, recent, launch, used, overtaken>>
      /\ slips' \in 0 .. MaxSlips
  BY MayType DEF Heal, ReleaseInv
<1> HIDE DEF S
<1>3. k \in CliState /\ k.pc = "onto" /\ k.op = "heal" /\ k.todo = InOrder(S)
  BY <1>0, IdleFacts, ReleaseAssumption DEF CliState, Pcs, StCommand
<1> HIDE DEF k
<1>4. ReleaseTypeOK'
  BY <1>1, <1>2, <1>3 DEF ReleaseInv, ReleaseTypeOK, rel
<1>5. HostInv'
  BY <1>2 DEF ReleaseInv, HostInv, PointersInv, CurrentVerified, KeptInv, Used,
     LauncherKeepsRelease, rel
<1>6. proc'[p] = k /\ \A q \in Cli \ {p} : proc'[q] = proc[q]
  BY <1>1 DEF ReleaseInv, ReleaseTypeOK
<1>7. CliOK(p)'
  <2>1. {u \in Unit : Restartable(u)}' = {u \in Unit : Restartable(u)}
    BY <1>2 DEF Restartable, rel
  <2>2. OntoOK(p)'
    BY <1>0, <1>3, <1>6, <2>1 DEF OntoOK, Restarting
  <2> QED BY <1>1, <1>3, <1>6, <2>2
     DEF CliOK, LockOK, RebuildOK, LiveOK, ForwardOK, VerifiedOK, ReferOK,
         PruneOK, Locked, Rebuilding, Restarting, Made, Making, Publishing, Published
<1> QED BY <1>1, <1>4, <1>5, <1>6, <1>7, HolderStep

LEMMA LockInPlaceKeeps ==
    ASSUME ReleaseInv, NEW p \in Cli, LockInPlace(p)
    PROVE  ReleaseInv'
<1>0. ReleaseTypeOK /\ CliOK(p) /\ proc[p].pc = "ask"
  BY DEF ReleaseInv, LockInPlace
<1>1. deploying # p
  BY <1>0 DEF CliOK, LockOK, Locked, Rebuilding, Restarting, Made, Making, Publishing, Published
<1>2. UNCHANGED <<rel, file, running, recent, launch, used, slips, overtaken>>
  BY DEF LockInPlace
<1>3. CASE deploying = None
  <2>1. deploying' = p /\ GoesOn(p, "onto") /\ "onto" \in Pcs
    BY <1>3 DEF LockInPlace, Pcs
  <2>2. /\ proc' \in [Cli -> CliState] /\ \A q \in Cli \ {p} : proc'[q] = proc[q]
        /\ proc'[p].pc = "onto" /\ proc'[p].op = proc[p].op
    BY <1>0, <2>1, GoesOnWrites
  <2>3. proc[p].op \notin {"rebuild", "heal"}
    BY <1>1, FreeNow
  <2>4. ReleaseTypeOK'
    BY <1>0, <1>2, <2>1, <2>2 DEF ReleaseTypeOK, rel
  <2>5. HostInv'
    BY <1>2 DEF ReleaseInv, HostInv, PointersInv, CurrentVerified, KeptInv, Used,
       LauncherKeepsRelease, rel
  <2>6. CliOK(p)'
    BY <2>1, <2>2, <2>3
       DEF CliOK, LockOK, RebuildOK, LiveOK, ForwardOK, VerifiedOK, OntoOK, ReferOK,
           PruneOK, Locked, Rebuilding, Restarting, Made, Making, Publishing, Published
  <2> QED BY <1>3, <2>1, <2>2, <2>4, <2>5, <2>6, HolderStep
<1>4. CASE deploying # None
  <2>1. Leaves(p)
    BY <1>4 DEF LockInPlace
  <2>2. (\A q \in Cli : Outside(q)) /\ deploying' = deploying /\ proc' \in [Cli -> CliState]
    BY <1>1, <2>1, OutsideLeaves
  <2>3. ReleaseTypeOK'
    BY <1>0, <1>2, <2>2 DEF ReleaseTypeOK, rel
  <2>4. Gentle /\ LaunchStep
    BY <1>2 DEF Gentle, LaunchStep
  <2> QED BY <1>2, <2>2, <2>3, <2>4, OutsideStep
<1> QED BY <1>3, <1>4

LEMMA PrepareKeeps ==
    ASSUME ReleaseInv, NEW p \in Cli, Prepare(p)
    PROVE  ReleaseInv'
<1>0. proc[p].pc = "prepare" /\ proc[p].pc \in Locked
  BY DEF Prepare, Locked, Rebuilding
<1>1. deploying = p /\ ReleaseTypeOK /\ HostInv /\ CliOK(p)
  BY <1>0, HolderFacts
<1> DEFINE b == used + 1
<1>2. /\ proc' = [proc EXCEPT ![p].pc = "receipt", ![p].build = b]
      /\ disk' = disk \union {b} /\ used' = b
      /\ UNCHANGED <<deploying, current, previous, receipt, file, running, recent, launch, slips,
                     overtaken>>
      /\ proc[p].back \/ Forward(proc[p].commit)
  BY DEF Prepare
<1>3. b \in Build /\ b \in 0 .. MaxBuilds /\ used \in Nat
  BY <1>0, <1>1, ReleaseAssumption DEF CliOK, RebuildOK, ReleaseTypeOK, Build
<1>4. current # b /\ current \in 1 .. b \union {None} /\ b \in 1 .. b
  BY <1>1, <1>3, NoneFacts DEF HostInv, PointersInv
<1> HIDE DEF b
<1>5. /\ proc' \in [Cli -> CliState] /\ \A q \in Cli \ {p} : proc'[q] = proc[q]
      /\ proc'[p].pc = "receipt" /\ proc'[p].build = b /\ proc'[p].op = proc[p].op
      /\ proc'[p].scope = proc[p].scope /\ proc'[p].commit = proc[p].commit
      /\ proc'[p].back = proc[p].back /\ proc'[p].doom = proc[p].doom
  <2>1. ASSUME NEW j \in CliState
        PROVE  LET k == [j EXCEPT !.pc = "receipt", !.build = b]
               IN  /\ k \in CliState /\ k.pc = "receipt" /\ k.build = b /\ k.op = j.op
                   /\ k.scope = j.scope /\ k.commit = j.commit /\ k.back = j.back
                   /\ k.doom = j.doom
    BY <1>3 DEF CliState, Pcs
  <2>2. proc \in [Cli -> CliState]
    BY <1>1 DEF ReleaseTypeOK
  <2>3. proc' = [proc EXCEPT ![p] = [proc[p] EXCEPT !.pc = "receipt", !.build = b]]
    BY <1>2, <2>2
  <2> QED BY <2>1, <2>2, <2>3
<1>6. ReleaseTypeOK'
  BY <1>1, <1>2, <1>3, <1>5 DEF ReleaseTypeOK
<1>7. HostInv'
  BY <1>1, <1>2, <1>4 DEF HostInv, PointersInv, CurrentVerified, KeptInv, Used,
     LauncherKeepsRelease
<1>8. CliOK(p)'
  <2>1. Forward(proc[p].commit)' <=> Forward(proc[p].commit)
    BY <1>2, <1>5 DEF Forward
  <2>2. LockOK(p)' /\ RebuildOK(p)'
    BY <1>0, <1>1, <1>2, <1>4, <1>5 DEF CliOK, LockOK, RebuildOK, Locked, Rebuilding, Restarting,
       Made, Making
  <2>3. ForwardOK(p)' /\ LiveOK(p)'
    BY <1>2, <1>4, <1>5, <2>1 DEF ForwardOK, LiveOK, Made, Making, Publishing, Published
  <2>4. proc'[p].op # "heal" /\ proc'[p].doom = None
    BY <1>0, <1>1, <1>5 DEF CliOK, OntoOK, PruneOK, Restarting, Rebuilding
  <2> QED BY <1>5, <2>2, <2>3, <2>4 DEF CliOK, VerifiedOK, OntoOK, ReferOK, PruneOK, Publishing
<1> QED BY <1>1, <1>2, <1>5, <1>6, <1>7, <1>8, HolderStep

(* A step of a rebuild between its receipt and its publication.            *)
LEMMA MakingStep ==
    ASSUME ReleaseInv, NEW p \in Cli, proc[p].pc \in Making \ {"receipt"},
           proc'[p].pc \in (Making \ {"receipt"}) \union {"refs"},
           proc'[p].op = proc[p].op, proc'[p].build = proc[p].build,
           proc'[p].scope = proc[p].scope, proc'[p].commit = proc[p].commit,
           proc'[p].back = proc[p].back, proc'[p].doom = proc[p].doom,
           \A q \in Cli \ {p} : proc'[q] = proc[q],
           UNCHANGED <<deploying, disk, current, previous, launch, used, overtaken>>,
           \A b \in Build : /\ receipt'[b].commit = receipt[b].commit
                            /\ receipt[b].verified => receipt'[b].verified,
           proc'[p].pc = "refs" => receipt'[proc[p].build].verified,
           Used' \subseteq Used \union disk \union {None},
           ReleaseTypeOK'
    PROVE  ReleaseInv'
<1>0. deploying = p /\ ReleaseTypeOK /\ HostInv /\ CliOK(p)
  BY HolderFacts DEF Locked, Rebuilding, Made
<1>1. current \in Build \union {None} /\ proc[p].build \in Build /\ proc[p].build \in disk
  BY <1>0 DEF ReleaseTypeOK, CliOK, RebuildOK, Made
<1>2. HostInv'
  <2>1. PointersInv' /\ CurrentVerified'
    BY <1>0, <1>1 DEF HostInv, PointersInv, CurrentVerified
  <2>2. KeptInv'
    BY <1>0 DEF HostInv, KeptInv, LauncherKeepsRelease
  <2> QED BY <2>1, <2>2 DEF HostInv
<1>3. CliOK(p)'
  <2>1. Forward(proc[p].commit)' <=> Forward(proc[p].commit)
    BY <1>1 DEF Forward
  <2>2. LockOK(p)' /\ RebuildOK(p)' /\ LiveOK(p)'
    BY <1>0 DEF CliOK, LockOK, RebuildOK, LiveOK, Locked, Rebuilding, Restarting, Made, Making,
       Publishing, Published
  <2>3. ForwardOK(p)'
    BY <1>0, <1>1, <2>1 DEF CliOK, ForwardOK, Made, Making, Publishing, Published
  <2>4. OntoOK(p)'
    BY <1>0 DEF CliOK, OntoOK, Restarting, Making
  <2>5. PruneOK(p)'
    BY <1>0 DEF CliOK, PruneOK, Rebuilding, Made, Making
  <2> QED BY <2>2, <2>3, <2>4, <2>5 DEF CliOK, VerifiedOK, ReferOK, Making, Publishing
<1> QED BY <1>0, <1>2, <1>3, HolderStep

(* fail_release: the command ends, the release stays.                      *)
LEMMA FailStep ==
    ASSUME ReleaseInv, NEW p \in Cli, proc[p].pc \in Made, NEW r \in Receipt,
           r.commit = receipt[proc[p].build].commit,
           r.migrated = receipt[proc[p].build].migrated,
           r.verified = receipt[proc[p].build].verified,
           FailWith(p, r),
           UNCHANGED <<disk, current, previous, running, recent, launch, used, overtaken>>,
           file' \in [Unit -> Build \union {None}], slips' \in 0 .. MaxSlips,
           \A u \in Unit : file'[u] \in disk \union {file[u]}
    PROVE  ReleaseInv'
<1>0. deploying = p /\ ReleaseTypeOK /\ HostInv /\ CliOK(p)
  BY HolderFacts DEF Locked, Rebuilding
<1>1. current \in Build \union {None} /\ proc[p].build \in Build
  BY <1>0 DEF ReleaseTypeOK, CliOK, RebuildOK
<1>2. /\ receipt' \in [Build -> Receipt] /\ Leaves(p)
      /\ \A b \in Build : receipt'[b].verified = receipt[b].verified
  BY <1>0, <1>1, FailWrites
<1>3. proc' \in [Cli -> CliState] /\ deploying' \in Cli \union {None}
  BY <1>0, <1>2, LeavesWrites
<1>4. ReleaseTypeOK'
  BY <1>0, <1>2, <1>3 DEF ReleaseTypeOK
<1>5. HostInv'
  <2>1. PointersInv' /\ CurrentVerified'
    BY <1>0, <1>1, <1>2 DEF HostInv, PointersInv, CurrentVerified
  <2>2. KeptInv'
    BY <1>0 DEF HostInv, KeptInv, LauncherKeepsRelease, Used
  <2> QED BY <2>1, <2>2 DEF HostInv
<1> QED BY <1>0, <1>2, <1>4, <1>5, HolderLeaves

-----------------------------------------------------------------------------
(* The steps of a rebuild up to its publication.                           *)

LEMMA RefuseKeeps ==
    ASSUME ReleaseInv, NEW p \in Cli, Refuse(p)
    PROVE  ReleaseInv'
<1>1. deploying = p /\ ReleaseTypeOK /\ HostInv /\ Leaves(p)
  BY HolderFacts DEF Refuse, Locked, Rebuilding
<1>2. UNCHANGED <<rel, file, running, recent, launch, used, slips, overtaken>>
  BY DEF Refuse
<1>3. ReleaseTypeOK'
  BY <1>1, <1>2, LeavesWrites DEF ReleaseTypeOK, rel
<1>4. HostInv'
  BY <1>1, <1>2 DEF HostInv, PointersInv, CurrentVerified, KeptInv, Used, LauncherKeepsRelease, rel
<1> QED BY <1>1, <1>3, <1>4, HolderLeaves

LEMMA WriteReceiptKeeps ==
    ASSUME ReleaseInv, NEW p \in Cli, WriteReceipt(p)
    PROVE  ReleaseInv'
<1>0. proc[p].pc = "receipt" /\ GoesOn(p, "build") /\ "build" \in Pcs
  BY DEF WriteReceipt, Pcs
<1>1. deploying = p /\ ReleaseTypeOK /\ HostInv /\ CliOK(p)
  BY <1>0, HolderFacts DEF Locked, Rebuilding, Made, Making
<1>2. /\ proc[p].build \in Build /\ proc[p].build \in disk /\ current # proc[p].build
      /\ current \in Build \union {None} /\ proc[p].commit \in Commit /\ proc[p].scope \in Scope
      /\ proc[p].back \/ Forward(proc[p].commit)
      /\ proc[p].op # "heal" /\ proc[p].doom = None
  BY <1>0, <1>1 DEF CliOK, RebuildOK, LiveOK, ForwardOK, OntoOK, PruneOK, ReleaseTypeOK, Rebuilding,
     Made, Making, Restarting
<1> DEFINE r == [NoReceipt EXCEPT !.state = "prepared", !.commit = proc[p].commit,
                                  !.scope = proc[p].scope, !.prev = current]
<1>3. r \in Receipt /\ r.commit = proc[p].commit
  BY <1>2 DEF NoReceipt, Receipt
<1>4. receipt' = [receipt EXCEPT ![proc[p].build] = r]
  BY DEF WriteReceipt
<1> HIDE DEF r
<1>5. /\ receipt' \in [Build -> Receipt] /\ receipt'[proc[p].build].commit = proc[p].commit
      /\ \A b \in Build \ {proc[p].build} : receipt'[b] = receipt[b]
  BY <1>1, <1>2, <1>3, <1>4 DEF ReleaseTypeOK
<1>6. UNCHANGED <<deploying, disk, current, previous, file, running, recent, launch, used, slips,
                  overtaken>>
  BY DEF WriteReceipt
<1>7. /\ proc' \in [Cli -> CliState] /\ \A q \in Cli \ {p} : proc'[q] = proc[q]
      /\ proc'[p].pc = "build" /\ proc'[p].op = proc[p].op /\ proc'[p].build = proc[p].build
      /\ proc'[p].scope = proc[p].scope /\ proc'[p].commit = proc[p].commit
      /\ proc'[p].back = proc[p].back /\ proc'[p].doom = proc[p].doom
  BY <1>0, <1>1, GoesOnWrites
<1>8. ReleaseTypeOK'
  BY <1>1, <1>5, <1>6, <1>7 DEF ReleaseTypeOK
<1>9. HostInv'
  <2>1. PointersInv' /\ KeptInv'
    BY <1>1, <1>6 DEF HostInv, PointersInv, KeptInv, LauncherKeepsRelease, Used
  <2>2. CurrentVerified'
    BY <1>1, <1>2, <1>5, <1>6 DEF HostInv, CurrentVerified
  <2> QED BY <2>1, <2>2 DEF HostInv
<1>10. CliOK(p)'
  <2>1. Forward(proc[p].commit)' <=> Forward(proc[p].commit)
    BY <1>2, <1>5, <1>6, <1>7 DEF Forward
  <2>2. LockOK(p)' /\ RebuildOK(p)' /\ LiveOK(p)'
    BY <1>0, <1>1, <1>2, <1>6, <1>7 DEF CliOK, LockOK, RebuildOK, LiveOK, Locked, Rebuilding,
       Restarting, Made, Making, Publishing, Published
  <2>3. ForwardOK(p)'
    BY <1>2, <1>5, <1>7, <2>1 DEF ForwardOK
  <2> QED BY <1>2, <1>7, <2>2, <2>3 DEF CliOK, VerifiedOK, OntoOK, ReferOK, PruneOK, Publishing
<1> QED BY <1>1, <1>6, <1>7, <1>8, <1>9, <1>10, HolderStep

(* A failure that touches no unit file.                                    *)
LEMMA PlainFail ==
    ASSUME ReleaseInv, NEW p \in Cli, proc[p].pc \in Made, Fail(p),
           UNCHANGED <<disk, current, previous, file, running, recent, launch, used, overtaken>>,
           slips' \in 0 .. MaxSlips
    PROVE  ReleaseInv'
<1>1. ReleaseTypeOK /\ CliOK(p)
  BY DEF ReleaseInv
<1>2. receipt[proc[p].build] \in Receipt
  BY <1>1 DEF CliOK, RebuildOK, ReleaseTypeOK
<1> QED BY <1>1, <1>2, FailStep DEF Fail, ReleaseTypeOK

LEMMA BuildStepsKeeps ==
    ASSUME ReleaseInv, NEW p \in Cli, NEW ok \in BOOLEAN, BuildSteps(p, ok)
    PROVE  ReleaseInv'
<1>0. /\ proc[p].pc = "build" /\ ReleaseTypeOK /\ slips' \in 0 .. MaxSlips
      /\ UNCHANGED <<disk, current, previous, file, running, recent, launch, used, overtaken>>
  BY MayType DEF BuildSteps, ReleaseInv
<1>1. CASE ~ok
  BY <1>0, <1>1, PlainFail DEF BuildSteps, Made, Making
<1>2. CASE ok
  <2>1. PICK to \in {"migrate", "units"} : GoesOn(p, to) /\ UNCHANGED <<deploying, receipt>>
    BY <1>2 DEF BuildSteps
  <2>2. to \in Pcs
    BY DEF Pcs
  <2>3. /\ proc' \in [Cli -> CliState] /\ \A q \in Cli \ {p} : proc'[q] = proc[q]
        /\ proc'[p].pc = to /\ proc'[p].op = proc[p].op /\ proc'[p].build = proc[p].build
        /\ proc'[p].scope = proc[p].scope /\ proc'[p].commit = proc[p].commit
        /\ proc'[p].back = proc[p].back /\ proc'[p].doom = proc[p].doom
    BY <1>0, <2>1, <2>2, GoesOnWrites
  <2>4. ReleaseTypeOK'
    BY <1>0, <2>1, <2>3 DEF ReleaseTypeOK
  <2> QED BY <1>0, <2>1, <2>3, <2>4, MakingStep DEF Making, Used
<1> QED BY <1>1, <1>2

LEMMA MigrateKeeps ==
    ASSUME ReleaseInv, NEW p \in Cli, NEW ok \in BOOLEAN, Migrate(p, ok)
    PROVE  ReleaseInv'
<1>0. /\ proc[p].pc = "migrate" /\ ReleaseTypeOK /\ CliOK(p) /\ slips' \in 0 .. MaxSlips
      /\ UNCHANGED <<disk, current, previous, file, running, recent, launch, used, overtaken>>
  BY MayType DEF Migrate, ReleaseInv
<1>1. CASE ~ok
  BY <1>0, <1>1, PlainFail DEF Migrate, Made, Making
<1>2. CASE ok
  <2>1. /\ GoesOn(p, "units") /\ "units" \in Pcs /\ UNCHANGED deploying
        /\ receipt' = [receipt EXCEPT ![proc[p].build].migrated = TRUE]
    BY <1>2 DEF Migrate, Pcs
  <2>2. /\ proc' \in [Cli -> CliState] /\ \A q \in Cli \ {p} : proc'[q] = proc[q]
        /\ proc'[p].pc = "units" /\ proc'[p].op = proc[p].op /\ proc'[p].build = proc[p].build
        /\ proc'[p].scope = proc[p].scope /\ proc'[p].commit = proc[p].commit
        /\ proc'[p].back = proc[p].back /\ proc'[p].doom = proc[p].doom
    BY <1>0, <2>1, GoesOnWrites
  <2>3. /\ receipt' \in [Build -> Receipt]
        /\ \A b \in Build : /\ receipt'[b].commit = receipt[b].commit
                            /\ receipt[b].verified => receipt'[b].verified
    <3>1. proc[p].build \in Build /\ receipt \in [Build -> Receipt]
      BY <1>0 DEF CliOK, RebuildOK, ReleaseTypeOK, Made, Making
    <3>2. ASSUME NEW r \in Receipt
          PROVE  LET s == [r EXCEPT !.migrated = TRUE]
                 IN  s \in Receipt /\ s.commit = r.commit /\ s.verified = r.verified
      BY DEF Receipt
    <3>3. receipt' = [receipt EXCEPT ![proc[p].build] =
                         [receipt[proc[p].build] EXCEPT !.migrated = TRUE]]
      BY <2>1, <3>1
    <3> QED BY <3>1, <3>2, <3>3
  <2>4. ReleaseTypeOK'
    BY <1>0, <2>1, <2>2, <2>3 DEF ReleaseTypeOK
  <2> QED BY <1>0, <2>1, <2>2, <2>3, <2>4, MakingStep DEF Making, Used
<1> QED BY <1>1, <1>2

LEMMA SyncUnitsKeeps ==
    ASSUME ReleaseInv, NEW p \in Cli, NEW ok \in BOOLEAN, SyncUnits(p, ok)
    PROVE  ReleaseInv'
<1>0. /\ proc[p].pc = "units" /\ ReleaseTypeOK /\ CliOK(p) /\ slips' \in 0 .. MaxSlips
      /\ UNCHANGED <<deploying, disk, current, previous, receipt, running, recent, launch, used,
                     overtaken>>
      /\ Render(Rendered(proc[p].scope), proc[p].build)
  BY MayType DEF SyncUnits, ReleaseInv, rel
<1>1. PICK to \in {"late", "restore"} : GoesOn(p, to)
  BY DEF SyncUnits
<1>2. to \in Pcs
  BY DEF Pcs
<1>3. /\ proc' \in [Cli -> CliState] /\ \A q \in Cli \ {p} : proc'[q] = proc[q]
      /\ proc'[p].pc = to /\ proc'[p].op = proc[p].op /\ proc'[p].build = proc[p].build
      /\ proc'[p].scope = proc[p].scope /\ proc'[p].commit = proc[p].commit
      /\ proc'[p].back = proc[p].back /\ proc'[p].doom = proc[p].doom
  BY <1>0, <1>1, <1>2, GoesOnWrites
<1>4. proc[p].build \in disk /\ proc[p].build \in Build
  BY <1>0 DEF CliOK, RebuildOK, ReleaseTypeOK, Made, Making
<1>5. /\ file' \in [Unit -> Build \union {None}]
      /\ \A u \in Unit : file'[u] \in {file[u], proc[p].build}
  BY <1>0, <1>4, RenderWrites
<1>6. Used' \subseteq Used \union disk \union {None}
  BY <1>0, <1>4, <1>5 DEF Used
<1>7. ReleaseTypeOK'
  BY <1>0, <1>3, <1>5 DEF ReleaseTypeOK
<1> QED BY <1>0, <1>3, <1>6, <1>7, MakingStep DEF Making

LEMMA LateStepsKeeps ==
    ASSUME ReleaseInv, NEW p \in Cli, NEW ok \in BOOLEAN, LateSteps(p, ok)
    PROVE  ReleaseInv'
<1>0. /\ proc[p].pc = "late" /\ ReleaseTypeOK /\ CliOK(p) /\ slips' \in 0 .. MaxSlips
      /\ UNCHANGED <<disk, current, previous, file, running, recent, launch, used, overtaken>>
  BY MayType DEF LateSteps, ReleaseInv
<1>1. CASE ~ok
  BY <1>0, <1>1, PlainFail DEF LateSteps, Made, Making
<1>2. CASE ok
  <2> DEFINE t == InOrder(Restarted(proc[p].scope))
  <2>1. /\ proc' = [proc EXCEPT ![p].pc = "restart", ![p].todo = t]
        /\ UNCHANGED <<deploying, receipt>>
    BY <1>2 DEF LateSteps
  <2>2. t \in Seq(Unit)
    <3>1. proc[p].scope \in Scope
      BY <1>0 DEF CliOK, RebuildOK, Rebuilding, Made, Making
    <3> QED BY <3>1, InOrderType, RestartedType
  <2> HIDE DEF t
  <2>3. /\ proc' \in [Cli -> CliState] /\ \A q \in Cli \ {p} : proc'[q] = proc[q]
        /\ proc'[p].pc = "restart" /\ proc'[p].op = proc[p].op /\ proc'[p].build = proc[p].build
        /\ proc'[p].scope = proc[p].scope /\ proc'[p].commit = proc[p].commit
        /\ proc'[p].back = proc[p].back /\ proc'[p].doom = proc[p].doom
    <3>1. ASSUME NEW j \in CliState
          PROVE  LET k == [j EXCEPT !.pc = "restart", !.todo = t]
                 IN  /\ k \in CliState /\ k.pc = "restart" /\ k.build = j.build /\ k.op = j.op
                     /\ k.scope = j.scope /\ k.commit = j.commit /\ k.back = j.back
                     /\ k.doom = j.doom
      BY <2>2 DEF CliState, Pcs
    <3>2. proc \in [Cli -> CliState]
      BY <1>0 DEF ReleaseTypeOK
    <3>3. proc' = [proc EXCEPT ![p] = [proc[p] EXCEPT !.pc = "restart", !.todo = t]]
      BY <2>1, <3>2
    <3> QED BY <3>1, <3>2, <3>3
  <2>4. ReleaseTypeOK'
    BY <1>0, <2>1, <2>3 DEF ReleaseTypeOK
  <2> QED BY <1>0, <2>1, <2>3, <2>4, MakingStep DEF Making, Used
<1> QED BY <1>1, <1>2

LEMMA RestartOneKeeps ==
    ASSUME ReleaseInv, NEW p \in Cli, NEW ok \in BOOLEAN, RestartOne(p, ok)
    PROVE  ReleaseInv'
<1>0. /\ proc[p].pc = "restart" /\ ReleaseTypeOK /\ slips' \in 0 .. MaxSlips
      /\ UNCHANGED <<deploying, disk, current, previous, receipt, file, recent, launch, used,
                     overtaken>>
      /\ proc[p].todo # <<>> /\ proc[p].todo \in Seq(Unit)
      /\ RestartService(proc[p].own, Head(proc[p].todo), ok)
  BY MayType DEF RestartOne, ReleaseInv, ReleaseTypeOK, CliState, rel
<1> DEFINE u == Head(proc[p].todo)
           e == proc[p].errs \/ ~ok \/ (u # proc[p].own /\ running'[u] # proc[p].build)
           t == Tail(proc[p].todo)
<1>1. u \in Unit /\ t \in Seq(Unit) /\ e \in BOOLEAN
  BY <1>0
<1>2. proc' = [proc EXCEPT ![p] = [proc[p] EXCEPT !.todo = t, !.errs = e]]
  BY <1>0 DEF RestartOne, ReleaseTypeOK
<1>3. /\ running' \in [Unit -> Build \union {None}]
      /\ \A v \in Unit : running'[v] \in {running[v], None, Started(u)}
  BY <1>0, <1>1, RestartServiceWrites
<1>4. Started(u) \in disk \union {None}
  BY <1>0, <1>1, StartedFacts
<1> HIDE DEF u, e, t
<1>5. /\ proc' \in [Cli -> CliState] /\ \A q \in Cli \ {p} : proc'[q] = proc[q]
      /\ proc'[p].pc = proc[p].pc /\ proc'[p].op = proc[p].op /\ proc'[p].build = proc[p].build
      /\ proc'[p].scope = proc[p].scope /\ proc'[p].commit = proc[p].commit
      /\ proc'[p].back = proc[p].back /\ proc'[p].doom = proc[p].doom
  <2>1. ASSUME NEW j \in CliState
        PROVE  LET k == [j EXCEPT !.todo = t, !.errs = e]
               IN  /\ k \in CliState /\ k.pc = j.pc /\ k.build = j.build /\ k.op = j.op
                   /\ k.scope = j.scope /\ k.commit = j.commit /\ k.back = j.back
                   /\ k.doom = j.doom
    BY <1>1 DEF CliState, Pcs
  <2>2. proc \in [Cli -> CliState]
    BY <1>0 DEF ReleaseTypeOK
  <2> QED BY <1>2, <2>1, <2>2
<1>6. Used' \subseteq Used \union disk \union {None}
  BY <1>0, <1>3, <1>4 DEF Used
<1>7. ReleaseTypeOK'
  BY <1>0, <1>3, <1>5 DEF ReleaseTypeOK
<1> QED BY <1>0, <1>5, <1>6, <1>7, MakingStep DEF Making

LEMMA VerifyKeeps ==
    ASSUME ReleaseInv, NEW p \in Cli, NEW ok \in BOOLEAN, Verify(p, ok)
    PROVE  ReleaseInv'
<1>0. /\ proc[p].pc = "restart" /\ ReleaseTypeOK /\ CliOK(p) /\ slips' \in 0 .. MaxSlips
      /\ UNCHANGED <<deploying, disk, current, previous, file, running, recent, launch, used,
                     overtaken>>
  <2>1. slips' \in 0 .. MaxSlips
    BY MayType DEF Verify, ReleaseInv, NoSlip, ReleaseTypeOK
  <2> QED BY <2>1 DEF Verify, ReleaseInv
<1>1. PICK to \in {"refs", "restore"} :
          /\ GoesOn(p, to)
          /\ \/ receipt' = [receipt EXCEPT ![proc[p].build].verified = TRUE]
             \/ to = "restore" /\ receipt' = receipt
  BY DEF Verify
<1>2. to \in Pcs
  BY DEF Pcs
<1>3. /\ proc' \in [Cli -> CliState] /\ \A q \in Cli \ {p} : proc'[q] = proc[q]
      /\ proc'[p].pc = to /\ proc'[p].op = proc[p].op /\ proc'[p].build = proc[p].build
      /\ proc'[p].scope = proc[p].scope /\ proc'[p].commit = proc[p].commit
      /\ proc'[p].back = proc[p].back /\ proc'[p].doom = proc[p].doom
  BY <1>0, <1>1, <1>2, GoesOnWrites
<1>4. /\ receipt' \in [Build -> Receipt]
      /\ \A b \in Build : /\ receipt'[b].commit = receipt[b].commit
                          /\ receipt[b].verified => receipt'[b].verified
      /\ to = "refs" => receipt'[proc[p].build].verified
  <2>1. proc[p].build \in Build /\ receipt \in [Build -> Receipt]
    BY <1>0 DEF CliOK, RebuildOK, ReleaseTypeOK, Made, Making
  <2>2. ASSUME NEW r \in Receipt
        PROVE  LET s == [r EXCEPT !.verified = TRUE]
               IN  s \in Receipt /\ s.commit = r.commit /\ s.verified
    BY DEF Receipt
  <2>3. CASE to = "restore" /\ receipt' = receipt
    BY <2>1, <2>3
  <2>4. CASE receipt' = [receipt EXCEPT ![proc[p].build].verified = TRUE]
    <3>1. receipt' = [receipt EXCEPT ![proc[p].build] =
                         [receipt[proc[p].build] EXCEPT !.verified = TRUE]]
      BY <2>1, <2>4
    <3> QED BY <2>1, <2>2, <3>1
  <2> QED BY <1>1, <2>3, <2>4
<1>5. ReleaseTypeOK'
  BY <1>0, <1>3, <1>4 DEF ReleaseTypeOK
<1> QED BY <1>0, <1>3, <1>4, <1>5, MakingStep DEF Making, Used

LEMMA RestoreKeeps ==
    ASSUME ReleaseInv, NEW p \in Cli, NEW ok \in BOOLEAN, Restore(p, ok)
    PROVE  ReleaseInv'
<1>0. /\ proc[p].pc = "restore" /\ ReleaseTypeOK /\ CliOK(p) /\ slips' \in 0 .. MaxSlips
      /\ UNCHANGED <<disk, current, previous, running, recent, launch, used, overtaken>>
  <2>1. slips' \in 0 .. MaxSlips
    BY MayType DEF Restore, ReleaseInv, NoSlip, ReleaseTypeOK
  <2> QED BY <2>1 DEF Restore, ReleaseInv
<1> DEFINE r == receipt[proc[p].build]
<1>1. r \in Receipt
  BY <1>0 DEF CliOK, RebuildOK, ReleaseTypeOK, Made, Making
<1>2. PICK note \in {"unavailable", "restored", "failed"} :
          FailWith(p, [r EXCEPT !.rollback = note])
  BY DEF Restore
<1>3. /\ file' \in [Unit -> Build \union {None}]
      /\ \A u \in Unit : file'[u] \in disk \union {file[u]}
  <2>1. CASE r.prev \in disk /\ Render(Rendered(proc[p].scope), r.prev)
    <3>1. r.prev \in Build
      BY <1>0, <2>1 DEF ReleaseTypeOK
    <3> QED BY <1>0, <2>1, <3>1, RenderWrites
  <2>2. CASE UNCHANGED file
    BY <1>0, <2>2 DEF ReleaseTypeOK
  <2> QED BY <2>1, <2>2 DEF Restore
<1> DEFINE s == [r EXCEPT !.rollback = note]
<1>4. s \in Receipt /\ s.commit = r.commit /\ s.migrated = r.migrated /\ s.verified = r.verified
  <2> HIDE DEF r
  <2> QED BY <1>1 DEF Receipt
<1> HIDE DEF s
<1>5. FailWith(p, s)
  BY <1>2 DEF s
<1> QED BY <1>0, <1>3, <1>4, <1>5, FailStep DEF Made, Making

(* An error nobody expected, and a kill.                                   *)
LEMMA RaiseKeeps ==
    ASSUME ReleaseInv, NEW p \in Cli, Raise(p)
    PROVE  ReleaseInv'
<1>0. /\ ReleaseTypeOK /\ CliOK(p) /\ Fail(p)
      /\ UNCHANGED <<disk, current, previous, file, running, recent, launch, used, overtaken>>
  BY DEF ReleaseInv, Raise
<1>1. proc[p].pc \in Made
  BY <1>0 DEF Raise, CliOK, RebuildOK, Rebuilding
<1>2. slips' \in 0 .. MaxSlips
  BY <1>0, ReleaseAssumption DEF Raise, Slip, ReleaseTypeOK
<1> QED BY <1>0, <1>1, <1>2, PlainFail

LEMMA DieKeeps ==
    ASSUME ReleaseInv, NEW p \in Cli, Die(p)
    PROVE  ReleaseInv'
<1>0. /\ ReleaseTypeOK /\ HostInv /\ CliOK(p) /\ Leaves(p)
      /\ UNCHANGED <<rel, running, recent, launch, used, overtaken>>
  BY DEF ReleaseInv, Die
<1>1. slips' \in 0 .. MaxSlips
  BY <1>0, ReleaseAssumption DEF Die, Slip, ReleaseTypeOK
<1>2. PICK S \in SUBSET (IF proc[p].pc = "units" THEN Rendered(proc[p].scope) ELSE {}) :
          Render(S, proc[p].build)
  BY DEF Die
<1>3. /\ file' \in [Unit -> Build \union {None}]
      /\ \A u \in Unit : file'[u] \in disk \union {file[u]}
      /\ proc[p].pc # "units" => \A u \in Unit : file'[u] = file[u]
  <2>1. CASE proc[p].pc = "units"
    <3>1. proc[p].build \in disk /\ proc[p].build \in Build
      BY <1>0, <2>1 DEF CliOK, RebuildOK, ReleaseTypeOK, Made, Making
    <3> QED BY <1>0, <1>2, <2>1, <3>1, RenderWrites
  <2>2. CASE proc[p].pc # "units"
    BY <1>0, <1>2, <2>2 DEF Render, ReleaseTypeOK
  <2> QED BY <2>1, <2>2
<1>4. proc' \in [Cli -> CliState] /\ deploying' \in Cli \union {None}
  BY <1>0, LeavesWrites
<1>5. ReleaseTypeOK'
  BY <1>0, <1>1, <1>3, <1>4 DEF ReleaseTypeOK, rel
<1>6. CASE deploying = p
  <2>1. PointersInv' /\ CurrentVerified'
    BY <1>0 DEF HostInv, PointersInv, CurrentVerified, rel
  <2>2. KeptInv'
    BY <1>0, <1>3 DEF HostInv, KeptInv, LauncherKeepsRelease, Used, rel
  <2> QED BY <1>0, <1>5, <1>6, <2>1, <2>2, HolderLeaves DEF HostInv
<1>7. CASE deploying # p
  <2>1. (\A q \in Cli : Outside(q)) /\ deploying' = deploying
    BY <1>0, <1>7, OutsideLeaves
  <2>2. proc[p].pc # "units"
    BY <1>7, FreeNow DEF Locked, Rebuilding, Made, Making
  <2>3. Gentle /\ LaunchStep
    BY <1>0, <1>3, <2>2 DEF Gentle, LaunchStep
  <2> QED BY <1>0, <1>5, <2>1, <2>3, OutsideStep
<1> QED BY <1>6, <1>7

-----------------------------------------------------------------------------
(* The publication of a release and the pruning of old ones.               *)

LEMMA CliWrites ==
    ASSUME ReleaseTypeOK, NEW p \in Cli, NEW k \in CliState, proc' = [proc EXCEPT ![p] = k]
    PROVE  /\ proc' \in [Cli -> CliState] /\ \A q \in Cli \ {p} : proc'[q] = proc[q]
           /\ proc'[p] = k
BY DEF ReleaseTypeOK

(* What every step of the publication leaves as it was.                    *)
LEMMA PublishStep ==
    ASSUME ReleaseInv, NEW p \in Cli, proc[p].pc \in Publishing \union Published,
           proc'[p].pc \in Publishing \union Published,
           proc'[p].op = proc[p].op, proc'[p].build = proc[p].build,
           proc'[p].scope = proc[p].scope, proc'[p].commit = proc[p].commit,
           \A q \in Cli \ {p} : proc'[q] = proc[q], UNCHANGED <<deploying, used>>,
           proc[p].build \in disk',
           ReleaseTypeOK', HostInv', LiveOK(p)', ForwardOK(p)', VerifiedOK(p)', ReferOK(p)',
           PruneOK(p)'
    PROVE  ReleaseInv'
<1>0. deploying = p /\ CliOK(p)
  BY HolderFacts DEF Locked, Rebuilding, Made
<1>1. LockOK(p)' /\ RebuildOK(p)'
  BY <1>0 DEF CliOK, LockOK, RebuildOK, Locked, Rebuilding, Restarting, Made, Making, Publishing,
     Published
<1>2. OntoOK(p)'
  BY <1>0 DEF CliOK, OntoOK, Restarting, Publishing, Published
<1> QED BY <1>0, <1>1, <1>2, HolderStep DEF CliOK

LEMMA PublisherFacts ==
    ASSUME ReleaseInv, NEW p \in Cli, proc[p].pc \in Publishing \union Published
    PROVE  /\ deploying = p /\ ReleaseTypeOK /\ HostInv /\ CliOK(p)
           /\ proc[p] \in CliState /\ proc[p].build \in disk /\ proc[p].build \in Build
           /\ proc[p].build \in 1 .. used /\ current \in Build \union {None}
           /\ receipt[proc[p].build].commit = proc[p].commit
           /\ proc[p].pc # "prune" => proc[p].doom = None
<1>1. deploying = p /\ ReleaseTypeOK /\ HostInv /\ CliOK(p)
  BY HolderFacts DEF Locked, Rebuilding, Made
<1> QED BY <1>1 DEF CliOK, RebuildOK, ForwardOK, PruneOK, ReleaseTypeOK, Rebuilding, Made, Making,
     Publishing, Published

LEMMA ReferKeeps ==
    ASSUME ReleaseInv, NEW p \in Cli, NEW ok \in BOOLEAN, Refer(p, ok)
    PROVE  ReleaseInv'
<1>0. /\ proc[p].pc = "refs" /\ slips' \in 0 .. MaxSlips
      /\ UNCHANGED <<deploying, disk, current, previous, receipt, file, running, recent, launch,
                     used, overtaken>>
  BY MayType DEF Refer, ReleaseInv, rel
<1>1. /\ deploying = p /\ ReleaseTypeOK /\ HostInv /\ CliOK(p) /\ proc[p] \in CliState
      /\ proc[p].build \in disk /\ proc[p].doom = None
  BY <1>0, PublisherFacts DEF Publishing
<1> DEFINE R == IF ok THEN References ELSE disk
           k == [proc[p] EXCEPT !.pc = "previous", !.rels = R]
<1>2. R \in SUBSET Build /\ (~overtaken => Used \subseteq R \union {None})
  BY <1>1 DEF References, FileReferences, ProcessReferences, Used, ReleaseTypeOK, HostInv, KeptInv
<1>3. proc' = [proc EXCEPT ![p] = k]
  BY <1>1 DEF Refer, ReleaseTypeOK
<1> HIDE DEF R
<1>4. /\ k \in CliState /\ k.pc = "previous" /\ k.rels = R /\ k.op = proc[p].op
      /\ k.build = proc[p].build /\ k.scope = proc[p].scope /\ k.commit = proc[p].commit
      /\ k.back = proc[p].back /\ k.doom = None
  <2>1. ASSUME NEW j \in CliState
        PROVE  LET h == [j EXCEPT !.pc = "previous", !.rels = R]
               IN  /\ h \in CliState /\ h.pc = "previous" /\ h.rels = R /\ h.op = j.op
                   /\ h.build = j.build /\ h.scope = j.scope /\ h.commit = j.commit
                   /\ h.back = j.back /\ h.doom = j.doom
    BY <1>2 DEF CliState, Pcs
  <2>2. proc[p] \in CliState /\ proc[p].doom = None
    BY <1>1
  <2> QED BY <2>1, <2>2
<1> HIDE DEF k
<1>5. /\ proc' \in [Cli -> CliState] /\ \A q \in Cli \ {p} : proc'[q] = proc[q]
      /\ proc'[p] = k
  BY <1>1, <1>3, <1>4, CliWrites
<1>6. ReleaseTypeOK'
  BY <1>0, <1>1, <1>5 DEF ReleaseTypeOK
<1>7. HostInv'
  BY <1>0, <1>1 DEF HostInv, PointersInv, CurrentVerified, KeptInv, Used, LauncherKeepsRelease
<1>8. LiveOK(p)' /\ VerifiedOK(p)'
  BY <1>0, <1>1, <1>4, <1>5 DEF CliOK, LiveOK, VerifiedOK, Publishing, Published
<1>9. ForwardOK(p)'
  BY <1>0, <1>1, <1>4, <1>5 DEF CliOK, ForwardOK, Forward, Made, Publishing
<1>10. ReferOK(p)' /\ PruneOK(p)'
  BY <1>0, <1>2, <1>4, <1>5 DEF ReferOK, PruneOK, Used
<1> QED BY <1>0, <1>1, <1>4, <1>5, <1>6, <1>7, <1>8, <1>9, <1>10, PublishStep DEF Publishing

LEMMA PointPreviousKeeps ==
    ASSUME ReleaseInv, NEW p \in Cli, PointPrevious(p)
    PROVE  ReleaseInv'
<1>0. /\ proc[p].pc = "previous" /\ GoesOn(p, "current") /\ "current" \in Pcs
      /\ previous' = (IF current = None THEN previous ELSE current)
      /\ UNCHANGED <<deploying, disk, current, receipt, file, running, recent, launch, used, slips,
                     overtaken>>
  BY DEF PointPrevious, Pcs
<1>1. /\ deploying = p /\ ReleaseTypeOK /\ HostInv /\ CliOK(p) /\ proc[p].build \in disk
      /\ proc[p].doom = None
  BY <1>0, PublisherFacts DEF Publishing
<1>2. /\ proc' \in [Cli -> CliState] /\ \A q \in Cli \ {p} : proc'[q] = proc[q]
      /\ proc'[p].pc = "current" /\ proc'[p].op = proc[p].op /\ proc'[p].build = proc[p].build
      /\ proc'[p].scope = proc[p].scope /\ proc'[p].commit = proc[p].commit
      /\ proc'[p].back = proc[p].back /\ proc'[p].rels = proc[p].rels
      /\ proc'[p].doom = proc[p].doom
  BY <1>0, <1>1, GoesOnWrites
<1>3. ReleaseTypeOK'
  BY <1>0, <1>1, <1>2 DEF ReleaseTypeOK
<1>4. HostInv'
  BY <1>0, <1>1 DEF HostInv, PointersInv, CurrentVerified, KeptInv, Used, LauncherKeepsRelease
<1>5. LiveOK(p)' /\ VerifiedOK(p)'
  BY <1>0, <1>1, <1>2 DEF CliOK, LiveOK, VerifiedOK, Publishing, Published
<1>6. ForwardOK(p)'
  BY <1>0, <1>1, <1>2 DEF CliOK, ForwardOK, Forward, Made, Publishing
<1>7. ReferOK(p)' /\ PruneOK(p)'
  BY <1>0, <1>1, <1>2 DEF CliOK, ReferOK, PruneOK, Used
<1> QED BY <1>0, <1>1, <1>2, <1>3, <1>4, <1>5, <1>6, <1>7, PublishStep DEF Publishing

LEMMA PointCurrentKeeps ==
    ASSUME ReleaseInv, NEW p \in Cli, PointCurrent(p)
    PROVE  ReleaseInv'
<1>0. /\ proc[p].pc = "current" /\ GoesOn(p, "record") /\ "record" \in Pcs
      /\ current' = proc[p].build
      /\ UNCHANGED <<deploying, disk, previous, receipt, file, running, recent, launch, used, slips,
                     overtaken>>
  BY DEF PointCurrent, Pcs
<1>1. /\ deploying = p /\ ReleaseTypeOK /\ HostInv /\ CliOK(p) /\ proc[p].build \in disk
      /\ proc[p].build \in Build /\ proc[p].build \in 1 .. used /\ proc[p].doom = None
      /\ receipt[proc[p].build].commit = proc[p].commit
  BY <1>0, PublisherFacts DEF Publishing
<1>2. /\ proc' \in [Cli -> CliState] /\ \A q \in Cli \ {p} : proc'[q] = proc[q]
      /\ proc'[p].pc = "record" /\ proc'[p].op = proc[p].op /\ proc'[p].build = proc[p].build
      /\ proc'[p].scope = proc[p].scope /\ proc'[p].commit = proc[p].commit
      /\ proc'[p].rels = proc[p].rels /\ proc'[p].doom = proc[p].doom
  BY <1>0, <1>1, GoesOnWrites
<1>3. ReleaseTypeOK'
  BY <1>0, <1>1, <1>2 DEF ReleaseTypeOK
<1>4. HostInv'
  <2>1. PointersInv'
    BY <1>0, <1>1 DEF HostInv, PointersInv
  <2>2. CurrentVerified'
    BY <1>0, <1>1 DEF CliOK, VerifiedOK, CurrentVerified, Publishing
  <2>3. KeptInv'
    BY <1>0, <1>1 DEF HostInv, KeptInv, Used, LauncherKeepsRelease
  <2> QED BY <2>1, <2>2, <2>3 DEF HostInv
<1>5. LiveOK(p)' /\ VerifiedOK(p)' /\ ForwardOK(p)'
  BY <1>0, <1>1, <1>2 DEF LiveOK, VerifiedOK, ForwardOK, Making, Publishing
<1>6. ReferOK(p)' /\ PruneOK(p)'
  BY <1>0, <1>1, <1>2 DEF CliOK, ReferOK, PruneOK, Used
<1> QED BY <1>0, <1>1, <1>2, <1>3, <1>4, <1>5, <1>6, PublishStep DEF Publishing, Published

LEMMA RecordSuccessKeeps ==
    ASSUME ReleaseInv, NEW p \in Cli, RecordSuccess(p)
    PROVE  ReleaseInv'
<1>0. /\ proc[p].pc = "record"
      /\ UNCHANGED <<deploying, disk, current, previous, file, running, recent, launch, used, slips,
                     overtaken>>
  BY DEF RecordSuccess
<1>1. /\ deploying = p /\ ReleaseTypeOK /\ HostInv /\ CliOK(p) /\ proc[p] \in CliState
      /\ proc[p].build \in disk /\ proc[p].build \in Build /\ proc[p].doom = None
      /\ current \in Build \union {None} /\ receipt[proc[p].build].commit = proc[p].commit
  BY <1>0, PublisherFacts DEF Published
<1> DEFINE R == Candidates(p)
           k == [proc[p] EXCEPT !.pc = "prune", !.rels = R]
<1>2. /\ R \in SUBSET Build
      /\ \A b \in R : b \notin {current, previous} /\ (~overtaken => b \notin Used)
  <2>1. R \subseteq disk \ ({proc[p].build, current, previous} \union proc[p].rels)
    BY DEF Candidates
  <2>2. ~overtaken => Used \subseteq proc[p].rels \union {None, current, previous}
    BY <1>0, <1>1 DEF CliOK, ReferOK
  <2>3. disk \subseteq Build
    BY <1>1 DEF ReleaseTypeOK
  <2> HIDE DEF R
  <2> QED BY <2>1, <2>2, <2>3, NoneFacts
<1>3. proc' = [proc EXCEPT ![p] = k]
  BY <1>1 DEF RecordSuccess, ReleaseTypeOK
<1> HIDE DEF R
<1>4. /\ k \in CliState /\ k.pc = "prune" /\ k.rels = R /\ k.op = proc[p].op
      /\ k.build = proc[p].build /\ k.scope = proc[p].scope /\ k.commit = proc[p].commit
      /\ k.doom = None
  BY <1>1, <1>2 DEF CliState, Pcs
<1> HIDE DEF k
<1>5. /\ proc' \in [Cli -> CliState] /\ \A q \in Cli \ {p} : proc'[q] = proc[q]
      /\ proc'[p] = k
  BY <1>1, <1>3, <1>4, CliWrites
<1>6. /\ receipt' \in [Build -> Receipt]
      /\ \A b \in Build : /\ receipt'[b].commit = receipt[b].commit
                          /\ receipt'[b].verified = receipt[b].verified
  <2>1. receipt \in [Build -> Receipt]
    BY <1>1 DEF ReleaseTypeOK
  <2>2. ASSUME NEW r \in Receipt
        PROVE  LET s == [r EXCEPT !.state = "succeeded"]
               IN  s \in Receipt /\ s.commit = r.commit /\ s.verified = r.verified
    BY DEF Receipt
  <2>3. receipt' = [receipt EXCEPT ![proc[p].build] =
                       [receipt[proc[p].build] EXCEPT !.state = "succeeded"]]
    BY <1>1, <2>1 DEF RecordSuccess
  <2> QED BY <1>1, <2>1, <2>2, <2>3
<1>7. ReleaseTypeOK'
  BY <1>0, <1>1, <1>5, <1>6 DEF ReleaseTypeOK
<1>8. HostInv'
  <2>1. PointersInv' /\ CurrentVerified'
    BY <1>0, <1>1, <1>6 DEF HostInv, PointersInv, CurrentVerified
  <2>2. KeptInv'
    BY <1>0, <1>1 DEF HostInv, KeptInv, Used, LauncherKeepsRelease
  <2> QED BY <2>1, <2>2 DEF HostInv
<1>9. LiveOK(p)' /\ VerifiedOK(p)' /\ ReferOK(p)'
  BY <1>0, <1>1, <1>4, <1>5 DEF CliOK, LiveOK, VerifiedOK, ReferOK, Making, Publishing, Published
<1>10. ForwardOK(p)'
  BY <1>1, <1>4, <1>5, <1>6 DEF ForwardOK, Making, Publishing
<1>11. PruneOK(p)'
  BY <1>0, <1>2, <1>4, <1>5 DEF PruneOK, Doomed, Spared, Used
<1> QED BY <1>0, <1>1, <1>4, <1>5, <1>7, <1>8, <1>9, <1>10, <1>11, PublishStep DEF Published

(* A step of pruning: what is about to go is still needed by nobody.       *)
LEMMA PruneStep ==
    ASSUME ReleaseInv, NEW p \in Cli, proc[p].pc = "prune",
           NEW R \in SUBSET proc[p].rels, NEW d \in proc[p].rels \union {None},
           proc' = [proc EXCEPT ![p] = [proc[p] EXCEPT !.rels = R, !.doom = d]],
           d # None => ~InUse(d),
           disk' \in SUBSET disk, disk \ disk' \subseteq {proc[p].doom} \ {None},
           slips' \in 0 .. MaxSlips,
           UNCHANGED <<deploying, current, previous, receipt, file, running, recent, launch, used,
                       overtaken>>
    PROVE  ReleaseInv'
<1>1. /\ deploying = p /\ ReleaseTypeOK /\ HostInv /\ CliOK(p) /\ proc[p] \in CliState
      /\ proc[p].build \in disk /\ proc[p].build \in Build
      /\ receipt[proc[p].build].commit = proc[p].commit
  BY PublisherFacts DEF Published
<1> DEFINE k == [proc[p] EXCEPT !.rels = R, !.doom = d]
<1>2. /\ k \in CliState /\ k.pc = "prune" /\ k.rels = R /\ k.doom = d /\ k.op = proc[p].op
      /\ k.build = proc[p].build /\ k.scope = proc[p].scope /\ k.commit = proc[p].commit
  BY <1>1 DEF CliState, Pcs
<1> HIDE DEF k
<1>3. /\ proc' \in [Cli -> CliState] /\ \A q \in Cli \ {p} : proc'[q] = proc[q]
      /\ proc'[p] = k
  BY <1>1, <1>2, CliWrites DEF k
<1>4. ReleaseTypeOK'
  BY <1>1, <1>3 DEF ReleaseTypeOK
<1>5. /\ \A b \in Doomed(p) : Spared(b)
      /\ proc[p].doom # None =>
            \A l \in Launch : launch[l].at = "running" /\ launch[l].pointed =>
                                 launch[l].build # proc[p].doom
      /\ current = proc[p].build
  BY <1>1 DEF CliOK, PruneOK, LiveOK, Published
<1>6. \A b \in disk \ disk' : b \notin {current, previous} /\ (~overtaken => b \notin Used)
  BY <1>5 DEF Doomed, Spared
<1>7. HostInv'
  <2>1. PointersInv' /\ CurrentVerified'
    BY <1>1, <1>6 DEF HostInv, PointersInv, CurrentVerified
  <2>2. ~overtaken => Used \subseteq disk' \union {None}
    BY <1>1, <1>6 DEF HostInv, KeptInv
  <2>3. LauncherKeepsRelease'
    BY <1>1, <1>5 DEF HostInv, KeptInv, LauncherKeepsRelease
  <2> QED BY <2>1, <2>2, <2>3 DEF HostInv, KeptInv, Used
<1>8. LiveOK(p)' /\ VerifiedOK(p)' /\ ReferOK(p)' /\ ForwardOK(p)'
  BY <1>1, <1>2, <1>3, <1>5 DEF LiveOK, VerifiedOK, ReferOK, ForwardOK, Making, Publishing
<1>9. PruneOK(p)'
  <2>1. \A b \in R \union ({d} \ {None}) : Spared(b)
    BY <1>5 DEF Doomed
  <2>2. d # None => \A l \in Launch : launch[l].at = "running" => launch[l].build # d
    BY DEF InUse
  <2> QED BY <1>2, <1>3, <2>1, <2>2 DEF PruneOK, Doomed, Spared, Used
<1>10. proc[p].build \in disk'
  BY <1>1, <1>5, <1>6
<1> QED BY <1>1, <1>2, <1>3, <1>4, <1>7, <1>8, <1>9, <1>10, PublishStep DEF Published

LEMMA ProbeKeeps ==
    ASSUME ReleaseInv, NEW p \in Cli, NEW b \in Build, Probe(p, b)
    PROVE  ReleaseInv'
<1>0. /\ proc[p].pc = "prune" /\ b \in proc[p].rels
      /\ UNCHANGED <<deploying, disk, current, previous, receipt, file, running, recent, launch,
                     used, slips, overtaken>>
  BY DEF Probe, rel
<1> DEFINE R == proc[p].rels \ {b}
           d == IF InUse(b) THEN None ELSE b
<1>1. proc' = [proc EXCEPT ![p] = [proc[p] EXCEPT !.rels = R, !.doom = d]]
  BY DEF Probe, ReleaseInv, ReleaseTypeOK
<1>2. /\ R \in SUBSET proc[p].rels /\ d \in proc[p].rels \union {None}
      /\ d # None => ~InUse(d)
  BY <1>0
<1>3. slips' \in 0 .. MaxSlips
  BY <1>0 DEF ReleaseInv, ReleaseTypeOK
<1> HIDE DEF R, d
<1> QED BY <1>0, <1>1, <1>2, <1>3, PruneStep

LEMMA RemoveReleaseKeeps ==
    ASSUME ReleaseInv, NEW p \in Cli, NEW ok \in BOOLEAN, RemoveRelease(p, ok)
    PROVE  ReleaseInv'
<1>0. /\ proc[p].pc = "prune" /\ proc[p].doom # None /\ disk' = disk \ {proc[p].doom}
      /\ UNCHANGED <<deploying, current, previous, receipt, file, running, recent, launch, used,
                     overtaken>>
      /\ slips' \in 0 .. MaxSlips
  BY MayType DEF RemoveRelease, ReleaseInv
<1> DEFINE R == IF ok THEN proc[p].rels ELSE {}
<1>1. proc' = [proc EXCEPT ![p] = [proc[p] EXCEPT !.rels = R, !.doom = None]]
  <2>1. ASSUME NEW j \in CliState, NEW S
        PROVE  [j EXCEPT !.doom = None, !.rels = S] = [j EXCEPT !.rels = S, !.doom = None]
    BY DEF CliState
  <2>2. proc' = [proc EXCEPT ![p] = [proc[p] EXCEPT !.doom = None, !.rels = R]]
    BY DEF RemoveRelease, ReleaseInv, ReleaseTypeOK
  <2>3. proc[p] \in CliState
    BY DEF ReleaseInv, ReleaseTypeOK
  <2> HIDE DEF R
  <2> QED BY <2>1, <2>2, <2>3
<1>2. R \in SUBSET proc[p].rels
  OBVIOUS
<1> HIDE DEF R
<1> QED BY <1>0, <1>1, <1>2, PruneStep

LEMMA EndRebuildKeeps ==
    ASSUME ReleaseInv, NEW p \in Cli, EndRebuild(p)
    PROVE  ReleaseInv'
<1>1. deploying = p /\ ReleaseTypeOK /\ HostInv /\ Leaves(p)
  BY HolderFacts DEF EndRebuild, Locked, Rebuilding, Made, Published
<1>2. UNCHANGED <<rel, file, running, recent, launch, used, slips, overtaken>>
  BY DEF EndRebuild
<1>3. ReleaseTypeOK'
  BY <1>1, <1>2, LeavesWrites DEF ReleaseTypeOK, rel
<1>4. HostInv'
  BY <1>1, <1>2 DEF HostInv, PointersInv, CurrentVerified, KeptInv, Used, LauncherKeepsRelease, rel
<1> QED BY <1>1, <1>3, <1>4, HolderLeaves

-----------------------------------------------------------------------------
(* Restarts onto the live release.                                         *)

LEMMA TailType ==
    ASSUME NEW S, NEW s \in Seq(S), s # <<>>
    PROVE  Tail(s) \in Seq(S)
OBVIOUS

LEMMA RestartingStep ==
    ASSUME ReleaseInv, NEW p \in Cli, proc[p].pc \in Restarting, NEW k \in CliState,
           proc' = [proc EXCEPT ![p] = k],
           k.pc \in Restarting, k.op = proc[p].op,
           k.todo = proc[p].todo \/ (proc[p].todo # <<>> /\ k.todo = Tail(proc[p].todo)),
           k.pc = "go" => k.todo # <<>> /\ NamesCurrent(Head(k.todo)),
           UNCHANGED <<deploying, disk, current, previous, receipt, file, recent, launch, used,
                       overtaken>>,
           running' \in [Unit -> Build \union {None}], slips' \in 0 .. MaxSlips,
           Used' \subseteq Used \union disk \union {None}
    PROVE  ReleaseInv'
<1>0. deploying = p /\ ReleaseTypeOK /\ HostInv /\ CliOK(p) /\ proc[p].todo \in Seq(Unit)
  <2>1. deploying = p /\ ReleaseTypeOK /\ HostInv /\ CliOK(p)
    BY HolderFacts DEF Locked
  <2> QED BY <2>1 DEF ReleaseTypeOK, CliState
<1>1. /\ proc' \in [Cli -> CliState] /\ \A q \in Cli \ {p} : proc'[q] = proc[q]
      /\ proc'[p] = k
  BY <1>0, CliWrites
<1>2. ReleaseTypeOK'
  BY <1>0, <1>1 DEF ReleaseTypeOK
<1>3. HostInv'
  BY <1>0 DEF HostInv, PointersInv, CurrentVerified, KeptInv, LauncherKeepsRelease
<1>4. OntoOK(p)'
  <2>1. {u \in Unit : Restartable(u)}' = {u \in Unit : Restartable(u)}
    BY DEF Restartable
  <2>2. k.op = "heal" => k.todo \in Seq({u \in Unit : Restartable(u)})
    <3> DEFINE S == {u \in Unit : Restartable(u)}
    <3>1. k.op = "heal" => proc[p].todo \in Seq(S)
      BY <1>0 DEF CliOK, OntoOK
    <3> HIDE DEF S
    <3>2. k.op = "heal" => k.todo \in Seq(S)
      BY <3>1, TailType
    <3> QED BY <3>2 DEF S
  <2>3. k.pc = "go" => NamesCurrent(Head(k.todo))'
    BY <1>1 DEF NamesCurrent
  <2> QED BY <1>1, <2>1, <2>2, <2>3 DEF OntoOK
<1>5. k.op # "rebuild"
  BY <1>0 DEF CliOK, RebuildOK, Rebuilding, Made, Making, Publishing, Published, Restarting
<1>6. CliOK(p)'
  BY <1>0, <1>1, <1>4, <1>5 DEF CliOK, LockOK, RebuildOK, LiveOK, ForwardOK, VerifiedOK, ReferOK,
     PruneOK, Locked, Rebuilding, Restarting, Made, Making, Publishing, Published
<1> QED BY <1>0, <1>1, <1>2, <1>3, <1>6, HolderStep

LEMMA CheckFileKeeps ==
    ASSUME ReleaseInv, NEW p \in Cli, CheckFile(p)
    PROVE  ReleaseInv'
<1>0. /\ proc[p].pc = "onto" /\ proc[p].todo # <<>> /\ proc[p].pc \in Restarting
      /\ UNCHANGED <<deploying, disk, current, previous, receipt, file, running, recent, launch,
                     used, slips, overtaken>>
  BY DEF CheckFile, Restarting, rel
<1>1. /\ proc \in [Cli -> CliState] /\ proc[p] \in CliState /\ proc[p].todo \in Seq(Unit)
      /\ running' \in [Unit -> Build \union {None}] /\ slips' \in 0 .. MaxSlips
      /\ Used' \subseteq Used \union disk \union {None}
  BY <1>0 DEF ReleaseInv, ReleaseTypeOK, CliState, Used
<1>2. CASE NamesCurrent(Head(proc[p].todo))
  <2> DEFINE k == [proc[p] EXCEPT !.pc = "go"]
  <2>1. k \in CliState /\ k.pc = "go" /\ k.op = proc[p].op /\ k.todo = proc[p].todo
    BY <1>1 DEF CliState, Pcs
  <2>2. proc' = [proc EXCEPT ![p] = k]
    BY <1>1, <1>2 DEF CheckFile, GoesOn
  <2> HIDE DEF k
  <2> QED BY <1>0, <1>1, <1>2, <2>1, <2>2, RestartingStep DEF Restarting
<1>3. CASE ~NamesCurrent(Head(proc[p].todo))
  <2> DEFINE t == Tail(proc[p].todo)
             k == [proc[p] EXCEPT !.todo = t]
  <2>0. t \in Seq(Unit)
    BY <1>0, <1>1, TailType
  <2>1. k \in CliState /\ k.pc = "onto" /\ k.op = proc[p].op /\ k.todo = t
    <3> HIDE DEF t
    <3> QED BY <1>0, <1>1, <2>0 DEF CliState
  <2>2. proc' = [proc EXCEPT ![p] = k]
    BY <1>1, <1>3 DEF CheckFile
  <2> HIDE DEF k
  <2> QED BY <1>0, <1>1, <2>1, <2>2, RestartingStep DEF Restarting
<1> QED BY <1>2, <1>3

LEMMA RestartOntoKeeps ==
    ASSUME ReleaseInv, NEW p \in Cli, NEW ok \in BOOLEAN, RestartOnto(p, ok)
    PROVE  ReleaseInv'
<1>0. /\ proc[p].pc = "go" /\ slips' \in 0 .. MaxSlips /\ proc[p].pc \in Restarting
      /\ UNCHANGED <<deploying, disk, current, previous, receipt, file, recent, launch, used,
                     overtaken>>
      /\ RestartService(proc[p].own, Head(proc[p].todo), ok)
  BY MayType DEF RestartOnto, ReleaseInv, Restarting, rel
<1>1. /\ proc \in [Cli -> CliState] /\ proc[p] \in CliState /\ proc[p].todo \in Seq(Unit)
      /\ proc[p].todo # <<>> /\ ReleaseTypeOK
  BY <1>0 DEF ReleaseInv, ReleaseTypeOK, CliState, CliOK, OntoOK
<1> DEFINE u == Head(proc[p].todo)
           t == Tail(proc[p].todo)
           d == proc[p].done \union {u}
           k == [proc[p] EXCEPT !.pc = "onto", !.todo = t, !.done = d]
<1>2. u \in Unit /\ t \in Seq(Unit) /\ d \in SUBSET Unit
  BY <1>1 DEF CliState
<1>3. /\ running' \in [Unit -> Build \union {None}]
      /\ \A v \in Unit : running'[v] \in {running[v], None, Started(u)}
      /\ Started(u) \in disk \union {None}
  BY <1>0, <1>1, <1>2, RestartServiceWrites, StartedFacts
<1>4. proc' = [proc EXCEPT ![p] = k]
  BY <1>1 DEF RestartOnto
<1>5. Used' \subseteq Used \union disk \union {None}
  BY <1>0, <1>3 DEF Used
<1> HIDE DEF u, d
<1>6. k \in CliState /\ k.pc = "onto" /\ k.op = proc[p].op /\ k.todo = Tail(proc[p].todo)
  BY <1>1, <1>2 DEF CliState, Pcs
<1> HIDE DEF k
<1> QED BY <1>0, <1>1, <1>3, <1>4, <1>5, <1>6, RestartingStep DEF Restarting

LEMMA LogRestartsKeeps ==
    ASSUME ReleaseInv, NEW p \in Cli, LogRestarts(p)
    PROVE  ReleaseInv'
<1>1. deploying = p /\ ReleaseTypeOK /\ HostInv /\ Leaves(p) /\ proc[p].done \in SUBSET Unit
  <2>1. deploying = p /\ ReleaseTypeOK /\ HostInv /\ Leaves(p)
    BY HolderFacts DEF LogRestarts, Locked, Restarting
  <2> QED BY <2>1 DEF ReleaseTypeOK, CliState
<1>2. UNCHANGED <<rel, file, running, launch, used, slips, overtaken>> /\ recent' \in SUBSET Unit
  BY <1>1 DEF LogRestarts, ReleaseTypeOK
<1>3. ReleaseTypeOK'
  BY <1>1, <1>2, LeavesWrites DEF ReleaseTypeOK, rel
<1>4. HostInv'
  BY <1>1, <1>2 DEF HostInv, PointersInv, CurrentVerified, KeptInv, Used, LauncherKeepsRelease, rel
<1> QED BY <1>1, <1>3, <1>4, HolderLeaves

-----------------------------------------------------------------------------
(* The invariant.                                                          *)

LEMMA InitialHost ==
    ASSUME ReleaseInit
    PROVE  ReleaseInv
<1>0. /\ deploying = None /\ recent = {} /\ slips = 0 /\ overtaken = FALSE
      /\ proc = [p \in Cli |-> Idle] /\ launch = [l \in Launch |-> NoLaunch]
  BY DEF ReleaseInit
<1>1. NoLaunch \in Launcher /\ NoLaunch.at = "idle"
  BY DEF NoLaunch, Launcher
<1>2. NoReceipt \in Receipt
  BY DEF NoReceipt, Receipt
<1>3. /\ disk \in SUBSET Build /\ used \in 0 .. MaxBuilds
      /\ current \in Build \union {None} /\ previous \in Build \union {None}
      /\ receipt \in [Build -> Receipt] /\ file \in [Unit -> Build \union {None}]
      /\ running \in [Unit -> Build \union {None}]
      /\ PointersInv /\ CurrentVerified /\ Used \subseteq disk \union {None}
  <2>1. CASE FreshHost
    BY <1>2, <2>1, ReleaseAssumption DEF FreshHost, PointersInv, CurrentVerified, Used, Unit
  <2>2. CASE Settled
    <3> DEFINE r1(c) == [NoReceipt EXCEPT !.state = "succeeded", !.commit = c,
                                          !.scope = "manual", !.verified = TRUE]
               r2(c) == [NoReceipt EXCEPT !.state = "succeeded", !.commit = c, !.scope = "full",
                                          !.migrated = TRUE, !.verified = TRUE, !.prev = 1]
    <3>1. PICK c \in Commit : receipt = [b \in Build |-> CASE b = 1 -> r1(c)
                                                          [] b = 2 -> r2(c)
                                                          [] OTHER -> NoReceipt]
      BY <2>2 DEF Settled
    <3>2. /\ disk = {1, 2} /\ used = 2 /\ current = 2 /\ previous = 1 /\ running = file
          /\ file = [u \in Unit |-> IF u = "manual" THEN 1 ELSE 2]
          /\ 1 \in Build /\ 2 \in Build /\ 2 \in 0 .. MaxBuilds
      BY <2>2, ReleaseAssumption DEF Settled, Build
    <3>3. r1(c) \in Receipt
      BY DEF NoReceipt, Receipt, Scope
    <3>4. r2(c) \in Receipt /\ r2(c).verified
      BY <3>2 DEF NoReceipt, Receipt, Scope
    <3> HIDE DEF r1, r2
    <3>5. receipt \in [Build -> Receipt] /\ receipt[2].verified
      BY <1>2, <3>1, <3>2, <3>3, <3>4
    <3> QED BY <3>2, <3>5 DEF PointersInv, CurrentVerified, Used
  <2> QED BY <2>1, <2>2 DEF ReleaseInit
<1>4. ReleaseTypeOK
  <2>1. slips \in 0 .. MaxSlips
    BY <1>0, ReleaseAssumption
  <2>2. proc \in [Cli -> CliState] /\ launch \in [Launch -> Launcher]
    BY <1>0, <1>1, IdleFacts
  <2> QED BY <1>0, <1>3, <2>1, <2>2 DEF ReleaseTypeOK
<1>5. HostInv
  BY <1>0, <1>1, <1>3 DEF HostInv, KeptInv, LauncherKeepsRelease
<1>6. ASSUME NEW p \in Cli
      PROVE  CliOK(p)
  BY <1>0, IdleFacts, NoneFacts
     DEF CliOK, LockOK, RebuildOK, LiveOK, ForwardOK, VerifiedOK, OntoOK, ReferOK,
         PruneOK, Locked, Rebuilding, Restarting, Made, Making, Publishing, Published
<1> QED BY <1>4, <1>5, <1>6 DEF ReleaseInv

LEMMA RebuildStepKeeps ==
    ASSUME ReleaseInv, NEW p \in Cli, RebuildStep(p)
    PROVE  ReleaseInv'
BY PrepareKeeps, RefuseKeeps, WriteReceiptKeeps, BuildStepsKeeps, MigrateKeeps, SyncUnitsKeeps,
   LateStepsKeeps, RestartOneKeeps, VerifyKeeps, RestoreKeeps, ReferKeeps, RemoveReleaseKeeps,
   PointPreviousKeeps, PointCurrentKeeps, RecordSuccessKeeps, ProbeKeeps, EndRebuildKeeps
   DEF RebuildStep

LEMMA OtherStepsKeep ==
    ASSUME ReleaseInv, NEW p \in Cli, OntoStep(p) \/ StartStep(p)
    PROVE  ReleaseInv'
BY LockInPlaceKeeps, CheckFileKeeps, LogRestartsKeeps, RestartOntoKeeps, StartRenderKeeps,
   StartServicesKeeps DEF OntoStep, StartStep

(* No step, and no stuttering, breaks the invariant.                       *)
LEMMA NextKeeps ==
    ASSUME ReleaseInv, [ReleaseNext]_releaseVars
    PROVE  ReleaseInv'
<1>1. ASSUME NEW p \in Cli,
             \/ \E own \in Inside :
                   \/ \E s \in Scopes, c \in Commit, back \in BOOLEAN : Rebuild(p, own, s, c, back)
                   \/ \E s \in Scopes : InPlace(p, own, s)
                   \/ \E page \in BOOLEAN : Heal(p, own, page)
             \/ RebuildStep(p)
             \/ OntoStep(p)
             \/ StartRead(p) \/ StartStep(p) \/ StopServices(p)
             \/ Die(p) \/ Raise(p)
      PROVE  ReleaseInv'
  BY <1>1, RebuildKeeps, RebuildStepKeeps, InPlaceKeeps, HealKeeps, OtherStepsKeep,
     StartReadKeeps, StopServicesKeeps, DieKeeps, RaiseKeeps
<1>2. CASE \E u \in Unit : Respawn(u) \/ CooldownOver(u)
  BY <1>2, RespawnKeeps, CooldownOverKeeps
<1>3. CASE \E l \in Launch : Resolve(l) \/ Exec(l) \/ Exit(l)
  BY <1>3, LauncherKeeps
<1>4. CASE UNCHANGED releaseVars
  <2>1. UNCHANGED <<deploying, rel, file, running, proc, recent, launch, used, slips, overtaken>>
    BY <1>4 DEF releaseVars
  <2>2. ReleaseTypeOK'
    BY <2>1 DEF ReleaseInv, ReleaseTypeOK, rel
  <2>3. (\A q \in Cli : Outside(q)) /\ Gentle /\ LaunchStep
    BY <2>1 DEF Outside, Gentle, LaunchStep
  <2> QED BY <2>1, <2>2, <2>3, OutsideStep
<1> QED BY <1>1, <1>2, <1>3, <1>4 DEF ReleaseNext

(* The invariant of deployment: the lock, what the rebuild that holds it   *)
(* has established so far, and what pruning still finds in use.            *)
THEOREM ReleaseKept == ReleaseSpec => []ReleaseInv
<1>1. ReleaseInit => ReleaseInv
  BY InitialHost
<1>2. ReleaseInv /\ [ReleaseNext]_releaseVars => ReleaseInv'
  BY NextKeeps
<1> QED BY <1>1, <1>2, PTL DEF ReleaseSpec

(* Type correctness of the deployment model.                               *)
THEOREM ReleaseTypes == ReleaseSpec => []ReleaseTypeOK
<1>1. ReleaseInv => ReleaseTypeOK
  BY DEF ReleaseInv
<1> QED BY <1>1, ReleaseKept, PTL

(* prune_old_releases never removes a release that a pointer, a unit file  *)
(* or a unit's process uses, nor one a launcher locked while it was        *)
(* pointed to, whatever rebuilds, restarts, heals, kills and launches came *)
(* between reading the references and removing.                            *)
THEOREM PruningKeepsReleasesHolds == ReleaseSpec => []PruningKeepsReleases
<1>1. ReleaseInv => PruningKeepsReleases
  BY DEF ReleaseInv, HostInv, PointersInv, KeptInv, Used, PruningKeepsReleases, ReleasesKept
<1> QED BY <1>1, ReleaseKept, PTL

(* The live release was found healthy after its units were restarted.      *)
THEOREM CurrentVerifiedHolds == ReleaseSpec => []CurrentVerified
<1>1. ReleaseInv => CurrentVerified
  BY DEF ReleaseInv, HostInv
<1> QED BY <1>1, ReleaseKept, PTL

-----------------------------------------------------------------------------
(* Which step moves the live release, and which restarts onto it.          *)

LEMMA CurrentMoves ==
    ASSUME [ReleaseNext]_releaseVars, current' # current
    PROVE  \E p \in Cli : PointCurrent(p)
<1> SUFFICES ASSUME \A p \in Cli : ~PointCurrent(p)
             PROVE  current' = current
  OBVIOUS
<1>1. ASSUME NEW p \in Cli, RebuildStep(p)
      PROVE  current' = current
  BY <1>1 DEF RebuildStep, Prepare, Refuse, WriteReceipt, BuildSteps, Migrate, SyncUnits, LateSteps,
     RestartOne, Verify, Restore, Refer, RemoveRelease, PointPrevious, RecordSuccess, Probe,
     EndRebuild, rel
<1>2. ASSUME NEW p \in Cli, OntoStep(p) \/ StartStep(p)
      PROVE  current' = current
  BY <1>2 DEF OntoStep, StartStep, LockInPlace, CheckFile, LogRestarts, RestartOnto, StartRender,
     StartServices, rel
<1>3. ASSUME NEW p \in Cli,
             \/ \E own \in Inside :
                   \/ \E s \in Scopes, c \in Commit, back \in BOOLEAN : Rebuild(p, own, s, c, back)
                   \/ \E s \in Scopes : InPlace(p, own, s)
                   \/ \E page \in BOOLEAN : Heal(p, own, page)
             \/ StartRead(p) \/ StopServices(p) \/ Die(p) \/ Raise(p)
      PROVE  current' = current
  BY <1>3 DEF Rebuild, InPlace, Heal, StartRead, StopServices, Die, Raise, rel
<1>4. CASE \/ \E u \in Unit : Respawn(u) \/ CooldownOver(u)
           \/ \E l \in Launch : Resolve(l) \/ Exec(l) \/ Exit(l)
  BY <1>4 DEF Respawn, CooldownOver, Resolve, Exec, Exit, rel
<1>5. CASE UNCHANGED releaseVars
  BY <1>5 DEF releaseVars, rel
<1> QED BY <1>1, <1>2, <1>3, <1>4, <1>5 DEF ReleaseNext

LEMMA OntoMoves ==
    ASSUME ReleaseInv, [ReleaseNext]_releaseVars, NEW p \in Cli,
           proc[p].pc = "go", proc'[p].pc = "onto"
    PROVE  \E ok \in BOOLEAN : RestartOnto(p, ok)
<1>0. proc \in [Cli -> CliState] /\ Idle.pc = "idle" /\ proc[p].op # "rebuild"
  <2>1. CliOK(p)
    BY DEF ReleaseInv
  <2> QED BY <2>1, IdleFacts DEF ReleaseInv, ReleaseTypeOK, CliOK, RebuildOK, Rebuilding, Made, Making,
     Publishing, Published
<1> SUFFICES ASSUME \A ok \in BOOLEAN : ~RestartOnto(p, ok)
             PROVE  FALSE
  OBVIOUS
<1>1. ASSUME NEW q \in Cli, RebuildStep(q)
      PROVE  FALSE
  <2>1. CASE q = p
    BY <1>0, <1>1, <2>1 DEF RebuildStep, Prepare, Refuse, WriteReceipt, BuildSteps, Migrate,
       SyncUnits, LateSteps, RestartOne, Verify, Restore, Refer, RemoveRelease, PointPrevious,
       PointCurrent, RecordSuccess, Probe, EndRebuild
  <2>2. CASE q # p
    <3>1. proc'[p] = proc[p]
      BY <1>0, <1>1, <2>2 DEF RebuildStep, Prepare, Refuse, WriteReceipt, BuildSteps, Migrate,
         SyncUnits, LateSteps, RestartOne, Verify, Restore, Refer, RemoveRelease, PointPrevious,
         PointCurrent, RecordSuccess, Probe, EndRebuild, Fail, FailWith, Leaves, GoesOn
    <3> QED BY <3>1
  <2> QED BY <2>1, <2>2
<1>2. ASSUME NEW q \in Cli, OntoStep(q) \/ StartStep(q)
      PROVE  FALSE
  <2>1. CASE q = p
    BY <1>0, <1>2, <2>1 DEF OntoStep, StartStep, LockInPlace, CheckFile, LogRestarts, StartRender,
       StartServices
  <2>2. CASE q # p
    <3>1. proc'[p] = proc[p]
      BY <1>0, <1>2, <2>2 DEF OntoStep, StartStep, LockInPlace, CheckFile, LogRestarts, RestartOnto,
         StartRender, StartServices, Leaves, GoesOn
    <3> QED BY <3>1
  <2> QED BY <2>1, <2>2
<1>3. ASSUME NEW q \in Cli,
             \/ \E own \in Inside :
                   \/ \E s \in Scopes, c \in Commit, back \in BOOLEAN : Rebuild(q, own, s, c, back)
                   \/ \E s \in Scopes : InPlace(q, own, s)
                   \/ \E page \in BOOLEAN : Heal(q, own, page)
             \/ StartRead(q) \/ StopServices(q) \/ Die(q) \/ Raise(q)
      PROVE  FALSE
  <2>1. CASE q = p
    <3>1. Leaves(p) \/ UNCHANGED proc
      BY <1>0, <1>3, <2>1 DEF Rebuild, InPlace, Heal, StartRead, StopServices, Die, Raise
    <3> QED BY <1>0, <3>1 DEF Leaves
  <2>2. CASE q # p
    <3>1. proc'[p] = proc[p]
      BY <1>0, <1>3, <2>2 DEF Rebuild, InPlace, Heal, StartRead, StopServices, Die, Raise, Fail,
         FailWith, Leaves
    <3> QED BY <3>1
  <2> QED BY <2>1, <2>2
<1>4. CASE \/ \E u \in Unit : Respawn(u) \/ CooldownOver(u)
           \/ \E l \in Launch : Resolve(l) \/ Exec(l) \/ Exit(l)
  BY <1>4 DEF Respawn, CooldownOver, Resolve, Exec, Exit
<1>5. CASE UNCHANGED releaseVars
  BY <1>5 DEF releaseVars
<1> QED BY <1>1, <1>2, <1>3, <1>4, <1>5 DEF ReleaseNext

(* A restart onto the live release moves its unit there or nowhere.        *)
LEMMA OntoFacts ==
    ASSUME ReleaseInv, NEW p \in Cli, NEW ok \in BOOLEAN, RestartOnto(p, ok), ~overtaken,
           running' # running
    PROVE  /\ Head(proc[p].todo) \in Unit
           /\ running'[Head(proc[p].todo)] \in {current, None}
           /\ UNCHANGED receipt
<1> DEFINE u == Head(proc[p].todo)
<1>1. /\ proc[p].pc = "go" /\ CliOK(p) /\ ReleaseTypeOK /\ RestartService(proc[p].own, u, ok) /\ UNCHANGED receipt
  BY DEF RestartOnto, ReleaseInv, rel
<1>2. proc[p].todo \in Seq(Unit) /\ proc[p].todo # <<>> /\ NamesCurrent(u)
  BY <1>1 DEF CliOK, OntoOK, ReleaseTypeOK, CliState
<1>3. u \in Unit
  BY <1>2
<1>4. running'[u] # running[u] /\ running'[u] \in {running[u], None, Started(u)}
  BY <1>1, <1>3, RestartServiceWrites
<1>5. Started(u) \in {current, None}
  BY <1>1, <1>2, <1>3, StartedFacts DEF NamesCurrent
<1> QED BY <1>1, <1>3, <1>4, <1>5

(* require_forward_deploy's answer is still right when the pointer moves.  *)
THEOREM ForwardOnlyHolds == ReleaseSpec => ForwardOnly
<1>1. ReleaseInv /\ [ReleaseNext]_releaseVars =>
        [current' # current /\ current # None =>
          \/ receipt[current'].commit = receipt[current].commit
          \/ <<receipt[current'].commit, receipt[current].commit>> \in Ancestry
          \/ \E p \in Cli : proc[p].build = current' /\ proc[p].back]_releaseVars
  <2> SUFFICES ASSUME ReleaseInv, [ReleaseNext]_releaseVars, current' # current, current # None
               PROVE  \/ receipt[current'].commit = receipt[current].commit
                      \/ <<receipt[current'].commit, receipt[current].commit>> \in Ancestry
                      \/ \E p \in Cli : proc[p].build = current' /\ proc[p].back
    OBVIOUS
  <2>1. PICK p \in Cli : PointCurrent(p)
    BY CurrentMoves
  <2>2. proc[p].pc = "current" /\ current' = proc[p].build /\ CliOK(p)
    BY <2>1 DEF PointCurrent, ReleaseInv
  <2>3. /\ receipt[current'].commit = proc[p].commit
        /\ proc[p].back \/ Forward(proc[p].commit)
    BY <2>2 DEF CliOK, ForwardOK, Made, Publishing
  <2> QED BY <2>2, <2>3 DEF Forward
<1> QED BY <1>1, ReleaseKept, PTL DEF ReleaseSpec, ForwardOnly

(* restart_onto_current leaves a unit on the live release or stopped.      *)
THEOREM OntoCurrentOnlyHolds == ReleaseSpec => OntoCurrentOnly
<1>1. ReleaseInv /\ [ReleaseNext]_releaseVars =>
        [\A p \in Cli :
          ~overtaken /\ proc[p].pc = "go" /\ proc'[p].pc = "onto" /\ running' # running =>
              running'[Head(proc[p].todo)] \in {current, None}]_releaseVars
  BY OntoMoves, OntoFacts
<1> QED BY <1>1, ReleaseKept, PTL DEF ReleaseSpec, OntoCurrentOnly

(* heal_project moves the backend only onto a release whose rebuild ran    *)
(* its migrations.                                                         *)
THEOREM HealOntoMigratedOnlyHolds == ReleaseSpec => HealOntoMigratedOnly
<1>1. ReleaseInv /\ [ReleaseNext]_releaseVars =>
        [\A p \in Cli : ~overtaken /\ proc[p].op = "heal" => ~OntoUnmigrated(p)]_releaseVars
  <2> SUFFICES ASSUME ReleaseInv, [ReleaseNext]_releaseVars, NEW p \in Cli, ~overtaken,
                      proc[p].op = "heal", OntoUnmigrated(p)
               PROVE  FALSE
    OBVIOUS
  <2>1. PICK ok \in BOOLEAN : RestartOnto(p, ok)
    BY OntoMoves DEF OntoUnmigrated
  <2>2. /\ proc[p].pc = "go" /\ running' # running /\ Head(proc[p].todo) = "backend"
        /\ running'["backend"] # None /\ ~receipt[running'["backend"]].migrated
    BY DEF OntoUnmigrated
  <2>3. running'["backend"] = current
    BY <2>1, <2>2, OntoFacts
  <2>4. CliOK(p)
    BY DEF ReleaseInv
  <2>5. proc[p].todo \in Seq({u \in Unit : Restartable(u)}) /\ proc[p].todo # <<>>
    BY <2>2, <2>4 DEF CliOK, OntoOK
  <2>6. Restartable("backend")
    <3>1. Head(proc[p].todo) \in {u \in Unit : Restartable(u)}
      BY <2>5
    <3> QED BY <2>2, <3>1
  <2> QED BY <2>2, <2>3, <2>6 DEF Restartable
<1> QED BY <1>1, ReleaseKept, PTL DEF ReleaseSpec, HealOntoMigratedOnly

=============================================================================
