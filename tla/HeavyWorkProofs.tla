-------------------------- MODULE HeavyWorkProofs --------------------------
(***************************************************************************)
(* Safety of the transient-work lanes for any number of processes and any  *)
(* nesting depth.  The inductive invariant says which locks a process      *)
(* holds at each point of heavy_work(); exclusivity of a lane then follows *)
(* from three facts: an exclusive activity lock excludes shared ones, only *)
(* the admission holder writes the generation, and a descendant counts as  *)
(* admitted only once it has read its own generation under a shared lock.  *)
(***************************************************************************)
EXTENDS HeavyWork, TLAPS

InContext == Alive \ {"out", "done"}
Running == {"holder", "active"}

(* A process inside heavy_work() has the context's descriptors open. *)
DescriptorsOpen == \A p \in Proc : pc[p] \in InContext => p \in fds[p]

(* An exclusive flock excludes every shared one. *)
KernelExclusion == \A l \in Lanes : exclusive[l] # NoProc => sharers[l] = {}

(* The locks a granted or running owner holds, step by step. *)
OwnerLocks ==
    \A p \in Proc :
        /\ pc[p] \in Granted \cup {"slot0"} => admission[lane[p]] = p
        /\ pc[p] = "slot1" => admission["heavy2"] = p
        /\ pc[p] \in {"truncate", "write", "convert"} => exclusive[lane[p]] = p
        /\ pc[p] \in {"convert", "share"} => file[lane[p]] = gen[p] /\ depth[p] = 0
        /\ pc[p] \in Running /\ depth[p] = 0 => admission[lane[p]] = p

(* A descendant carries a lease, and works under its own depth lock. *)
DescendantLocks ==
    \A p \in Proc :
        /\ token[p] # NoToken => token[p].depth < MaxDepth
        /\ pc[p] \in {"verified", "shared"} => token[p] # NoToken
        /\ pc[p] = "shared" => p \in sharers[lane[p]]
        /\ pc[p] = "branch" => depth[p] # 0
        /\ pc[p] = "holder" => depth[p] = 0
        /\ pc[p] = "active" /\ depth[p] # 0 => branch[lane[p]][depth[p]] = p

(* Admission is reached only through one of the two entries. *)
AdmittedStages ==
    \A p \in admitted : pc[p] \in Running \cup {"branch", "done", "dead"}

(* The lane a process waits for or was granted is of the class it asked for. *)
RequestedClass ==
    \A p \in Proc :
        /\ pc[p] \in Waiting \cup {"register"} => lane[p] = want[p]
        /\ pc[p] \in Granted \cup Running /\ want[p] = "heavy" => LaneClass(lane[p]) = "heavy"

IInv ==
    /\ TypeOK /\ DescriptorsOpen /\ KernelExclusion /\ OwnerLocks
    /\ DescendantLocks /\ AdmittedStages /\ RequestedClass /\ GenerationStable

(* What closing descriptors leaves alone for a context that stays open. *)
SameContext(q) == lane'[q] = lane[q] /\ gen'[q] = gen[q] /\ depth'[q] = depth[q]
SameLocks(q) ==
    \A l \in Lanes :
        /\ admission[l] = q => admission'[l] = q
        /\ exclusive[l] = q => exclusive'[l] = q
        /\ q \in sharers[l] => q \in sharers'[l]
        /\ \A d \in 1..MaxDepth : branch[l][d] = q => branch'[l][d] = q
-----------------------------------------------------------------------------
(* os.close or exit keeps every lock of a context that stays open, and     *)
(* never adds one.                                                         *)
LEMMA CloseFacts ==
    ASSUME IInv, NEW f \in [Proc -> SUBSET Proc], CloseTo(f)
    PROVE  /\ fds' = f /\ want' = want /\ admitted' \subseteq admitted
           /\ lane' \in [Proc -> Lanes] /\ gen' \in [Proc -> Proc \cup {Empty}]
           /\ depth' \in [Proc -> 0..MaxDepth]
           /\ admission' \in [Lanes -> Proc \cup {NoProc}]
           /\ exclusive' \in [Lanes -> Proc \cup {NoProc, Probe}]
           /\ sharers' \in [Lanes -> SUBSET Proc]
           /\ branch' \in [Lanes -> [1..MaxDepth -> Proc \cup {NoProc}]]
           /\ \A l \in Lanes : exclusive'[l] \in {exclusive[l], NoProc} /\ sharers'[l] \subseteq sharers[l]
           /\ \A q \in Proc : q \in f[q] \/ q \in admitted' => SameContext(q) /\ SameLocks(q)
<1> DEFINE open == OpenContexts(f)
<1>1. open \subseteq Proc /\ \A q \in Proc : q \in f[q] => q \in open
  BY DEF OpenContexts
<1>2. /\ fds' = f
      /\ admission' = [l \in Lanes |-> KeepIfOpen(admission[l], open)]
      /\ exclusive' = [l \in Lanes |-> KeepIfOpen(exclusive[l], open)]
      /\ sharers' = [l \in Lanes |-> sharers[l] \cap open]
      /\ branch' = [l \in Lanes |-> [d \in 1..MaxDepth |-> KeepIfOpen(branch[l][d], open)]]
      /\ lane' = Kept(lane, "heavy", open) /\ gen' = Kept(gen, Empty, open)
      /\ depth' = Kept(depth, 0, open) /\ want' = want
      /\ admitted' = admitted \cap open
  BY DEF CloseTo
<1> HIDE DEF open
<1>3. lane' \in [Proc -> Lanes] /\ gen' \in [Proc -> Proc \cup {Empty}]
  BY <1>2 DEF IInv, TypeOK, Kept, Lanes, Empty
<1>4. depth' \in [Proc -> 0..MaxDepth]
  BY <1>2, BoundsAssumption DEF IInv, TypeOK, Kept
<1>5. /\ admission' \in [Lanes -> Proc \cup {NoProc}]
      /\ exclusive' \in [Lanes -> Proc \cup {NoProc, Probe}]
      /\ sharers' \in [Lanes -> SUBSET Proc]
  BY <1>2 DEF IInv, TypeOK, KeepIfOpen
<1>6. branch' \in [Lanes -> [1..MaxDepth -> Proc \cup {NoProc}]]
  <2>1. branch \in [Lanes -> [1..MaxDepth -> Proc \cup {NoProc}]]
    BY DEF IInv, TypeOK
  <2>2. \A l \in Lanes : \A d \in 1..MaxDepth : KeepIfOpen(branch[l][d], open) \in Proc \cup {NoProc}
    BY <2>1, ProcAssumption DEF KeepIfOpen, NoProc, Probe
  <2> QED BY <1>2, <2>2
<1>7. \A l \in Lanes : exclusive'[l] \in {exclusive[l], NoProc} /\ sharers'[l] \subseteq sharers[l]
  BY <1>2 DEF KeepIfOpen
<1>8. ASSUME NEW q \in Proc, q \in open PROVE SameContext(q) /\ SameLocks(q)
  BY <1>2, <1>8 DEF KeepIfOpen, Kept, SameContext, SameLocks
<1> QED BY <1>1, <1>2, <1>3, <1>4, <1>5, <1>6, <1>7, <1>8

(* A process that closes its context, or all its descriptors, and moves on *)
(* to "done" or "dead" disturbs nobody else's locks.                       *)
LEMMA CloseInv ==
    ASSUME IInv, TypeOK', NEW p \in Proc, NEW f \in [Proc -> SUBSET Proc], CloseTo(f),
           pc'[p] \in {"done", "dead"}, file' = file,
           \A q \in Proc : q # p => pc'[q] = pc[q] /\ f[q] = fds[q],
           \A q \in Proc : token'[q] = token[q] \/ (q = p /\ token'[q] = NoToken)
    PROVE  IInv'
<1>1. /\ fds' = f /\ want' = want /\ admitted' \subseteq admitted
      /\ \A l \in Lanes : exclusive'[l] \in {exclusive[l], NoProc} /\ sharers'[l] \subseteq sharers[l]
      /\ \A q \in Proc : q \in f[q] \/ q \in admitted' => SameContext(q) /\ SameLocks(q)
  BY CloseFacts
<1>2. \A q \in Proc : pc'[q] \in InContext => q # p /\ pc'[q] = pc[q] /\ q \in f[q]
  BY DEF IInv, DescriptorsOpen, InContext, Alive, Waiting, Granted
<1>3. \A q \in Proc : pc'[q] \in InContext => pc'[q] = pc[q] /\ SameContext(q) /\ SameLocks(q)
  BY <1>1, <1>2
<1>4. Waiting \cup Granted \cup Running \cup {"register", "verified", "shared", "branch"} \subseteq InContext
  BY DEF InContext, Alive, Running, Waiting, Granted
<1>5. DescriptorsOpen'
  BY <1>1, <1>2 DEF DescriptorsOpen
<1>6. KernelExclusion'
  BY <1>1 DEF IInv, KernelExclusion
<1>7. OwnerLocks'
  <2>1. SUFFICES ASSUME NEW q \in Proc, pc'[q] \in InContext
                 PROVE /\ pc'[q] \in Granted \cup {"slot0"} => admission'[lane'[q]] = q
                       /\ pc'[q] = "slot1" => admission'["heavy2"] = q
                       /\ pc'[q] \in {"truncate", "write", "convert"} => exclusive'[lane'[q]] = q
                       /\ pc'[q] \in {"convert", "share"} => file'[lane'[q]] = gen'[q] /\ depth'[q] = 0
                       /\ pc'[q] \in Running /\ depth'[q] = 0 => admission'[lane'[q]] = q
    BY <1>4 DEF OwnerLocks, Waiting, Granted
  <2>2. pc'[q] = pc[q] /\ SameContext(q) /\ SameLocks(q) /\ lane[q] \in Lanes /\ "heavy2" \in Lanes
    BY <1>3, <2>1 DEF IInv, TypeOK, Lanes
  <2> QED BY <2>2 DEF SameContext, SameLocks, IInv, OwnerLocks
<1>8. DescendantLocks'
  <2>1. \A q \in Proc : token'[q] # NoToken => token'[q].depth < MaxDepth
    BY DEF IInv, DescendantLocks
  <2>2. ASSUME NEW q \in Proc, pc'[q] \in InContext
        PROVE /\ pc'[q] \in {"verified", "shared"} => token'[q] # NoToken
              /\ pc'[q] = "shared" => q \in sharers'[lane'[q]]
              /\ pc'[q] = "branch" => depth'[q] # 0
              /\ pc'[q] = "holder" => depth'[q] = 0
              /\ pc'[q] = "active" /\ depth'[q] # 0 => branch'[lane'[q]][depth'[q]] = q
    <3>1. pc'[q] = pc[q] /\ q # p /\ token'[q] = token[q] /\ SameContext(q) /\ SameLocks(q)
      BY <1>2, <1>3, <2>2
    <3>2. lane[q] \in Lanes /\ depth[q] \in 0..MaxDepth /\ (depth[q] # 0 => depth[q] \in 1..MaxDepth)
      BY BoundsAssumption DEF IInv, TypeOK
    <3> QED BY <3>1, <3>2 DEF SameContext, SameLocks, IInv, DescendantLocks
  <2> QED BY <2>1, <2>2, <1>4 DEF DescendantLocks, Running
<1>9. AdmittedStages'
  BY <1>1 DEF IInv, TypeOK, AdmittedStages
<1>10. RequestedClass'
  BY <1>1, <1>3, <1>4 DEF IInv, RequestedClass, SameContext
<1>11. GenerationStable'
  <2>1. SUFFICES ASSUME NEW q \in admitted' PROVE file'[lane'[q]] = gen'[q] /\ q \in sharers'[lane'[q]]
    BY DEF GenerationStable
  <2>2. q \in Proc /\ q \in admitted /\ SameContext(q) /\ SameLocks(q) /\ lane[q] \in Lanes
    BY <1>1 DEF IInv, TypeOK
  <2> QED BY <2>2 DEF IInv, GenerationStable, SameContext, SameLocks
<1> QED BY <1>5, <1>6, <1>7, <1>8, <1>9, <1>10, <1>11 DEF IInv

(* Opening the lock files of a lane takes no lock. *)
LEMMA EnterInv == ASSUME IInv, NEW p \in Proc, NEW class \in Requests, Enter(p, class) PROVE IInv'
<1>1. TypeOK'
  BY BoundsAssumption, RequestsAssumption DEF IInv, TypeOK, DescendantLocks, NoToken, Empty,
     Lanes, Classes, Alive, Waiting, Granted, Enter, At, tree, locks
<1>2. KernelExclusion'
  BY ProcAssumption, RequestsAssumption DEF IInv, KernelExclusion, TypeOK, OwnerLocks, Lanes,
     Alive, Waiting, Granted, Enter, At, tree, locks
<1>3. OwnerLocks'
  <2>1. ASSUME NEW r \in Proc PROVE pc'[r] \in Granted \cup {"slot0"} => admission'[lane'[r]] = r
    BY ProcAssumption, RequestsAssumption DEF IInv, OwnerLocks, TypeOK, KernelExclusion,
       DescendantLocks, AdmittedStages, Running, Lanes, Alive, Waiting, Granted, Enter, At,
       tree, locks
  <2>2. ASSUME NEW r \in Proc PROVE pc'[r] = "slot1" => admission'["heavy2"] = r
    BY ProcAssumption, RequestsAssumption DEF IInv, OwnerLocks, TypeOK, KernelExclusion,
       DescendantLocks, AdmittedStages, Running, Lanes, Alive, Waiting, Granted, Enter, At,
       tree, locks
  <2>3. ASSUME NEW r \in Proc PROVE pc'[r] \in {"truncate", "write", "convert"} => exclusive'[lane'[r]] = r
    BY ProcAssumption, RequestsAssumption DEF IInv, OwnerLocks, TypeOK, KernelExclusion,
       DescendantLocks, AdmittedStages, Running, Lanes, Alive, Waiting, Granted, Enter, At,
       tree, locks
  <2>4. ASSUME NEW r \in Proc PROVE pc'[r] \in {"convert", "share"} => file'[lane'[r]] = gen'[r] /\ depth'[r] = 0
    BY ProcAssumption, RequestsAssumption DEF IInv, OwnerLocks, TypeOK, KernelExclusion,
       DescendantLocks, AdmittedStages, Running, Lanes, Alive, Waiting, Granted, Enter, At,
       tree, locks
  <2>5. ASSUME NEW r \in Proc PROVE pc'[r] \in Running /\ depth'[r] = 0 => admission'[lane'[r]] = r
    BY ProcAssumption, RequestsAssumption DEF IInv, OwnerLocks, TypeOK, KernelExclusion,
       DescendantLocks, AdmittedStages, Running, Lanes, Alive, Waiting, Granted, Enter, At,
       tree, locks
  <2> QED BY <2>1, <2>2, <2>3, <2>4, <2>5 DEF OwnerLocks
<1>4. DescendantLocks'
  BY ProcAssumption, RequestsAssumption DEF IInv, DescendantLocks, TypeOK, OwnerLocks, NoToken,
     Alive, Waiting, Granted, Enter, At, tree, locks
<1>5. DescriptorsOpen' /\ AdmittedStages' /\ RequestedClass'
  <2>1. DescriptorsOpen'
    BY ProcAssumption, RequestsAssumption DEF IInv, TypeOK, DescriptorsOpen, InContext, Alive,
       Waiting, Granted, Enter, At, tree, locks
  <2>2. AdmittedStages'
    BY ProcAssumption, RequestsAssumption DEF IInv, TypeOK, AdmittedStages, Running, Alive,
       Waiting, Granted, Enter, At, tree, locks
  <2>3. RequestedClass'
    BY ProcAssumption, RequestsAssumption DEF IInv, TypeOK, RequestedClass, Running, LaneClass,
       Lanes, Classes, Alive, Waiting, Granted, Enter, At, tree, locks
  <2> QED BY <2>1, <2>2, <2>3
<1>6. GenerationStable'
  BY ProcAssumption, RequestsAssumption DEF IInv, GenerationStable, TypeOK, AdmittedStages,
     KernelExclusion, OwnerLocks, Running, Lanes, Alive, Waiting, Granted, Enter, At, tree,
     locks
<1> QED BY <1>1, <1>2, <1>3, <1>4, <1>5, <1>6 DEF IInv

(* A child gets some of its parent's descriptors and a lease, no new lock. *)
LEMMA SpawnInv == ASSUME IInv, NEW p \in Proc, NEW q \in Proc, Spawn(p, q) PROVE IInv'
<1>1. TypeOK'
  <2>1. pc' \in [Proc -> Alive \cup {"unborn", "dead"}]
    BY DEF IInv, TypeOK, Alive, Waiting, Granted, Spawn, locks
  <2>2. parent' \in [Proc -> Proc \cup {NoProc}]
    BY DEF IInv, TypeOK, Spawn, locks
  <2>3. token' \in [Proc -> [ctx : Proc \cup {NoProc}, gen : Proc \cup {Empty},
                          lane : Lanes, depth : 0..MaxDepth]]
    BY BoundsAssumption DEF IInv, TypeOK, Empty, NoToken, Lanes, Spawn, locks
  <2>4. fds' \in [Proc -> SUBSET Proc]
    BY DEF IInv, TypeOK, Spawn, locks
  <2> QED BY <2>1, <2>2, <2>3, <2>4 DEF IInv, TypeOK, Spawn, locks
<1>2. KernelExclusion'
  BY ProcAssumption DEF IInv, KernelExclusion, TypeOK, OwnerLocks, Lanes, Alive, Waiting,
     Granted, Spawn, locks
<1>3. OwnerLocks'
  BY ProcAssumption DEF IInv, OwnerLocks, TypeOK, KernelExclusion, DescendantLocks,
     AdmittedStages, Running, Lanes, Alive, Waiting, Granted, Spawn, locks
<1>4. DescendantLocks'
  BY ProcAssumption DEF IInv, DescendantLocks, TypeOK, OwnerLocks, NoToken, Alive, Waiting,
     Granted, Spawn, locks
<1>5. DescriptorsOpen' /\ AdmittedStages' /\ RequestedClass'
  <2>1. DescriptorsOpen'
    BY ProcAssumption DEF IInv, TypeOK, DescriptorsOpen, InContext, Alive, Waiting, Granted,
       Spawn, locks
  <2>2. AdmittedStages'
    BY ProcAssumption DEF IInv, TypeOK, AdmittedStages, Running, Alive, Waiting, Granted, Spawn,
       locks
  <2>3. RequestedClass'
    BY ProcAssumption DEF IInv, TypeOK, RequestedClass, Running, LaneClass, Lanes, Classes,
       Alive, Waiting, Granted, Spawn, locks
  <2> QED BY <2>1, <2>2, <2>3
<1>6. GenerationStable'
  BY ProcAssumption DEF IInv, GenerationStable, TypeOK, AdmittedStages, KernelExclusion,
     OwnerLocks, Running, Lanes, Alive, Waiting, Granted, Spawn, locks
<1> QED BY <1>1, <1>2, <1>3, <1>4, <1>5, <1>6 DEF IInv

(* Looking at /proc changes nothing. *)
LEMMA VerifyAncestorInv == ASSUME IInv, NEW p \in Proc, VerifyAncestor(p) PROVE IInv'
BY ProcAssumption DEF IInv, TypeOK, DescriptorsOpen, KernelExclusion, OwnerLocks,
   DescendantLocks, AdmittedStages, RequestedClass, GenerationStable, InContext, Running, Alive, Waiting, Granted,
   VerifyAncestor, At, tree, locks

(* A rejected lease changes nothing. *)
LEMMA NotInheritedInv == ASSUME IInv, NEW p \in Proc, NotInherited(p) PROVE IInv'
BY ProcAssumption DEF IInv, TypeOK, DescriptorsOpen, KernelExclusion, OwnerLocks,
   DescendantLocks, AdmittedStages, RequestedClass, GenerationStable, InContext, Running, Alive, Waiting, Granted,
   NotInherited, tree, locks

(* A descendant adds its shared lock beside the others. *)
LEMMA JoinActivityInv == ASSUME IInv, NEW p \in Proc, JoinActivity(p) PROVE IInv'
<1>1. TypeOK'
  <2>1. pc' \in [Proc -> Alive \cup {"unborn", "dead"}]
    BY DEF IInv, TypeOK, Alive, Waiting, Granted, JoinActivity, CanShare, At, tree
  <2>2. sharers' \in [Lanes -> SUBSET Proc]
    BY DEF IInv, TypeOK, JoinActivity, CanShare, At, tree
  <2> QED BY <2>1, <2>2 DEF IInv, TypeOK, JoinActivity, CanShare, tree
<1>2. KernelExclusion'
  BY ProcAssumption DEF IInv, KernelExclusion, TypeOK, OwnerLocks, Lanes, Alive, Waiting,
     Granted, JoinActivity, CanShare, At, tree
<1>3. OwnerLocks'
  BY ProcAssumption DEF IInv, OwnerLocks, TypeOK, KernelExclusion, DescendantLocks,
     AdmittedStages, Running, Lanes, Alive, Waiting, Granted, JoinActivity, CanShare, At, tree
<1>4. DescendantLocks'
  BY ProcAssumption DEF IInv, DescendantLocks, TypeOK, OwnerLocks, NoToken, Alive, Waiting,
     Granted, JoinActivity, CanShare, At, tree
<1>5. DescriptorsOpen' /\ AdmittedStages' /\ RequestedClass'
  BY ProcAssumption DEF IInv, TypeOK, DescriptorsOpen, AdmittedStages, RequestedClass,
     InContext, Running, LaneClass, Lanes, Classes, Alive, Waiting, Granted, JoinActivity,
     CanShare, At, tree
<1>6. GenerationStable'
  BY ProcAssumption DEF IInv, GenerationStable, TypeOK, AdmittedStages, KernelExclusion,
     OwnerLocks, Running, Lanes, Alive, Waiting, Granted, JoinActivity, CanShare, At, tree
<1> QED BY <1>1, <1>2, <1>3, <1>4, <1>5, <1>6 DEF IInv

(* A refused shared lock changes nothing. *)
LEMMA JoinRefusedInv == ASSUME IInv, NEW p \in Proc, JoinRefused(p) PROVE IInv'
BY ProcAssumption DEF IInv, TypeOK, DescriptorsOpen, KernelExclusion, OwnerLocks,
   DescendantLocks, AdmittedStages, RequestedClass, GenerationStable, InContext, Running, Alive, Waiting, Granted,
   JoinRefused, At, tree, locks

(* A descendant is admitted under the generation it reads while it holds the shared lock. *)
LEMMA AdmitDescendantInv == ASSUME IInv, NEW p \in Proc, AdmitDescendant(p) PROVE IInv'
<1>1. TypeOK'
  <2>1. pc' \in [Proc -> Alive \cup {"unborn", "dead"}]
    BY DEF IInv, TypeOK, Alive, Waiting, Granted, AdmitDescendant, At, tree, locks
  <2>2. gen' \in [Proc -> Proc \cup {Empty}]
    BY DEF IInv, TypeOK, Empty, AdmitDescendant, At, tree, locks
  <2>3. depth' \in [Proc -> 0..MaxDepth]
    BY BoundsAssumption DEF IInv, TypeOK, DescendantLocks, AdmitDescendant, At, tree, locks
  <2> QED BY <2>1, <2>2, <2>3 DEF IInv, TypeOK, AdmitDescendant, tree, locks
<1>2. KernelExclusion'
  BY ProcAssumption DEF IInv, KernelExclusion, TypeOK, OwnerLocks, Lanes, Alive, Waiting,
     Granted, AdmitDescendant, At, tree, locks
<1>3. OwnerLocks'
  BY ProcAssumption DEF IInv, OwnerLocks, TypeOK, KernelExclusion, DescendantLocks,
     AdmittedStages, Running, Lanes, Alive, Waiting, Granted, AdmitDescendant, At, tree, locks
<1>4. DescendantLocks'
  BY ProcAssumption DEF IInv, DescendantLocks, TypeOK, OwnerLocks, NoToken, Alive, Waiting,
     Granted, AdmitDescendant, At, tree, locks
<1>5. DescriptorsOpen' /\ AdmittedStages' /\ RequestedClass'
  <2>1. DescriptorsOpen'
    BY ProcAssumption DEF IInv, TypeOK, DescriptorsOpen, InContext, Alive, Waiting, Granted,
       AdmitDescendant, At, tree, locks
  <2>2. AdmittedStages'
    BY ProcAssumption DEF IInv, TypeOK, AdmittedStages, Running, Alive, Waiting, Granted,
       AdmitDescendant, At, tree, locks
  <2>3. RequestedClass'
    BY ProcAssumption DEF IInv, TypeOK, RequestedClass, Running, LaneClass, Lanes, Classes,
       Alive, Waiting, Granted, AdmitDescendant, At, tree, locks
  <2> QED BY <2>1, <2>2, <2>3
<1>6. GenerationStable'
  <2>1. ASSUME NEW q \in admitted, q # p PROVE file'[lane'[q]] = gen'[q] /\ q \in sharers'[lane'[q]]
    <3>1. q \in Proc /\ lane[q] \in Lanes /\ lane[p] \in Lanes /\ p # NoProc
      BY ProcAssumption DEF IInv, TypeOK
    <3>2. file[lane[q]] = gen[q] /\ q \in sharers[lane[q]]
      BY DEF IInv, GenerationStable
    <3>3. lane' = lane /\ sharers' = sharers
      BY <3>1, <3>2 DEF IInv, TypeOK, KernelExclusion, OwnerLocks, Granted, AdmitDescendant, At,
         tree, locks
    <3>4. gen'[q] = gen[q] /\ file'[lane[q]] = file[lane[q]] /\ lane'[q] = lane[q]
      BY <2>1, <3>1, <3>2, <3>3 DEF IInv, TypeOK, AdmitDescendant, At, tree, locks
    <3>5. q \in sharers'[lane[q]]
      BY <2>1, <3>1, <3>2, <3>3 DEF AdmitDescendant, At, tree, locks
    <3> QED BY <3>2, <3>4, <3>5
  <2>2. p \in admitted' => file'[lane'[p]] = gen'[p] /\ p \in sharers'[lane'[p]]
    BY ProcAssumption DEF IInv, TypeOK, AdmittedStages, DescendantLocks, Running,
       AdmitDescendant, At, tree, locks
  <2>3. admitted' \subseteq admitted \cup {p}
    BY DEF AdmitDescendant, At, tree, locks
  <2> QED BY <2>1, <2>2, <2>3 DEF GenerationStable
<1> QED BY <1>1, <1>2, <1>3, <1>4, <1>5, <1>6 DEF IInv

(* A changed generation admits nobody. *)
LEMMA GenerationChangedInv == ASSUME IInv, NEW p \in Proc, GenerationChanged(p) PROVE IInv'
BY ProcAssumption DEF IInv, TypeOK, DescriptorsOpen, KernelExclusion, OwnerLocks,
   DescendantLocks, AdmittedStages, RequestedClass, GenerationStable, InContext, Running, Alive, Waiting, Granted,
   GenerationChanged, At, tree, locks

(* A free depth lock goes to one descendant. *)
LEMMA TakeBranchInv == ASSUME IInv, NEW p \in Proc, TakeBranch(p) PROVE IInv'
<1>1. TypeOK'
  BY BoundsAssumption DEF IInv, TypeOK, DescendantLocks, NoToken, Empty, Lanes, Classes, Alive,
     Waiting, Granted, TakeBranch, At, tree
<1>2. KernelExclusion'
  BY ProcAssumption DEF IInv, KernelExclusion, TypeOK, OwnerLocks, Lanes, Alive, Waiting,
     Granted, TakeBranch, At, tree
<1>3. OwnerLocks'
  BY ProcAssumption DEF IInv, OwnerLocks, TypeOK, KernelExclusion, DescendantLocks,
     AdmittedStages, Running, Lanes, Alive, Waiting, Granted, TakeBranch, At, tree
<1>4. DescendantLocks'
  BY BoundsAssumption, ProcAssumption DEF IInv, DescendantLocks, TypeOK, OwnerLocks, NoToken,
     Alive, Waiting, Granted, TakeBranch, At, tree
<1>5. DescriptorsOpen' /\ AdmittedStages' /\ RequestedClass'
  <2>1. DescriptorsOpen'
    BY ProcAssumption DEF IInv, TypeOK, DescriptorsOpen, InContext, Alive, Waiting, Granted,
       TakeBranch, At, tree
  <2>2. AdmittedStages'
    BY ProcAssumption DEF IInv, TypeOK, AdmittedStages, Running, Alive, Waiting, Granted,
       TakeBranch, At, tree
  <2>3. RequestedClass'
    BY ProcAssumption DEF IInv, TypeOK, RequestedClass, Running, LaneClass, Lanes, Classes,
       Alive, Waiting, Granted, TakeBranch, At, tree
  <2> QED BY <2>1, <2>2, <2>3
<1>6. GenerationStable'
  BY ProcAssumption DEF IInv, GenerationStable, TypeOK, AdmittedStages, KernelExclusion,
     OwnerLocks, Running, Lanes, Alive, Waiting, Granted, TakeBranch, At, tree
<1> QED BY <1>1, <1>2, <1>3, <1>4, <1>5, <1>6 DEF IInv

(* Queueing for the lane that is already open changes no lock. *)
LEMMA KeepLaneInv == ASSUME IInv, NEW p \in Proc, KeepLane(p) PROVE IInv'
BY ProcAssumption DEF IInv, TypeOK, DescriptorsOpen, KernelExclusion, OwnerLocks,
   DescendantLocks, AdmittedStages, RequestedClass, GenerationStable, InContext, Running, Alive, Waiting, Granted,
   KeepLane, At, tree, locks

(* Closing the files of another lane drops only one's own shared lock. *)
LEMMA ReopenLaneInv == ASSUME IInv, NEW p \in Proc, ReopenLane(p) PROVE IInv'
<1>1. TypeOK'
  BY BoundsAssumption DEF IInv, TypeOK, DescendantLocks, NoToken, Empty, Lanes, Classes, Alive,
     Waiting, Granted, ReopenLane, At, tree
<1>2. KernelExclusion'
  BY ProcAssumption DEF IInv, KernelExclusion, TypeOK, OwnerLocks, Lanes, Alive, Waiting,
     Granted, ReopenLane, At, tree
<1>3. OwnerLocks'
  <2>1. ASSUME NEW r \in Proc PROVE pc'[r] \in Granted \cup {"slot0"} => admission'[lane'[r]] = r
    BY ProcAssumption DEF IInv, OwnerLocks, TypeOK, KernelExclusion, DescendantLocks,
       AdmittedStages, Running, Lanes, Alive, Waiting, Granted, ReopenLane, At, tree
  <2>2. ASSUME NEW r \in Proc PROVE pc'[r] = "slot1" => admission'["heavy2"] = r
    BY ProcAssumption DEF IInv, OwnerLocks, TypeOK, KernelExclusion, DescendantLocks,
       AdmittedStages, Running, Lanes, Alive, Waiting, Granted, ReopenLane, At, tree
  <2>3. ASSUME NEW r \in Proc PROVE pc'[r] \in {"truncate", "write", "convert"} => exclusive'[lane'[r]] = r
    BY ProcAssumption DEF IInv, OwnerLocks, TypeOK, KernelExclusion, DescendantLocks,
       AdmittedStages, Running, Lanes, Alive, Waiting, Granted, ReopenLane, At, tree
  <2>4. ASSUME NEW r \in Proc PROVE pc'[r] \in {"convert", "share"} => file'[lane'[r]] = gen'[r] /\ depth'[r] = 0
    BY ProcAssumption DEF IInv, OwnerLocks, TypeOK, KernelExclusion, DescendantLocks,
       AdmittedStages, Running, Lanes, Alive, Waiting, Granted, ReopenLane, At, tree
  <2>5. ASSUME NEW r \in Proc PROVE pc'[r] \in Running /\ depth'[r] = 0 => admission'[lane'[r]] = r
    BY ProcAssumption DEF IInv, OwnerLocks, TypeOK, KernelExclusion, DescendantLocks,
       AdmittedStages, Running, Lanes, Alive, Waiting, Granted, ReopenLane, At, tree
  <2> QED BY <2>1, <2>2, <2>3, <2>4, <2>5 DEF OwnerLocks
<1>4. DescendantLocks'
  BY ProcAssumption DEF IInv, DescendantLocks, TypeOK, OwnerLocks, NoToken, Alive, Waiting,
     Granted, ReopenLane, At, tree
<1>5. DescriptorsOpen' /\ AdmittedStages' /\ RequestedClass'
  BY ProcAssumption DEF IInv, TypeOK, DescriptorsOpen, AdmittedStages, RequestedClass,
     InContext, Running, LaneClass, Lanes, Classes, Alive, Waiting, Granted, ReopenLane, At,
     tree
<1>6. GenerationStable'
  BY ProcAssumption DEF IInv, GenerationStable, TypeOK, AdmittedStages, KernelExclusion,
     OwnerLocks, Running, Lanes, Alive, Waiting, Granted, ReopenLane, At, tree
<1> QED BY <1>1, <1>2, <1>3, <1>4, <1>5, <1>6 DEF IInv

(* A new waiter file touches no lane. *)
LEMMA RegisterInv == ASSUME IInv, NEW p \in Proc, Register(p) PROVE IInv'
<1>1. TypeOK'
  <2>1. pc' \in [Proc -> Alive \cup {"unborn", "dead"}]
    BY DEF IInv, TypeOK, Alive, Waiting, Granted, Register, Reclaimed, LiveWaiters, At, tree,
       locks
  <2>2. order' \in [Proc -> 0..MaxOrder]
    <3>1. PICK n \in 1..MaxOrder : order' = [Reclaimed(want[p]) EXCEPT ![p] = n]
      BY DEF Register
    <3>2. Reclaimed(want[p]) \in [Proc -> 0..MaxOrder]
      BY BoundsAssumption DEF IInv, TypeOK, Reclaimed
    <3> QED BY <3>1, <3>2
  <2> QED BY <2>1, <2>2 DEF IInv, TypeOK, Register, Reclaimed, LiveWaiters, tree, locks
<1>2. KernelExclusion'
  BY ProcAssumption DEF IInv, KernelExclusion, TypeOK, OwnerLocks, Lanes, Alive, Waiting,
     Granted, Register, Reclaimed, LiveWaiters, At, tree, locks
<1>3. OwnerLocks'
  BY ProcAssumption DEF IInv, OwnerLocks, TypeOK, KernelExclusion, DescendantLocks,
     AdmittedStages, Running, Lanes, Alive, Waiting, Granted, Register, Reclaimed, LiveWaiters,
     At, tree, locks
<1>4. DescendantLocks'
  BY ProcAssumption DEF IInv, DescendantLocks, TypeOK, OwnerLocks, NoToken, Alive, Waiting,
     Granted, Register, Reclaimed, LiveWaiters, At, tree, locks
<1>5. DescriptorsOpen' /\ AdmittedStages' /\ RequestedClass'
  BY ProcAssumption DEF IInv, TypeOK, DescriptorsOpen, AdmittedStages, RequestedClass,
     InContext, Running, LaneClass, Lanes, Classes, Alive, Waiting, Granted, Register,
     Reclaimed, LiveWaiters, At, tree, locks
<1>6. GenerationStable'
  BY ProcAssumption DEF IInv, GenerationStable, TypeOK, AdmittedStages, KernelExclusion,
     OwnerLocks, Running, Lanes, Alive, Waiting, Granted, Register, Reclaimed, LiveWaiters, At,
     tree, locks
<1> QED BY <1>1, <1>2, <1>3, <1>4, <1>5, <1>6 DEF IInv

(* The host gate touches no lane. *)
LEMMA PassGateInv == ASSUME IInv, NEW p \in Proc, PassGate(p) PROVE IInv'
BY ProcAssumption DEF IInv, TypeOK, DescriptorsOpen, KernelExclusion, OwnerLocks,
   DescendantLocks, AdmittedStages, RequestedClass, GenerationStable, InContext, Running, Alive, Waiting, Granted,
   PassGate, At, tree, locks

(* A waiter that is not the head only reclaims abandoned files. *)
LEMMA NotHeadInv == ASSUME IInv, NEW p \in Proc, NotHead(p) PROVE IInv'
<1>1. TypeOK'
  <2>1. pc' \in [Proc -> Alive \cup {"unborn", "dead"}]
    BY DEF IInv, TypeOK, Alive, Waiting, Granted, NotHead, Reclaimed, LiveWaiters, At, tree,
       locks
  <2>2. order' \in [Proc -> 0..MaxOrder]
    BY BoundsAssumption DEF IInv, TypeOK, NotHead, Reclaimed, LiveWaiters, At, tree, locks
  <2> QED BY <2>1, <2>2 DEF IInv, TypeOK, NotHead, Reclaimed, LiveWaiters, tree, locks
<1>2. KernelExclusion'
  BY ProcAssumption DEF IInv, KernelExclusion, TypeOK, OwnerLocks, Lanes, Alive, Waiting,
     Granted, NotHead, Reclaimed, LiveWaiters, At, tree, locks
<1>3. OwnerLocks'
  BY ProcAssumption DEF IInv, OwnerLocks, TypeOK, KernelExclusion, DescendantLocks,
     AdmittedStages, Running, Lanes, Alive, Waiting, Granted, NotHead, Reclaimed, LiveWaiters,
     At, tree, locks
<1>4. DescendantLocks'
  BY ProcAssumption DEF IInv, DescendantLocks, TypeOK, OwnerLocks, NoToken, Alive, Waiting,
     Granted, NotHead, Reclaimed, LiveWaiters, At, tree, locks
<1>5. DescriptorsOpen' /\ AdmittedStages' /\ RequestedClass'
  BY ProcAssumption DEF IInv, TypeOK, DescriptorsOpen, AdmittedStages, RequestedClass,
     InContext, Running, LaneClass, Lanes, Classes, Alive, Waiting, Granted, NotHead, Reclaimed,
     LiveWaiters, At, tree, locks
<1>6. GenerationStable'
  BY ProcAssumption DEF IInv, GenerationStable, TypeOK, AdmittedStages, KernelExclusion,
     OwnerLocks, Running, Lanes, Alive, Waiting, Granted, NotHead, Reclaimed, LiveWaiters, At,
     tree, locks
<1> QED BY <1>1, <1>2, <1>3, <1>4, <1>5, <1>6 DEF IInv

(* The head takes a free admission lock. *)
LEMMA TakeAdmissionInv == ASSUME IInv, NEW p \in Proc, TakeAdmission(p) PROVE IInv'
<1>1. TypeOK'
  <2>1. pc' \in [Proc -> Alive \cup {"unborn", "dead"}]
    BY DEF IInv, TypeOK, Alive, Waiting, Granted, TakeAdmission, Reclaimed, LiveWaiters, At,
       tree
  <2>2. admission' \in [Lanes -> Proc \cup {NoProc}]
    BY DEF IInv, TypeOK, TakeAdmission, Reclaimed, LiveWaiters, At, tree
  <2>3. order' \in [Proc -> 0..MaxOrder]
    BY BoundsAssumption DEF IInv, TypeOK, TakeAdmission, Reclaimed, LiveWaiters, At, tree
  <2> QED BY <2>1, <2>2, <2>3 DEF IInv, TypeOK, TakeAdmission, Reclaimed, LiveWaiters, tree
<1>2. KernelExclusion'
  BY ProcAssumption DEF IInv, KernelExclusion, TypeOK, OwnerLocks, Lanes, Alive, Waiting,
     Granted, TakeAdmission, Reclaimed, LiveWaiters, At, tree
<1>3. OwnerLocks'
  BY ProcAssumption DEF IInv, OwnerLocks, TypeOK, KernelExclusion, DescendantLocks,
     AdmittedStages, Running, Lanes, Alive, Waiting, Granted, TakeAdmission, Reclaimed,
     LiveWaiters, At, tree
<1>4. DescendantLocks'
  BY ProcAssumption DEF IInv, DescendantLocks, TypeOK, OwnerLocks, NoToken, Alive, Waiting,
     Granted, TakeAdmission, Reclaimed, LiveWaiters, At, tree
<1>5. DescriptorsOpen' /\ AdmittedStages' /\ RequestedClass'
  BY ProcAssumption DEF IInv, TypeOK, DescriptorsOpen, AdmittedStages, RequestedClass,
     InContext, Running, LaneClass, Lanes, Classes, Alive, Waiting, Granted, TakeAdmission,
     Reclaimed, LiveWaiters, At, tree
<1>6. GenerationStable'
  BY ProcAssumption DEF IInv, GenerationStable, TypeOK, AdmittedStages, KernelExclusion,
     OwnerLocks, Running, Lanes, Alive, Waiting, Granted, TakeAdmission, Reclaimed, LiveWaiters,
     At, tree
<1> QED BY <1>1, <1>2, <1>3, <1>4, <1>5, <1>6 DEF IInv

(* An owned lane is left alone. *)
LEMMA AdmissionBusyInv == ASSUME IInv, NEW p \in Proc, AdmissionBusy(p) PROVE IInv'
<1>1. TypeOK'
  <2>1. pc' \in [Proc -> Alive \cup {"unborn", "dead"}]
    BY DEF IInv, TypeOK, Alive, Waiting, Granted, AdmissionBusy, Reclaimed, LiveWaiters, At,
       tree, locks
  <2>2. order' \in [Proc -> 0..MaxOrder]
    BY BoundsAssumption DEF IInv, TypeOK, AdmissionBusy, Reclaimed, LiveWaiters, At, tree, locks
  <2> QED BY <2>1, <2>2 DEF IInv, TypeOK, AdmissionBusy, Reclaimed, LiveWaiters, tree, locks
<1>2. KernelExclusion'
  BY ProcAssumption DEF IInv, KernelExclusion, TypeOK, OwnerLocks, Lanes, Alive, Waiting,
     Granted, AdmissionBusy, Reclaimed, LiveWaiters, At, tree, locks
<1>3. OwnerLocks'
  BY ProcAssumption DEF IInv, OwnerLocks, TypeOK, KernelExclusion, DescendantLocks,
     AdmittedStages, Running, Lanes, Alive, Waiting, Granted, AdmissionBusy, Reclaimed,
     LiveWaiters, At, tree, locks
<1>4. DescendantLocks'
  BY ProcAssumption DEF IInv, DescendantLocks, TypeOK, OwnerLocks, NoToken, Alive, Waiting,
     Granted, AdmissionBusy, Reclaimed, LiveWaiters, At, tree, locks
<1>5. DescriptorsOpen' /\ AdmittedStages' /\ RequestedClass'
  BY ProcAssumption DEF IInv, TypeOK, DescriptorsOpen, AdmittedStages, RequestedClass,
     InContext, Running, LaneClass, Lanes, Classes, Alive, Waiting, Granted, AdmissionBusy,
     Reclaimed, LiveWaiters, At, tree, locks
<1>6. GenerationStable'
  BY ProcAssumption DEF IInv, GenerationStable, TypeOK, AdmittedStages, KernelExclusion,
     OwnerLocks, Running, Lanes, Alive, Waiting, Granted, AdmissionBusy, Reclaimed, LiveWaiters,
     At, tree, locks
<1> QED BY <1>1, <1>2, <1>3, <1>4, <1>5, <1>6 DEF IInv

(* The exclusive activity lock is granted only on a lane without activity. *)
LEMMA TakeSlotZeroInv == ASSUME IInv, NEW p \in Proc, TakeSlotZero(p) PROVE IInv'
<1>1. TypeOK'
  <2>1. pc' \in [Proc -> Alive \cup {"unborn", "dead"}]
    BY DEF IInv, TypeOK, Alive, Waiting, Granted, TakeSlotZero, CanExclusive, TakeActivity, At,
       tree
  <2>2. lane' \in [Proc -> Lanes]
    BY DEF IInv, TypeOK, Lanes, Classes, TakeSlotZero, CanExclusive, TakeActivity, At, tree
  <2>3. exclusive' \in [Lanes -> Proc \cup {NoProc, Probe}]
    BY DEF IInv, TypeOK, TakeSlotZero, CanExclusive, TakeActivity, At, tree
  <2>4. sharers' \in [Lanes -> SUBSET Proc]
    BY DEF IInv, TypeOK, TakeSlotZero, CanExclusive, TakeActivity, At, tree
  <2>5. order' \in [Proc -> 0..MaxOrder]
    BY BoundsAssumption DEF IInv, TypeOK, TakeSlotZero, CanExclusive, TakeActivity, At, tree
  <2> QED BY <2>1, <2>2, <2>3, <2>4, <2>5 DEF IInv, TypeOK, TakeSlotZero, CanExclusive,
     TakeActivity, tree
<1>2. KernelExclusion'
  BY ProcAssumption DEF IInv, KernelExclusion, TypeOK, OwnerLocks, Lanes, Alive, Waiting,
     Granted, TakeSlotZero, CanExclusive, TakeActivity, At, tree
<1>3. OwnerLocks'
  BY ProcAssumption DEF IInv, OwnerLocks, TypeOK, KernelExclusion, DescendantLocks,
     AdmittedStages, Running, Lanes, Alive, Waiting, Granted, TakeSlotZero, CanExclusive,
     TakeActivity, At, tree
<1>4. DescendantLocks'
  BY ProcAssumption DEF IInv, DescendantLocks, TypeOK, OwnerLocks, NoToken, Alive, Waiting,
     Granted, TakeSlotZero, CanExclusive, TakeActivity, At, tree
<1>5. DescriptorsOpen' /\ AdmittedStages' /\ RequestedClass'
  BY ProcAssumption DEF IInv, TypeOK, DescriptorsOpen, AdmittedStages, RequestedClass,
     InContext, Running, LaneClass, Lanes, Classes, Alive, Waiting, Granted, TakeSlotZero,
     CanExclusive, TakeActivity, At, tree
<1>6. GenerationStable'
  <2>1. ASSUME NEW q \in admitted, q # p PROVE file'[lane'[q]] = gen'[q] /\ q \in sharers'[lane'[q]]
    <3>1. q \in Proc /\ lane[q] \in Lanes /\ lane[p] \in Lanes /\ p # NoProc
      BY ProcAssumption DEF IInv, TypeOK
    <3>2. file[lane[q]] = gen[q] /\ q \in sharers[lane[q]]
      BY DEF IInv, GenerationStable
    <3>3. lane'[q] = lane[q] /\ sharers'[lane[q]] = sharers[lane[q]] \ {p}
      BY <3>1, <3>2 DEF IInv, TypeOK, KernelExclusion, OwnerLocks, Granted, TakeSlotZero,
         CanExclusive, TakeActivity, At, tree
    <3>4. gen'[q] = gen[q] /\ file'[lane[q]] = file[lane[q]] /\ lane'[q] = lane[q]
      BY <2>1, <3>1, <3>2, <3>3 DEF IInv, TypeOK, TakeSlotZero, CanExclusive, TakeActivity, At,
         tree
    <3>5. q \in sharers'[lane[q]]
      BY <2>1, <3>1, <3>2, <3>3 DEF TakeSlotZero, CanExclusive, TakeActivity, At, tree
    <3> QED BY <3>2, <3>4, <3>5
  <2>2. p \in admitted' => file'[lane'[p]] = gen'[p] /\ p \in sharers'[lane'[p]]
    BY ProcAssumption DEF IInv, TypeOK, AdmittedStages, DescendantLocks, Running, TakeSlotZero,
       CanExclusive, TakeActivity, At, tree
  <2>3. admitted' \subseteq admitted \cup {p}
    BY DEF TakeSlotZero, CanExclusive, TakeActivity, At, tree
  <2> QED BY <2>1, <2>2, <2>3 DEF GenerationStable
<1> QED BY <1>1, <1>2, <1>3, <1>4, <1>5, <1>6 DEF IInv

(* Backing off releases only the head's own admission lock. *)
LEMMA SlotZeroBusyInv == ASSUME IInv, NEW p \in Proc, SlotZeroBusy(p) PROVE IInv'
<1>1. TypeOK'
  BY BoundsAssumption DEF IInv, TypeOK, DescendantLocks, NoToken, Empty, Lanes, Classes, Alive,
     Waiting, Granted, SlotZeroBusy, ActivityBusy, At, tree
<1>2. KernelExclusion'
  BY ProcAssumption DEF IInv, KernelExclusion, TypeOK, OwnerLocks, Lanes, Alive, Waiting,
     Granted, SlotZeroBusy, ActivityBusy, At, tree
<1>3. OwnerLocks'
  BY ProcAssumption DEF IInv, OwnerLocks, TypeOK, KernelExclusion, DescendantLocks,
     AdmittedStages, Running, Lanes, Alive, Waiting, Granted, SlotZeroBusy, ActivityBusy, At,
     tree
<1>4. DescendantLocks'
  BY ProcAssumption DEF IInv, DescendantLocks, TypeOK, OwnerLocks, NoToken, Alive, Waiting,
     Granted, SlotZeroBusy, ActivityBusy, At, tree
<1>5. DescriptorsOpen' /\ AdmittedStages' /\ RequestedClass'
  BY ProcAssumption DEF IInv, TypeOK, DescriptorsOpen, AdmittedStages, RequestedClass,
     InContext, Running, LaneClass, Lanes, Classes, Alive, Waiting, Granted, SlotZeroBusy,
     ActivityBusy, At, tree
<1>6. GenerationStable'
  BY ProcAssumption DEF IInv, GenerationStable, TypeOK, AdmittedStages, KernelExclusion,
     OwnerLocks, Running, Lanes, Alive, Waiting, Granted, SlotZeroBusy, ActivityBusy, At, tree
<1> QED BY <1>1, <1>2, <1>3, <1>4, <1>5, <1>6 DEF IInv

(* The head takes the spare lane's free admission lock. *)
LEMMA TrySpareInv == ASSUME IInv, NEW p \in Proc, TrySpare(p) PROVE IInv'
<1>1. TypeOK'
  BY BoundsAssumption DEF IInv, TypeOK, DescendantLocks, NoToken, Empty, Lanes, Classes, Alive,
     Waiting, Granted, TrySpare, At, tree
<1>2. KernelExclusion'
  BY ProcAssumption DEF IInv, KernelExclusion, TypeOK, OwnerLocks, Lanes, Alive, Waiting,
     Granted, TrySpare, At, tree
<1>3. OwnerLocks'
  BY ProcAssumption DEF IInv, OwnerLocks, TypeOK, KernelExclusion, DescendantLocks,
     AdmittedStages, Running, Lanes, Alive, Waiting, Granted, TrySpare, At, tree
<1>4. DescendantLocks'
  BY ProcAssumption DEF IInv, DescendantLocks, TypeOK, OwnerLocks, NoToken, Alive, Waiting,
     Granted, TrySpare, At, tree
<1>5. DescriptorsOpen' /\ AdmittedStages' /\ RequestedClass'
  BY ProcAssumption DEF IInv, TypeOK, DescriptorsOpen, AdmittedStages, RequestedClass,
     InContext, Running, LaneClass, Lanes, Classes, Alive, Waiting, Granted, TrySpare, At, tree
<1>6. GenerationStable'
  BY ProcAssumption DEF IInv, GenerationStable, TypeOK, AdmittedStages, KernelExclusion,
     OwnerLocks, Running, Lanes, Alive, Waiting, Granted, TrySpare, At, tree
<1> QED BY <1>1, <1>2, <1>3, <1>4, <1>5, <1>6 DEF IInv

(* Skipping the spare lane touches no lane. *)
LEMMA SkipSpareInv == ASSUME IInv, NEW p \in Proc, SkipSpare(p) PROVE IInv'
BY ProcAssumption DEF IInv, TypeOK, DescriptorsOpen, KernelExclusion, OwnerLocks,
   DescendantLocks, AdmittedStages, RequestedClass, GenerationStable, InContext, Running, Alive, Waiting, Granted,
   SkipSpare, At, tree, locks

(* The same grant on the spare lane. *)
LEMMA TakeSpareInv == ASSUME IInv, NEW p \in Proc, TakeSpare(p) PROVE IInv'
<1>1. TypeOK'
  <2>1. pc' \in [Proc -> Alive \cup {"unborn", "dead"}]
    BY DEF IInv, TypeOK, Alive, Waiting, Granted, TakeSpare, CanExclusive, TakeActivity, At,
       tree
  <2>2. lane' \in [Proc -> Lanes]
    BY DEF IInv, TypeOK, Lanes, Classes, TakeSpare, CanExclusive, TakeActivity, At, tree
  <2>3. exclusive' \in [Lanes -> Proc \cup {NoProc, Probe}]
    BY DEF IInv, TypeOK, TakeSpare, CanExclusive, TakeActivity, At, tree
  <2>4. sharers' \in [Lanes -> SUBSET Proc]
    BY DEF IInv, TypeOK, TakeSpare, CanExclusive, TakeActivity, At, tree
  <2>5. order' \in [Proc -> 0..MaxOrder]
    BY BoundsAssumption DEF IInv, TypeOK, TakeSpare, CanExclusive, TakeActivity, At, tree
  <2> QED BY <2>1, <2>2, <2>3, <2>4, <2>5 DEF IInv, TypeOK, TakeSpare, CanExclusive,
     TakeActivity, tree
<1>2. KernelExclusion'
  BY ProcAssumption DEF IInv, KernelExclusion, TypeOK, OwnerLocks, Lanes, Alive, Waiting,
     Granted, TakeSpare, CanExclusive, TakeActivity, At, tree
<1>3. OwnerLocks'
  BY ProcAssumption DEF IInv, OwnerLocks, TypeOK, KernelExclusion, DescendantLocks,
     AdmittedStages, Running, Lanes, Alive, Waiting, Granted, TakeSpare, CanExclusive,
     TakeActivity, At, tree
<1>4. DescendantLocks'
  BY ProcAssumption DEF IInv, DescendantLocks, TypeOK, OwnerLocks, NoToken, Alive, Waiting,
     Granted, TakeSpare, CanExclusive, TakeActivity, At, tree
<1>5. DescriptorsOpen' /\ AdmittedStages' /\ RequestedClass'
  BY ProcAssumption DEF IInv, TypeOK, DescriptorsOpen, AdmittedStages, RequestedClass,
     InContext, Running, LaneClass, Lanes, Classes, Alive, Waiting, Granted, TakeSpare,
     CanExclusive, TakeActivity, At, tree
<1>6. GenerationStable'
  BY ProcAssumption DEF IInv, GenerationStable, TypeOK, AdmittedStages, KernelExclusion,
     OwnerLocks, Running, Lanes, Alive, Waiting, Granted, TakeSpare, CanExclusive, TakeActivity,
     At, tree
<1> QED BY <1>1, <1>2, <1>3, <1>4, <1>5, <1>6 DEF IInv

(* The same back-off on the spare lane. *)
LEMMA SpareBusyInv == ASSUME IInv, NEW p \in Proc, SpareBusy(p) PROVE IInv'
<1>1. TypeOK'
  BY BoundsAssumption DEF IInv, TypeOK, DescendantLocks, NoToken, Empty, Lanes, Classes, Alive,
     Waiting, Granted, SpareBusy, ActivityBusy, At, tree
<1>2. KernelExclusion'
  BY ProcAssumption DEF IInv, KernelExclusion, TypeOK, OwnerLocks, Lanes, Alive, Waiting,
     Granted, SpareBusy, ActivityBusy, At, tree
<1>3. OwnerLocks'
  BY ProcAssumption DEF IInv, OwnerLocks, TypeOK, KernelExclusion, DescendantLocks,
     AdmittedStages, Running, Lanes, Alive, Waiting, Granted, SpareBusy, ActivityBusy, At, tree
<1>4. DescendantLocks'
  BY ProcAssumption DEF IInv, DescendantLocks, TypeOK, OwnerLocks, NoToken, Alive, Waiting,
     Granted, SpareBusy, ActivityBusy, At, tree
<1>5. DescriptorsOpen' /\ AdmittedStages' /\ RequestedClass'
  BY ProcAssumption DEF IInv, TypeOK, DescriptorsOpen, AdmittedStages, RequestedClass,
     InContext, Running, LaneClass, Lanes, Classes, Alive, Waiting, Granted, SpareBusy,
     ActivityBusy, At, tree
<1>6. GenerationStable'
  BY ProcAssumption DEF IInv, GenerationStable, TypeOK, AdmittedStages, KernelExclusion,
     OwnerLocks, Running, Lanes, Alive, Waiting, Granted, SpareBusy, ActivityBusy, At, tree
<1> QED BY <1>1, <1>2, <1>3, <1>4, <1>5, <1>6 DEF IInv

(* Only the owner that holds both locks truncates the generation. *)
LEMMA TruncateInv == ASSUME IInv, NEW p \in Proc, Truncate(p) PROVE IInv'
<1>1. TypeOK'
  BY BoundsAssumption DEF IInv, TypeOK, DescendantLocks, NoToken, Empty, Lanes, Classes, Alive,
     Waiting, Granted, Truncate, At, tree, locks
<1>2. KernelExclusion'
  BY ProcAssumption DEF IInv, KernelExclusion, TypeOK, OwnerLocks, Lanes, Alive, Waiting,
     Granted, Truncate, At, tree, locks
<1>3. OwnerLocks'
  BY ProcAssumption DEF IInv, OwnerLocks, TypeOK, KernelExclusion, DescendantLocks,
     AdmittedStages, Running, Lanes, Alive, Waiting, Granted, Truncate, At, tree, locks
<1>4. DescendantLocks'
  BY ProcAssumption DEF IInv, DescendantLocks, TypeOK, OwnerLocks, NoToken, Alive, Waiting,
     Granted, Truncate, At, tree, locks
<1>5. DescriptorsOpen' /\ AdmittedStages' /\ RequestedClass'
  BY ProcAssumption DEF IInv, TypeOK, DescriptorsOpen, AdmittedStages, RequestedClass,
     InContext, Running, LaneClass, Lanes, Classes, Alive, Waiting, Granted, Truncate, At, tree,
     locks
<1>6. GenerationStable'
  BY ProcAssumption DEF IInv, GenerationStable, TypeOK, AdmittedStages, KernelExclusion,
     OwnerLocks, Running, Lanes, Alive, Waiting, Granted, Truncate, At, tree, locks
<1> QED BY <1>1, <1>2, <1>3, <1>4, <1>5, <1>6 DEF IInv

(* Only the owner that holds both locks writes its generation. *)
LEMMA WriteGenerationInv == ASSUME IInv, NEW p \in Proc, WriteGeneration(p) PROVE IInv'
<1>1. TypeOK'
  <2>1. pc' \in [Proc -> Alive \cup {"unborn", "dead"}]
    BY DEF IInv, TypeOK, Alive, Waiting, Granted, WriteGeneration, At, tree, locks
  <2>2. gen' \in [Proc -> Proc \cup {Empty}]
    BY DEF IInv, TypeOK, Empty, WriteGeneration, At, tree, locks
  <2>3. depth' \in [Proc -> 0..MaxDepth]
    BY BoundsAssumption DEF IInv, TypeOK, DescendantLocks, WriteGeneration, At, tree, locks
  <2>4. file' \in [Lanes -> Proc \cup {Empty}]
    BY DEF IInv, TypeOK, Empty, WriteGeneration, At, tree, locks
  <2> QED BY <2>1, <2>2, <2>3, <2>4 DEF IInv, TypeOK, WriteGeneration, tree, locks
<1>2. KernelExclusion'
  BY ProcAssumption DEF IInv, KernelExclusion, TypeOK, OwnerLocks, Lanes, Alive, Waiting,
     Granted, WriteGeneration, At, tree, locks
<1>3. OwnerLocks'
  BY ProcAssumption DEF IInv, OwnerLocks, TypeOK, KernelExclusion, DescendantLocks,
     AdmittedStages, Running, Lanes, Alive, Waiting, Granted, WriteGeneration, At, tree, locks
<1>4. DescendantLocks'
  BY ProcAssumption DEF IInv, DescendantLocks, TypeOK, OwnerLocks, NoToken, Alive, Waiting,
     Granted, WriteGeneration, At, tree, locks
<1>5. DescriptorsOpen' /\ AdmittedStages' /\ RequestedClass'
  BY ProcAssumption DEF IInv, TypeOK, DescriptorsOpen, AdmittedStages, RequestedClass,
     InContext, Running, LaneClass, Lanes, Classes, Alive, Waiting, Granted, WriteGeneration,
     At, tree, locks
<1>6. GenerationStable'
  <2>1. ASSUME NEW q \in admitted, q # p PROVE file'[lane'[q]] = gen'[q] /\ q \in sharers'[lane'[q]]
    <3>1. q \in Proc /\ lane[q] \in Lanes /\ lane[p] \in Lanes /\ p # NoProc
      BY ProcAssumption DEF IInv, TypeOK
    <3>2. file[lane[q]] = gen[q] /\ q \in sharers[lane[q]]
      BY DEF IInv, GenerationStable
    <3>3. lane[q] # lane[p]
      BY <3>1, <3>2 DEF IInv, TypeOK, KernelExclusion, OwnerLocks, Granted, WriteGeneration, At,
         tree, locks
    <3>4. gen'[q] = gen[q] /\ file'[lane[q]] = file[lane[q]] /\ lane'[q] = lane[q]
      BY <2>1, <3>1, <3>2, <3>3 DEF IInv, TypeOK, WriteGeneration, At, tree, locks
    <3>5. q \in sharers'[lane[q]]
      BY <2>1, <3>1, <3>2, <3>3 DEF WriteGeneration, At, tree, locks
    <3> QED BY <3>2, <3>4, <3>5
  <2>2. p \in admitted' => file'[lane'[p]] = gen'[p] /\ p \in sharers'[lane'[p]]
    BY ProcAssumption DEF IInv, TypeOK, AdmittedStages, DescendantLocks, Running,
       WriteGeneration, At, tree, locks
  <2>3. admitted' \subseteq admitted \cup {p}
    BY DEF WriteGeneration, At, tree, locks
  <2> QED BY <2>1, <2>2, <2>3 DEF GenerationStable
<1> QED BY <1>1, <1>2, <1>3, <1>4, <1>5, <1>6 DEF IInv

(* The conversion's first half keeps admission, which keeps other owners out. *)
LEMMA DropExclusiveInv == ASSUME IInv, NEW p \in Proc, DropExclusive(p) PROVE IInv'
<1>1. TypeOK'
  BY BoundsAssumption DEF IInv, TypeOK, DescendantLocks, NoToken, Empty, Lanes, Classes, Alive,
     Waiting, Granted, DropExclusive, At, tree
<1>2. KernelExclusion'
  BY ProcAssumption DEF IInv, KernelExclusion, TypeOK, OwnerLocks, Lanes, Alive, Waiting,
     Granted, DropExclusive, At, tree
<1>3. OwnerLocks'
  BY ProcAssumption DEF IInv, OwnerLocks, TypeOK, KernelExclusion, DescendantLocks,
     AdmittedStages, Running, Lanes, Alive, Waiting, Granted, DropExclusive, At, tree
<1>4. DescendantLocks'
  BY ProcAssumption DEF IInv, DescendantLocks, TypeOK, OwnerLocks, NoToken, Alive, Waiting,
     Granted, DropExclusive, At, tree
<1>5. DescriptorsOpen' /\ AdmittedStages' /\ RequestedClass'
  BY ProcAssumption DEF IInv, TypeOK, DescriptorsOpen, AdmittedStages, RequestedClass,
     InContext, Running, LaneClass, Lanes, Classes, Alive, Waiting, Granted, DropExclusive, At,
     tree
<1>6. GenerationStable'
  BY ProcAssumption DEF IInv, GenerationStable, TypeOK, AdmittedStages, KernelExclusion,
     OwnerLocks, Running, Lanes, Alive, Waiting, Granted, DropExclusive, At, tree
<1> QED BY <1>1, <1>2, <1>3, <1>4, <1>5, <1>6 DEF IInv

(* The conversion's second half admits the owner under the generation it wrote. *)
LEMMA TakeSharedInv == ASSUME IInv, NEW p \in Proc, TakeShared(p) PROVE IInv'
<1>1. TypeOK'
  BY BoundsAssumption DEF IInv, TypeOK, DescendantLocks, NoToken, Empty, Lanes, Classes, Alive,
     Waiting, Granted, TakeShared, CanShare, At, tree
<1>2. KernelExclusion'
  BY ProcAssumption DEF IInv, KernelExclusion, TypeOK, OwnerLocks, Lanes, Alive, Waiting,
     Granted, TakeShared, CanShare, At, tree
<1>3. OwnerLocks'
  BY ProcAssumption DEF IInv, OwnerLocks, TypeOK, KernelExclusion, DescendantLocks,
     AdmittedStages, Running, Lanes, Alive, Waiting, Granted, TakeShared, CanShare, At, tree
<1>4. DescendantLocks'
  BY ProcAssumption DEF IInv, DescendantLocks, TypeOK, OwnerLocks, NoToken, Alive, Waiting,
     Granted, TakeShared, CanShare, At, tree
<1>5. DescriptorsOpen' /\ AdmittedStages' /\ RequestedClass'
  BY ProcAssumption DEF IInv, TypeOK, DescriptorsOpen, AdmittedStages, RequestedClass,
     InContext, Running, LaneClass, Lanes, Classes, Alive, Waiting, Granted, TakeShared,
     CanShare, At, tree
<1>6. GenerationStable'
  BY ProcAssumption DEF IInv, GenerationStable, TypeOK, AdmittedStages, KernelExclusion,
     OwnerLocks, Running, Lanes, Alive, Waiting, Granted, TakeShared, CanShare, At, tree
<1> QED BY <1>1, <1>2, <1>3, <1>4, <1>5, <1>6 DEF IInv

(* The holder record touches no lock. *)
LEMMA WriteHolderInv == ASSUME IInv, NEW p \in Proc, WriteHolder(p) PROVE IInv'
BY ProcAssumption DEF IInv, TypeOK, DescriptorsOpen, KernelExclusion, OwnerLocks,
   DescendantLocks, AdmittedStages, RequestedClass, GenerationStable, InContext, Running, Alive, Waiting, Granted,
   WriteHolder, At, tree, locks

(* Refusing a light lease closes only the refused context. *)
LEMMA RefuseUpgradeInv == ASSUME IInv, NEW p \in Proc, RefuseUpgrade(p) PROVE IInv'
<1> DEFINE f == [fds EXCEPT ![p] = @ \ {p}]
<1>1. f \in [Proc -> SUBSET Proc] /\ CloseTo(f) /\ file' = file
  BY DEF IInv, TypeOK, RefuseUpgrade
<1>2. pc'[p] \in {"done", "dead"} /\ \A q \in Proc : q # p => pc'[q] = pc[q] /\ f[q] = fds[q]
  BY DEF IInv, TypeOK, RefuseUpgrade, At
<1>3. \A q \in Proc : token'[q] = token[q] \/ (q = p /\ token'[q] = NoToken)
  <2>1. token' = token
    BY DEF RefuseUpgrade, tree
  <2>2. token \in [Proc -> [ctx : Proc \cup {NoProc}, gen : Proc \cup {Empty}, lane : Lanes, depth : 0..MaxDepth]]
    BY DEF IInv, TypeOK
  <2> QED BY <2>1, <2>2
<1> HIDE DEF f
<1>4. TypeOK'
  <2>1. pc' \in [Proc -> Alive \cup {"unborn", "dead"}]
    BY DEF IInv, TypeOK, RefuseUpgrade, At, Alive
  <2>2. parent' \in [Proc -> Proc \cup {NoProc}] /\ meta' \in Proc \cup {NoProc}
    BY DEF IInv, TypeOK, RefuseUpgrade, tree
  <2>3. token' \in [Proc -> [ctx : Proc \cup {NoProc}, gen : Proc \cup {Empty}, lane : Lanes, depth : 0..MaxDepth]]
    BY BoundsAssumption DEF IInv, TypeOK, RefuseUpgrade, tree, NoToken, Lanes, Empty
  <2>4. order' \in [Proc -> 0..MaxOrder]
    BY BoundsAssumption DEF IInv, TypeOK, RefuseUpgrade
  <2> QED BY <1>1, <2>1, <2>2, <2>3, <2>4, CloseFacts DEF IInv, TypeOK
<1> QED BY <1>1, <1>2, <1>3, <1>4, CloseInv

(* Leaving closes only one's own descriptors. *)
LEMMA LeaveInv == ASSUME IInv, NEW p \in Proc, Leave(p) PROVE IInv'
<1> DEFINE f == [fds EXCEPT ![p] = @ \ {p}]
<1>1. f \in [Proc -> SUBSET Proc] /\ CloseTo(f) /\ file' = file
  BY DEF IInv, TypeOK, Leave
<1>2. pc'[p] \in {"done", "dead"} /\ \A q \in Proc : q # p => pc'[q] = pc[q] /\ f[q] = fds[q]
  BY DEF IInv, TypeOK, Leave, At
<1>3. \A q \in Proc : token'[q] = token[q] \/ (q = p /\ token'[q] = NoToken)
  <2>1. token' = token
    BY DEF Leave, tree
  <2>2. token \in [Proc -> [ctx : Proc \cup {NoProc}, gen : Proc \cup {Empty}, lane : Lanes, depth : 0..MaxDepth]]
    BY DEF IInv, TypeOK
  <2> QED BY <2>1, <2>2
<1> HIDE DEF f
<1>4. TypeOK'
  <2>1. pc' \in [Proc -> Alive \cup {"unborn", "dead"}]
    BY DEF IInv, TypeOK, Leave, At, Alive
  <2>2. parent' \in [Proc -> Proc \cup {NoProc}] /\ meta' \in Proc \cup {NoProc}
    BY DEF IInv, TypeOK, Leave, tree
  <2>3. token' \in [Proc -> [ctx : Proc \cup {NoProc}, gen : Proc \cup {Empty}, lane : Lanes, depth : 0..MaxDepth]]
    BY BoundsAssumption DEF IInv, TypeOK, Leave, tree, NoToken, Lanes, Empty
  <2>4. order' \in [Proc -> 0..MaxOrder]
    BY BoundsAssumption DEF IInv, TypeOK, Leave
  <2> QED BY <1>1, <2>1, <2>2, <2>3, <2>4, CloseFacts DEF IInv, TypeOK
<1> QED BY <1>1, <1>2, <1>3, <1>4, CloseInv

(* An exception closes only the waiting context. *)
LEMMA CancelInv == ASSUME IInv, NEW p \in Proc, Cancel(p) PROVE IInv'
<1> DEFINE f == [fds EXCEPT ![p] = @ \ {p}]
<1>1. f \in [Proc -> SUBSET Proc] /\ CloseTo(f) /\ file' = file
  BY DEF IInv, TypeOK, Cancel
<1>2. pc'[p] \in {"done", "dead"} /\ \A q \in Proc : q # p => pc'[q] = pc[q] /\ f[q] = fds[q]
  BY DEF IInv, TypeOK, Cancel, At
<1>3. \A q \in Proc : token'[q] = token[q] \/ (q = p /\ token'[q] = NoToken)
  <2>1. token' = token
    BY DEF Cancel, tree
  <2>2. token \in [Proc -> [ctx : Proc \cup {NoProc}, gen : Proc \cup {Empty}, lane : Lanes, depth : 0..MaxDepth]]
    BY DEF IInv, TypeOK
  <2> QED BY <2>1, <2>2
<1> HIDE DEF f
<1>4. TypeOK'
  <2>1. pc' \in [Proc -> Alive \cup {"unborn", "dead"}]
    BY DEF IInv, TypeOK, Cancel, At, Alive
  <2>2. parent' \in [Proc -> Proc \cup {NoProc}] /\ meta' \in Proc \cup {NoProc}
    BY DEF IInv, TypeOK, Cancel, tree
  <2>3. token' \in [Proc -> [ctx : Proc \cup {NoProc}, gen : Proc \cup {Empty}, lane : Lanes, depth : 0..MaxDepth]]
    BY BoundsAssumption DEF IInv, TypeOK, Cancel, tree, NoToken, Lanes, Empty
  <2>4. order' \in [Proc -> 0..MaxOrder]
    BY BoundsAssumption DEF IInv, TypeOK, Cancel
  <2> QED BY <1>1, <2>1, <2>2, <2>3, <2>4, CloseFacts DEF IInv, TypeOK
<1> QED BY <1>1, <1>2, <1>3, <1>4, CloseInv

(* A crash closes only the dead process's descriptors. *)
LEMMA DieInv == ASSUME IInv, NEW p \in Proc, Die(p) PROVE IInv'
<1> DEFINE f == [fds EXCEPT ![p] = {}]
<1>1. f \in [Proc -> SUBSET Proc] /\ CloseTo(f) /\ file' = file
  BY DEF IInv, TypeOK, Die
<1>2. pc'[p] \in {"done", "dead"} /\ \A q \in Proc : q # p => pc'[q] = pc[q] /\ f[q] = fds[q]
  BY DEF IInv, TypeOK, Die, At
<1>3. \A q \in Proc : token'[q] = token[q] \/ (q = p /\ token'[q] = NoToken)
  <2>1. token' = [token EXCEPT ![p] = NoToken]
    BY DEF Die, tree
  <2>2. token \in [Proc -> [ctx : Proc \cup {NoProc}, gen : Proc \cup {Empty}, lane : Lanes, depth : 0..MaxDepth]]
    BY DEF IInv, TypeOK
  <2> QED BY <2>1, <2>2
<1> HIDE DEF f
<1>4. TypeOK'
  <2>1. pc' \in [Proc -> Alive \cup {"unborn", "dead"}]
    BY DEF IInv, TypeOK, Die, At, Alive
  <2>2. parent' \in [Proc -> Proc \cup {NoProc}] /\ meta' \in Proc \cup {NoProc}
    BY DEF IInv, TypeOK, Die, tree
  <2>3. token' \in [Proc -> [ctx : Proc \cup {NoProc}, gen : Proc \cup {Empty}, lane : Lanes, depth : 0..MaxDepth]]
    BY BoundsAssumption DEF IInv, TypeOK, Die, tree, NoToken, Lanes, Empty
  <2>4. order' \in [Proc -> 0..MaxOrder]
    BY BoundsAssumption DEF IInv, TypeOK, Die
  <2> QED BY <1>1, <2>1, <2>2, <2>3, <2>4, CloseFacts DEF IInv, TypeOK
<1> QED BY <1>1, <1>2, <1>3, <1>4, CloseInv

(* A snapshot probe succeeds only on a lane without activity. *)
LEMMA ProbeLockInv == ASSUME IInv, NEW l \in Probed, ProbeLock(l) PROVE IInv'
<1>1. TypeOK'
  BY BoundsAssumption, RequestsAssumption DEF IInv, TypeOK, DescendantLocks, NoToken, Empty,
     Lanes, Classes, Alive, Waiting, Granted, ProbeLock, tree, job
<1>2. KernelExclusion'
  BY ProcAssumption, RequestsAssumption DEF IInv, KernelExclusion, TypeOK, OwnerLocks, Lanes,
     Alive, Waiting, Granted, ProbeLock, tree, job
<1>3. OwnerLocks'
  <2>1. ASSUME NEW r \in Proc PROVE pc'[r] \in Granted \cup {"slot0"} => admission'[lane'[r]] = r
    BY ProcAssumption, RequestsAssumption DEF IInv, OwnerLocks, TypeOK, KernelExclusion,
       DescendantLocks, AdmittedStages, Running, Lanes, Alive, Waiting, Granted, ProbeLock,
       tree, job
  <2>2. ASSUME NEW r \in Proc PROVE pc'[r] = "slot1" => admission'["heavy2"] = r
    BY ProcAssumption, RequestsAssumption DEF IInv, OwnerLocks, TypeOK, KernelExclusion,
       DescendantLocks, AdmittedStages, Running, Lanes, Alive, Waiting, Granted, ProbeLock,
       tree, job
  <2>3. ASSUME NEW r \in Proc PROVE pc'[r] \in {"truncate", "write", "convert"} => exclusive'[lane'[r]] = r
    BY ProcAssumption, RequestsAssumption DEF IInv, OwnerLocks, TypeOK, KernelExclusion,
       DescendantLocks, AdmittedStages, Running, Lanes, Alive, Waiting, Granted, ProbeLock,
       tree, job
  <2>4. ASSUME NEW r \in Proc PROVE pc'[r] \in {"convert", "share"} => file'[lane'[r]] = gen'[r] /\ depth'[r] = 0
    BY ProcAssumption, RequestsAssumption DEF IInv, OwnerLocks, TypeOK, KernelExclusion,
       DescendantLocks, AdmittedStages, Running, Lanes, Alive, Waiting, Granted, ProbeLock,
       tree, job
  <2>5. ASSUME NEW r \in Proc PROVE pc'[r] \in Running /\ depth'[r] = 0 => admission'[lane'[r]] = r
    BY ProcAssumption, RequestsAssumption DEF IInv, OwnerLocks, TypeOK, KernelExclusion,
       DescendantLocks, AdmittedStages, Running, Lanes, Alive, Waiting, Granted, ProbeLock,
       tree, job
  <2> QED BY <2>1, <2>2, <2>3, <2>4, <2>5 DEF OwnerLocks
<1>4. DescendantLocks'
  BY ProcAssumption, RequestsAssumption DEF IInv, DescendantLocks, TypeOK, OwnerLocks, NoToken,
     Alive, Waiting, Granted, ProbeLock, tree, job
<1>5. DescriptorsOpen' /\ AdmittedStages' /\ RequestedClass'
  BY ProcAssumption, RequestsAssumption DEF IInv, TypeOK, DescriptorsOpen, AdmittedStages,
     RequestedClass, InContext, Running, LaneClass, Lanes, Classes, Alive, Waiting, Granted,
     ProbeLock, tree, job
<1>6. GenerationStable'
  BY ProcAssumption, RequestsAssumption DEF IInv, GenerationStable, TypeOK, AdmittedStages,
     KernelExclusion, OwnerLocks, Running, Lanes, Alive, Waiting, Granted, ProbeLock, tree, job
<1> QED BY <1>1, <1>2, <1>3, <1>4, <1>5, <1>6 DEF IInv

(* Its unlock touches no other lock. *)
LEMMA ProbeUnlockInv == ASSUME IInv, NEW l \in Probed, ProbeUnlock(l) PROVE IInv'
<1>1. TypeOK'
  BY BoundsAssumption, RequestsAssumption DEF IInv, TypeOK, DescendantLocks, NoToken, Empty,
     Lanes, Classes, Alive, Waiting, Granted, ProbeUnlock, tree, job
<1>2. KernelExclusion'
  BY ProcAssumption, RequestsAssumption DEF IInv, KernelExclusion, TypeOK, OwnerLocks, Lanes,
     Alive, Waiting, Granted, ProbeUnlock, tree, job
<1>3. OwnerLocks'
  <2>1. ASSUME NEW r \in Proc PROVE pc'[r] \in Granted \cup {"slot0"} => admission'[lane'[r]] = r
    BY ProcAssumption, RequestsAssumption DEF IInv, OwnerLocks, TypeOK, KernelExclusion,
       DescendantLocks, AdmittedStages, Running, Lanes, Alive, Waiting, Granted, ProbeUnlock,
       tree, job
  <2>2. ASSUME NEW r \in Proc PROVE pc'[r] = "slot1" => admission'["heavy2"] = r
    BY ProcAssumption, RequestsAssumption DEF IInv, OwnerLocks, TypeOK, KernelExclusion,
       DescendantLocks, AdmittedStages, Running, Lanes, Alive, Waiting, Granted, ProbeUnlock,
       tree, job
  <2>3. ASSUME NEW r \in Proc PROVE pc'[r] \in {"truncate", "write", "convert"} => exclusive'[lane'[r]] = r
    BY ProcAssumption, RequestsAssumption DEF IInv, OwnerLocks, TypeOK, KernelExclusion,
       DescendantLocks, AdmittedStages, Running, Lanes, Alive, Waiting, Granted, ProbeUnlock,
       tree, job
  <2>4. ASSUME NEW r \in Proc PROVE pc'[r] \in {"convert", "share"} => file'[lane'[r]] = gen'[r] /\ depth'[r] = 0
    BY ProcAssumption, RequestsAssumption DEF IInv, OwnerLocks, TypeOK, KernelExclusion,
       DescendantLocks, AdmittedStages, Running, Lanes, Alive, Waiting, Granted, ProbeUnlock,
       tree, job
  <2>5. ASSUME NEW r \in Proc PROVE pc'[r] \in Running /\ depth'[r] = 0 => admission'[lane'[r]] = r
    BY ProcAssumption, RequestsAssumption DEF IInv, OwnerLocks, TypeOK, KernelExclusion,
       DescendantLocks, AdmittedStages, Running, Lanes, Alive, Waiting, Granted, ProbeUnlock,
       tree, job
  <2> QED BY <2>1, <2>2, <2>3, <2>4, <2>5 DEF OwnerLocks
<1>4. DescendantLocks'
  BY ProcAssumption, RequestsAssumption DEF IInv, DescendantLocks, TypeOK, OwnerLocks, NoToken,
     Alive, Waiting, Granted, ProbeUnlock, tree, job
<1>5. DescriptorsOpen' /\ AdmittedStages' /\ RequestedClass'
  BY ProcAssumption, RequestsAssumption DEF IInv, TypeOK, DescriptorsOpen, AdmittedStages,
     RequestedClass, InContext, Running, LaneClass, Lanes, Classes, Alive, Waiting, Granted,
     ProbeUnlock, tree, job
<1>6. GenerationStable'
  BY ProcAssumption, RequestsAssumption DEF IInv, GenerationStable, TypeOK, AdmittedStages,
     KernelExclusion, OwnerLocks, Running, Lanes, Alive, Waiting, Granted, ProbeUnlock, tree,
     job
<1> QED BY <1>1, <1>2, <1>3, <1>4, <1>5, <1>6 DEF IInv

-----------------------------------------------------------------------------
(* The initial state has no open context and no lock. *)
LEMMA InitInv == Init => IInv
<1> SUFFICES ASSUME Init PROVE IInv
  OBVIOUS
<1>1. TypeOK
  BY BoundsAssumption DEF Init, TypeOK, Alive, Lanes, Classes, NoToken, Empty
<1>2. DescriptorsOpen /\ AdmittedStages /\ GenerationStable
  BY DEF Init, DescriptorsOpen, AdmittedStages, GenerationStable, InContext, Alive, Waiting,
     Granted
<1>3. KernelExclusion
  BY DEF Init, KernelExclusion
<1>4. OwnerLocks /\ RequestedClass
  BY DEF Init, OwnerLocks, RequestedClass, Waiting, Granted, Running
<1>5. DescendantLocks
  BY DEF Init, DescendantLocks
<1> QED BY <1>1, <1>2, <1>3, <1>4, <1>5 DEF IInv

(* A step that changes nothing keeps the invariant. *)
LEMMA StutterInv == IInv /\ UNCHANGED vars => IInv'
BY DEF vars, IInv, TypeOK, DescriptorsOpen, KernelExclusion, OwnerLocks, DescendantLocks,
   AdmittedStages,
   RequestedClass, GenerationStable

(* Every step of heavy_work(), of a process tree or of a snapshot keeps the *)
(* invariant.                                                               *)
LEMMA NextInv == IInv /\ [Next]_vars => IInv'
<1> SUFFICES ASSUME IInv, [Next]_vars PROVE IInv'
  OBVIOUS
<1>1. CASE UNCHANGED vars
  BY <1>1, StutterInv
<1>2. ASSUME NEW p \in Proc, Step(p) PROVE IInv'
  BY <1>2, VerifyAncestorInv, NotInheritedInv, JoinActivityInv, JoinRefusedInv,
         AdmitDescendantInv, GenerationChangedInv, RefuseUpgradeInv,
         TakeBranchInv, KeepLaneInv, ReopenLaneInv, RegisterInv, PassGateInv,
         NotHeadInv, TakeAdmissionInv, AdmissionBusyInv, TakeSlotZeroInv,
         SlotZeroBusyInv, TrySpareInv, SkipSpareInv, TakeSpareInv, SpareBusyInv,
         TruncateInv, WriteGenerationInv, DropExclusiveInv, TakeSharedInv,
         WriteHolderInv DEF Step
<1>3. ASSUME NEW p \in Proc, Leave(p) \/ Cancel(p) \/ Die(p) PROVE IInv'
  BY <1>3, LeaveInv, CancelInv, DieInv
<1>4. ASSUME NEW p \in Proc, NEW class \in Requests, Enter(p, class) PROVE IInv'
  BY <1>4, EnterInv
<1>5. ASSUME NEW p \in Proc, NEW q \in Proc, Spawn(p, q) PROVE IInv'
  BY <1>5, SpawnInv
<1>6. ASSUME NEW l \in Probed, ProbeLock(l) \/ ProbeUnlock(l) PROVE IInv'
  BY <1>6, ProbeLockInv, ProbeUnlockInv
<1> QED BY <1>1, <1>2, <1>3, <1>4, <1>5, <1>6 DEF Next

(* The inductive invariant holds in every reachable state. *)
THEOREM Invariance == Spec => []IInv
BY InitInv, NextInv, PTL DEF Spec

(* Every variable keeps its type, for any set of processes and any depth. *)
THEOREM TypeCorrect == Spec => []TypeOK
<1>1. IInv => TypeOK
  BY DEF IInv
<1> QED BY <1>1, Invariance, PTL

(* While a context admitted to a lane has descriptors open anywhere, the   *)
(* lane's stored generation is the context's and its shared lock is held.  *)
THEOREM GenerationIsStable == Spec => []GenerationStable
<1>1. IInv => GenerationStable
  BY DEF IInv
<1> QED BY <1>1, Invariance, PTL

(* One generation per lane: crashes, orphans, stale leases and snapshot    *)
(* probes included, no lane ever serves two admissions at once.            *)
THEOREM LanesAreExclusive == Spec => []LaneExclusive
<1>1. IInv => LaneExclusive
  BY DEF IInv, GenerationStable, LaneExclusive
<1> QED BY <1>1, Invariance, PTL

(* At most one context works at each nesting depth of a lane. *)
THEOREM SiblingsSerialize == Spec => []OneContextPerDepth
<1>1. IInv => OneContextPerDepth
  <2> SUFFICES ASSUME IInv, NEW p \in Proc, NEW q \in Proc, pc[p] = "active", pc[q] = "active",
                      lane[p] = lane[q], depth[p] = depth[q]
               PROVE  p = q
    BY DEF OneContextPerDepth
  <2>1. CASE depth[p] = 0
    BY <2>1 DEF IInv, OwnerLocks, Running
  <2>2. CASE depth[p] # 0
    BY <2>2 DEF IInv, DescendantLocks
  <2> QED BY <2>1, <2>2
<1> QED BY <1>1, Invariance, PTL

(* Work that asked for the heavy class never runs in the light lane. *)
THEOREM LightIsNeverUpgraded == Spec => []NoLightUpgrade
<1>1. IInv => NoLightUpgrade
  BY DEF IInv, RequestedClass, Running, NoLightUpgrade
<1> QED BY <1>1, Invariance, PTL

-----------------------------------------------------------------------------
(* The queue.  Whoever tries the lanes holds queue.lock and is still the   *)
(* head when it gets one: arrivals number themselves under the same lock,  *)
(* and reclaiming removes no file of a live waiter.                        *)

Trying == {"slot0", "spare", "slot1"}

QueueInv ==
    /\ \A q \in Proc : pc[q] \in Waiting => order[q] # 0
    /\ \A q \in Proc : pc[q] \in Trying => meta = q /\ IsHead(q)

(* A step of p by which nobody starts to wait or to try, and no waiter's   *)
(* number or class changes, keeps the head the head.                       *)
LEMMA QueueKept ==
    ASSUME QueueInv, NEW p \in Proc,
           \A q \in Proc : q # p => pc'[q] = pc[q],
           pc'[p] \in Waiting => pc[p] \in Waiting,
           pc'[p] \in Trying => pc[p] \in Trying /\ meta' = p,
           \A q \in Proc : pc'[q] \in Waiting => order'[q] = order[q] /\ want'[q] = want[q],
           \A q \in Proc : q # p /\ pc[q] \in Trying => meta' = meta
    PROVE  QueueInv'
<1>1. \A q \in Proc : pc'[q] \in Waiting => pc[q] \in Waiting
  OBVIOUS
<1>2. ASSUME NEW q \in Proc, pc'[q] \in Waiting PROVE order'[q] # 0
  BY <1>1, <1>2 DEF QueueInv
<1>3. ASSUME NEW q \in Proc, pc'[q] \in Trying PROVE meta' = q /\ IsHead(q)'
  <2>1. pc[q] \in Trying /\ pc'[q] \in Waiting
    BY <1>3 DEF Trying, Waiting
  <2>2. meta' = q
    BY <1>3, <2>1 DEF QueueInv
  <2>3. ASSUME NEW r \in Proc, order'[r] # 0, want'[r] = want'[q], pc'[r] \in Waiting
        PROVE  order'[q] <= order'[r]
    <3>1. /\ order'[r] = order[r] /\ want'[r] = want[r] /\ pc[r] \in Waiting
          /\ order'[q] = order[q] /\ want'[q] = want[q]
      BY <1>1, <2>1, <2>3
    <3>2. IsHead(q)
      BY <2>1 DEF QueueInv
    <3> QED BY <2>3, <3>1, <3>2 DEF IsHead, LiveWaiters
  <2> QED BY <2>2, <2>3 DEF IsHead, LiveWaiters
<1> QED BY <1>2, <1>3 DEF QueueInv

(* _waiters unlinks no file of a live waiter. *)
LEMMA ReclaimKeeps ==
    ASSUME QueueInv, NEW q \in Proc, pc[q] \in Waiting, NEW c
    PROVE  Reclaimed(c)[q] = order[q]
BY DEF QueueInv, Reclaimed, LiveWaiters

(* A step that moves p to another place and leaves the queue alone. *)
LEMMA PlainKept ==
    ASSUME QueueInv, TypeOK, NEW p \in Proc, NEW there, pc' = [pc EXCEPT ![p] = there],
           there \in Waiting => pc[p] \in Waiting, there \in Trying => pc[p] \in Trying,
           UNCHANGED <<want, order, meta>>
    PROVE  QueueInv'
<1>1. pc'[p] = there /\ \A q \in Proc : q # p => pc'[q] = pc[q]
  BY DEF TypeOK
<1>2. pc'[p] \in Trying => pc[p] \in Trying /\ meta' = p
  BY <1>1 DEF QueueInv
<1> QED BY <1>1, <1>2, QueueKept

(* A step by which p, who may hold queue.lock, leaves it: nobody else was  *)
(* trying.                                                                 *)
LEMMA ReleaseKept ==
    ASSUME QueueInv, TypeOK, NEW p \in Proc, NEW there, pc' = [pc EXCEPT ![p] = there],
           there \in Waiting => pc[p] \in Waiting, there \notin Trying,
           want' = want, meta' = meta \/ meta = p,
           \A q \in Proc : pc'[q] \in Waiting => order'[q] = order[q]
    PROVE  QueueInv'
<1>1. pc'[p] = there /\ \A q \in Proc : q # p => pc'[q] = pc[q]
  BY DEF TypeOK
<1>2. \A q \in Proc : q # p /\ pc[q] \in Trying => meta' = meta
  BY DEF QueueInv
<1> QED BY <1>1, <1>2, QueueKept

(* Outside the queue, and between the lanes of a try, nothing about the    *)
(* queue changes.                                                          *)
LEMMA OutsideQueue ==
    ASSUME QueueInv, TypeOK, NEW p \in Proc,
           \/ VerifyAncestor(p) \/ NotInherited(p) \/ JoinActivity(p) \/ JoinRefused(p)
           \/ AdmitDescendant(p) \/ GenerationChanged(p) \/ RefuseUpgrade(p)
           \/ TakeBranch(p) \/ KeepLane(p) \/ ReopenLane(p) \/ PassGate(p)
           \/ SlotZeroBusy(p) \/ TrySpare(p) \/ Truncate(p) \/ WriteGeneration(p)
           \/ DropExclusive(p) \/ TakeShared(p) \/ WriteHolder(p) \/ Leave(p)
    PROVE  QueueInv'
<1>1. UNCHANGED <<want, order, meta>>
  BY DEF VerifyAncestor, NotInherited, JoinActivity, JoinRefused, AdmitDescendant, GenerationChanged,
     RefuseUpgrade, TakeBranch, KeepLane, ReopenLane, PassGate, SlotZeroBusy, ActivityBusy, TrySpare,
     Truncate, WriteGeneration, DropExclusive, TakeShared, WriteHolder, Leave, CloseTo
<1>2. PICK there \in {"verified", "rejoin", "shared", "branch", "done", "active", "register", "try",
                      "spare", "slot1", "write", "convert", "share", "holder"} :
        /\ pc' = [pc EXCEPT ![p] = there]
        /\ there \in Waiting => pc[p] \in Waiting
        /\ there \in Trying => pc[p] \in Trying
  BY DEF VerifyAncestor, NotInherited, JoinActivity, JoinRefused, AdmitDescendant, GenerationChanged,
     RefuseUpgrade, TakeBranch, KeepLane, ReopenLane, PassGate, SlotZeroBusy, ActivityBusy, TrySpare,
     Truncate, WriteGeneration, DropExclusive, TakeShared, WriteHolder, Leave, At, Waiting, Trying
<1> QED BY <1>1, <1>2, PlainKept

(* A grant, a failed try, an exception or a crash gives queue.lock back.   *)
LEMMA LeavesQueue ==
    ASSUME QueueInv, TypeOK, NEW p \in Proc,
           \/ TakeSlotZero(p) \/ TakeSpare(p) \/ SkipSpare(p) \/ SpareBusy(p)
           \/ NotHead(p) \/ Cancel(p) \/ Die(p)
    PROVE  QueueInv'
<1>1. want' = want
  BY DEF TakeSlotZero, TakeSpare, TakeActivity, SkipSpare, SpareBusy, ActivityBusy, NotHead, Cancel, Die,
     CloseTo
<1>2. meta' = meta \/ meta = p
  <2>1. CASE TakeSlotZero(p) \/ TakeSpare(p) \/ SkipSpare(p) \/ SpareBusy(p)
    BY <2>1 DEF TakeSlotZero, TakeSpare, TakeActivity, SkipSpare, SpareBusy, ActivityBusy, At, QueueInv,
       Trying
  <2>2. CASE NotHead(p) \/ Cancel(p) \/ Die(p)
    BY <2>2 DEF NotHead, Cancel, Die
  <2> QED BY <2>1, <2>2
<1>3. PICK there \in {"truncate", "gate", "done", "dead"} :
        pc' = [pc EXCEPT ![p] = there] /\ (there \in Waiting => pc[p] \in Waiting)
  BY DEF TakeSlotZero, TakeSpare, TakeActivity, SkipSpare, SpareBusy, ActivityBusy, NotHead, Cancel, Die,
     At, Waiting
<1>4. pc'[p] = there /\ (\A q \in Proc : q # p => pc'[q] = pc[q]) /\ there \notin Trying
  BY <1>3 DEF TypeOK, Trying
<1>5. ASSUME NEW q \in Proc, pc'[q] \in Waiting PROVE order'[q] = order[q]
  <2>0. pc[q] \in Waiting
    BY <1>3, <1>4, <1>5
  <2>1. CASE TakeSlotZero(p) \/ TakeSpare(p) \/ Cancel(p)
    <3>1. order' = [order EXCEPT ![p] = 0]
      BY <2>1 DEF TakeSlotZero, TakeSpare, TakeActivity, Cancel
    <3>2. pc'[p] \in {"truncate", "done"}
      BY <2>1 DEF TakeSlotZero, TakeSpare, TakeActivity, At, Cancel, TypeOK
    <3>3. q # p
      BY <1>5, <3>2 DEF Waiting
    <3> QED BY <3>1, <3>3 DEF TypeOK
  <2>2. CASE NotHead(p)
    BY <2>0, <2>2, ReclaimKeeps DEF NotHead
  <2>3. CASE SkipSpare(p) \/ SpareBusy(p) \/ Die(p)
    BY <2>3 DEF SkipSpare, SpareBusy, ActivityBusy, Die
  <2> QED BY <2>1, <2>2, <2>3
<1> QED BY <1>1, <1>2, <1>3, <1>4, <1>5, ReleaseKept

(* The head takes queue.lock, which was free: nobody else is trying. *)
LEMMA HeadTries ==
    ASSUME QueueInv, TypeOK, NEW p \in Proc, TakeAdmission(p) \/ AdmissionBusy(p)
    PROVE  QueueInv'
<1>1. /\ pc[p] = "try" /\ pc'[p] \in {"slot0", "spare"} /\ meta = NoProc /\ meta' = p
      /\ \A q \in Proc : q # p => pc'[q] = pc[q]
      /\ order' = Reclaimed(want[p]) /\ want' = want /\ IsHead(p)
  BY DEF TakeAdmission, AdmissionBusy, At, TypeOK
<1>2. \A q \in Proc : pc'[q] \in Waiting => pc[q] \in Waiting
  BY <1>1 DEF Waiting
<1>3. \A q \in Proc : pc'[q] \in Waiting => order'[q] = order[q]
  BY <1>1, <1>2, ReclaimKeeps
<1>4. \A q \in Proc : pc'[q] \in Trying => q = p
  BY <1>1, ProcAssumption DEF QueueInv
<1>5. IsHead(p)'
  <2>1. pc'[p] \in Waiting
    BY <1>1 DEF Waiting
  <2>2. ASSUME NEW r \in Proc, order'[r] # 0, want'[r] = want'[p], pc'[r] \in Waiting
        PROVE  order'[p] <= order'[r]
    BY <1>1, <1>2, <1>3, <2>1, <2>2 DEF IsHead, LiveWaiters
  <2> QED BY <2>2 DEF IsHead, LiveWaiters
<1>6. \A q \in Proc : pc'[q] \in Waiting => order'[q] # 0
  BY <1>2, <1>3 DEF QueueInv
<1> QED BY <1>1, <1>4, <1>5, <1>6 DEF QueueInv

(* A new waiter takes its number while queue.lock is free. *)
LEMMA RegisterKept ==
    ASSUME QueueInv, TypeOK, NEW p \in Proc, Register(p)
    PROVE  QueueInv'
<1>1. PICK n \in 1..MaxOrder : order' = [Reclaimed(want[p]) EXCEPT ![p] = n]
  BY DEF Register
<1>2. /\ pc'[p] = "gate" /\ meta = NoProc
      /\ \A q \in Proc : q # p => pc'[q] = pc[q]
  BY DEF Register, At, TypeOK
<1>3. order'[p] = n /\ \A q \in Proc : q # p => order'[q] = Reclaimed(want[p])[q]
  BY <1>1 DEF Reclaimed
<1>4. \A q \in Proc : pc'[q] \in Waiting => order'[q] # 0
  <2>1. ASSUME NEW q \in Proc, q # p, pc'[q] \in Waiting PROVE order'[q] # 0
    BY <1>2, <1>3, <2>1, ReclaimKeeps DEF QueueInv
  <2> QED BY <1>3, <2>1
<1>5. \A q \in Proc : pc'[q] \notin Trying
  BY <1>2, ProcAssumption DEF QueueInv, Trying
<1> QED BY <1>4, <1>5 DEF QueueInv

(* Every step keeps the order of the queue. *)
LEMMA QueueStep == QueueInv /\ TypeOK /\ [Next]_vars => QueueInv'
<1> SUFFICES ASSUME QueueInv, TypeOK, [Next]_vars PROVE QueueInv'
  OBVIOUS
<1>1. CASE UNCHANGED <<pc, want, order, meta>>
  BY <1>1 DEF QueueInv, IsHead, LiveWaiters
<1>2. CASE UNCHANGED vars
  BY <1>1, <1>2 DEF vars
<1>3. ASSUME NEW p \in Proc, Step(p) \/ Leave(p) \/ Cancel(p) \/ Die(p) PROVE QueueInv'
  BY <1>3, OutsideQueue, LeavesQueue, HeadTries, RegisterKept DEF Step
<1>4. ASSUME NEW p \in Proc, NEW class \in Requests, Enter(p, class) PROVE QueueInv'
  <2>1. pc'[p] = "open" /\ UNCHANGED <<order, meta>>
    BY <1>4 DEF Enter, At, TypeOK
  <2>2. \A q \in Proc : q # p => pc'[q] = pc[q] /\ want'[q] = want[q]
    BY <1>4 DEF Enter, At, TypeOK
  <2> QED BY <2>1, <2>2, QueueKept DEF Waiting, Trying
<1>5. ASSUME NEW p \in Proc, NEW q \in Proc, Spawn(p, q) PROVE QueueInv'
  <2>1. pc' = [pc EXCEPT ![q] = "out"] /\ UNCHANGED <<want, order, meta>>
    BY <1>5 DEF Spawn
  <2> QED BY <2>1, PlainKept DEF Waiting, Trying
<1>6. ASSUME NEW l \in Probed, ProbeLock(l) \/ ProbeUnlock(l) PROVE QueueInv'
  BY <1>1, <1>6 DEF ProbeLock, ProbeUnlock, job
<1> QED BY <1>2, <1>3, <1>4, <1>5, <1>6 DEF Next

(* Only _try_lane grants a lane. *)
LEMMA GrantedWhileTrying ==
    ASSUME TypeOK, Next, NEW p \in Proc, pc[p] \in Waiting, pc'[p] = "truncate"
    PROVE  pc[p] \in Trying
<1>1. pc'[p] # pc[p]
  BY DEF Waiting
<1>2. ASSUME NEW q \in Proc, Step(q) PROVE pc[p] \in Trying
  <2>1. CASE TakeSlotZero(q) \/ TakeSpare(q)
    BY <1>1, <2>1 DEF TakeSlotZero, TakeSpare, TakeActivity, At, Trying, TypeOK
  <2>2. CASE ~(TakeSlotZero(q) \/ TakeSpare(q))
    <3>1. pc'[q] # "truncate" /\ \A r \in Proc : r # q => pc'[r] = pc[r]
      BY <1>2, <2>2 DEF Step, VerifyAncestor, NotInherited, JoinActivity, JoinRefused, AdmitDescendant,
         GenerationChanged, RefuseUpgrade, TakeBranch, KeepLane, ReopenLane, Register, PassGate, NotHead,
         TakeAdmission, AdmissionBusy, SlotZeroBusy, ActivityBusy, TrySpare, SkipSpare, SpareBusy,
         Truncate, WriteGeneration, DropExclusive, TakeShared, WriteHolder, At, TypeOK
    <3> QED BY <1>1, <3>1
  <2> QED BY <2>1, <2>2
<1>3. ASSUME NEW q \in Proc, Leave(q) \/ Cancel(q) \/ Die(q) PROVE FALSE
  BY <1>1, <1>3 DEF Leave, Cancel, Die, At, TypeOK
<1>4. ASSUME NEW q \in Proc, NEW class \in Requests, Enter(q, class) PROVE FALSE
  BY <1>1, <1>4 DEF Enter, At, TypeOK
<1>5. ASSUME NEW r \in Proc, NEW q \in Proc, Spawn(r, q) PROVE FALSE
  BY <1>1, <1>5 DEF Spawn, TypeOK
<1>6. ASSUME NEW l \in Probed, ProbeLock(l) \/ ProbeUnlock(l) PROVE FALSE
  BY <1>1, <1>6 DEF ProbeLock, ProbeUnlock, job
<1> QED BY <1>2, <1>3, <1>4, <1>5, <1>6 DEF Next

(* A process that tries the lanes holds queue.lock and has the lowest      *)
(* number of its class.                                                    *)
THEOREM HeadHoldsQueue == Spec => []QueueInv
<1>1. Init => QueueInv
  BY DEF Init, QueueInv, Waiting, Trying
<1> QED BY <1>1, QueueStep, TypeCorrect, PTL DEF Spec

(* FIFO per class for any number of processes: no waiter is admitted       *)
(* before a live one of its class that arrived earlier, whoever crashes,   *)
(* cancels or is reclaimed in between.                                     *)
THEOREM QueueIsFifo == Spec => NoOvertaking
<1>1. /\ QueueInv /\ TypeOK /\ [Next]_vars
      => [\A p, q \in Proc :
            /\ pc[p] \in Waiting /\ pc'[p] = "truncate"
            /\ pc[q] \in Waiting /\ want[q] = want[p]
            => order[p] <= order[q]]_vars
  <2> SUFFICES ASSUME QueueInv, TypeOK, Next, NEW p \in Proc, NEW q \in Proc,
                      pc[p] \in Waiting, pc'[p] = "truncate", pc[q] \in Waiting, want[q] = want[p]
               PROVE  order[p] <= order[q]
    OBVIOUS
  <2>1. IsHead(p)
    BY GrantedWhileTrying DEF QueueInv
  <2>2. order[q] # 0
    BY DEF QueueInv
  <2> QED BY <2>1, <2>2 DEF IsHead, LiveWaiters
<1> QED BY <1>1, HeadHoldsQueue, TypeCorrect, PTL DEF Spec, NoOvertaking
=============================================================================
