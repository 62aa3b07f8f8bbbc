----------------------------- MODULE MCSettling -----------------------------
(***************************************************************************)
(* What is under way gets settled: automation runs (AutomationDispatch)    *)
(* and tasks with a pending closeout (TaskLifecycle).  The two do not      *)
(* meet, so a behaviour has one of them at work (its scene) while the      *)
(* other stays in its initial state.                                       *)
(***************************************************************************)
EXTENDS AutomationDispatch, TLC

CONSTANTS w1, w2, w3, c1, k1, p1, p2, v1, v2, s1, NoOwner, NoSource, NoProc

VARIABLES scene,
    task, checkpoint, closer, cli, claims, requests, evidence, asked, dead, stops

closeoutVars ==
    <<task, checkpoint, closer, cli, claims, requests, evidence, asked, dead, stops>>

ThreeWorkers == {w1, w2, w3}
OneClient == {c1}
OneKey == {k1}

Closeouts == INSTANCE TaskLifecycle WITH
    Proc <- {p1, p2}, Worker <- {v1, v2}, WorkerOf <- p1 :> v1 @@ p2 :> v2, Source <- {s1},
    Landed <- {}, Required <- TRUE, MaxClaims <- 1, MaxRequests <- 1, MaxStops <- 1, NoWorker <- NoOwner

ScenesInit == Init /\ Closeouts!Init /\ scene \in {"dispatch", "closeouts"}

ScenesNext ==
    /\ UNCHANGED scene
    /\ \/ scene = "dispatch" /\ Next /\ UNCHANGED closeoutVars
       \/ scene = "closeouts" /\ Closeouts!Next /\ UNCHANGED vars

(* The fairness of each component's FairSpec, in its scene. *)
ScenesFairness ==
    /\ \A w \in ThreeWorkers : WF_vars(scene = "dispatch" /\ WorkerStep(w))
    /\ WF_vars(scene = "dispatch" /\ ClientStep(c1))
    /\ WF_vars(scene = "dispatch" /\ Reconcile(c1))
    /\ WF_vars(scene = "dispatch" /\ OwnerAdvances)
    /\ \A p \in {p1, p2} :
        /\ WF_closeoutVars(scene = "closeouts" /\ Closeouts!Step(p))
        /\ SF_closeoutVars(scene = "closeouts" /\ Closeouts!DoneReads(p))

ScenesSpec == ScenesInit /\ [][ScenesNext]_<<scene, vars, closeoutVars>> /\ ScenesFairness

-----------------------------------------------------------------------------
(* No closeout stays pending, through kills and a contended lock           *)
(* (task_closeout).                                                        *)
PendingCloseoutSettles == Closeouts!PendingCloseoutSettles
=============================================================================
