----------------------- MODULE MCAutomationDispatch -----------------------
(* AutomationDispatch with two Hatchet runs and two clients.               *)
EXTENDS AutomationDispatch, TLC

CONSTANTS w1, w2, c1, c2, k1, k2

Workers == {w1, w2}
Clients == {c1, c2}
Keys == {k1, k2}

(* Ids, requests and keys are interchangeable. *)
Symmetry == Permutations(Worker) \cup Permutations(Client) \cup Permutations(Key)
=============================================================================
