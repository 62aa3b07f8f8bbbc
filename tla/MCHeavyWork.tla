---------------------------- MODULE MCHeavyWork ----------------------------
(* HeavyWork with three processes of one user: an owner, a descendant or a  *)
(* competitor, and one more of either kind.                                 *)
EXTENDS HeavyWork, TLC

CONSTANTS p1, p2, p3

ThreeProcs == {p1, p2, p3}

(* Processes are interchangeable. *)
ProcSymmetry == Permutations(Proc)
=============================================================================
