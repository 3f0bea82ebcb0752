------------------------- MODULE MCPolicyLifecycle -------------------------
(***************************************************************************)
(* Instances of PolicyLifecycle.                                           *)
(***************************************************************************)
EXTENDS PolicyLifecycle

CONSTANTS p1, p2, w1, w2
WorkerSymmetry == Permutations(Workers)
=============================================================================
