----------------------------- MODULE MCCaseJobs -----------------------------
(***************************************************************************)
(* Instances of CaseJobs.                                                  *)
(***************************************************************************)
EXTENDS CaseJobs

CONSTANTS k1, k2, w1, w2
WorkerSymmetry == Permutations(Workers)
=============================================================================
