--------------------------- MODULE MCEventBackbone ---------------------------
(* Instances of EventBackbone for TLC. *)
EXTENDS EventBackbone, TLC

CONSTANTS e1, e2, e3

\* e1 is case.created, e2 is case.decided of the same case.
DecidedAfterCreated == [e \in Events |-> IF e = e2 THEN {e1} ELSE {}]

RelaySymmetry == Permutations(Relays)
=============================================================================
