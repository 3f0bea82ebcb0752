--------------------------- MODULE MCPackVersions ---------------------------
(***************************************************************************)
(* Instances of PackVersions.  p1 proposes a new field, p2 a wording for   *)
(* the field every catalogue has, c1 is a collection somebody names; the   *)
(* release old installs 1.0.0 and the release new 1.1.0, a number that     *)
(* administrators mint as well.                                            *)
(***************************************************************************)
EXTENDS PackVersions

CONSTANTS p1, p2, c1, a1, a2, old, new, compiled, added

Additions == [s \in Subjects |-> s]
AliasFields == [p \in Proposals \ NewFields |-> compiled]

VersionOf == [r \in Releases |-> IF r = new THEN <<1, 1>> ELSE <<1, 0>>]
ContentOf == [r \in Releases |-> IF r = new THEN {compiled, added} ELSE {compiled}]

\* One reviewer per proposal.
OwnTasks == {<<a1, "approved", p1>>, <<a1, "rejected", p1>>, <<a2, "approved", p2>>,
             <<a2, "created", c1>>}

\* The instance meets what the theorems about approvals suppose.
ASSUME InstanceAssumption == ReleasesFollow /\ OwnSubjects
=============================================================================
