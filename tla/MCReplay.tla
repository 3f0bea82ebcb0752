------------------------------ MODULE MCReplay ------------------------------
(***************************************************************************)
(* Instances of Replay: what each fact says, by its name.                  *)
(***************************************************************************)
EXTENDS Replay

CONSTANTS
    c1,         \* it is created, a rule fires twice, it is decided and decided again
    created1, finding1, finding2, decided1, again1,
    r1, low, high, d1, d2

KindByName == [f \in Facts |-> CASE f = created1 -> "created"
                                 [] f \in {finding1, finding2} -> "finding"
                                 [] OTHER -> "decided"]
CaseByName == [f \in Facts |-> c1]
DayByName == [f \in Facts |-> IF f \in {decided1, again1} THEN d2 ELSE d1]
RuleByName == [f \in Facts |-> r1]
SeverityByName == [f \in Facts |-> IF f = finding2 THEN high ELSE low]
=============================================================================
