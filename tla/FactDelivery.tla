---------------------------- MODULE FactDelivery ----------------------------
(***************************************************************************)
(* What the event backbone promises of a recorded fact, whatever outbox,   *)
(* broker and consumer carry it: it is recorded once and never taken back, *)
(* it moves the read model at most once, only after it was recorded, and   *)
(* in the end it has moved it or was visibly set aside.                    *)
(***************************************************************************)
EXTENDS Naturals

CONSTANT Events

VARIABLES
    recorded,   \* facts in the log
    moved,      \* moved[e]: how often e moved the read model
    setAside    \* facts dead-lettered, quarantined or never routed

factVars == <<recorded, moved, setAside>>

Init ==
    /\ recorded = {}
    /\ moved = [e \in Events |-> 0]
    /\ setAside = {}

Record(e) ==
    /\ e \notin recorded
    /\ recorded' = recorded \union {e}
    /\ UNCHANGED <<moved, setAside>>

Project(e) ==
    /\ e \in recorded
    /\ moved[e] = 0
    /\ moved' = [moved EXCEPT ![e] = 1]
    /\ UNCHANGED <<recorded, setAside>>

\* Several facts may be set aside at once: one drain quarantines every row it gave up on.
SetAside(facts) ==
    /\ facts \subseteq recorded
    /\ setAside' = setAside \union facts
    /\ UNCHANGED <<recorded, moved>>

Settled(e) == moved[e] = 1 \/ e \in setAside

Next ==
    \/ \E e \in Events : Record(e) \/ Project(e)
    \/ \E facts \in SUBSET recorded : SetAside(facts)

SafeSpec == Init /\ [][Next]_factVars

Liveness == \A e \in Events : e \in recorded ~> Settled(e)

Spec == SafeSpec /\ Liveness
=============================================================================
