---------------------------- MODULE Projections ----------------------------
(***************************************************************************)
(* The analytics read model: its tables, how one fact changes them         *)
(* (projections.ts), and what they should hold for a given history.        *)
(*                                                                         *)
(* A case's pack is "known" when case_dimensions remembers it.  Outcomes,  *)
(* durations and tenants are data the behaviour does not depend on: a      *)
(* cycle-time row is the decision it was last written by, and the outcome  *)
(* columns are counted together.                                           *)
(***************************************************************************)
EXTENDS Naturals, FiniteSets, Sequences

CONSTANTS
    Facts,      \* ids of the domain events
    Cases, Rules, Severities, Days,
    KindOf,     \* KindOf[f]: "created", "decided" or "finding"
    CaseOf,     \* the aggregate
    DayOf,      \* occurredAt, bucketed
    RuleOf, SeverityOf,     \* the payload of a finding
    NoFact

ASSUME FactsAssumption ==
    /\ IsFiniteSet(Facts)
    /\ KindOf \in [Facts -> {"created", "decided", "finding"}]
    /\ CaseOf \in [Facts -> Cases]
    /\ DayOf \in [Facts -> Days]
    /\ RuleOf \in [Facts -> Rules]
    /\ SeverityOf \in [Facts -> Severities]
    /\ NoFact \notin Facts

Packs == {"known", "unknown"}
ThroughputKeys == Days \X Packs
RuleKeys == Rules \X Severities
FindingKeys == Cases \X Rules \X Severities

ReadModels ==
    [throughput : [ThroughputKeys -> [created : Nat, decided : Nat]],
     cycleTime : [Cases -> Facts \union {NoFact}],
     dimensions : SUBSET Cases,
     findings : SUBSET FindingKeys,
     effectiveness : [RuleKeys -> [raised : Nat, concluded : Nat]],
     processed : SUBSET Facts,
     lastSequence : Nat]

EmptyReadModel ==
    [throughput |-> [k \in ThroughputKeys |-> [created |-> 0, decided |-> 0]],
     cycleTime |-> [c \in Cases |-> NoFact],
     dimensions |-> {},
     findings |-> {},
     effectiveness |-> [k \in RuleKeys |-> [raised |-> 0, concluded |-> 0]],
     processed |-> {},
     lastSequence |-> 0]

-----------------------------------------------------------------------------
(* One fact applied. *)

RuleKey(f) == <<RuleOf[f], SeverityOf[f]>>
FindingKey(f) == <<CaseOf[f], RuleOf[f], SeverityOf[f]>>

\* Mutant: the severity is part of the key.
SameFinding(rows, f) == rows \intersect {FindingKey(f)}

\* Rows of case_findings that conflict with f's: the key is (case, rule), not the severity.
Conflicting(rows, f) == {row \in rows : row[1] = CaseOf[f] /\ row[2] = RuleOf[f]}

FindingRaised(db, f) ==
    [db EXCEPT !.findings = IF Conflicting(@, f) = {} THEN @ \union {FindingKey(f)} ELSE @,
               !.effectiveness[RuleKey(f)].raised = @ + 1]

CaseCreated(db, f) ==
    [db EXCEPT !.dimensions = @ \union {CaseOf[f]},
               !.throughput[<<DayOf[f], "known">>].created = @ + 1]

\* Rows the update of rule_effectiveness reaches: those of the case's findings that exist.
RulesOfCase(db, c) ==
    {k \in RuleKeys : <<c, k[1], k[2]>> \in db.findings /\ db.effectiveness[k].raised > 0}

\* The rows of rule_effectiveness once a decision concluded the rules of case c.
Concluded(db, c) ==
    [k \in RuleKeys |->
        IF k \in RulesOfCase(db, c)
        THEN [db.effectiveness[k] EXCEPT !.concluded = @ + 1]
        ELSE db.effectiveness[k]]

\* Mutant: every decision moves the counters.
EveryDecisionCounts(first) == TRUE

\* Only the first decision moves the counters.
CountsDecision(first) == first

\* pack and first are what the transaction read before it wrote.
CaseDecided(db, f, pack, first) ==
    LET standing == [db EXCEPT !.cycleTime[CaseOf[f]] = f]
    IN  IF CountsDecision(first)
        THEN [standing EXCEPT
                !.throughput[<<DayOf[f], pack>>].decided = @ + 1,
                !.effectiveness = Concluded(db, CaseOf[f])]
        ELSE standing

Project(db, f, pack, first) ==
    CASE KindOf[f] = "created" -> CaseCreated(db, f)
      [] KindOf[f] = "finding" -> FindingRaised(db, f)
      [] KindOf[f] = "decided" -> CaseDecided(db, f, pack, first)

\* The claim and the watermark, written with the projection.
RecordProcessed(db, f, sequence) ==
    [db EXCEPT !.processed = @ \union {f},
               !.lastSequence = IF sequence > @ THEN sequence ELSE @]

-----------------------------------------------------------------------------
(* What the tables should hold once exactly these facts are projected, by  *)
(* counting; seqOf gives the order in which a case's facts happened.       *)

OfKind(facts, kind) == {f \in facts : KindOf[f] = kind}
OfCase(facts, c) == {f \in facts : CaseOf[f] = c}

Decisions(facts, c) == OfKind(OfCase(facts, c), "decided")

Latest(facts, seqOf) == CHOOSE f \in facts : \A g \in facts : seqOf[g] <= seqOf[f]
Earliest(facts, seqOf) == CHOOSE f \in facts : \A g \in facts : seqOf[f] <= seqOf[g]

\* The first firing of each rule on each case: the one case_findings remembers.
FirstFirings(facts, seqOf) ==
    {f \in OfKind(facts, "finding") :
        \A g \in OfKind(facts, "finding") :
            CaseOf[g] = CaseOf[f] /\ RuleOf[g] = RuleOf[f] => seqOf[f] <= seqOf[g]}

\* The first decision of each decided case.
FirstDecisions(facts, seqOf) ==
    {Earliest(Decisions(facts, c), seqOf) : c \in {CaseOf[f] : f \in OfKind(facts, "decided")}}

\* The pack a decision is attributed to: known if the creation happened, and was seen, before.
PackAt(facts, seqOf, d) ==
    IF \E f \in OfKind(OfCase(facts, CaseOf[d]), "created") : seqOf[f] < seqOf[d]
    THEN "known" ELSE "unknown"

Derived(facts, seqOf) ==
    LET created == OfKind(facts, "created")
        firsts == FirstDecisions(facts, seqOf)
        remembered == FirstFirings(facts, seqOf)
    IN  [throughput |-> [k \in ThroughputKeys |->
            [created |-> Cardinality({f \in created : k = <<DayOf[f], "known">>}),
             decided |-> Cardinality({d \in firsts : k = <<DayOf[d], PackAt(facts, seqOf, d)>>})]],
         cycleTime |-> [c \in Cases |->
            IF Decisions(facts, c) = {} THEN NoFact ELSE Latest(Decisions(facts, c), seqOf)],
         dimensions |-> {CaseOf[f] : f \in created},
         findings |-> {FindingKey(f) : f \in remembered},
         effectiveness |-> [k \in RuleKeys |->
            [raised |-> Cardinality({f \in OfKind(facts, "finding") : RuleKey(f) = k}),
             concluded |-> Cardinality({d \in firsts :
                \E f \in remembered : /\ CaseOf[f] = CaseOf[d] /\ RuleKey(f) = k
                                      /\ seqOf[f] < seqOf[d]})]],
         processed |-> facts,
         lastSequence |-> IF facts = {} THEN 0 ELSE seqOf[Latest(facts, seqOf)]]
=============================================================================
