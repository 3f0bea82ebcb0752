---------------------------- MODULE ReplayProofs ----------------------------
(***************************************************************************)
(* Proofs about the read model and its rebuild, for any history, any       *)
(* number of replays and crashes and any page size: what the counters      *)
(* count, that the model is what the order of history gives, and that a    *)
(* rebuild leaves nothing out.                                             *)
(***************************************************************************)
EXTENDS Replay, ListLemmas, TLAPS, FiniteSetTheorems

-----------------------------------------------------------------------------
(* Tallies. *)

\* A counter that goes up by one in one row goes up by one in sum.
LEMMA TallyAdds ==
    ASSUME NEW K, NEW counter \in [K -> Nat], NEW k \in K, IsFiniteSet(Marks(counter)),
           NEW after \in [K -> Nat],
           \A j \in K : after[j] = IF j = k THEN counter[k] + 1 ELSE counter[j]
    PROVE  IsFiniteSet(Marks(after)) /\ Tally(after) = Tally(counter) + 1
<1> DEFINE mark == <<k, counter[k] + 1>>
<1>1. /\ DOMAIN counter = K /\ DOMAIN after = K
      /\ \A j \in K : after[j] = IF j = k THEN counter[k] + 1 ELSE counter[j]
  OBVIOUS
<1>2. \A j \in K : counter[j] \in Nat
  OBVIOUS
<1>3. ASSUME NEW n \in Nat
      PROVE  1..(n + 1) = 1..n \union {n + 1}
  BY <1>3
<1>4. Marks(after) = Marks(counter) \union {mark}
  <2>1. Marks(after) \subseteq Marks(counter) \union {mark}
    <3> SUFFICES ASSUME NEW j \in K, NEW i \in 1..after[j]
                 PROVE  <<j, i>> \in Marks(counter) \union {mark}
      BY <1>1 DEF Marks
    <3>1. CASE j = k /\ i = counter[k] + 1
      BY <3>1
    <3>2. CASE ~(j = k /\ i = counter[k] + 1)
      <4>1. i \in 1..counter[j]
        BY <1>1, <1>2, <3>2
      <4> QED  BY <1>1, <4>1 DEF Marks
    <3> QED  BY <3>1, <3>2
  <2>2. ASSUME NEW j \in K, NEW i \in 1..counter[j]
        PROVE  <<j, i>> \in Marks(after)
    <3>1. i \in 1..after[j]
      BY <1>1, <1>2
    <3> QED  BY <1>1, <3>1 DEF Marks
  <2>3. mark \in Marks(after)
    <3>1. counter[k] + 1 \in 1..after[k]
      BY <1>1, <1>2
    <3> QED  BY <1>1, <3>1 DEF Marks
  <2> QED  BY <1>1, <2>1, <2>2, <2>3 DEF Marks
<1>5. mark \notin Marks(counter)
  <2> SUFFICES ASSUME NEW j \in K, NEW i \in 1..counter[j], mark = <<j, i>>
               PROVE  FALSE
    BY <1>1 DEF Marks
  <2>1. j = k /\ i = counter[k] + 1
    OBVIOUS
  <2> QED  BY <1>2, <2>1
<1>6. /\ IsFiniteSet(Marks(counter) \union {mark})
      /\ Cardinality(Marks(counter) \union {mark}) = Cardinality(Marks(counter)) + 1
  BY <1>5, FS_AddElement
<1> QED  BY <1>4, <1>6 DEF Tally

\* A counter of zeros has no marks.
LEMMA TallyOfZeros ==
    ASSUME NEW counter, \A k \in DOMAIN counter : counter[k] = 0
    PROVE  IsFiniteSet(Marks(counter)) /\ Tally(counter) = 0
<1>1. Marks(counter) = {}
  BY DEF Marks
<1> QED  BY <1>1, FS_EmptySet DEF Tally

-----------------------------------------------------------------------------
(* One fact applied to a read model. *)

CreatedIn(model) == [k \in ThroughputKeys |-> model.throughput[k].created]
DecidedIn(model) == [k \in ThroughputKeys |-> model.throughput[k].decided]
RaisedIn(model) == [k \in RuleKeys |-> model.effectiveness[k].raised]

DecidedCases(model) == {c \in Cases : model.cycleTime[c] # NoFact}
CasesWithFinding(model, k) == {c \in Cases : <<c, k[1], k[2]>> \in model.findings}

\* What an apply makes of the model.
Applied(model, f, pack, first, sequence) ==
    RecordProcessed(Project(model, f, pack, first), f, sequence)

\* A read model is the record of its tables.
LEMMA ModelFields ==
    ASSUME NEW m \in ReadModels
    PROVE  /\ m = [throughput |-> m.throughput, cycleTime |-> m.cycleTime,
                   dimensions |-> m.dimensions, findings |-> m.findings,
                   effectiveness |-> m.effectiveness, processed |-> m.processed,
                   lastSequence |-> m.lastSequence]
           /\ m.throughput \in [ThroughputKeys -> [created : Nat, decided : Nat]]
           /\ m.cycleTime \in [Cases -> Facts \union {NoFact}]
           /\ m.dimensions \subseteq Cases
           /\ m.findings \subseteq FindingKeys
           /\ m.effectiveness \in [RuleKeys -> [raised : Nat, concluded : Nat]]
           /\ m.processed \subseteq Facts
           /\ m.lastSequence \in Nat
BY DEF ReadModels

LEMMA KeysTyped ==
    ASSUME NEW f \in Facts
    PROVE  /\ CaseOf[f] \in Cases /\ DayOf[f] \in Days
           /\ RuleKey(f) \in RuleKeys /\ FindingKey(f) \in FindingKeys
           /\ RuleKey(f)[1] = RuleOf[f] /\ RuleKey(f)[2] = SeverityOf[f]
           /\ \A pack \in Packs : <<DayOf[f], pack>> \in ThroughputKeys
BY FactsAssumption DEF RuleKey, RuleKeys, FindingKey, FindingKeys, ThroughputKeys

\* The claim and the watermark leave the projections alone.
LEMMA RecordFields ==
    ASSUME NEW m \in ReadModels, NEW f \in Facts, NEW s \in Nat,
           NEW after, after = RecordProcessed(m, f, s)
    PROVE  /\ after.throughput = m.throughput /\ after.cycleTime = m.cycleTime
           /\ after.dimensions = m.dimensions /\ after.findings = m.findings
           /\ after.effectiveness = m.effectiveness
           /\ after.processed = m.processed \union {f}
           /\ after.lastSequence = IF s > m.lastSequence THEN s ELSE m.lastSequence
           /\ after \in ReadModels
<1>0. m = [throughput |-> m.throughput, cycleTime |-> m.cycleTime,
           dimensions |-> m.dimensions, findings |-> m.findings,
           effectiveness |-> m.effectiveness, processed |-> m.processed,
           lastSequence |-> m.lastSequence]
  BY ModelFields
<1>1. after = [throughput |-> m.throughput, cycleTime |-> m.cycleTime,
               dimensions |-> m.dimensions, findings |-> m.findings,
               effectiveness |-> m.effectiveness, processed |-> m.processed \union {f},
               lastSequence |-> IF s > m.lastSequence THEN s ELSE m.lastSequence]
  BY <1>0 DEF RecordProcessed
<1> QED  BY <1>1, ModelFields DEF ReadModels

LEMMA CreatedFields ==
    ASSUME NEW m \in ReadModels, NEW f \in Facts, NEW after, after = CaseCreated(m, f),
           NEW key, key = <<DayOf[f], "known">>
    PROVE  /\ after.throughput =
                [m.throughput EXCEPT ![key] =
                    [m.throughput[key] EXCEPT !.created = m.throughput[key].created + 1]]
           /\ after.cycleTime = m.cycleTime
           /\ after.dimensions = m.dimensions \union {CaseOf[f]}
           /\ after.findings = m.findings
           /\ after.effectiveness = m.effectiveness
           /\ after.processed = m.processed
           /\ after.lastSequence = m.lastSequence
           /\ after \in ReadModels
<1> DEFINE table == [m.throughput EXCEPT ![key] =
                        [m.throughput[key] EXCEPT !.created = m.throughput[key].created + 1]]
<1>1. key \in ThroughputKeys /\ CaseOf[f] \in Cases
  BY KeysTyped DEF Packs
<1>2. table \in [ThroughputKeys -> [created : Nat, decided : Nat]]
  BY <1>1, ModelFields
<1>3. after.throughput = table
  BY <1>1, ModelFields DEF CaseCreated
<1>0. m = [throughput |-> m.throughput, cycleTime |-> m.cycleTime,
           dimensions |-> m.dimensions, findings |-> m.findings,
           effectiveness |-> m.effectiveness, processed |-> m.processed,
           lastSequence |-> m.lastSequence]
  BY ModelFields
<1> HIDE DEF table
<1>4. after = [throughput |-> table, cycleTime |-> m.cycleTime,
               dimensions |-> m.dimensions \union {CaseOf[f]}, findings |-> m.findings,
               effectiveness |-> m.effectiveness, processed |-> m.processed,
               lastSequence |-> m.lastSequence]
  BY <1>0, <1>3 DEF CaseCreated
<1>5. after \in ReadModels
  BY <1>1, <1>2, <1>4, ModelFields DEF ReadModels
<1> QED  BY <1>3, <1>4, <1>5 DEF table

LEMMA FindingFields ==
    ASSUME NEW m \in ReadModels, NEW f \in Facts, NEW after, after = FindingRaised(m, f),
           NEW key, key = RuleKey(f)
    PROVE  /\ after.throughput = m.throughput
           /\ after.cycleTime = m.cycleTime
           /\ after.dimensions = m.dimensions
           /\ Conflicting(m.findings, f) = {} =>
                after.findings = m.findings \union {FindingKey(f)}
           /\ Conflicting(m.findings, f) # {} => after.findings = m.findings
           /\ \A k \in RuleKeys :
                /\ after.effectiveness[k].raised =
                     IF k = key THEN m.effectiveness[k].raised + 1 ELSE m.effectiveness[k].raised
                /\ after.effectiveness[k].concluded = m.effectiveness[k].concluded
           /\ after.processed = m.processed
           /\ after.lastSequence = m.lastSequence
           /\ after \in ReadModels
<1> DEFINE table == [m.effectiveness EXCEPT ![key] =
                        [m.effectiveness[key] EXCEPT !.raised = m.effectiveness[key].raised + 1]]
           rows == IF Conflicting(m.findings, f) = {}
                   THEN m.findings \union {FindingKey(f)} ELSE m.findings
<1>1. key \in RuleKeys /\ rows \subseteq FindingKeys
  BY KeysTyped, ModelFields
<1>2. table \in [RuleKeys -> [raised : Nat, concluded : Nat]]
  BY <1>1, ModelFields
<1>3. after.effectiveness = table
  BY <1>1, ModelFields DEF FindingRaised
<1>4. after.findings = rows
  BY ModelFields DEF FindingRaised
<1>7. \A k \in RuleKeys :
         /\ table[k].raised =
              IF k = key THEN m.effectiveness[k].raised + 1 ELSE m.effectiveness[k].raised
         /\ table[k].concluded = m.effectiveness[k].concluded
  BY <1>1, ModelFields
<1>0. m = [throughput |-> m.throughput, cycleTime |-> m.cycleTime,
           dimensions |-> m.dimensions, findings |-> m.findings,
           effectiveness |-> m.effectiveness, processed |-> m.processed,
           lastSequence |-> m.lastSequence]
  BY ModelFields
<1> HIDE DEF table, rows
<1>5. after = [throughput |-> m.throughput, cycleTime |-> m.cycleTime,
               dimensions |-> m.dimensions, findings |-> rows,
               effectiveness |-> table, processed |-> m.processed,
               lastSequence |-> m.lastSequence]
  BY <1>0, <1>3, <1>4 DEF FindingRaised
<1>6. after \in ReadModels
  BY <1>1, <1>2, <1>5, ModelFields DEF ReadModels
<1> QED  BY <1>3, <1>4, <1>5, <1>6, <1>7 DEF rows

\* The standing decision of a case.
Standing(model, f) == [model EXCEPT !.cycleTime[CaseOf[f]] = f]

LEMMA StandingFields ==
    ASSUME NEW m \in ReadModels, NEW f \in Facts, NEW after, after = Standing(m, f)
    PROVE  /\ after.throughput = m.throughput
           /\ \A c \in Cases :
                after.cycleTime[c] = IF c = CaseOf[f] THEN f ELSE m.cycleTime[c]
           /\ after.dimensions = m.dimensions
           /\ after.findings = m.findings
           /\ after.effectiveness = m.effectiveness
           /\ after.processed = m.processed
           /\ after.lastSequence = m.lastSequence
           /\ after \in ReadModels
<1> DEFINE table == [m.cycleTime EXCEPT ![CaseOf[f]] = f]
<1>1. table \in [Cases -> Facts \union {NoFact}]
  BY KeysTyped, ModelFields
<1>2. after.cycleTime = table
  BY ModelFields DEF Standing
<1>4. \A c \in Cases : table[c] = IF c = CaseOf[f] THEN f ELSE m.cycleTime[c]
  BY ModelFields
<1>0. m = [throughput |-> m.throughput, cycleTime |-> m.cycleTime,
           dimensions |-> m.dimensions, findings |-> m.findings,
           effectiveness |-> m.effectiveness, processed |-> m.processed,
           lastSequence |-> m.lastSequence]
  BY ModelFields
<1> HIDE DEF table
<1>3. after = [throughput |-> m.throughput, cycleTime |-> table,
               dimensions |-> m.dimensions, findings |-> m.findings,
               effectiveness |-> m.effectiveness, processed |-> m.processed,
               lastSequence |-> m.lastSequence]
  BY <1>0, <1>2 DEF Standing
<1>5. after \in ReadModels
  BY <1>1, <1>3, ModelFields DEF ReadModels
<1> QED  BY <1>2, <1>3, <1>4, <1>5

\* The first decision of a case.
Followed(model, f, pack) ==
    [Standing(model, f) EXCEPT
        !.throughput[<<DayOf[f], pack>>].decided = @ + 1,
        !.effectiveness = Concluded(model, CaseOf[f])]

LEMMA FollowedFields ==
    ASSUME NEW m \in ReadModels, NEW f \in Facts, NEW pack \in Packs,
           NEW after, after = Followed(m, f, pack),
           NEW key, key = <<DayOf[f], pack>>
    PROVE  /\ \A k \in ThroughputKeys :
                /\ after.throughput[k].created = m.throughput[k].created
                /\ after.throughput[k].decided =
                     IF k = key THEN m.throughput[k].decided + 1 ELSE m.throughput[k].decided
           /\ \A c \in Cases :
                after.cycleTime[c] = IF c = CaseOf[f] THEN f ELSE m.cycleTime[c]
           /\ after.dimensions = m.dimensions
           /\ after.findings = m.findings
           /\ after.effectiveness = Concluded(m, CaseOf[f])
           /\ after.processed = m.processed
           /\ after.lastSequence = m.lastSequence
           /\ after \in ReadModels
<1> DEFINE table == [m.throughput EXCEPT ![key] =
                        [m.throughput[key] EXCEPT !.decided = m.throughput[key].decided + 1]]
           rules == Concluded(m, CaseOf[f])
<1>1. PICK s : s = Standing(m, f)
  OBVIOUS
<1>2. /\ s.throughput = m.throughput
      /\ \A c \in Cases : s.cycleTime[c] = IF c = CaseOf[f] THEN f ELSE m.cycleTime[c]
      /\ s.dimensions = m.dimensions
      /\ s.findings = m.findings
      /\ s.effectiveness = m.effectiveness
      /\ s.processed = m.processed
      /\ s.lastSequence = m.lastSequence
      /\ s \in ReadModels
  BY <1>1, StandingFields
<1>3. key \in ThroughputKeys
  BY KeysTyped
<1>4. table \in [ThroughputKeys -> [created : Nat, decided : Nat]]
  BY <1>3, ModelFields
<1>5. rules \in [RuleKeys -> [raised : Nat, concluded : Nat]]
  <2>1. \A k \in RuleKeys :
           [m.effectiveness[k] EXCEPT !.concluded = m.effectiveness[k].concluded + 1]
             \in [raised : Nat, concluded : Nat]
    BY ModelFields
  <2> QED  BY <2>1, ModelFields DEF Concluded
<1>6. after = [s EXCEPT
                 !.throughput[<<DayOf[f], pack>>].decided = @ + 1,
                 !.effectiveness = rules]
  BY <1>1 DEF Followed
<1>0. s = [throughput |-> s.throughput, cycleTime |-> s.cycleTime,
           dimensions |-> s.dimensions, findings |-> s.findings,
           effectiveness |-> s.effectiveness, processed |-> s.processed,
           lastSequence |-> s.lastSequence]
  BY <1>2, ModelFields
<1>7. after.throughput = table
  BY <1>2, <1>0, <1>3, <1>6
<1>12. \A k \in ThroughputKeys :
          /\ table[k].created = m.throughput[k].created
          /\ table[k].decided =
                IF k = key THEN m.throughput[k].decided + 1 ELSE m.throughput[k].decided
  BY <1>3, ModelFields
<1> HIDE DEF table, rules
<1>8. after.effectiveness = rules
  BY <1>0, <1>6
<1>9. after = [throughput |-> table, cycleTime |-> s.cycleTime,
               dimensions |-> s.dimensions, findings |-> s.findings,
               effectiveness |-> rules, processed |-> s.processed,
               lastSequence |-> s.lastSequence]
  BY <1>0, <1>6, <1>7, <1>8
<1>10. after \in ReadModels
  BY <1>2, <1>4, <1>5, <1>9, ModelFields DEF ReadModels
<1>11. /\ after.cycleTime = s.cycleTime /\ after.dimensions = s.dimensions
       /\ after.findings = s.findings /\ after.processed = s.processed
       /\ after.lastSequence = s.lastSequence
  BY <1>9
<1> QED  BY <1>2, <1>7, <1>8, <1>10, <1>11, <1>12 DEF rules

\* A decision: the first of its case moves the counters, the others only stand.
LEMMA DecidedFields ==
    ASSUME NEW m \in ReadModels, NEW f \in Facts, NEW pack \in Packs, NEW first \in BOOLEAN,
           NEW n, n = CaseDecided(m, f, pack, first),
           NEW key, key = <<DayOf[f], pack>>, NEW c, c = CaseOf[f]
    PROVE  /\ \A k \in ThroughputKeys :
                /\ n.throughput[k].created = m.throughput[k].created
                /\ n.throughput[k].decided =
                     IF first /\ k = key THEN m.throughput[k].decided + 1
                                         ELSE m.throughput[k].decided
           /\ \A d \in Cases : n.cycleTime[d] = IF d = c THEN f ELSE m.cycleTime[d]
           /\ n.dimensions = m.dimensions
           /\ n.findings = m.findings
           /\ n.effectiveness = IF first THEN Concluded(m, c) ELSE m.effectiveness
           /\ n.processed = m.processed
           /\ n.lastSequence = m.lastSequence
           /\ n \in ReadModels
<1>1. CASE first
  <2>1. n = Followed(m, f, pack)
    BY <1>1 DEF CaseDecided, CountsDecision, Standing, Followed
  <2>2. /\ \A k \in ThroughputKeys :
             /\ n.throughput[k].created = m.throughput[k].created
             /\ n.throughput[k].decided =
                  IF k = key THEN m.throughput[k].decided + 1 ELSE m.throughput[k].decided
        /\ \A d \in Cases : n.cycleTime[d] = IF d = CaseOf[f] THEN f ELSE m.cycleTime[d]
        /\ n.dimensions = m.dimensions
        /\ n.findings = m.findings
        /\ n.effectiveness = Concluded(m, CaseOf[f])
        /\ n.processed = m.processed
        /\ n.lastSequence = m.lastSequence
        /\ n \in ReadModels
    BY <2>1, FollowedFields
  <2> QED  BY <1>1, <2>2
<1>2. CASE ~first
  <2>1. n = Standing(m, f)
    BY <1>2 DEF CaseDecided, CountsDecision, Standing
  <2> QED  BY <1>2, <2>1, StandingFields
<1> QED  BY <1>1, <1>2

-----------------------------------------------------------------------------
(* The counters of a read model count its facts and its cases. *)

CountsFacts(model) ==
    /\ IsFiniteSet(Marks(CreatedIn(model)))
    /\ Tally(CreatedIn(model)) = Cardinality(OfKind(model.processed, "created"))
    /\ IsFiniteSet(Marks(RaisedIn(model)))
    /\ Tally(RaisedIn(model)) = Cardinality(OfKind(model.processed, "finding"))

CountsCases(model) ==
    /\ IsFiniteSet(Marks(DecidedIn(model)))
    /\ IsFiniteSet(DecidedCases(model))
    /\ Tally(DecidedIn(model)) = Cardinality(DecidedCases(model))

\* A rule is followed by at most one decision of each case it is remembered on, and it fired
\* at least once on each of them.
CountsRules(model) ==
    \A k \in RuleKeys :
        LET cases == CasesWithFinding(model, k)
        IN  /\ IsFiniteSet(cases)
            /\ model.effectiveness[k].concluded <= Cardinality(cases \intersect DecidedCases(model))
            /\ Cardinality(cases) <= model.effectiveness[k].raised

Sound(model) ==
    /\ model \in ReadModels
    /\ CountsFacts(model)
    /\ CountsCases(model)
    /\ CountsRules(model)

\* Counting one more fact of a kind, or of another.
LEMMA OneMoreFact ==
    ASSUME NEW facts, facts \subseteq Facts, NEW f \in Facts \ facts, NEW kind
    PROVE  Cardinality(OfKind(facts \union {f}, kind))
             = IF KindOf[f] = kind THEN Cardinality(OfKind(facts, kind)) + 1
                                   ELSE Cardinality(OfKind(facts, kind))
<1>1. IsFiniteSet(OfKind(facts, kind))
  <2>1. OfKind(facts, kind) \in SUBSET Facts
    BY DEF OfKind
  <2> QED  BY <2>1, FactsAssumption, FS_Subset
<1>2. f \notin OfKind(facts, kind)
  BY DEF OfKind
<1>3. /\ IsFiniteSet(OfKind(facts, kind) \union {f})
      /\ Cardinality(OfKind(facts, kind) \union {f}) = Cardinality(OfKind(facts, kind)) + 1
  BY <1>1, <1>2, FS_AddElement
<1>4. CASE KindOf[f] = kind
  <2>1. OfKind(facts \union {f}, kind) = OfKind(facts, kind) \union {f}
    BY <1>4 DEF OfKind
  <2> QED  BY <1>3, <1>4, <2>1
<1>5. CASE KindOf[f] # kind
  <2>1. OfKind(facts \union {f}, kind) = OfKind(facts, kind)
    BY <1>5 DEF OfKind
  <2> QED  BY <1>5, <2>1
<1> QED  BY <1>4, <1>5

\* Recording the claim and the watermark.
LEMMA RecordCounts ==
    ASSUME NEW m \in ReadModels, NEW f \in Facts, NEW s \in Nat,
           NEW after, after = RecordProcessed(m, f, s)
    PROVE  /\ CreatedIn(after) = CreatedIn(m) /\ DecidedIn(after) = DecidedIn(m)
           /\ RaisedIn(after) = RaisedIn(m) /\ DecidedCases(after) = DecidedCases(m)
           /\ \A k \in RuleKeys : CasesWithFinding(after, k) = CasesWithFinding(m, k)
           /\ after.effectiveness = m.effectiveness
           /\ after.processed = m.processed \union {f}
           /\ after \in ReadModels
BY RecordFields DEF CreatedIn, DecidedIn, RaisedIn, DecidedCases, CasesWithFinding

LEMMA CreatedSound ==
    ASSUME NEW m, Sound(m), NEW f \in Facts \ m.processed, KindOf[f] = "created",
           NEW s \in Nat, NEW pack, NEW first,
           NEW after, after = Applied(m, f, pack, first, s)
    PROVE  Sound(after)
<1>0. m \in ReadModels
  BY DEF Sound
<1>1. PICK n, key : n = CaseCreated(m, f) /\ key = <<DayOf[f], "known">>
  OBVIOUS
<1>2. after = RecordProcessed(n, f, s)
  BY <1>1 DEF Applied, Project
<1>3. /\ n.throughput = [m.throughput EXCEPT ![key] =
                            [m.throughput[key] EXCEPT !.created = m.throughput[key].created + 1]]
      /\ n.cycleTime = m.cycleTime /\ n.findings = m.findings
      /\ n.effectiveness = m.effectiveness /\ n.processed = m.processed
      /\ n \in ReadModels
  BY <1>0, <1>1, CreatedFields
<1>4. key \in ThroughputKeys /\ m.processed \subseteq Facts
  BY <1>0, <1>1, KeysTyped, ModelFields DEF Packs
<1>5. /\ CreatedIn(m) \in [ThroughputKeys -> Nat]
      /\ CreatedIn(n) \in [ThroughputKeys -> Nat]
      /\ \A k \in ThroughputKeys : CreatedIn(n)[k] =
            IF k = key THEN CreatedIn(m)[key] + 1 ELSE CreatedIn(m)[k]
      /\ DecidedIn(n) = DecidedIn(m)
  <2>1. m.throughput \in [ThroughputKeys -> [created : Nat, decided : Nat]]
    BY <1>0, ModelFields
  <2>2. \A k \in ThroughputKeys :
           /\ n.throughput[k].created =
                IF k = key THEN m.throughput[k].created + 1 ELSE m.throughput[k].created
           /\ n.throughput[k].decided = m.throughput[k].decided
    BY <1>3, <1>4, <2>1
  <2>3. n.throughput \in [ThroughputKeys -> [created : Nat, decided : Nat]]
    BY <1>3, ModelFields
  <2> QED  BY <1>4, <2>1, <2>2, <2>3 DEF CreatedIn, DecidedIn
<1>6. RaisedIn(n) = RaisedIn(m) /\ DecidedCases(n) = DecidedCases(m)
      /\ \A k \in RuleKeys : CasesWithFinding(n, k) = CasesWithFinding(m, k)
  BY <1>3 DEF RaisedIn, DecidedCases, CasesWithFinding
<1>m. IsFiniteSet(Marks(CreatedIn(m)))
  BY DEF Sound, CountsFacts
<1>7. /\ IsFiniteSet(Marks(CreatedIn(n))) /\ Tally(CreatedIn(n)) = Tally(CreatedIn(m)) + 1
  BY <1>4, <1>5, <1>m, TallyAdds
<1>8. /\ CreatedIn(after) = CreatedIn(n) /\ DecidedIn(after) = DecidedIn(n)
      /\ RaisedIn(after) = RaisedIn(n) /\ DecidedCases(after) = DecidedCases(n)
      /\ \A k \in RuleKeys : CasesWithFinding(after, k) = CasesWithFinding(n, k)
      /\ after.effectiveness = m.effectiveness
      /\ after.processed = m.processed \union {f}
      /\ after \in ReadModels
  BY <1>2, <1>3, RecordCounts
<1>9. CountsFacts(after)
  <2>1. Cardinality(OfKind(after.processed, "created"))
          = Cardinality(OfKind(m.processed, "created")) + 1
    BY <1>4, <1>8, OneMoreFact
  <2>2. Cardinality(OfKind(after.processed, "finding"))
          = Cardinality(OfKind(m.processed, "finding"))
    BY <1>4, <1>8, OneMoreFact
  <2> QED  BY <1>6, <1>7, <1>8, <2>1, <2>2 DEF Sound, CountsFacts
<1>10. CountsCases(after)
  BY <1>5, <1>6, <1>8 DEF Sound, CountsCases
<1>11. CountsRules(after)
  BY <1>6, <1>8 DEF Sound, CountsRules
<1> QED  BY <1>8, <1>9, <1>10, <1>11 DEF Sound

LEMMA FindingSound ==
    ASSUME NEW m, Sound(m), NEW f \in Facts \ m.processed, KindOf[f] = "finding",
           NEW s \in Nat, NEW pack, NEW first,
           NEW after, after = Applied(m, f, pack, first, s)
    PROVE  Sound(after)
<1>0. m \in ReadModels
  BY DEF Sound
<1>1. PICK n, key : n = FindingRaised(m, f) /\ key = RuleKey(f)
  OBVIOUS
<1>2. after = RecordProcessed(n, f, s)
  BY <1>1 DEF Applied, Project
<1>3. /\ n.throughput = m.throughput /\ n.cycleTime = m.cycleTime
      /\ n.findings = m.findings \/ n.findings = m.findings \union {FindingKey(f)}
      /\ \A k \in RuleKeys :
           /\ n.effectiveness[k].raised =
                IF k = key THEN m.effectiveness[k].raised + 1 ELSE m.effectiveness[k].raised
           /\ n.effectiveness[k].concluded = m.effectiveness[k].concluded
      /\ n.processed = m.processed
      /\ n \in ReadModels
  BY <1>0, <1>1, FindingFields
<1>4. key \in RuleKeys /\ m.processed \subseteq Facts
  BY <1>0, <1>1, KeysTyped, ModelFields
<1>5. m.effectiveness \in [RuleKeys -> [raised : Nat, concluded : Nat]]
  BY <1>0, ModelFields
<1>6. /\ RaisedIn(m) \in [RuleKeys -> Nat]
      /\ RaisedIn(n) \in [RuleKeys -> Nat]
      /\ \A k \in RuleKeys : RaisedIn(n)[k] =
            IF k = key THEN RaisedIn(m)[key] + 1 ELSE RaisedIn(m)[k]
  <2>1. n.effectiveness \in [RuleKeys -> [raised : Nat, concluded : Nat]]
    BY <1>3, ModelFields
  <2> QED  BY <1>3, <1>4, <1>5, <2>1 DEF RaisedIn
<1>m. IsFiniteSet(Marks(RaisedIn(m)))
  BY DEF Sound, CountsFacts
<1>7. IsFiniteSet(Marks(RaisedIn(n))) /\ Tally(RaisedIn(n)) = Tally(RaisedIn(m)) + 1
  BY <1>4, <1>6, <1>m, TallyAdds
<1>8. CreatedIn(n) = CreatedIn(m) /\ DecidedIn(n) = DecidedIn(m)
      /\ DecidedCases(n) = DecidedCases(m)
  BY <1>3 DEF CreatedIn, DecidedIn, DecidedCases
<1>9. /\ CreatedIn(after) = CreatedIn(n) /\ DecidedIn(after) = DecidedIn(n)
      /\ RaisedIn(after) = RaisedIn(n) /\ DecidedCases(after) = DecidedCases(n)
      /\ \A k \in RuleKeys : CasesWithFinding(after, k) = CasesWithFinding(n, k)
      /\ after.effectiveness = n.effectiveness
      /\ after.processed = m.processed \union {f}
      /\ after \in ReadModels
  BY <1>2, <1>3, RecordCounts
<1>10. CountsFacts(after)
  <2>1. Cardinality(OfKind(after.processed, "finding"))
          = Cardinality(OfKind(m.processed, "finding")) + 1
    BY <1>4, <1>9, OneMoreFact
  <2>2. Cardinality(OfKind(after.processed, "created"))
          = Cardinality(OfKind(m.processed, "created"))
    BY <1>4, <1>9, OneMoreFact
  <2> QED  BY <1>7, <1>8, <1>9, <2>1, <2>2 DEF Sound, CountsFacts
<1>11. CountsCases(after)
  BY <1>8, <1>9 DEF Sound, CountsCases
<1>12. CountsRules(after)
  <2> SUFFICES ASSUME NEW k \in RuleKeys,
                      NEW old, old = CasesWithFinding(m, k),
                      NEW new, new = CasesWithFinding(n, k)
               PROVE  /\ IsFiniteSet(new)
                      /\ n.effectiveness[k].concluded
                           <= Cardinality(new \intersect DecidedCases(m))
                      /\ Cardinality(new) <= n.effectiveness[k].raised
    BY <1>8, <1>9 DEF CountsRules
  <2>1. /\ IsFiniteSet(old)
        /\ m.effectiveness[k].concluded <= Cardinality(old \intersect DecidedCases(m))
        /\ Cardinality(old) <= m.effectiveness[k].raised
    BY DEF Sound, CountsRules
  <2>2. /\ old \subseteq new
        /\ new = old \/ (k = key /\ new = old \union {CaseOf[f]})
    <3>1. k = <<k[1], k[2]>> /\ key = <<RuleOf[f], SeverityOf[f]>>
      BY <1>1 DEF RuleKeys, RuleKey
    <3>2. CaseOf[f] \in Cases
      BY KeysTyped
    <3>3. n.findings = m.findings \/ n.findings = m.findings \union {FindingKey(f)}
      BY <1>3
    <3>4. \A c \in Cases : <<c, k[1], k[2]>> = FindingKey(f) <=> c = CaseOf[f] /\ k = key
      BY <3>1 DEF FindingKey
    <3> QED  BY <3>2, <3>3, <3>4 DEF CasesWithFinding
  <2>3. /\ IsFiniteSet(new)
        /\ Cardinality(new) = Cardinality(old)
             \/ (k = key /\ Cardinality(new) <= Cardinality(old) + 1)
    <3>1. /\ IsFiniteSet(old \union {CaseOf[f]})
          /\ Cardinality(old \union {CaseOf[f]}) <= Cardinality(old) + 1
      <4>1. Cardinality(old) \in Nat
        BY <2>1, FS_CardinalityType
      <4>2. /\ IsFiniteSet(old \union {CaseOf[f]})
            /\ Cardinality(old \union {CaseOf[f]})
                 = IF CaseOf[f] \in old THEN Cardinality(old) ELSE Cardinality(old) + 1
        BY <2>1, FS_AddElement
      <4> QED  BY <4>1, <4>2
    <3> QED  BY <2>1, <2>2, <3>1
  <2>4. /\ Cardinality(old \intersect DecidedCases(m))
             <= Cardinality(new \intersect DecidedCases(m))
        /\ Cardinality(old \intersect DecidedCases(m)) \in Nat
        /\ Cardinality(new \intersect DecidedCases(m)) \in Nat
    <3>1. IsFiniteSet(new \intersect DecidedCases(m))
      BY <2>3, FS_Subset
    <3>2. old \intersect DecidedCases(m) \in SUBSET (new \intersect DecidedCases(m))
      BY <2>2
    <3> QED  BY <3>1, <3>2, FS_Subset, FS_CardinalityType
  <2>5. /\ m.effectiveness[k].raised \in Nat /\ m.effectiveness[k].concluded \in Nat
        /\ Cardinality(old) \in Nat /\ Cardinality(new) \in Nat
    BY <1>5, <2>1, <2>3, FS_CardinalityType
  <2> QED  BY <1>3, <1>5, <2>1, <2>3, <2>4, <2>5
<1> QED  BY <1>9, <1>10, <1>11, <1>12 DEF Sound

LEMMA DecidedSound ==
    ASSUME NEW m, Sound(m), NEW f \in Facts \ m.processed, KindOf[f] = "decided",
           NEW s \in Nat, NEW pack \in Packs, NEW first \in BOOLEAN,
           first <=> m.cycleTime[CaseOf[f]] = NoFact,
           NEW after, after = Applied(m, f, pack, first, s)
    PROVE  Sound(after)
<1>0. m \in ReadModels
  BY DEF Sound
<1>1. PICK n, key, c : /\ n = CaseDecided(m, f, pack, first)
                       /\ key = <<DayOf[f], pack>> /\ c = CaseOf[f]
  OBVIOUS
<1>2. after = RecordProcessed(n, f, s)
  BY <1>1 DEF Applied, Project
<1>3. /\ \A k \in ThroughputKeys :
           /\ n.throughput[k].created = m.throughput[k].created
           /\ n.throughput[k].decided = IF first /\ k = key THEN m.throughput[k].decided + 1
                                                           ELSE m.throughput[k].decided
      /\ \A d \in Cases : n.cycleTime[d] = IF d = c THEN f ELSE m.cycleTime[d]
      /\ n.findings = m.findings
      /\ n.effectiveness = IF first THEN Concluded(m, c) ELSE m.effectiveness
      /\ n.processed = m.processed
      /\ n \in ReadModels
  <2>1. f \in Facts
    OBVIOUS
  <2> QED  BY <1>0, <1>1, <2>1, DecidedFields
<1>4. /\ key \in ThroughputKeys /\ c \in Cases /\ m.processed \subseteq Facts
      /\ f # NoFact /\ m.cycleTime \in [Cases -> Facts \union {NoFact}]
  BY <1>0, <1>1, KeysTyped, ModelFields, FactsAssumption
<1>5. DecidedCases(n) = DecidedCases(m) \union {c} /\ (first <=> c \notin DecidedCases(m))
  <2>1. \A d \in Cases : n.cycleTime[d] = IF d = c THEN f ELSE m.cycleTime[d]
    BY <1>3, <1>4
  <2> QED  BY <1>1, <1>4, <2>1 DEF DecidedCases
<1>6. CreatedIn(n) = CreatedIn(m)
  <2>1. m.throughput \in [ThroughputKeys -> [created : Nat, decided : Nat]]
    BY <1>0, ModelFields
  <2>2. \A k \in ThroughputKeys : n.throughput[k].created = m.throughput[k].created
    BY <1>3, <1>4, <2>1
  <2> QED  BY <2>2 DEF CreatedIn
<1>7. /\ \A k \in RuleKeys : n.effectiveness[k].raised = m.effectiveness[k].raised
      /\ \A k \in RuleKeys : n.effectiveness[k].concluded =
            IF first /\ k \in RulesOfCase(m, c) THEN m.effectiveness[k].concluded + 1
                                                ELSE m.effectiveness[k].concluded
      /\ m.effectiveness \in [RuleKeys -> [raised : Nat, concluded : Nat]]
  <2>1. m.effectiveness \in [RuleKeys -> [raised : Nat, concluded : Nat]]
    BY <1>0, ModelFields
  <2> QED  BY <1>3, <2>1 DEF Concluded
<1>8. RaisedIn(n) = RaisedIn(m)
      /\ \A k \in RuleKeys : CasesWithFinding(n, k) = CasesWithFinding(m, k)
  BY <1>3, <1>7 DEF RaisedIn, CasesWithFinding
<1>9. /\ CreatedIn(after) = CreatedIn(n) /\ DecidedIn(after) = DecidedIn(n)
      /\ RaisedIn(after) = RaisedIn(n) /\ DecidedCases(after) = DecidedCases(n)
      /\ \A k \in RuleKeys : CasesWithFinding(after, k) = CasesWithFinding(n, k)
      /\ after.effectiveness = n.effectiveness
      /\ after.processed = m.processed \union {f}
      /\ after \in ReadModels
  BY <1>2, <1>3, RecordCounts
<1>10. CountsFacts(after)
  <2>1. \A kind \in {"created", "finding"} :
           Cardinality(OfKind(after.processed, kind)) = Cardinality(OfKind(m.processed, kind))
    BY <1>4, <1>9, OneMoreFact
  <2> QED  BY <1>6, <1>8, <1>9, <2>1 DEF Sound, CountsFacts
<1>11. CountsCases(after)
  <2>m. /\ IsFiniteSet(Marks(DecidedIn(m))) /\ IsFiniteSet(DecidedCases(m))
        /\ Tally(DecidedIn(m)) = Cardinality(DecidedCases(m))
    BY DEF Sound, CountsCases
  <2>1. CASE first
    <3>1. /\ m.throughput \in [ThroughputKeys -> [created : Nat, decided : Nat]]
          /\ n.throughput \in [ThroughputKeys -> [created : Nat, decided : Nat]]
      BY <1>0, <1>3, ModelFields
    <3>2. \A k \in ThroughputKeys : n.throughput[k].decided =
             IF k = key THEN m.throughput[k].decided + 1 ELSE m.throughput[k].decided
      BY <1>3, <1>4, <2>1, <3>1
    <3>3. /\ DecidedIn(m) \in [ThroughputKeys -> Nat]
          /\ DecidedIn(n) \in [ThroughputKeys -> Nat]
          /\ \A k \in ThroughputKeys : DecidedIn(n)[k] =
                IF k = key THEN DecidedIn(m)[key] + 1 ELSE DecidedIn(m)[k]
      BY <1>4, <3>1, <3>2 DEF DecidedIn
    <3>4. IsFiniteSet(Marks(DecidedIn(n))) /\ Tally(DecidedIn(n)) = Tally(DecidedIn(m)) + 1
      BY <1>4, <2>m, <3>3, TallyAdds
    <3>5. /\ IsFiniteSet(DecidedCases(m) \union {c})
          /\ Cardinality(DecidedCases(m) \union {c}) = Cardinality(DecidedCases(m)) + 1
      BY <1>5, <2>1, <2>m, FS_AddElement
    <3> QED  BY <1>5, <1>9, <2>m, <3>4, <3>5 DEF CountsCases
  <2>2. CASE ~first
    <3>1. DecidedCases(n) = DecidedCases(m) /\ DecidedIn(n) = DecidedIn(m)
      BY <1>3, <1>5, <2>2 DEF DecidedIn
    <3> QED  BY <1>9, <2>m, <3>1 DEF CountsCases
  <2> QED  BY <2>1, <2>2
<1>12. CountsRules(after)
  <2> SUFFICES ASSUME NEW k \in RuleKeys, NEW cases, cases = CasesWithFinding(m, k)
               PROVE  /\ IsFiniteSet(cases)
                      /\ n.effectiveness[k].concluded
                           <= Cardinality(cases \intersect DecidedCases(n))
                      /\ Cardinality(cases) <= n.effectiveness[k].raised
    BY <1>8, <1>9 DEF CountsRules
  <2>1. /\ IsFiniteSet(cases)
        /\ m.effectiveness[k].concluded <= Cardinality(cases \intersect DecidedCases(m))
        /\ Cardinality(cases) <= m.effectiveness[k].raised
    BY DEF Sound, CountsRules
  <2> DEFINE before == cases \intersect DecidedCases(m)
             now == cases \intersect DecidedCases(n)
  <2>2. /\ IsFiniteSet(before) /\ IsFiniteSet(now)
        /\ Cardinality(before) \in Nat /\ Cardinality(now) \in Nat
        /\ Cardinality(before) <= Cardinality(now)
    <3>1. now \in SUBSET cases
      OBVIOUS
    <3>2. before \in SUBSET now
      BY <1>5
    <3>3. IsFiniteSet(now)
      BY <2>1, <3>1, FS_Subset
    <3>4. IsFiniteSet(before) /\ Cardinality(before) <= Cardinality(now)
      BY <3>2, <3>3, FS_Subset
    <3> QED  BY <3>3, <3>4, FS_CardinalityType
  <2>3. m.effectiveness[k].concluded \in Nat
    BY <1>7
  <2>4. CASE first /\ k \in RulesOfCase(m, c)
    <3>1. c \in cases
      BY <1>4, <2>4 DEF RulesOfCase, CasesWithFinding
    <3>2. now = before \union {c} /\ c \notin before
      BY <1>5, <2>4, <3>1
    <3> HIDE DEF before, now
    <3>3. Cardinality(now) = Cardinality(before) + 1
      BY <2>2, <3>2, FS_AddElement
    <3>4. m.effectiveness[k].concluded <= Cardinality(before)
      BY <2>1 DEF before
    <3>5. n.effectiveness[k].concluded <= Cardinality(now)
      BY <1>7, <2>2, <2>3, <2>4, <3>3, <3>4
    <3> QED  BY <1>7, <2>1, <3>5 DEF now
  <2>5. CASE ~(first /\ k \in RulesOfCase(m, c))
    BY <1>7, <2>1, <2>2, <2>3, <2>5
  <2> QED  BY <2>4, <2>5
<1> QED  BY <1>9, <1>10, <1>11, <1>12 DEF Sound

\* Whatever fact is applied, with what the transaction read still true, the counters stay right.
LEMMA AppliedSound ==
    ASSUME NEW m, Sound(m), NEW f \in Facts \ m.processed, NEW s \in Nat,
           NEW pack \in Packs, NEW first \in BOOLEAN,
           KindOf[f] = "decided" => (first <=> m.cycleTime[CaseOf[f]] = NoFact)
    PROVE  Sound(Applied(m, f, pack, first, s))
<1>1. KindOf[f] \in {"created", "decided", "finding"}
  BY FactsAssumption
<1> QED  BY <1>1, CreatedSound, FindingSound, DecidedSound

-----------------------------------------------------------------------------
(* The inductive invariant. *)

Bodies == Facts \union {Control}
Messages == [body : Bodies, attempt : 0..RetryTiers]
RetryMessages == [body : Bodies, attempt : 1..RetryTiers]
Phases == {"idle", "claimed", "attributed", "ready", "resetting", "handled", "failed", "copied"}
Transactions == [phase : Phases, pack : Packs, first : BOOLEAN, wiped : 0..7]

\* The keys of each table.
TableRows ==
    [throughput : SUBSET ThroughputKeys, cycleTime : SUBSET Cases, dimensions : SUBSET Cases,
     findings : SUBSET FindingKeys, effectiveness : SUBSET RuleKeys,
     processed : SUBSET Facts, state : SUBSET {"analytics"}]

LogTyped ==
    /\ row \in [Facts -> {"none", "open", "committed"}]
    /\ seqOf \in [Facts -> 0..Cardinality(Facts)]
    /\ \A f \in Facts : row[f] = "none" => seqOf[f] = 0
    /\ announced \subseteq Facts

BrokerTyped ==
    /\ queue \in [Consumers -> Seq(Messages)]
    /\ retry \in [Consumers -> Seq(RetryMessages)]
    /\ dead \in [Consumers -> SUBSET Bodies]
    /\ discarded \subseteq announced

CommandTyped ==
    /\ replay \in {"off", "paging", "published", "aborted"}
    /\ cursor \in 0..Cardinality(Facts)
    /\ page \subseteq Facts
    /\ sent \subseteq Facts
    /\ page # {} => replay = "paging"

AnalyticsTyped ==
    /\ tx \in [Consumers -> Transactions]
    /\ deleted \in TableRows

\* The open transaction of c has read what is still there, of a fact nobody has recorded.
Current(c) ==
    /\ tx[c].phase = "idle" => tx[c] = Idle
    /\ tx[c].phase # "idle" => queue[c] # <<>>
    /\ tx[c].phase # "resetting" => tx[c].wiped = 0
    /\ HoldsClaim(c) => Delivery(c) \in Facts \ db.processed
    /\ tx[c].phase \in {"attributed", "ready"} => KindOf[Delivery(c)] = "decided"
    /\ tx[c].phase = "ready" =>
          tx[c].first = (db.cycleTime[CaseOf[Delivery(c)]] = NoFact)

\* An open reset has deleted the rows there are, of the tables it has come to.
ResetInv ==
    /\ tx["live"].phase # "resetting"
    /\ tx["replay"].phase # "resetting" => deleted = NoRows
    /\ tx["replay"].phase = "resetting" =>
          /\ Delivery("replay") = Control
          /\ \A i \in 1..7 :
                deleted[Tables[i]] = IF i <= tx["replay"].wiped THEN Rows(db)[Tables[i]] ELSE {}

\* Without Overlap, one of the two streams is at rest.
Exclusive == NoReplayRunning \/ NoLiveTraffic

CountersInv ==
    /\ LogTyped /\ BrokerTyped /\ CommandTyped /\ AnalyticsTyped
    /\ \A c \in Consumers : Current(c)
    /\ ResetInv
    /\ Exclusive
    /\ Sound(db)

\* The steps of the system, one actor at a time.
LogNext == \E f \in Facts : AppendDomainEvent(f) \/ Publishing(f)
CommandNext == StartReplay \/ Paging
ConsumerNext == Resetting \/ (\E c \in Consumers : Consume(c) \/ ExpireRetry(c)) \/ Crash

LEMMA NextByActor ==
    ASSUME [Next]_vars
    PROVE  LogNext \/ CommandNext \/ ConsumerNext \/ UNCHANGED vars
BY DEF Next, LogNext, CommandNext, ConsumerNext

\* The oldest of a set of facts is one of them, and none of them is older.
LEMMA EarliestIsOldest ==
    ASSUME NEW facts, facts \subseteq Facts, facts # {}, NEW seq,
           \A f \in Facts : seq[f] \in Nat
    PROVE  /\ Earliest(facts, seq) \in facts
           /\ \A g \in facts : seq[Earliest(facts, seq)] <= seq[g]
<1> DEFINE numbers == {seq[f] : f \in facts}
<1>1. numbers \subseteq Nat /\ numbers # {}
  OBVIOUS
<1>2. Min(numbers) \in numbers /\ \A n \in numbers : Min(numbers) <= n
  BY <1>1, MinIsLeast
<1>3. PICK f \in facts : seq[f] = Min(numbers)
  BY <1>2
<1>4. \A g \in facts : seq[f] <= seq[g]
  BY <1>2, <1>3
<1> QED  BY <1>4 DEF Earliest

\* The sequence drawn next is one no fact has passed.
LEMMA NextSequenceBound ==
    ASSUME LogTyped, NEW f \in Facts, row[f] = "none"
    PROVE  NextSequence \in 1..Cardinality(Facts)
<1> DEFINE drawn == {g \in Facts : seqOf[g] > 0}
<1>1. IsFiniteSet(Facts) /\ Cardinality(Facts) \in Nat
  BY FactsAssumption, FS_CardinalityType
<1>2. drawn \in SUBSET Facts
  OBVIOUS
<1>3. IsFiniteSet(drawn) /\ Cardinality(drawn) \in Nat
  BY <1>1, <1>2, FS_Subset, FS_CardinalityType
<1>4. f \notin drawn
  BY DEF LogTyped
<1>5. Cardinality(drawn \union {f}) = Cardinality(drawn) + 1
  BY <1>3, <1>4, FS_AddElement
<1>6. drawn \union {f} \in SUBSET Facts
  OBVIOUS
<1>7. Cardinality(drawn \union {f}) <= Cardinality(Facts)
  BY <1>1, <1>6, FS_Subset
<1> QED  BY <1>1, <1>3, <1>5, <1>7 DEF NextSequence

LEMMA LogKept ==
    ASSUME LogTyped, [Next]_vars
    PROVE  LogTyped'
<1>1. CASE LogNext
  <2>1. ASSUME NEW f \in Facts, AppendDomainEvent(f)
        PROVE  LogTyped'
    <3>1. NextSequence \in 0..Cardinality(Facts)
      BY <2>1, NextSequenceBound, FactsAssumption, FS_CardinalityType DEF AppendDomainEvent
    <3> QED  BY <2>1, <3>1 DEF AppendDomainEvent, LogTyped
  <2>2. ASSUME NEW f \in Facts, CommitEvent(f)
        PROVE  LogTyped'
    BY <2>2 DEF CommitEvent, LogTyped
  <2>3. ASSUME NEW f \in Facts, Announce(f)
        PROVE  LogTyped'
    BY <2>3 DEF Announce, LogTyped
  <2> QED  BY <1>1, <2>1, <2>2, <2>3 DEF LogNext, Publishing
<1>2. CASE UNCHANGED log
  BY <1>2 DEF log, LogTyped
<1>3. CommandNext \/ ConsumerNext \/ UNCHANGED vars => UNCHANGED log
  BY DEF CommandNext, ConsumerNext, vars, StartReplay, Paging, ReadPage, FinishReplay,
         PublishRow, PublishRefused, Resetting, BeginReset, DeleteTable, CommitReset, Consume,
         Claim, ReadDimension, ReadCycleTime, CommitApply, TransactionFails, SendRetryCopy,
         GiveUp, Acknowledge, ExpireRetry, Crash
<1> QED  BY <1>1, <1>2, <1>3, NextByActor

LEMMA CommandKept ==
    ASSUME LogTyped, CommandTyped, [Next]_vars
    PROVE  CommandTyped'
<1>0. Cardinality(Facts) \in Nat
  BY FactsAssumption, FS_CardinalityType
<1>1. CASE StartReplay
  BY <1>0, <1>1 DEF StartReplay, CommandTyped
<1>2. CASE ReadPage
  BY <1>2 DEF ReadPage, CommandTyped, Beyond, Committed
<1>3. CASE FinishReplay
  BY <1>3 DEF FinishReplay, CommandTyped
<1>4. CASE PublishRow
  <2>1. \A f \in Facts : seqOf[f] \in Nat
    BY <1>0 DEF LogTyped
  <2>2. PICK f \in page : f = Earliest(page, seqOf)
    BY <1>4, <2>1, EarliestIsOldest DEF PublishRow, CommandTyped
  <2>3. cursor' = seqOf[f] /\ page' = page \ {f} /\ sent' = sent \union {f} /\ replay' = replay
    BY <1>4, <2>2 DEF PublishRow
  <2> QED  BY <2>3 DEF CommandTyped, LogTyped
<1>5. CASE PublishRefused
  BY <1>0, <1>5 DEF PublishRefused, CommandTyped
<1>6. CASE UNCHANGED command
  BY <1>6 DEF command, CommandTyped
<1>7. LogNext \/ ConsumerNext \/ UNCHANGED vars => UNCHANGED command
  BY DEF LogNext, ConsumerNext, vars, AppendDomainEvent, Publishing, CommitEvent, Announce,
         Resetting, BeginReset, DeleteTable, CommitReset, Consume, Claim, ReadDimension,
         ReadCycleTime, CommitApply, TransactionFails, SendRetryCopy, GiveUp, Acknowledge,
         ExpireRetry, Crash
<1> QED  BY <1>1, <1>2, <1>3, <1>4, <1>5, <1>6, <1>7, NextByActor DEF CommandNext, Paging

LEMMA HeadKept ==
    ASSUME NEW S, NEW q \in Seq(S), NEW x \in S
    PROVE  /\ Append(q, x) \in Seq(S)
           /\ Append(q, x) # <<>>
           /\ q # <<>> => Head(Append(q, x)) = Head(q)
           /\ q # <<>> => Head(q) \in S /\ Tail(q) \in Seq(S)
OBVIOUS

LEMMA MessagesTyped ==
    /\ Message(Control) \in Messages
    /\ \A f \in Facts : Message(f) \in Messages
    /\ \A m \in Messages : ~Spent(m) => RetryCopy(m) \in RetryMessages
    /\ RetryMessages \subseteq Messages
BY ReplayAssumption DEF Message, Messages, RetryMessages, Bodies, Spent, RetryCopy

LEMMA BrokerKept ==
    ASSUME LogTyped, CommandTyped, BrokerTyped, \A c \in Consumers : Current(c), [Next]_vars
    PROVE  BrokerTyped'
<1>0. \A c \in Consumers : queue[c] \in Seq(Messages) /\ retry[c] \in Seq(RetryMessages)
  BY DEF BrokerTyped
<1>c. "live" \in Consumers /\ "replay" \in Consumers
  BY DEF Consumers
<1>1. CASE LogNext
  <2>1. ASSUME NEW f \in Facts, Announce(f)
        PROVE  BrokerTyped'
    <3>1. Append(queue["live"], Message(f)) \in Seq(Messages)
      BY <1>0, <1>c, HeadKept, MessagesTyped
    <3>2. queue' = queue \/ queue' = [queue EXCEPT !["live"] = Append(queue["live"], Message(f))]
      BY <2>1 DEF Announce
    <3>3. discarded' \subseteq announced'
      BY <2>1 DEF Announce, BrokerTyped
    <3> QED  BY <2>1, <3>1, <3>2, <3>3 DEF Announce, BrokerTyped
  <2>2. ASSUME NEW f \in Facts, AppendDomainEvent(f) \/ CommitEvent(f)
        PROVE  BrokerTyped'
    BY <2>2 DEF AppendDomainEvent, CommitEvent, broker, BrokerTyped
  <2> QED  BY <1>1, <2>1, <2>2 DEF LogNext, Publishing
<1>2. CASE StartReplay
  <2>1. Append(queue["replay"], Message(Control)) \in Seq(Messages)
    BY <1>0, <1>c, HeadKept, MessagesTyped
  <2> QED  BY <1>2, <2>1 DEF StartReplay, log, BrokerTyped
<1>3. CASE PublishRow
  <2>1. \A f \in Facts : seqOf[f] \in Nat
    BY FactsAssumption, FS_CardinalityType DEF LogTyped
  <2>2. PICK f \in page : f = Earliest(page, seqOf)
    BY <1>3, <2>1, EarliestIsOldest DEF PublishRow, CommandTyped
  <2>3. f \in Facts
    BY DEF CommandTyped
  <2>4. Append(queue["replay"], Message(f)) \in Seq(Messages)
    BY <1>0, <1>c, <2>3, HeadKept, MessagesTyped
  <2>5. queue' = queue
          \/ queue' = [queue EXCEPT !["replay"] = Append(queue["replay"], Message(f))]
    BY <1>3, <2>2 DEF PublishRow
  <2> QED  BY <1>3, <2>4, <2>5 DEF PublishRow, log, BrokerTyped
<1>4. CASE \E c \in Consumers : SendRetryCopy(c)
  <2>1. PICK c \in Consumers : SendRetryCopy(c)
    BY <1>4
  <2>2. Head(queue[c]) \in Messages
    BY <1>0, <2>1, HeadKept DEF SendRetryCopy, Current
  <2>3. RetryCopy(Head(queue[c])) \in RetryMessages
    BY <2>1, <2>2, MessagesTyped DEF SendRetryCopy
  <2>4. Append(retry[c], RetryCopy(Head(queue[c]))) \in Seq(RetryMessages)
    BY <1>0, <2>3
  <2> QED  BY <2>1, <2>4 DEF SendRetryCopy, log, BrokerTyped
<1>5. CASE \E c \in Consumers : GiveUp(c)
  <2>1. PICK c \in Consumers : GiveUp(c)
    BY <1>5
  <2>2. Head(queue[c]) \in Messages /\ Tail(queue[c]) \in Seq(Messages)
    BY <1>0, <2>1, HeadKept DEF GiveUp, Current
  <2>3. dead[c] \union {Delivery(c)} \in SUBSET Bodies
    BY <2>2 DEF BrokerTyped, Delivery, Messages
  <2> QED  BY <2>1, <2>2, <2>3 DEF GiveUp, log, BrokerTyped
<1>6. CASE \E c \in Consumers : Acknowledge(c)
  <2>1. PICK c \in Consumers : Acknowledge(c)
    BY <1>6
  <2>2. Tail(queue[c]) \in Seq(Messages)
    BY <1>0, <2>1, HeadKept DEF Acknowledge, Done, Current
  <2> QED  BY <2>1, <2>2 DEF Acknowledge, log, BrokerTyped
<1>7. CASE \E c \in Consumers : ExpireRetry(c)
  <2>c. PICK c \in Consumers : ExpireRetry(c)
    BY <1>7
  <2>1. PICK i \in 1..Len(retry[c]) :
           /\ queue' = [queue EXCEPT ![c] = Append(@, retry[c][i])]
           /\ retry' = [retry EXCEPT ![c] = RemoveAt(@, i)]
           /\ UNCHANGED <<log, dead, discarded>>
    BY <2>c DEF ExpireRetry
  <2>2. retry[c] \in Seq(RetryMessages) /\ retry[c][i] \in Messages
    BY <1>0, MessagesTyped
  <2>3. Append(queue[c], retry[c][i]) \in Seq(Messages)
    BY <1>0, <2>2, HeadKept
  <2>4. RemoveAt(retry[c], i) \in Seq(RetryMessages)
    BY <2>2, RemovedAt
  <2> QED  BY <2>1, <2>3, <2>4 DEF log, BrokerTyped
<1>8. CASE UNCHANGED broker /\ UNCHANGED announced
  BY <1>8 DEF broker, BrokerTyped
<1>9. CommandNext \/ ConsumerNext \/ UNCHANGED vars =>
         \/ StartReplay \/ PublishRow
         \/ \E c \in Consumers : SendRetryCopy(c) \/ GiveUp(c) \/ Acknowledge(c) \/ ExpireRetry(c)
         \/ UNCHANGED broker /\ UNCHANGED announced
  BY DEF CommandNext, ConsumerNext, vars, log, Paging, ReadPage, FinishReplay,
         PublishRefused, Resetting, BeginReset, DeleteTable, CommitReset, Consume,
         Claim, ReadDimension, ReadCycleTime, CommitApply, TransactionFails, Crash
<1> QED  BY <1>1, <1>2, <1>3, <1>4, <1>5, <1>6, <1>7, <1>8, <1>9, NextByActor

LEMMA RowsTyped ==
    ASSUME NEW m \in ReadModels
    PROVE  Rows(m) \in TableRows
BY DEF Rows, TableRows, ReadModels

LEMMA PhasesTyped ==
    \A phase \in Phases : /\ In(phase) \in Transactions
                          /\ In(phase).phase = phase /\ In(phase).wiped = 0
                          /\ Idle \in Transactions /\ Idle.phase = "idle" /\ Idle.wiped = 0
<1>1. Idle \in Transactions /\ Idle.phase = "idle" /\ Idle.wiped = 0
  BY DEF Idle, Transactions, Phases, Packs
<1>2. ASSUME NEW phase \in Phases
      PROVE  In(phase) \in Transactions /\ In(phase).phase = phase /\ In(phase).wiped = 0
  <2>1. In(phase) \in [phase : Phases, pack : {"unknown"}, first : BOOLEAN, wiped : {0}]
    BY DEF In, Idle
  <2>2. In(phase) \in Transactions
    BY <2>1 DEF Transactions, Packs
  <2>3. In(phase).phase = phase /\ In(phase).wiped = 0
    BY DEF In, Idle
  <2> QED  BY <2>2, <2>3
<1> QED  BY <1>1, <1>2

LEMMA AnalyticsKept ==
    ASSUME AnalyticsTyped, db \in ReadModels, NoRows \in TableRows, [Next]_vars
    PROVE  AnalyticsTyped'
<1>1. ASSUME NEW c \in Consumers,
             Claim(c) \/ CommitApply(c) \/ SendRetryCopy(c) \/ GiveUp(c) \/ Acknowledge(c)
      PROVE  AnalyticsTyped'
  <2>1. PICK phase \in Phases : tx' = [tx EXCEPT ![c] = In(phase)] \/ tx' = [tx EXCEPT ![c] = Idle]
    BY <1>1 DEF Claim, CommitApply, SendRetryCopy, GiveUp, Acknowledge, Phases
  <2>2. UNCHANGED deleted
    BY <1>1 DEF Claim, CommitApply, SendRetryCopy, GiveUp, Acknowledge
  <2> QED  BY <2>1, <2>2, PhasesTyped DEF AnalyticsTyped
<1>2. ASSUME NEW c \in Consumers, ReadDimension(c)
      PROVE  AnalyticsTyped'
  <2>1. PICK pack \in Packs : tx' = [tx EXCEPT ![c] = [In("attributed") EXCEPT !.pack = pack]]
    BY <1>2 DEF ReadDimension, Packs
  <2>2. In("attributed") \in Transactions
    BY PhasesTyped DEF Phases
  <2>3. [In("attributed") EXCEPT !.pack = pack] \in Transactions
    BY <2>2 DEF Transactions
  <2> QED  BY <1>2, <2>1, <2>3 DEF ReadDimension, AnalyticsTyped
<1>3. ASSUME NEW c \in Consumers, ReadCycleTime(c)
      PROVE  AnalyticsTyped'
  <2>1. tx' = [tx EXCEPT ![c] = [tx[c] EXCEPT !.phase = "ready",
                                    !.first = db.cycleTime[CaseOf[Delivery(c)]] = NoFact]]
    BY <1>3 DEF ReadCycleTime, AnalyticsTyped
  <2>2. [tx[c] EXCEPT !.phase = "ready", !.first = db.cycleTime[CaseOf[Delivery(c)]] = NoFact]
          \in Transactions
    BY DEF AnalyticsTyped, Transactions, Phases
  <2> QED  BY <1>3, <2>1, <2>2 DEF ReadCycleTime, AnalyticsTyped
<1>4. ASSUME NEW c \in Consumers, TransactionFails(c)
      PROVE  AnalyticsTyped'
  BY <1>4, PhasesTyped DEF TransactionFails, AnalyticsTyped, Phases
<1>5. CASE BeginReset
  BY <1>5, PhasesTyped DEF BeginReset, AnalyticsTyped, Phases
<1>6. CASE DeleteTable
  <2>1. tx["replay"] \in Transactions
    BY DEF AnalyticsTyped, Consumers
  <2>2. tx["replay"].wiped \in 0..6
    BY <1>6, <2>1 DEF DeleteTable, Transactions, Tables
  <2>3. PICK next \in 1..7 : next = tx["replay"].wiped + 1
    BY <2>2
  <2>4. /\ tx' = [tx EXCEPT !["replay"] = [tx["replay"] EXCEPT !.wiped = next]]
        /\ deleted' = [deleted EXCEPT ![Tables[next]] = Rows(db)[Tables[next]]]
    BY <1>6, <2>3 DEF DeleteTable
  <2>5. [tx["replay"] EXCEPT !.wiped = next] \in Transactions
    BY <2>1 DEF Transactions
  <2>6. deleted' \in TableRows
    BY <2>4, RowsTyped DEF AnalyticsTyped, TableRows, Tables
  <2> QED  BY <2>4, <2>5, <2>6 DEF AnalyticsTyped
<1>7. CASE CommitReset
  BY <1>7, PhasesTyped DEF CommitReset, AnalyticsTyped, Phases
<1>8. CASE Crash
  BY <1>8, PhasesTyped DEF Crash, AnalyticsTyped, Phases
<1>9. CASE UNCHANGED <<tx, deleted>>
  BY <1>9 DEF AnalyticsTyped
<1>10. LogNext \/ CommandNext \/ (\E c \in Consumers : ExpireRetry(c)) \/ UNCHANGED vars
         => UNCHANGED <<tx, deleted>>
  BY DEF LogNext, CommandNext, vars, analytics, AppendDomainEvent, Publishing, CommitEvent,
         Announce, StartReplay, Paging, ReadPage, FinishReplay, PublishRow, PublishRefused,
         ExpireRetry
<1> QED  BY <1>1, <1>2, <1>3, <1>4, <1>5, <1>6, <1>7, <1>8, <1>9, <1>10, NextByActor
         DEF ConsumerNext, Resetting, Consume

\* The relay only appends to the live queue, the command to the replay queue.
LEMMA LogAppends ==
    ASSUME BrokerTyped, LogNext
    PROVE  /\ UNCHANGED <<retry, tx, db, deleted, replay>>
           /\ queue'["replay"] = queue["replay"]
           /\ \A c \in Consumers : queue[c] # <<>> =>
                queue'[c] # <<>> /\ Head(queue'[c]) = Head(queue[c])
<1>1. PICK f \in Facts : AppendDomainEvent(f) \/ CommitEvent(f) \/ Announce(f)
  BY DEF LogNext, Publishing
<1>2. /\ UNCHANGED <<retry, tx, db, deleted, replay>>
      /\ queue' = queue \/ queue' = [queue EXCEPT !["live"] = Append(queue["live"], Message(f))]
  BY <1>1 DEF AppendDomainEvent, CommitEvent, Announce, command, broker, analytics
<1>3. queue["live"] # <<>> =>
         /\ Append(queue["live"], Message(f)) # <<>>
         /\ Head(Append(queue["live"], Message(f))) = Head(queue["live"])
  BY MessagesTyped, HeadKept DEF BrokerTyped, Consumers
<1> QED  BY <1>2, <1>3 DEF BrokerTyped, Consumers

LEMMA CommandAppends ==
    ASSUME LogTyped, CommandTyped, BrokerTyped, CommandNext
    PROVE  /\ UNCHANGED <<row, announced, retry, tx, db, deleted>>
           /\ queue'["live"] = queue["live"]
           /\ \A c \in Consumers : queue[c] # <<>> =>
                queue'[c] # <<>> /\ Head(queue'[c]) = Head(queue[c])
<1>1. /\ UNCHANGED <<row, announced, retry, tx, db, deleted>>
      /\ \/ queue' = queue
         \/ \E body \in Bodies :
               queue' = [queue EXCEPT !["replay"] = Append(queue["replay"], Message(body))]
  <2>1. CASE StartReplay
    BY <2>1 DEF StartReplay, log, analytics, Bodies
  <2>2. CASE PublishRow
    <3>1. \A f \in Facts : seqOf[f] \in Nat
      BY FactsAssumption, FS_CardinalityType DEF LogTyped
    <3>2. PICK f \in page : f = Earliest(page, seqOf)
      BY <2>2, <3>1, EarliestIsOldest DEF PublishRow, CommandTyped
    <3>3. f \in Bodies
      BY DEF CommandTyped, Bodies
    <3> QED  BY <2>2, <3>2, <3>3 DEF PublishRow, log, analytics
  <2>3. CASE ReadPage \/ FinishReplay \/ PublishRefused
    BY <2>3 DEF ReadPage, FinishReplay, PublishRefused, log, broker, analytics
  <2> QED  BY <2>1, <2>2, <2>3 DEF CommandNext, Paging
<1>2. \A body \in Bodies : queue["replay"] # <<>> =>
         /\ Append(queue["replay"], Message(body)) # <<>>
         /\ Head(Append(queue["replay"], Message(body))) = Head(queue["replay"])
  BY MessagesTyped, HeadKept DEF BrokerTyped, Consumers, Bodies
<1> QED  BY <1>1, <1>2 DEF BrokerTyped, Consumers

\* A consumer that takes a step is not at rest, and touches only its own queue and transaction.
LEMMA ConsumerSteps ==
    ASSUME BrokerTyped, AnalyticsTyped, NEW c \in Consumers, Current(c),
           Consume(c) \/ ExpireRetry(c) \/ (c = "replay" /\ Resetting)
    PROVE  /\ ~Settled(c)
           /\ UNCHANGED <<row, announced, replay>>
           /\ queue'[Other(c)] = queue[Other(c)] /\ retry'[Other(c)] = retry[Other(c)]
           /\ tx'[Other(c)] = tx[Other(c)]
<1>0. Other(c) \in Consumers /\ Other(c) # c
  BY DEF Other, Consumers
<1>1. CASE Claim(c)
  BY <1>0, <1>1 DEF Claim, HandlesFact, Settled, log, command, broker, AnalyticsTyped
<1>2. CASE ExpireRetry(c)
  <2>1. retry[c] # <<>>
    BY <1>2 DEF ExpireRetry, BrokerTyped
  <2> QED  BY <1>0, <1>2, <2>1 DEF ExpireRetry, Settled, log, command, analytics, BrokerTyped
<1>3. CASE BeginReset /\ c = "replay"
  BY <1>0, <1>3 DEF BeginReset, Settled, log, command, broker, AnalyticsTyped
<1>4. ASSUME \/ ReadDimension(c) \/ ReadCycleTime(c) \/ CommitApply(c) \/ TransactionFails(c)
             \/ SendRetryCopy(c) \/ GiveUp(c) \/ Acknowledge(c)
             \/ c = "replay" /\ (DeleteTable \/ CommitReset)
      PROVE  tx[c].phase # "idle"
  BY <1>4 DEF ReadDimension, ReadCycleTime, CommitApply, TransactionFails, SendRetryCopy,
              GiveUp, Acknowledge, DeleteTable, CommitReset, ReadyToWrite, HoldsClaim, Done
<1>5. tx[c].phase # "idle" => ~Settled(c)
  BY PhasesTyped DEF Settled, Phases
<1>6. ASSUME ReadDimension(c) \/ ReadCycleTime(c) \/ CommitApply(c) \/ TransactionFails(c)
             \/ (c = "replay" /\ (DeleteTable \/ CommitReset))
      PROVE  UNCHANGED <<row, announced, replay, queue, retry>> /\ tx'[Other(c)] = tx[Other(c)]
  BY <1>0, <1>6 DEF ReadDimension, ReadCycleTime, CommitApply, TransactionFails, DeleteTable,
              CommitReset, log, command, broker, AnalyticsTyped
<1>7. ASSUME SendRetryCopy(c) \/ GiveUp(c) \/ Acknowledge(c)
      PROVE  /\ UNCHANGED <<row, announced, replay>>
             /\ queue'[Other(c)] = queue[Other(c)] /\ retry'[Other(c)] = retry[Other(c)]
             /\ tx'[Other(c)] = tx[Other(c)]
  BY <1>0, <1>7 DEF SendRetryCopy, GiveUp, Acknowledge, log, command, AnalyticsTyped, BrokerTyped
<1> QED  BY <1>1, <1>2, <1>3, <1>4, <1>5, <1>6, <1>7 DEF Consume, Resetting

LEMMA ExclusiveKept ==
    ASSUME ~Overlap, LogTyped, CommandTyped, BrokerTyped, AnalyticsTyped,
           \A c \in Consumers : Current(c), Exclusive, [Next]_vars
    PROVE  Exclusive'
<1>c. Consumers = {"live", "replay"}
  BY DEF Consumers
<1>1. CASE LogNext
  <2>1. NoReplayRunning
    BY <1>1 DEF LogNext, Publishing, AppendDomainEvent, CommitEvent, Announce, Exclusive,
                NoLiveTraffic
  <2>2. UNCHANGED <<retry, tx, replay>> /\ queue'["replay"] = queue["replay"]
    BY <1>1, LogAppends
  <2> QED  BY <2>1, <2>2 DEF Exclusive, NoReplayRunning, Settled
<1>2. CASE CommandNext
  <2>1. NoLiveTraffic
    BY <1>2 DEF CommandNext, StartReplay, Paging, ReadPage, FinishReplay, PublishRow,
                PublishRefused, Exclusive, NoReplayRunning, CommandTyped
  <2>2. UNCHANGED <<row, announced, retry, tx>> /\ queue'["live"] = queue["live"]
    BY <1>2, CommandAppends
  <2> QED  BY <2>1, <2>2 DEF Exclusive, NoLiveTraffic, Settled, Committed
<1>3. ASSUME Consume("live") \/ ExpireRetry("live")
      PROVE  Exclusive'
  <2>1. /\ ~Settled("live") /\ UNCHANGED replay
        /\ queue'["replay"] = queue["replay"] /\ retry'["replay"] = retry["replay"]
        /\ tx'["replay"] = tx["replay"]
    BY <1>c, <1>3, ConsumerSteps DEF Other
  <2> QED  BY <2>1 DEF Exclusive, NoReplayRunning, NoLiveTraffic, Settled
<1>4. ASSUME Consume("replay") \/ ExpireRetry("replay") \/ Resetting
      PROVE  Exclusive'
  <2>1. /\ ~Settled("replay") /\ UNCHANGED <<row, announced>>
        /\ queue'["live"] = queue["live"] /\ retry'["live"] = retry["live"]
        /\ tx'["live"] = tx["live"]
    BY <1>c, <1>4, ConsumerSteps DEF Other
  <2> QED  BY <2>1 DEF Exclusive, NoReplayRunning, NoLiveTraffic, Settled, Committed
<1>5. CASE Crash
  <2>1. UNCHANGED <<row, announced, replay, queue, retry>> /\ \A c \in Consumers : tx'[c] = Idle
    BY <1>5 DEF Crash, log, command, broker
  <2> QED  BY <1>c, <2>1 DEF Exclusive, NoReplayRunning, NoLiveTraffic, Settled, Committed
<1>6. CASE UNCHANGED vars
  BY <1>6 DEF vars, log, command, broker, analytics, Exclusive, NoReplayRunning, NoLiveTraffic,
              Settled, Committed
<1> QED  BY <1>c, <1>1, <1>2, <1>3, <1>4, <1>5, <1>6, NextByActor DEF ConsumerNext

\* What a transaction has read stays true while its delivery and the database are left alone.
LEMMA CurrentStays ==
    ASSUME NEW c \in Consumers, Current(c), tx'[c] = tx[c],
           tx[c].phase # "idle" =>
              /\ queue'[c] # <<>> /\ Head(queue'[c]) = Head(queue[c])
              /\ db' = db
    PROVE  Current(c)'
BY DEF Current, HoldsClaim, Delivery

\* Of two consumers, one is at rest.
LEMMA OtherAtRest ==
    ASSUME Exclusive, NEW c \in Consumers, ~Settled(c)
    PROVE  Settled(Other(c)) /\ tx[Other(c)] = Idle
BY DEF Exclusive, NoReplayRunning, NoLiveTraffic, Settled, Other, Consumers

LEMMA CurrentWhenIdle ==
    ASSUME NEW c \in Consumers, tx'[c] = Idle
    PROVE  Current(c)'
BY PhasesTyped DEF Current, HoldsClaim, Phases

LEMMA CurrentStep ==
    ASSUME BrokerTyped, AnalyticsTyped, NEW c \in Consumers, Current(c),
           Consume(c) \/ ExpireRetry(c) \/ (c = "replay" /\ Resetting)
    PROVE  Current(c)'
<1>0. tx \in [Consumers -> Transactions] /\ queue[c] \in Seq(Messages)
  BY DEF AnalyticsTyped, BrokerTyped
<1>1. CASE Claim(c)
  <2>1. PICK phase \in Phases : phase = IF Duplicate(Delivery(c)) THEN "handled" ELSE "claimed"
    BY DEF Phases
  <2>2. tx'[c] = In(phase) /\ queue' = queue /\ db' = db /\ queue[c] # <<>> /\ Delivery(c) # Control
    BY <1>0, <1>1, <2>1 DEF Claim, HandlesFact, broker
  <2>h. Head(queue[c]) \in Messages
    BY <1>0, <2>2
  <2>3. Delivery(c) \in Facts
    BY <2>2, <2>h DEF Delivery, Messages, Bodies
  <2>4. phase = "claimed" => Delivery(c) \notin db.processed
    BY <2>1 DEF Duplicate
  <2> QED  BY <2>1, <2>2, <2>3, <2>4, PhasesTyped DEF Current, HoldsClaim, Delivery
<1>2. CASE ReadDimension(c)
  <2>1. PICK pack \in Packs : tx' = [tx EXCEPT ![c] = [In("attributed") EXCEPT !.pack = pack]]
    BY <1>2 DEF ReadDimension, Packs
  <2>2. In("attributed") \in Transactions /\ In("attributed").phase = "attributed"
        /\ In("attributed").wiped = 0
    BY PhasesTyped DEF Phases
  <2>3. tx'[c].phase = "attributed" /\ tx'[c].wiped = 0
    BY <1>0, <2>1, <2>2 DEF Transactions
  <2>4. /\ queue' = queue /\ db' = db /\ tx[c].phase = "claimed"
        /\ KindOf[Delivery(c)] = "decided"
    BY <1>2 DEF ReadDimension, broker
  <2> QED  BY <2>3, <2>4 DEF Current, HoldsClaim, Delivery
<1>3. CASE ReadCycleTime(c)
  <2>1. tx' = [tx EXCEPT ![c] = [tx[c] EXCEPT !.phase = "ready",
                                    !.first = db.cycleTime[CaseOf[Delivery(c)]] = NoFact]]
    BY <1>0, <1>3 DEF ReadCycleTime
  <2>2. /\ tx'[c].phase = "ready" /\ tx'[c].wiped = tx[c].wiped
        /\ tx'[c].first = (db.cycleTime[CaseOf[Delivery(c)]] = NoFact)
    BY <1>0, <2>1 DEF Transactions
  <2>3. queue' = queue /\ db' = db /\ tx[c].phase = "attributed"
    BY <1>3 DEF ReadCycleTime, broker
  <2> QED  BY <2>2, <2>3 DEF Current, HoldsClaim, Delivery
<1>4. ASSUME NEW phase \in {"handled", "failed", "copied"},
             tx' = [tx EXCEPT ![c] = In(phase)], queue' = queue, tx[c].phase # "idle"
      PROVE  Current(c)'
  <2>1. tx'[c].phase = phase /\ tx'[c].wiped = 0
    BY <1>0, <1>4, PhasesTyped DEF Phases
  <2> QED  BY <1>4, <2>1 DEF Current, HoldsClaim
<1>5. CASE CommitApply(c)
  BY <1>4, <1>5 DEF CommitApply, ReadyToWrite, broker
<1>6. CASE TransactionFails(c)
  BY <1>4, <1>6 DEF TransactionFails, HoldsClaim, broker
<1>7. CASE SendRetryCopy(c)
  BY <1>4, <1>7 DEF SendRetryCopy
<1>8. CASE GiveUp(c) \/ Acknowledge(c)
  BY <1>0, <1>8, CurrentWhenIdle DEF GiveUp, Acknowledge
<1>9. CASE ExpireRetry(c)
  <2>1. PICK i \in 1..Len(retry[c]) :
           /\ queue' = [queue EXCEPT ![c] = Append(@, retry[c][i])]
           /\ UNCHANGED <<tx, db>>
    BY <1>9 DEF ExpireRetry, analytics
  <2>2. retry[c][i] \in Messages
    BY MessagesTyped DEF BrokerTyped
  <2>3. queue[c] # <<>> => queue'[c] # <<>> /\ Head(queue'[c]) = Head(queue[c])
    <3>1. queue'[c] = Append(queue[c], retry[c][i])
      BY <2>1 DEF BrokerTyped
    <3>2. queue[c] # <<>> =>
             /\ Append(queue[c], retry[c][i]) # <<>>
             /\ Head(Append(queue[c], retry[c][i])) = Head(queue[c])
      BY <1>0, <2>2, HeadKept
    <3> QED  BY <3>1, <3>2
  <2>4. tx[c].phase # "idle" => queue[c] # <<>>
    BY DEF Current
  <2> QED  BY <2>1, <2>3, <2>4, CurrentStays
<1>10. CASE BeginReset /\ c = "replay"
  <2>1. tx'[c].phase = "resetting" /\ queue' = queue /\ queue[c] # <<>>
    BY <1>0, <1>10, PhasesTyped DEF BeginReset, broker, Phases
  <2> QED  BY <2>1 DEF Current, HoldsClaim
<1>11. CASE DeleteTable /\ c = "replay"
  <2>1. tx' = [tx EXCEPT ![c] = [tx[c] EXCEPT !.wiped = tx[c].wiped + 1]]
    BY <1>0, <1>11 DEF DeleteTable
  <2>2. tx'[c].phase = "resetting" /\ queue' = queue /\ tx[c].phase = "resetting"
    BY <1>0, <1>11, <2>1 DEF DeleteTable, broker, Transactions
  <2> QED  BY <2>2 DEF Current, HoldsClaim
<1>12. CASE CommitReset /\ c = "replay"
  BY <1>4, <1>12 DEF CommitReset, broker
<1> QED  BY <1>1, <1>2, <1>3, <1>5, <1>6, <1>7, <1>8, <1>9, <1>10, <1>11, <1>12
         DEF Consume, Resetting

LEMMA CurrentKept ==
    ASSUME LogTyped, CommandTyped, BrokerTyped, AnalyticsTyped,
           \A c \in Consumers : Current(c), Exclusive, [Next]_vars
    PROVE  \A c \in Consumers : Current(c)'
<1> SUFFICES ASSUME NEW c \in Consumers
             PROVE  Current(c)'
  OBVIOUS
<1>0. tx[c].phase # "idle" => queue[c] # <<>>
  BY DEF Current
<1>1. CASE LogNext
  BY <1>0, <1>1, LogAppends, CurrentStays
<1>2. CASE CommandNext
  BY <1>0, <1>2, CommandAppends, CurrentStays
<1>3. CASE Crash
  BY <1>3, CurrentWhenIdle DEF Crash
<1>4. CASE UNCHANGED vars
  BY <1>0, <1>4, CurrentStays DEF vars, broker, analytics
<1>5. ASSUME NEW d \in Consumers, Consume(d) \/ ExpireRetry(d) \/ (d = "replay" /\ Resetting)
      PROVE  Current(c)'
  <2>1. CASE d = c
    BY <1>5, <2>1, CurrentStep
  <2>2. CASE d # c
    <3>1. c = Other(d)
      BY <2>2 DEF Other, Consumers
    <3>2. ~Settled(d) /\ tx'[c] = tx[c]
      BY <1>5, <3>1, ConsumerSteps
    <3> QED  BY <3>1, <3>2, OtherAtRest, CurrentWhenIdle
  <2> QED  BY <2>1, <2>2
<1>6. "replay" \in Consumers
  BY DEF Consumers
<1> QED  BY <1>1, <1>2, <1>3, <1>4, <1>5, <1>6, NextByActor DEF ConsumerNext

LEMMA NoRowsAtAll ==
    /\ NoRows \in TableRows
    /\ \A i \in 1..7 : NoRows[Tables[i]] = {}
    /\ \A i, j \in 1..7 : Tables[i] = Tables[j] => i = j
    /\ Len(Tables) = 7
<1>1. EmptyReadModel \in ReadModels
  BY DEF EmptyReadModel, ReadModels
<1>2. NoRows \in TableRows
  BY <1>1, RowsTyped DEF NoRows
<1>3. /\ NoRows.throughput = {} /\ NoRows.cycleTime = {} /\ NoRows.dimensions = {}
      /\ NoRows.findings = {} /\ NoRows.effectiveness = {} /\ NoRows.processed = {}
      /\ NoRows.state = {}
  BY DEF NoRows, Rows, EmptyReadModel
<1>4. \A i \in 1..7 : i = 1 \/ i = 2 \/ i = 3 \/ i = 4 \/ i = 5 \/ i = 6 \/ i = 7
  OBVIOUS
<1> QED  BY <1>2, <1>3, <1>4 DEF Tables

LEMMA ResetKept ==
    ASSUME LogTyped, CommandTyped, BrokerTyped, AnalyticsTyped,
           \A c \in Consumers : Current(c), Exclusive, ResetInv, [Next]_vars
    PROVE  ResetInv'
<1>0. /\ tx \in [Consumers -> Transactions] /\ "live" \in Consumers /\ "replay" \in Consumers
      /\ Other("live") = "replay" /\ Other("replay") = "live"
      /\ tx["replay"].phase # "idle" => queue["replay"] # <<>>
  BY DEF AnalyticsTyped, Consumers, Other, Current
<1>s. ASSUME UNCHANGED <<tx, db, deleted>>,
             queue["replay"] # <<>> => Head(queue'["replay"]) = Head(queue["replay"])
      PROVE  ResetInv'
  BY <1>0, <1>s DEF ResetInv, Delivery
<1>1. CASE LogNext
  BY <1>0, <1>1, <1>s, LogAppends
<1>2. CASE CommandNext
  BY <1>0, <1>2, <1>s, CommandAppends
<1>3. CASE Crash
  BY <1>0, <1>3, PhasesTyped DEF Crash, ResetInv, Phases
<1>4. CASE UNCHANGED vars
  BY <1>4, <1>s DEF vars, broker, analytics
<1>q. ASSUME NEW c \in Consumers, Consume(c), tx[c].phase # "resetting"
      PROVE  tx'[c].phase # "resetting" /\ UNCHANGED deleted
  <2>1. CASE Claim(c) \/ CommitApply(c) \/ TransactionFails(c) \/ SendRetryCopy(c)
    <3>1. PICK phase \in {"handled", "claimed", "failed", "copied"} :
             tx' = [tx EXCEPT ![c] = In(phase)]
      BY <2>1 DEF Claim, CommitApply, TransactionFails, SendRetryCopy
    <3>2. In(phase).phase = phase
      BY PhasesTyped DEF Phases
    <3>3. tx'[c].phase # "resetting"
      BY <1>0, <3>1, <3>2
    <3> QED  BY <1>q, <2>1, <3>3 DEF Claim, CommitApply, TransactionFails, SendRetryCopy
  <2>2. CASE ReadDimension(c)
    <3>1. PICK pack \in Packs : tx' = [tx EXCEPT ![c] = [In("attributed") EXCEPT !.pack = pack]]
      BY <2>2 DEF ReadDimension, Packs
    <3>2. In("attributed") \in Transactions /\ In("attributed").phase = "attributed"
      BY PhasesTyped DEF Phases
    <3>3. tx'[c].phase = "attributed"
      BY <1>0, <3>1, <3>2 DEF Transactions
    <3> QED  BY <2>2, <3>3 DEF ReadDimension
  <2>3. CASE ReadCycleTime(c)
    <3>1. tx' = [tx EXCEPT ![c] = [tx[c] EXCEPT !.phase = "ready",
                                      !.first = db.cycleTime[CaseOf[Delivery(c)]] = NoFact]]
      BY <1>0, <2>3 DEF ReadCycleTime
    <3>2. tx'[c].phase = "ready"
      BY <1>0, <3>1 DEF Transactions
    <3> QED  BY <2>3, <3>2 DEF ReadCycleTime
  <2>4. CASE GiveUp(c) \/ Acknowledge(c)
    <3>1. tx'[c] = Idle /\ UNCHANGED deleted
      BY <1>0, <2>4 DEF GiveUp, Acknowledge
    <3> QED  BY <3>1, PhasesTyped DEF Phases
  <2> QED  BY <1>q, <2>1, <2>2, <2>3, <2>4 DEF Consume
<1>5. ASSUME Consume("live")
      PROVE  ResetInv'
  <2>1. ~Settled("live") /\ queue'["replay"] = queue["replay"] /\ tx'["replay"] = tx["replay"]
    BY <1>0, <1>5, ConsumerSteps
  <2>2. tx["replay"].phase # "resetting"
    BY <1>0, <2>1, OtherAtRest, PhasesTyped DEF Phases
  <2>3. tx'["live"].phase # "resetting" /\ UNCHANGED deleted
    BY <1>0, <1>5, <1>q DEF ResetInv
  <2> QED  BY <2>1, <2>2, <2>3 DEF ResetInv, NoRows
<1>6. ASSUME Consume("replay")
      PROVE  ResetInv'
  <2>1. tx'["live"] = tx["live"]
    BY <1>0, <1>6, ConsumerSteps
  <2>2. CASE tx["replay"].phase # "resetting"
    <3>1. tx'["replay"].phase # "resetting" /\ UNCHANGED deleted
      BY <1>0, <1>6, <1>q, <2>2
    <3> QED  BY <2>1, <2>2, <3>1 DEF ResetInv, NoRows
  <2>3. CASE tx["replay"].phase = "resetting"
    <3>1. TransactionFails("replay")
      BY <1>6, <2>3, PhasesTyped
         DEF Consume, Claim, ReadDimension, ReadCycleTime, CommitApply, ReadyToWrite,
             SendRetryCopy, GiveUp, Acknowledge, Done, Phases
    <3>2. tx' = [tx EXCEPT !["replay"] = In("failed")] /\ deleted' = NoRows
      BY <2>3, <3>1 DEF TransactionFails
    <3>3. tx'["replay"].phase = "failed"
      BY <1>0, <3>2, PhasesTyped DEF Phases
    <3> QED  BY <2>1, <3>2, <3>3 DEF ResetInv, NoRows
  <2> QED  BY <2>2, <2>3
<1>7. ASSUME NEW c \in Consumers, ExpireRetry(c)
      PROVE  ResetInv'
  <2>1. UNCHANGED <<tx, db, deleted>>
    BY <1>7 DEF ExpireRetry, analytics
  <2>2. PICK i \in 1..Len(retry[c]) : queue' = [queue EXCEPT ![c] = Append(queue[c], retry[c][i])]
    BY <1>7 DEF ExpireRetry, BrokerTyped
  <2>3. retry[c][i] \in Messages /\ queue["replay"] \in Seq(Messages)
    BY <1>0, MessagesTyped DEF BrokerTyped
  <2>4. queue["replay"] # <<>> => Head(Append(queue["replay"], retry[c][i])) = Head(queue["replay"])
    BY <2>3, HeadKept
  <2>5. queue["replay"] # <<>> => Head(queue'["replay"]) = Head(queue["replay"])
    BY <1>0, <2>2, <2>4 DEF BrokerTyped
  <2> QED  BY <1>s, <2>1, <2>5
<1>8. CASE BeginReset
  <2>1. /\ tx'["replay"].phase = "resetting" /\ tx'["replay"].wiped = 0
        /\ tx'["live"] = tx["live"] /\ UNCHANGED <<queue, db, deleted>>
        /\ Delivery("replay") = Control /\ tx["replay"].phase = "idle"
    BY <1>0, <1>8, PhasesTyped DEF BeginReset, broker, Phases
  <2>2. deleted = NoRows /\ \A i \in 1..7 : ~ (i <= 0)
    BY <2>1 DEF ResetInv
  <2> QED  BY <2>1, <2>2, NoRowsAtAll DEF ResetInv, Delivery
<1>9. CASE DeleteTable
  <2>1. PICK t \in Transactions, n \in 0..6 : t = tx["replay"] /\ n = t.wiped
    BY <1>0, <1>9, NoRowsAtAll DEF DeleteTable, Transactions
  <2>2. /\ tx' = [tx EXCEPT !["replay"] = [t EXCEPT !.wiped = n + 1]]
        /\ deleted' = [deleted EXCEPT ![Tables[n + 1]] = Rows(db)[Tables[n + 1]]]
        /\ UNCHANGED <<queue, db>> /\ t.phase = "resetting"
    BY <1>9, <2>1 DEF DeleteTable, broker
  <2>3. /\ tx'["replay"].phase = "resetting" /\ tx'["replay"].wiped = n + 1
        /\ tx'["live"] = tx["live"]
    BY <1>0, <2>1, <2>2 DEF Transactions
  <2>4. ASSUME NEW i \in 1..7
        PROVE  deleted'[Tables[i]] = IF i <= n + 1 THEN Rows(db)[Tables[i]] ELSE {}
    <3>1. deleted[Tables[i]] = IF i <= n THEN Rows(db)[Tables[i]] ELSE {}
      BY <2>1, <2>2 DEF ResetInv
    <3>2. Tables[i] \in DOMAIN deleted /\ Tables[n + 1] \in DOMAIN deleted
      BY DEF AnalyticsTyped, TableRows, Tables
    <3>3. CASE i = n + 1
      BY <2>2, <3>2, <3>3
    <3>4. CASE i # n + 1
      <4>1. Tables[i] # Tables[n + 1]
        BY <3>4, NoRowsAtAll
      <4>2. deleted'[Tables[i]] = deleted[Tables[i]]
        BY <2>2, <3>2, <4>1
      <4> QED  BY <3>1, <3>4, <4>2
    <3> QED  BY <3>3, <3>4
  <2>5. Delivery("replay") = Control /\ Delivery("replay")' = Delivery("replay")
    BY <2>1, <2>2 DEF ResetInv, Delivery
  <2> QED  BY <2>2, <2>3, <2>4, <2>5 DEF ResetInv
<1>10. CASE CommitReset
  <2>1. tx' = [tx EXCEPT !["replay"] = In("handled")] /\ deleted' = NoRows
    BY <1>10 DEF CommitReset
  <2>2. tx'["replay"].phase = "handled" /\ tx'["live"] = tx["live"]
    BY <1>0, <2>1, PhasesTyped DEF Phases
  <2> QED  BY <2>1, <2>2 DEF ResetInv, NoRows
<1> QED  BY <1>1, <1>2, <1>3, <1>4, <1>5, <1>6, <1>7, <1>8, <1>9, <1>10, NextByActor
         DEF ConsumerNext, Consumers, Resetting

\* A read model without rows is empty.
LEMMA EmptySound == Sound(EmptyReadModel)
<1>1. EmptyReadModel \in ReadModels
  BY DEF EmptyReadModel, ReadModels
<1>2. /\ EmptyReadModel.processed = {} /\ EmptyReadModel.findings = {}
      /\ \A k \in ThroughputKeys : /\ EmptyReadModel.throughput[k].created = 0
                                   /\ EmptyReadModel.throughput[k].decided = 0
      /\ \A k \in RuleKeys : /\ EmptyReadModel.effectiveness[k].raised = 0
                             /\ EmptyReadModel.effectiveness[k].concluded = 0
      /\ \A c \in Cases : EmptyReadModel.cycleTime[c] = NoFact
  BY DEF EmptyReadModel
<1>3. IsFiniteSet({}) /\ Cardinality({}) = 0
  BY FS_EmptySet
<1>4. /\ IsFiniteSet(Marks(CreatedIn(EmptyReadModel))) /\ Tally(CreatedIn(EmptyReadModel)) = 0
      /\ IsFiniteSet(Marks(DecidedIn(EmptyReadModel))) /\ Tally(DecidedIn(EmptyReadModel)) = 0
      /\ IsFiniteSet(Marks(RaisedIn(EmptyReadModel))) /\ Tally(RaisedIn(EmptyReadModel)) = 0
  <2>1. \A k \in DOMAIN CreatedIn(EmptyReadModel) : CreatedIn(EmptyReadModel)[k] = 0
    BY <1>2 DEF CreatedIn
  <2>2. \A k \in DOMAIN DecidedIn(EmptyReadModel) : DecidedIn(EmptyReadModel)[k] = 0
    BY <1>2 DEF DecidedIn
  <2>3. \A k \in DOMAIN RaisedIn(EmptyReadModel) : RaisedIn(EmptyReadModel)[k] = 0
    BY <1>2 DEF RaisedIn
  <2> QED  BY <2>1, <2>2, <2>3, TallyOfZeros
<1>5. /\ \A kind : OfKind(EmptyReadModel.processed, kind) = {}
      /\ DecidedCases(EmptyReadModel) = {}
      /\ \A k \in RuleKeys : CasesWithFinding(EmptyReadModel, k) = {}
  BY <1>2 DEF OfKind, DecidedCases, CasesWithFinding
<1>6. CountsFacts(EmptyReadModel) /\ CountsCases(EmptyReadModel)
  BY <1>3, <1>4, <1>5 DEF CountsFacts, CountsCases
<1>7. CountsRules(EmptyReadModel)
  <2> SUFFICES ASSUME NEW k \in RuleKeys, NEW cases,
                      cases = CasesWithFinding(EmptyReadModel, k)
               PROVE  /\ IsFiniteSet(cases)
                      /\ EmptyReadModel.effectiveness[k].concluded
                           <= Cardinality(cases \intersect DecidedCases(EmptyReadModel))
                      /\ Cardinality(cases) <= EmptyReadModel.effectiveness[k].raised
    BY DEF CountsRules
  <2>1. cases = {} /\ cases \intersect DecidedCases(EmptyReadModel) = {}
    BY <1>5
  <2> QED  BY <1>2, <1>3, <2>1
<1> QED  BY <1>1, <1>6, <1>7 DEF Sound

\* No rule is followed by more decisions than it fired.
LEMMA RulesInOrder ==
    ASSUME NEW m, Sound(m), NEW k \in RuleKeys
    PROVE  m.effectiveness[k].concluded <= m.effectiveness[k].raised
<1>1. PICK cases, decided : /\ cases = CasesWithFinding(m, k)
                            /\ decided = cases \intersect DecidedCases(m)
  OBVIOUS
<1>2. /\ IsFiniteSet(cases)
      /\ m.effectiveness[k].concluded <= Cardinality(decided)
      /\ Cardinality(cases) <= m.effectiveness[k].raised
  BY <1>1 DEF Sound, CountsRules
<1>3. decided \in SUBSET cases
  BY <1>1
<1>4. /\ Cardinality(decided) <= Cardinality(cases)
      /\ Cardinality(decided) \in Nat /\ Cardinality(cases) \in Nat
  BY <1>2, <1>3, FS_Subset, FS_CardinalityType
<1>5. m.effectiveness \in [RuleKeys -> [raised : Nat, concluded : Nat]]
  BY ModelFields DEF Sound
<1>6. m.effectiveness[k].concluded \in Nat /\ m.effectiveness[k].raised \in Nat
  BY <1>5
<1> QED  BY <1>2, <1>4, <1>6

\* A reset that has deleted every table leaves nothing.
LEMMA ResetEmpties ==
    ASSUME NEW m, Sound(m)
    PROVE  Without(m, Rows(m)) = EmptyReadModel
<1>0. m \in ReadModels
  BY DEF Sound
<1>1. ASSUME NEW k \in ThroughputKeys, k \notin Rows(m).throughput
      PROVE  m.throughput[k] = [created |-> 0, decided |-> 0]
  <2>1. m.throughput[k] \in [created : Nat, decided : Nat]
    BY <1>0, ModelFields
  <2>2. ~ (m.throughput[k].created + m.throughput[k].decided > 0)
    BY <1>1 DEF Rows
  <2>3. m.throughput[k].created = 0 /\ m.throughput[k].decided = 0
    BY <2>1, <2>2
  <2> QED  BY <2>1, <2>3
<1>2. ASSUME NEW k \in RuleKeys, k \notin Rows(m).effectiveness
      PROVE  m.effectiveness[k] = [raised |-> 0, concluded |-> 0]
  <2>1. m.effectiveness[k] \in [raised : Nat, concluded : Nat]
    BY <1>0, ModelFields
  <2>2. ~ (m.effectiveness[k].raised > 0)
    BY <1>2 DEF Rows
  <2>3. m.effectiveness[k].raised = 0 /\ m.effectiveness[k].concluded = 0
    BY <2>1, <2>2, RulesInOrder
  <2> QED  BY <2>1, <2>3
<1>3. ASSUME NEW c \in Cases, c \notin Rows(m).cycleTime
      PROVE  m.cycleTime[c] = NoFact
  BY <1>3 DEF Rows
<1>4. /\ m.dimensions \ Rows(m).dimensions = {}
      /\ m.findings \ Rows(m).findings = {}
      /\ m.processed \ Rows(m).processed = {}
  BY DEF Rows
<1>5. (IF Rows(m).state = {} THEN m.lastSequence ELSE 0) = 0
  <2>1. m.lastSequence \in Nat
    BY <1>0, ModelFields
  <2> QED  BY <2>1 DEF Rows
<1>6. PICK rows : rows = Rows(m)
  OBVIOUS
<1>7. /\ [k \in ThroughputKeys |->
            IF k \in rows.throughput THEN EmptyReadModel.throughput[k] ELSE m.throughput[k]]
           = [k \in ThroughputKeys |-> [created |-> 0, decided |-> 0]]
      /\ [k \in RuleKeys |->
            IF k \in rows.effectiveness THEN EmptyReadModel.effectiveness[k]
                                        ELSE m.effectiveness[k]]
           = [k \in RuleKeys |-> [raised |-> 0, concluded |-> 0]]
      /\ [c \in Cases |-> IF c \in rows.cycleTime THEN NoFact ELSE m.cycleTime[c]]
           = [c \in Cases |-> NoFact]
  BY <1>1, <1>2, <1>3, <1>6 DEF EmptyReadModel
<1> QED  BY <1>4, <1>5, <1>6, <1>7 DEF Without, EmptyReadModel

\* A reset that commits leaves an empty read model.
LEMMA ResetLeavesNothing ==
    ASSUME AnalyticsTyped, ResetInv, Sound(db), CommitReset
    PROVE  db' = EmptyReadModel
<1>1. deleted \in TableRows /\ Rows(db) \in TableRows
  BY RowsTyped DEF AnalyticsTyped, Sound
<1>2. \A i \in 1..7 : deleted[Tables[i]] = Rows(db)[Tables[i]]
  BY NoRowsAtAll DEF CommitReset, ResetInv
<1>3. /\ deleted.throughput = Rows(db).throughput /\ deleted.cycleTime = Rows(db).cycleTime
      /\ deleted.dimensions = Rows(db).dimensions /\ deleted.findings = Rows(db).findings
      /\ deleted.effectiveness = Rows(db).effectiveness
      /\ deleted.processed = Rows(db).processed /\ deleted.state = Rows(db).state
  <2>1. 1 \in 1..7 /\ 2 \in 1..7 /\ 3 \in 1..7 /\ 4 \in 1..7 /\ 5 \in 1..7 /\ 6 \in 1..7 /\ 7 \in 1..7
    OBVIOUS
  <2> QED  BY <1>2, <2>1 DEF Tables
<1>4. deleted = Rows(db)
  BY <1>1, <1>3 DEF TableRows
<1>5. db' = Without(db, Rows(db))
  BY <1>4 DEF CommitReset, Forgotten
<1> QED  BY <1>5, ResetEmpties

\* Every step keeps the counters right: an apply counts a fact nobody has counted, with what
\* it read still true, and a reset empties every table at once.
LEMMA SoundKept ==
    ASSUME LogTyped, AnalyticsTyped, \A c \in Consumers : Current(c), ResetInv, Sound(db),
           [Next]_vars
    PROVE  Sound(db')
<1>1. ASSUME NEW c \in Consumers, CommitApply(c)
      PROVE  Sound(db')
  <2>1. PICK f, t : f = Delivery(c) /\ t = tx[c]
    OBVIOUS
  <2>2. f \in Facts \ db.processed
    BY <1>1, <2>1 DEF CommitApply, ReadyToWrite, Current, HoldsClaim
  <2>3. t \in Transactions
    BY <2>1 DEF AnalyticsTyped
  <2>4. t.pack \in Packs /\ t.first \in BOOLEAN
    BY <2>3 DEF Transactions
  <2>5. KindOf[f] = "decided" => (t.first <=> db.cycleTime[CaseOf[f]] = NoFact)
    BY <1>1, <2>1 DEF CommitApply, ReadyToWrite, Current
  <2>6. seqOf[f] \in Nat
    BY <2>2, FactsAssumption, FS_CardinalityType DEF LogTyped
  <2>7. Sound(Applied(db, f, t.pack, t.first, seqOf[f]))
    BY <2>2, <2>4, <2>5, <2>6, AppliedSound
  <2> QED  BY <1>1, <2>1, <2>7 DEF CommitApply, Applied
<1>2. CASE CommitReset
  BY <1>2, ResetLeavesNothing, EmptySound
<1>3. CASE UNCHANGED db
  BY <1>3
<1>4. \/ \E c \in Consumers : CommitApply(c)
      \/ CommitReset
      \/ UNCHANGED db
  BY NextByActor
     DEF LogNext, CommandNext, ConsumerNext, vars, analytics, AppendDomainEvent, Publishing,
         CommitEvent, Announce, StartReplay, Paging, ReadPage, FinishReplay, PublishRow,
         PublishRefused, Resetting, BeginReset, DeleteTable, Consume, Claim, ReadDimension,
         ReadCycleTime, TransactionFails, SendRetryCopy, GiveUp, Acknowledge, ExpireRetry, Crash
<1> QED  BY <1>1, <1>2, <1>3, <1>4

-----------------------------------------------------------------------------
LEMMA CountersInvInit == Init => CountersInv
<1> SUFFICES ASSUME Init PROVE CountersInv
  OBVIOUS
<1>0. Cardinality(Facts) \in Nat
  BY FactsAssumption, FS_CardinalityType
<1>1. LogTyped /\ CommandTyped
  BY <1>0 DEF Init, LogTyped, CommandTyped
<1>2. BrokerTyped
  BY DEF Init, BrokerTyped
<1>3. AnalyticsTyped
  BY PhasesTyped, NoRowsAtAll DEF Init, AnalyticsTyped, Phases
<1>4. \A c \in Consumers : tx[c] = Idle /\ tx[c].phase = "idle" /\ tx[c].wiped = 0
  BY PhasesTyped DEF Init, Phases
<1>5. \A c \in Consumers : Current(c)
  BY <1>4 DEF Current, HoldsClaim
<1>6. ResetInv
  BY <1>4 DEF Init, ResetInv, Consumers
<1>7. Exclusive
  BY <1>4 DEF Init, Exclusive, NoReplayRunning, Settled, Consumers
<1>8. Sound(db)
  BY EmptySound DEF Init
<1> QED  BY <1>1, <1>2, <1>3, <1>5, <1>6, <1>7, <1>8 DEF CountersInv

LEMMA CountersInvStep ==
    ASSUME ~Overlap, CountersInv, [Next]_vars
    PROVE  CountersInv'
<1>1. db \in ReadModels /\ NoRows \in TableRows
  BY NoRowsAtAll DEF CountersInv, Sound
<1>2. LogTyped' /\ CommandTyped' /\ BrokerTyped' /\ AnalyticsTyped'
  BY <1>1, LogKept, CommandKept, BrokerKept, AnalyticsKept DEF CountersInv
<1>3. \A c \in Consumers : Current(c)'
  BY CurrentKept DEF CountersInv
<1>4. ResetInv' /\ Exclusive' /\ Sound(db')
  BY ResetKept, ExclusiveKept, SoundKept DEF CountersInv
<1>5. (\A c \in Consumers : Current(c))'
  BY <1>3 DEF Consumers
<1>6. Sound(db)'
  BY <1>4
<1> QED  BY <1>2, <1>4, <1>5, <1>6 DEF CountersInv

LEMMA CountersInvSound == CountersInv => CountersAreSound
<1> SUFFICES ASSUME CountersInv PROVE CountersAreSound
  OBVIOUS
<1>1. /\ LogTyped /\ BrokerTyped /\ CommandTyped /\ AnalyticsTyped /\ ResetInv /\ Sound(db)
      /\ \A c \in Consumers : Current(c)
  BY DEF CountersInv
<1>2. TypeOK
  <2>1. /\ db.throughput \in [ThroughputKeys -> [created : Nat, decided : Nat]]
        /\ db.cycleTime \in [Cases -> Facts \union {NoFact}]
        /\ db.dimensions \subseteq Cases
        /\ db.findings \subseteq FindingKeys
        /\ db.effectiveness \in [RuleKeys -> [raised : Nat, concluded : Nat]]
        /\ db.processed \subseteq Facts
    BY <1>1, ModelFields DEF Sound
  <2>2. ASSUME NEW c \in Consumers
        PROVE  /\ queue[c] \in Seq([body : Facts \union {Control}, attempt : 0..RetryTiers])
               /\ retry[c] \in Seq([body : Facts \union {Control}, attempt : 1..RetryTiers])
               /\ dead[c] \subseteq Facts \union {Control}
    BY <1>1 DEF BrokerTyped, Messages, RetryMessages, Bodies
  <2>3. ASSUME NEW c \in Consumers
        PROVE  /\ tx[c].phase \in Phases
               /\ tx[c].phase # "idle" => queue[c] # <<>>
               /\ tx[c].phase # "resetting" => tx[c].wiped = 0
    BY <1>1 DEF AnalyticsTyped, Transactions, Current
  <2> QED  BY <1>1, <2>1, <2>2, <2>3
           DEF TypeOK, LogTyped, BrokerTyped, CommandTyped, Phases, ResetInv
<1>3. CountedOnce
  BY <1>1 DEF CountedOnce, Created, Raised, Sound, CountsFacts, CreatedIn, RaisedIn
<1>4. DecidedOncePerCase
  BY <1>1 DEF DecidedOncePerCase, Decided, Sound, CountsCases, DecidedIn, DecidedCases
<1>5. ConcludedWithinRaised
  BY <1>1, RulesInOrder DEF ConcludedWithinRaised
<1> QED  BY <1>2, <1>3, <1>4, <1>5 DEF CountersAreSound

\* For any history, page size, number of replays, crashes and failed transactions: as long as
\* no replay runs while cases are worked on, the counters of the read model count each fact
\* once, each decided case once, and no rule is followed by more decisions than it fired
\* (AnalyticsStore.apply and reset).
THEOREM CountersSound ==
    ASSUME ~Overlap
    PROVE  Spec => []CountersAreSound
<1>1. CountersInv /\ [Next]_vars => CountersInv'
  BY CountersInvStep
<1> QED  BY <1>1, CountersInvInit, CountersInvSound, PTL DEF Spec

-----------------------------------------------------------------------------
(* What a read model derived from facts holds, without choosing. *)

\* The first decision of each case, and the facts each counter counts.
Firsts(facts, seq) ==
    {d \in OfKind(facts, "decided") :
        \A g \in OfKind(facts, "decided") : CaseOf[g] = CaseOf[d] => seq[d] <= seq[g]}
CreatedOn(facts, k) == {f \in OfKind(facts, "created") : k = <<DayOf[f], "known">>}
DecidedOn(facts, seq, k) == {d \in Firsts(facts, seq) : k = <<DayOf[d], PackAt(facts, seq, d)>>}
RaisedBy(facts, k) == {f \in OfKind(facts, "finding") : RuleKey(f) = k}
FollowedBy(facts, seq, k) ==
    {d \in Firsts(facts, seq) :
        \E f \in FirstFirings(facts, seq) :
            CaseOf[f] = CaseOf[d] /\ RuleKey(f) = k /\ seq[f] < seq[d]}

\* No fact of the set is later than f.
IsLatest(f, facts, seq) == f \in facts /\ \A g \in facts : seq[g] <= seq[f]

IsDerived(m, facts, seq) ==
    /\ \A k \in ThroughputKeys :
          /\ m.throughput[k].created = Cardinality(CreatedOn(facts, k))
          /\ m.throughput[k].decided = Cardinality(DecidedOn(facts, seq, k))
    /\ \A c \in Cases :
          IF Decisions(facts, c) = {} THEN m.cycleTime[c] = NoFact
                                      ELSE IsLatest(m.cycleTime[c], Decisions(facts, c), seq)
    /\ m.dimensions = {CaseOf[f] : f \in OfKind(facts, "created")}
    /\ m.findings = {FindingKey(f) : f \in FirstFirings(facts, seq)}
    /\ \A k \in RuleKeys :
          /\ m.effectiveness[k].raised = Cardinality(RaisedBy(facts, k))
          /\ m.effectiveness[k].concluded = Cardinality(FollowedBy(facts, seq, k))
    /\ m.processed = facts
    /\ IF facts = {} THEN m.lastSequence = 0
       ELSE \E f \in facts : IsLatest(f, facts, seq) /\ m.lastSequence = seq[f]

\* Facts with a sequence of their own each.
Numbered(facts, seq) ==
    /\ facts \subseteq Facts
    /\ \A f \in Facts : seq[f] \in Nat
    /\ \A f, g \in facts : seq[f] = seq[g] => f = g

\* Facts that have a sequence of their own each have one latest and one earliest.
LEMMA LatestIs ==
    ASSUME NEW facts, NEW seq, Numbered(facts, seq), NEW f, IsLatest(f, facts, seq)
    PROVE  Latest(facts, seq) = f
<1>1. \A h \in facts : (\A g \in facts : seq[g] <= seq[h]) => h = f
  <2> SUFFICES ASSUME NEW h \in facts, \A g \in facts : seq[g] <= seq[h]
               PROVE  h = f
    OBVIOUS
  <2>1. seq[h] \in Nat /\ seq[f] \in Nat /\ seq[h] <= seq[f] /\ seq[f] <= seq[h]
    BY DEF Numbered, IsLatest
  <2> QED  BY <2>1 DEF Numbered, IsLatest
<1> QED  BY <1>1 DEF Latest, IsLatest

LEMMA EarliestIs ==
    ASSUME NEW facts, NEW seq, Numbered(facts, seq), NEW f \in facts,
           \A g \in facts : seq[f] <= seq[g]
    PROVE  Earliest(facts, seq) = f
<1>1. \A h \in facts : (\A g \in facts : seq[h] <= seq[g]) => h = f
  <2> SUFFICES ASSUME NEW h \in facts, \A g \in facts : seq[h] <= seq[g]
               PROVE  h = f
    OBVIOUS
  <2>1. seq[h] \in Nat /\ seq[f] \in Nat /\ seq[h] <= seq[f] /\ seq[f] <= seq[h]
    BY DEF Numbered
  <2> QED  BY <2>1 DEF Numbered
<1> QED  BY <1>1 DEF Earliest

LEMMA NumberedPart ==
    ASSUME NEW facts, NEW seq, Numbered(facts, seq), NEW some, some \subseteq facts
    PROVE  Numbered(some, seq)
BY DEF Numbered

LEMMA DecisionsOfCase ==
    ASSUME NEW facts, facts \subseteq Facts, NEW d
    PROVE  /\ d \in OfKind(facts, "decided") <=> d \in facts /\ KindOf[d] = "decided"
           /\ \A c : d \in Decisions(facts, c) <=>
                        d \in facts /\ KindOf[d] = "decided" /\ CaseOf[d] = c
BY DEF Decisions, OfKind, OfCase

\* The first decisions, chosen case by case, are those no decision of their case precedes.
LEMMA FirstsAreFirst ==
    ASSUME NEW facts, NEW seq, Numbered(facts, seq)
    PROVE  FirstDecisions(facts, seq) = Firsts(facts, seq)
<1>0. facts \subseteq Facts
  BY DEF Numbered
<1>1. ASSUME NEW d \in Firsts(facts, seq)
      PROVE  d \in FirstDecisions(facts, seq)
  <2>1. d \in OfKind(facts, "decided") /\ d \in Decisions(facts, CaseOf[d])
    BY <1>0, DecisionsOfCase DEF Firsts
  <2>2. \A g \in Decisions(facts, CaseOf[d]) : seq[d] <= seq[g]
    BY <1>0, DecisionsOfCase DEF Firsts
  <2>3. Decisions(facts, CaseOf[d]) \subseteq facts
    BY DEF Decisions, OfKind, OfCase
  <2>4. Numbered(Decisions(facts, CaseOf[d]), seq)
    BY <2>3, NumberedPart
  <2>5. Earliest(Decisions(facts, CaseOf[d]), seq) = d
    BY <2>1, <2>2, <2>4, EarliestIs
  <2> QED  BY <2>1, <2>5 DEF FirstDecisions
<1>2. ASSUME NEW e \in OfKind(facts, "decided")
      PROVE  Earliest(Decisions(facts, CaseOf[e]), seq) \in Firsts(facts, seq)
  <2>1. e \in Decisions(facts, CaseOf[e]) /\ Decisions(facts, CaseOf[e]) \subseteq Facts
    BY <1>0, DecisionsOfCase
  <2>2. PICK d : d = Earliest(Decisions(facts, CaseOf[e]), seq)
    OBVIOUS
  <2>3. d \in Decisions(facts, CaseOf[e]) /\ \A g \in Decisions(facts, CaseOf[e]) : seq[d] <= seq[g]
    BY <2>1, <2>2, EarliestIsOldest DEF Numbered
  <2> QED  BY <1>0, <2>2, <2>3, DecisionsOfCase DEF Firsts
<1> QED  BY <1>1, <1>2 DEF FirstDecisions

\* A read model that holds what its facts say is the derived one.
LEMMA DerivedIs ==
    ASSUME NEW m \in ReadModels, NEW facts, NEW seq, Numbered(facts, seq), IsDerived(m, facts, seq)
    PROVE  m = Derived(facts, seq)
<1>1. PICK n : n = Derived(facts, seq)
  OBVIOUS
<1>2. PICK firsts, remembered : /\ firsts = Firsts(facts, seq)
                                /\ remembered = FirstFirings(facts, seq)
  OBVIOUS
<1>3. m.throughput = [k \in ThroughputKeys |->
            [created |-> Cardinality({f \in OfKind(facts, "created") : k = <<DayOf[f], "known">>}),
             decided |-> Cardinality({d \in firsts : k = <<DayOf[d], PackAt(facts, seq, d)>>})]]
  <2>1. m.throughput \in [ThroughputKeys -> [created : Nat, decided : Nat]]
    BY ModelFields
  <2>2. \A k \in ThroughputKeys : m.throughput[k] =
           [created |-> Cardinality(CreatedOn(facts, k)),
            decided |-> Cardinality(DecidedOn(facts, seq, k))]
    BY <2>1 DEF IsDerived
  <2> QED  BY <1>2, <2>1, <2>2 DEF CreatedOn, DecidedOn
<1>4. m.cycleTime = [c \in Cases |->
            IF Decisions(facts, c) = {} THEN NoFact ELSE Latest(Decisions(facts, c), seq)]
  <2>1. ASSUME NEW c \in Cases, Decisions(facts, c) # {}
        PROVE  m.cycleTime[c] = Latest(Decisions(facts, c), seq)
    <3>1. Decisions(facts, c) \subseteq facts
      BY DEF Decisions, OfKind, OfCase
    <3>2. IsLatest(m.cycleTime[c], Decisions(facts, c), seq)
      BY <2>1 DEF IsDerived
    <3> QED  BY <3>1, <3>2, NumberedPart, LatestIs
  <2>2. m.cycleTime \in [Cases -> Facts \union {NoFact}]
    BY ModelFields
  <2> QED  BY <2>1, <2>2 DEF IsDerived
<1>5. m.effectiveness = [k \in RuleKeys |->
            [raised |-> Cardinality({f \in OfKind(facts, "finding") : RuleKey(f) = k}),
             concluded |-> Cardinality({d \in firsts :
                \E f \in remembered : /\ CaseOf[f] = CaseOf[d] /\ RuleKey(f) = k
                                      /\ seq[f] < seq[d]})]]
  <2>1. m.effectiveness \in [RuleKeys -> [raised : Nat, concluded : Nat]]
    BY ModelFields
  <2>2. \A k \in RuleKeys : m.effectiveness[k] =
           [raised |-> Cardinality(RaisedBy(facts, k)),
            concluded |-> Cardinality(FollowedBy(facts, seq, k))]
    BY <2>1 DEF IsDerived
  <2> QED  BY <1>2, <2>1, <2>2 DEF RaisedBy, FollowedBy
<1>6. m.lastSequence = IF facts = {} THEN 0 ELSE seq[Latest(facts, seq)]
  BY LatestIs DEF IsDerived
<1>7. /\ m.dimensions = {CaseOf[f] : f \in OfKind(facts, "created")}
      /\ m.findings = {FindingKey(f) : f \in remembered}
      /\ m.processed = facts
  BY <1>2 DEF IsDerived
<1>8. m = [throughput |-> m.throughput, cycleTime |-> m.cycleTime,
           dimensions |-> m.dimensions, findings |-> m.findings,
           effectiveness |-> m.effectiveness, processed |-> m.processed,
           lastSequence |-> m.lastSequence]
  BY ModelFields
<1>9. FirstDecisions(facts, seq) = firsts
  BY <1>2, FirstsAreFirst
<1> QED  BY <1>2, <1>3, <1>4, <1>5, <1>6, <1>7, <1>8, <1>9 DEF Derived

-----------------------------------------------------------------------------
(* How what is derived changes when the last fact of a case comes in. *)

\* g happened before f, if they are of one case.
Before(g, f, seq) == CaseOf[g] = CaseOf[f] => seq[g] < seq[f]

\* f comes after all of its case.
Follows(f, facts, seq) ==
    /\ facts \subseteq Facts
    /\ f \in Facts \ facts
    /\ \A g \in Facts : seq[g] \in Nat
    /\ \A g \in facts : Before(g, f, seq)

\* The decisions of a case, with one more fact.
LEMMA AddedDecisions ==
    ASSUME NEW facts, NEW f, NEW c
    PROVE  /\ KindOf[f] = "decided" /\ CaseOf[f] = c =>
                Decisions(facts \union {f}, c) = Decisions(facts, c) \union {f}
           /\ ~(KindOf[f] = "decided" /\ CaseOf[f] = c) =>
                Decisions(facts \union {f}, c) = Decisions(facts, c)
BY DEF Decisions, OfKind, OfCase

\* f is the first decision of its case.
Decides(f, facts) == KindOf[f] = "decided" /\ Decisions(facts, CaseOf[f]) = {}

\* A later fact is a first decision if its case has none; no other first decision changes.
LEMMA AddedFirst ==
    ASSUME NEW f, NEW facts, NEW seq, Follows(f, facts, seq)
    PROVE  /\ Decides(f, facts) =>
                Firsts(facts \union {f}, seq) = Firsts(facts, seq) \union {f}
           /\ ~Decides(f, facts) =>
                Firsts(facts \union {f}, seq) = Firsts(facts, seq)
<1> DEFINE all == facts \union {f}
<1>0. \A g \in facts : CaseOf[g] = CaseOf[f] =>
         seq[g] \in Nat /\ seq[f] \in Nat /\ seq[g] <= seq[f] /\ ~(seq[f] <= seq[g])
  BY DEF Follows, Before
<1>1. CASE KindOf[f] # "decided"
  <2>1. OfKind(all, "decided") = OfKind(facts, "decided")
    BY <1>1 DEF OfKind
  <2> QED  BY <1>1, <2>1 DEF Firsts, Decides
<1>2. CASE KindOf[f] = "decided"
  <2>1. OfKind(all, "decided") = OfKind(facts, "decided") \union {f}
    BY <1>2 DEF OfKind
  <2>2. \A d \in OfKind(facts, "decided") : d \in Firsts(all, seq) <=> d \in Firsts(facts, seq)
    BY <1>0, <2>1 DEF Firsts, OfKind
  <2>3. f \in Firsts(all, seq) <=> Decisions(facts, CaseOf[f]) = {}
    BY <1>0, <1>2, <2>1 DEF Firsts, Decisions, OfKind, OfCase, Follows
  <2>4. Firsts(all, seq) \subseteq OfKind(facts, "decided") \union {f}
        /\ Firsts(facts, seq) \subseteq OfKind(facts, "decided")
    BY <2>1 DEF Firsts
  <2> QED  BY <1>2, <2>2, <2>3, <2>4 DEF Decides
<1> QED  BY <1>1, <1>2

\* There is a finding of the case and rule of f; there is none, and f is the first.
Recurring(f, facts) ==
    \E g \in OfKind(facts, "finding") : CaseOf[g] = CaseOf[f] /\ RuleOf[g] = RuleOf[f]
FiresFirst(f, facts) == KindOf[f] = "finding" /\ ~Recurring(f, facts)

\* The same of first firings.
LEMMA AddedFiring ==
    ASSUME NEW f, NEW facts, NEW seq, Follows(f, facts, seq)
    PROVE  /\ FiresFirst(f, facts) =>
                FirstFirings(facts \union {f}, seq) = FirstFirings(facts, seq) \union {f}
           /\ ~FiresFirst(f, facts) =>
                FirstFirings(facts \union {f}, seq) = FirstFirings(facts, seq)
<1> DEFINE all == facts \union {f}
<1>0. \A g \in facts : CaseOf[g] = CaseOf[f] =>
         seq[g] \in Nat /\ seq[f] \in Nat /\ seq[g] <= seq[f] /\ ~(seq[f] <= seq[g])
  BY DEF Follows, Before
<1>1. CASE KindOf[f] # "finding"
  <2>1. OfKind(all, "finding") = OfKind(facts, "finding")
    BY <1>1 DEF OfKind
  <2> QED  BY <1>1, <2>1 DEF FirstFirings, FiresFirst
<1>2. CASE KindOf[f] = "finding"
  <2>1. OfKind(all, "finding") = OfKind(facts, "finding") \union {f}
    BY <1>2 DEF OfKind
  <2>2. \A g \in OfKind(facts, "finding") :
           g \in FirstFirings(all, seq) <=> g \in FirstFirings(facts, seq)
    BY <1>0, <2>1 DEF FirstFirings, OfKind
  <2>3. f \in FirstFirings(all, seq) <=> ~Recurring(f, facts)
    BY <1>0, <1>2, <2>1 DEF FirstFirings, Recurring, OfKind, Follows
  <2>4. FirstFirings(all, seq) \subseteq OfKind(facts, "finding") \union {f}
        /\ FirstFirings(facts, seq) \subseteq OfKind(facts, "finding")
    BY <2>1 DEF FirstFirings
  <2> QED  BY <1>2, <2>2, <2>3, <2>4 DEF FiresFirst
<1> QED  BY <1>1, <1>2

\* A later fact changes the pack of no earlier decision; its own is what is remembered.
LEMMA AddedPack ==
    ASSUME NEW f, NEW facts, NEW seq, Follows(f, facts, seq)
    PROVE  /\ \A d \in facts : PackAt(facts \union {f}, seq, d) = PackAt(facts, seq, d)
           /\ KindOf[f] = "decided" /\ CaseOf[f] \in {CaseOf[g] : g \in OfKind(facts, "created")}
                => PackAt(facts \union {f}, seq, f) = "known"
           /\ KindOf[f] = "decided" /\ CaseOf[f] \notin {CaseOf[g] : g \in OfKind(facts, "created")}
                => PackAt(facts \union {f}, seq, f) = "unknown"
<1>0. \A g \in facts : CaseOf[g] = CaseOf[f] =>
         seq[g] \in Nat /\ seq[f] \in Nat /\ seq[g] < seq[f] /\ ~(seq[f] < seq[g])
  BY DEF Follows, Before
<1>1. ASSUME NEW d \in facts
      PROVE  (\E g \in OfKind(OfCase(facts \union {f}, CaseOf[d]), "created") : seq[g] < seq[d])
               <=> (\E g \in OfKind(OfCase(facts, CaseOf[d]), "created") : seq[g] < seq[d])
  BY <1>0 DEF OfKind, OfCase
<1>2. ASSUME KindOf[f] = "decided"
      PROVE  (\E g \in OfKind(OfCase(facts \union {f}, CaseOf[f]), "created") : seq[g] < seq[f])
               <=> CaseOf[f] \in {CaseOf[g] : g \in OfKind(facts, "created")}
  BY <1>0, <1>2 DEF OfKind, OfCase
<1> QED  BY <1>1, <1>2 DEF PackAt

\* Each rule that fired on a case is remembered by its first firing there.
LEMMA FirstIsRemembered ==
    ASSUME NEW f, NEW facts, NEW seq, facts \subseteq Facts, \A g \in Facts : seq[g] \in Nat,
           Recurring(f, facts)
    PROVE  \E g \in FirstFirings(facts, seq) : CaseOf[g] = CaseOf[f] /\ RuleOf[g] = RuleOf[f]
<1> DEFINE same == {g \in OfKind(facts, "finding") :
                      CaseOf[g] = CaseOf[f] /\ RuleOf[g] = RuleOf[f]}
<1>1. same \subseteq Facts /\ same # {}
  BY DEF Recurring, OfKind
<1>2. PICK e : e = Earliest(same, seq)
  OBVIOUS
<1> HIDE DEF same
<1>3. e \in same /\ \A g \in same : seq[e] <= seq[g]
  BY <1>1, <1>2, EarliestIsOldest
<1> QED  BY <1>3 DEF same, FirstFirings

LEMMA FirstsOfFacts ==
    ASSUME NEW facts, NEW seq
    PROVE  Firsts(facts, seq) \subseteq facts
BY DEF Firsts, OfKind

LEMMA AddedToDecided ==
    ASSUME NEW f, NEW facts, NEW seq, Follows(f, facts, seq), ~Decides(f, facts),
           NEW all, all = facts \union {f}, NEW k
    PROVE  DecidedOn(all, seq, k) = DecidedOn(facts, seq, k)
<1>1. \A d \in facts : PackAt(all, seq, d) = PackAt(facts, seq, d)
  BY AddedPack
<1>2. Firsts(facts, seq) \subseteq facts
  BY FirstsOfFacts
<1>3. Firsts(all, seq) = Firsts(facts, seq)
  BY AddedFirst
<1> QED  BY <1>1, <1>2, <1>3 DEF DecidedOn

\* The rule of k is remembered on the case of f.
Remembered(f, facts, seq, k) ==
    \E g \in FirstFirings(facts, seq) : CaseOf[g] = CaseOf[f] /\ RuleKey(g) = k

LEMMA AddedToFollowed ==
    ASSUME NEW f, NEW facts, NEW seq, Follows(f, facts, seq),
           NEW all, all = facts \union {f}, NEW k
    PROVE  /\ Decides(f, facts) /\ Remembered(f, facts, seq, k) =>
                FollowedBy(all, seq, k) = FollowedBy(facts, seq, k) \union {f}
           /\ ~(Decides(f, facts) /\ Remembered(f, facts, seq, k)) =>
                FollowedBy(all, seq, k) = FollowedBy(facts, seq, k)
<1>1. PICK firsts, remembered : /\ firsts = Firsts(facts, seq)
                                /\ remembered = FirstFirings(facts, seq)
  OBVIOUS
<1>2. /\ Decides(f, facts) => Firsts(all, seq) = firsts \union {f}
      /\ ~Decides(f, facts) => Firsts(all, seq) = firsts
      /\ firsts \subseteq facts /\ f \notin firsts
  BY <1>1, AddedFirst, FirstsOfFacts DEF Follows
<1>3. /\ FirstFirings(all, seq) = remembered
           \/ (KindOf[f] = "finding" /\ FirstFirings(all, seq) = remembered \union {f})
      /\ remembered \subseteq facts
  <2>1. FiresFirst(f, facts) => FirstFirings(all, seq) = remembered \union {f}
    BY <1>1, AddedFiring
  <2>2. ~FiresFirst(f, facts) => FirstFirings(all, seq) = remembered
    BY <1>1, AddedFiring
  <2> QED  BY <1>1, <2>1, <2>2 DEF FirstFirings, OfKind, FiresFirst
<1>4. \A g \in facts : CaseOf[g] = CaseOf[f] => seq[g] < seq[f] /\ ~(seq[f] < seq[g])
  BY DEF Follows, Before
<1>5. ASSUME NEW d \in firsts
      PROVE  d \in FollowedBy(all, seq, k) <=> d \in FollowedBy(facts, seq, k)
  BY <1>1, <1>2, <1>3, <1>4 DEF FollowedBy
<1>6. f \in FollowedBy(all, seq, k) <=> Decides(f, facts) /\ Remembered(f, facts, seq, k)
  BY <1>1, <1>2, <1>3, <1>4 DEF FollowedBy, Decides, Remembered
<1>7. /\ FollowedBy(all, seq, k) \subseteq firsts \union {f}
      /\ FollowedBy(facts, seq, k) \subseteq firsts
  BY <1>1, <1>2 DEF FollowedBy
<1> QED  BY <1>1, <1>2, <1>5, <1>6, <1>7

\* One more fact counted, or none.
LEMMA OneMore ==
    ASSUME NEW facts, facts \subseteq Facts, NEW some, some \subseteq facts, NEW f \in Facts \ facts
    PROVE  Cardinality(some \union {f}) = Cardinality(some) + 1 /\ Cardinality(some) \in Nat
<1>1. some \in SUBSET Facts /\ f \notin some
  OBVIOUS
<1>2. IsFiniteSet(some)
  BY <1>1, FactsAssumption, FS_Subset
<1> QED  BY <1>1, <1>2, FS_AddElement, FS_CardinalityType

\* The watermark is the last sequence of all.
LEMMA WatermarkMoves ==
    ASSUME NEW m, NEW f, NEW facts, NEW seq, Follows(f, facts, seq), IsDerived(m, facts, seq),
           NEW all, all = facts \union {f},
           NEW after, after.lastSequence = IF seq[f] > m.lastSequence THEN seq[f] ELSE m.lastSequence
    PROVE  \E g \in all : IsLatest(g, all, seq) /\ after.lastSequence = seq[g]
<1> DEFINE last == after.lastSequence
<1>0. seq[f] \in Nat /\ \A g \in facts : seq[g] \in Nat
  BY DEF Follows
<1>1. CASE facts = {}
  <2>1. m.lastSequence = 0
    BY <1>1 DEF IsDerived
  <2>2. last = seq[f]
    BY <1>0, <2>1
  <2> QED  BY <1>0, <1>1, <2>2 DEF IsLatest
<1>2. CASE facts # {}
  <2>1. PICK g \in facts : IsLatest(g, facts, seq) /\ m.lastSequence = seq[g]
    BY <1>2 DEF IsDerived
  <2>2. CASE seq[f] > seq[g]
    BY <1>0, <2>1, <2>2 DEF IsLatest
  <2>3. CASE ~(seq[f] > seq[g])
    BY <1>0, <2>1, <2>3 DEF IsLatest
  <2> QED  BY <2>2, <2>3
<1> QED  BY <1>1, <1>2

\* Each kind of fact, applied last of its case, leaves the model what its facts say.
LEMMA CreatedDerived ==
    ASSUME NEW m \in ReadModels, NEW f, NEW facts, NEW seq, Follows(f, facts, seq),
           IsDerived(m, facts, seq), KindOf[f] = "created", NEW pack, NEW first,
           NEW after, after = Applied(m, f, pack, first, seq[f])
    PROVE  IsDerived(after, facts \union {f}, seq)
<1>0. f \in Facts /\ facts \subseteq Facts /\ f \notin facts /\ seq[f] \in Nat
  BY DEF Follows
<1>1. PICK n, key, all : /\ n = CaseCreated(m, f) /\ key = <<DayOf[f], "known">>
                         /\ all = facts \union {f}
  OBVIOUS
<1>2. after = RecordProcessed(n, f, seq[f])
  BY <1>1 DEF Applied, Project
<1>3. /\ n.throughput = [m.throughput EXCEPT ![key] =
                            [m.throughput[key] EXCEPT !.created = m.throughput[key].created + 1]]
      /\ n.cycleTime = m.cycleTime /\ n.dimensions = m.dimensions \union {CaseOf[f]}
      /\ n.findings = m.findings
      /\ n.effectiveness = m.effectiveness /\ n.processed = m.processed
      /\ n.lastSequence = m.lastSequence
      /\ n \in ReadModels
  BY <1>0, <1>1, CreatedFields
<1>4. /\ after.throughput = n.throughput /\ after.cycleTime = m.cycleTime
      /\ after.dimensions = m.dimensions \union {CaseOf[f]} /\ after.findings = m.findings
      /\ after.effectiveness = m.effectiveness
      /\ after.processed = m.processed \union {f}
      /\ after.lastSequence = IF seq[f] > m.lastSequence THEN seq[f] ELSE m.lastSequence
  BY <1>0, <1>2, <1>3, RecordFields
<1>5. \A k \in ThroughputKeys :
         /\ n.throughput[k].created =
              IF k = key THEN m.throughput[k].created + 1 ELSE m.throughput[k].created
         /\ n.throughput[k].decided = m.throughput[k].decided
  <2>1. m.throughput \in [ThroughputKeys -> [created : Nat, decided : Nat]]
    BY ModelFields
  <2>2. key \in ThroughputKeys
    BY <1>0, <1>1, KeysTyped DEF Packs
  <2> QED  BY <1>3, <2>1, <2>2
<1>6. /\ \A k : IF k = key THEN CreatedOn(all, k) = CreatedOn(facts, k) \union {f}
                           ELSE CreatedOn(all, k) = CreatedOn(facts, k)
      /\ \A k : RaisedBy(all, k) = RaisedBy(facts, k)
      /\ \A k : DecidedOn(all, seq, k) = DecidedOn(facts, seq, k)
      /\ \A k : FollowedBy(all, seq, k) = FollowedBy(facts, seq, k)
  <2>1. \A k : IF k = key THEN CreatedOn(all, k) = CreatedOn(facts, k) \union {f}
                          ELSE CreatedOn(all, k) = CreatedOn(facts, k)
    BY <1>1 DEF CreatedOn, OfKind
  <2>2. \A k : RaisedBy(all, k) = RaisedBy(facts, k)
    BY <1>1 DEF RaisedBy, OfKind
  <2>3. ~Decides(f, facts)
    BY DEF Decides
  <2>4. \A k : DecidedOn(all, seq, k) = DecidedOn(facts, seq, k)
    BY <1>1, <2>3, AddedToDecided
  <2>5. \A k : FollowedBy(all, seq, k) = FollowedBy(facts, seq, k)
    BY <1>1, <2>3, AddedToFollowed
  <2> QED  BY <2>1, <2>2, <2>4, <2>5
<1>7. \A k : Cardinality(CreatedOn(facts, k) \union {f}) = Cardinality(CreatedOn(facts, k)) + 1
  <2>1. \A k : CreatedOn(facts, k) \subseteq facts
    BY DEF CreatedOn, OfKind
  <2> QED  BY <1>0, <2>1, OneMore
<1>8. \A k \in ThroughputKeys :
         /\ after.throughput[k].created = Cardinality(CreatedOn(all, k))
         /\ after.throughput[k].decided = Cardinality(DecidedOn(all, seq, k))
  BY <1>4, <1>5, <1>6, <1>7 DEF IsDerived
<1>9. \A k \in RuleKeys :
         /\ after.effectiveness[k].raised = Cardinality(RaisedBy(all, k))
         /\ after.effectiveness[k].concluded = Cardinality(FollowedBy(all, seq, k))
  BY <1>4, <1>6 DEF IsDerived
<1>10. \A c : Decisions(all, c) = Decisions(facts, c)
  BY <1>1, AddedDecisions
<1>11. FirstFirings(all, seq) = FirstFirings(facts, seq)
  BY <1>1, AddedFiring DEF FiresFirst
<1>12. after.dimensions = {CaseOf[g] : g \in OfKind(all, "created")}
  <2>1. OfKind(all, "created") = OfKind(facts, "created") \union {f}
    BY <1>1 DEF OfKind
  <2> QED  BY <1>4, <2>1 DEF IsDerived
<1>13. \E g \in all : IsLatest(g, all, seq) /\ after.lastSequence = seq[g]
  BY <1>1, <1>4, WatermarkMoves
<1>14. \A c \in Cases :
          IF Decisions(all, c) = {} THEN after.cycleTime[c] = NoFact
                                    ELSE IsLatest(after.cycleTime[c], Decisions(all, c), seq)
  BY <1>4, <1>10 DEF IsDerived
<1> QED  BY <1>1, <1>4, <1>8, <1>9, <1>11, <1>12, <1>13, <1>14 DEF IsDerived

\* The rows f conflicts with are those of a rule that is remembered on its case.
LEMMA ConflictsWhenRecurring ==
    ASSUME NEW f \in Facts, NEW facts, NEW seq, facts \subseteq Facts,
           \A g \in Facts : seq[g] \in Nat
    PROVE  Conflicting({FindingKey(g) : g \in FirstFirings(facts, seq)}, f) = {}
             <=> ~Recurring(f, facts)
<1> DEFINE rows == {FindingKey(g) : g \in FirstFirings(facts, seq)}
<1>1. ASSUME Recurring(f, facts)
      PROVE  Conflicting(rows, f) # {}
  <2>1. PICK g \in FirstFirings(facts, seq) : CaseOf[g] = CaseOf[f] /\ RuleOf[g] = RuleOf[f]
    BY <1>1, FirstIsRemembered
  <2>2. FindingKey(g) \in Conflicting(rows, f)
    BY <2>1 DEF Conflicting, FindingKey
  <2> QED  BY <2>2
<1>2. ASSUME NEW g \in FirstFirings(facts, seq), FindingKey(g)[1] = CaseOf[f],
             FindingKey(g)[2] = RuleOf[f]
      PROVE  Recurring(f, facts)
  BY <1>2 DEF FindingKey, FirstFirings, Recurring
<1>3. ASSUME Conflicting(rows, f) # {}
      PROVE  Recurring(f, facts)
  BY <1>2, <1>3 DEF Conflicting
<1> QED  BY <1>1, <1>3

LEMMA FindingDerived ==
    ASSUME NEW m \in ReadModels, NEW f, NEW facts, NEW seq, Follows(f, facts, seq),
           IsDerived(m, facts, seq), KindOf[f] = "finding", NEW pack, NEW first,
           NEW after, after = Applied(m, f, pack, first, seq[f])
    PROVE  IsDerived(after, facts \union {f}, seq)
<1>0. f \in Facts /\ facts \subseteq Facts /\ f \notin facts /\ seq[f] \in Nat
  BY DEF Follows
<1>1. PICK n, key : n = FindingRaised(m, f) /\ key = RuleKey(f)
  OBVIOUS
<1>a. PICK all : all = facts \union {f}
  OBVIOUS
<1>2. after = RecordProcessed(n, f, seq[f])
  BY <1>1 DEF Applied, Project
<1>3. /\ n.throughput = m.throughput /\ n.cycleTime = m.cycleTime /\ n.dimensions = m.dimensions
      /\ Conflicting(m.findings, f) = {} => n.findings = m.findings \union {FindingKey(f)}
      /\ Conflicting(m.findings, f) # {} => n.findings = m.findings
      /\ \A k \in RuleKeys :
           /\ n.effectiveness[k].raised =
                IF k = key THEN m.effectiveness[k].raised + 1 ELSE m.effectiveness[k].raised
           /\ n.effectiveness[k].concluded = m.effectiveness[k].concluded
      /\ n.processed = m.processed
      /\ n.lastSequence = m.lastSequence
      /\ n \in ReadModels
  BY <1>0, <1>1, FindingFields
<1>4. /\ after.throughput = m.throughput /\ after.cycleTime = m.cycleTime
      /\ after.dimensions = m.dimensions /\ after.findings = n.findings
      /\ after.effectiveness = n.effectiveness
      /\ after.processed = m.processed \union {f}
      /\ after.lastSequence = IF seq[f] > m.lastSequence THEN seq[f] ELSE m.lastSequence
  BY <1>0, <1>2, <1>3, RecordFields
<1>6. /\ \A k : CreatedOn(all, k) = CreatedOn(facts, k)
      /\ \A k : IF k = key THEN RaisedBy(all, k) = RaisedBy(facts, k) \union {f}
                           ELSE RaisedBy(all, k) = RaisedBy(facts, k)
      /\ \A k : DecidedOn(all, seq, k) = DecidedOn(facts, seq, k)
      /\ \A k : FollowedBy(all, seq, k) = FollowedBy(facts, seq, k)
  <2>1. \A k : CreatedOn(all, k) = CreatedOn(facts, k)
    BY <1>1, <1>a DEF CreatedOn, OfKind
  <2>2. \A k : IF k = key THEN RaisedBy(all, k) = RaisedBy(facts, k) \union {f}
                          ELSE RaisedBy(all, k) = RaisedBy(facts, k)
    BY <1>1, <1>a DEF RaisedBy, OfKind
  <2>3. ~Decides(f, facts)
    BY DEF Decides
  <2>4. \A k : DecidedOn(all, seq, k) = DecidedOn(facts, seq, k)
    BY <1>1, <1>a, <2>3, AddedToDecided
  <2>5. \A k : FollowedBy(all, seq, k) = FollowedBy(facts, seq, k)
    BY <1>1, <1>a, <2>3, AddedToFollowed
  <2> QED  BY <2>1, <2>2, <2>4, <2>5
<1>7. \A k : Cardinality(RaisedBy(facts, k) \union {f}) = Cardinality(RaisedBy(facts, k)) + 1
  <2>1. \A k : RaisedBy(facts, k) \subseteq facts
    BY DEF RaisedBy, OfKind
  <2> QED  BY <1>0, <2>1, OneMore
<1>8. \A k \in ThroughputKeys :
         /\ after.throughput[k].created = Cardinality(CreatedOn(all, k))
         /\ after.throughput[k].decided = Cardinality(DecidedOn(all, seq, k))
  BY <1>4, <1>6 DEF IsDerived
<1>9. \A k \in RuleKeys :
         /\ after.effectiveness[k].raised = Cardinality(RaisedBy(all, k))
         /\ after.effectiveness[k].concluded = Cardinality(FollowedBy(all, seq, k))
  BY <1>3, <1>4, <1>6, <1>7 DEF IsDerived
<1>10. \A c : Decisions(all, c) = Decisions(facts, c)
  BY <1>1, <1>a, AddedDecisions
<1>11. after.findings = {FindingKey(g) : g \in FirstFirings(all, seq)}
  <2>1. m.findings = {FindingKey(g) : g \in FirstFirings(facts, seq)}
    BY DEF IsDerived
  <2>2. Conflicting(m.findings, f) = {} <=> FiresFirst(f, facts)
    BY <1>0, <2>1, ConflictsWhenRecurring DEF Follows, FiresFirst
  <2>3. CASE FiresFirst(f, facts)
    <3>1. FirstFirings(all, seq) = FirstFirings(facts, seq) \union {f}
      BY <1>1, <1>a, <2>3, AddedFiring
    <3> QED  BY <1>3, <1>4, <2>1, <2>2, <2>3, <3>1
  <2>4. CASE ~FiresFirst(f, facts)
    <3>1. FirstFirings(all, seq) = FirstFirings(facts, seq)
      BY <1>1, <1>a, <2>4, AddedFiring
    <3> QED  BY <1>3, <1>4, <2>1, <2>2, <2>4, <3>1
  <2> QED  BY <2>3, <2>4
<1>12. OfKind(all, "created") = OfKind(facts, "created")
  BY <1>1, <1>a DEF OfKind
<1>13. \E g \in all : IsLatest(g, all, seq) /\ after.lastSequence = seq[g]
  BY <1>1, <1>a, <1>4, WatermarkMoves
<1>14. \A c \in Cases :
          IF Decisions(all, c) = {} THEN after.cycleTime[c] = NoFact
                                    ELSE IsLatest(after.cycleTime[c], Decisions(all, c), seq)
  BY <1>4, <1>10 DEF IsDerived
<1> QED  BY <1>1, <1>a, <1>4, <1>8, <1>9, <1>11, <1>12, <1>13, <1>14 DEF IsDerived

LEMMA DecidedDerived ==
    ASSUME NEW m \in ReadModels, NEW f, NEW facts, NEW seq, Follows(f, facts, seq),
           IsDerived(m, facts, seq), KindOf[f] = "decided", NEW pack \in Packs,
           pack = IF CaseOf[f] \in m.dimensions THEN "known" ELSE "unknown",
           NEW first \in BOOLEAN, first <=> m.cycleTime[CaseOf[f]] = NoFact,
           NEW after, after = Applied(m, f, pack, first, seq[f])
    PROVE  IsDerived(after, facts \union {f}, seq)
<1>0. f \in Facts /\ facts \subseteq Facts /\ f \notin facts /\ seq[f] \in Nat
  BY DEF Follows
<1>1. PICK n, key, c, all : /\ n = CaseDecided(m, f, pack, first)
                            /\ key = <<DayOf[f], pack>> /\ c = CaseOf[f]
                            /\ all = facts \union {f}
  OBVIOUS
<1>2. after = RecordProcessed(n, f, seq[f])
  BY <1>1 DEF Applied, Project
<1>c. c \in Cases /\ key \in ThroughputKeys
  BY <1>0, <1>1, KeysTyped
<1>3. /\ \A k \in ThroughputKeys :
           /\ n.throughput[k].created = m.throughput[k].created
           /\ n.throughput[k].decided = IF first /\ k = key THEN m.throughput[k].decided + 1
                                                           ELSE m.throughput[k].decided
      /\ \A d \in Cases : n.cycleTime[d] = IF d = c THEN f ELSE m.cycleTime[d]
      /\ n.dimensions = m.dimensions
      /\ n.findings = m.findings
      /\ n.effectiveness = IF first THEN Concluded(m, c) ELSE m.effectiveness
      /\ n.processed = m.processed
      /\ n.lastSequence = m.lastSequence
      /\ n \in ReadModels
  BY <1>0, <1>1, DecidedFields
<1>4. /\ after.throughput = n.throughput /\ after.cycleTime = n.cycleTime
      /\ after.dimensions = m.dimensions /\ after.findings = m.findings
      /\ after.effectiveness = n.effectiveness
      /\ after.processed = m.processed \union {f}
      /\ after.lastSequence = IF seq[f] > m.lastSequence THEN seq[f] ELSE m.lastSequence
  BY <1>0, <1>2, <1>3, RecordFields
<1>5. first <=> Decides(f, facts)
  <2>1. NoFact \notin Decisions(facts, c)
    BY <1>0, FactsAssumption DEF Decisions, OfKind, OfCase
  <2> QED  BY <1>1, <1>c, <2>1 DEF IsDerived, IsLatest, Decides
<1>6. pack = PackAt(all, seq, f)
  <2>1. m.dimensions = {CaseOf[g] : g \in OfKind(facts, "created")}
    BY DEF IsDerived
  <2>2. CASE CaseOf[f] \in m.dimensions
    <3>1. PackAt(facts \union {f}, seq, f) = "known"
      BY <2>1, <2>2, AddedPack
    <3> QED  BY <1>1, <2>2, <3>1
  <2>3. CASE CaseOf[f] \notin m.dimensions
    <3>1. PackAt(facts \union {f}, seq, f) = "unknown"
      BY <2>1, <2>3, AddedPack
    <3> QED  BY <1>1, <2>3, <3>1
  <2> QED  BY <2>2, <2>3
<1>7. /\ \A k : CreatedOn(all, k) = CreatedOn(facts, k)
      /\ \A k : RaisedBy(all, k) = RaisedBy(facts, k)
      /\ \A k : IF first /\ k = key THEN DecidedOn(all, seq, k) = DecidedOn(facts, seq, k) \union {f}
                                    ELSE DecidedOn(all, seq, k) = DecidedOn(facts, seq, k)
      /\ \A k : IF first /\ Remembered(f, facts, seq, k)
                THEN FollowedBy(all, seq, k) = FollowedBy(facts, seq, k) \union {f}
                ELSE FollowedBy(all, seq, k) = FollowedBy(facts, seq, k)
  <2>1. \A k : CreatedOn(all, k) = CreatedOn(facts, k)
    BY <1>1 DEF CreatedOn, OfKind
  <2>2. \A k : RaisedBy(all, k) = RaisedBy(facts, k)
    BY <1>1 DEF RaisedBy, OfKind
  <2>3. \A k : IF first /\ k = key THEN DecidedOn(all, seq, k) = DecidedOn(facts, seq, k) \union {f}
                                   ELSE DecidedOn(all, seq, k) = DecidedOn(facts, seq, k)
    <3>1. \A d \in facts : PackAt(all, seq, d) = PackAt(facts, seq, d)
      BY <1>1, AddedPack
    <3>2. Firsts(facts, seq) \subseteq facts
      BY FirstsOfFacts
    <3>3. CASE first
      <4>1. Firsts(all, seq) = Firsts(facts, seq) \union {f}
        BY <1>1, <1>5, <3>3, AddedFirst
      <4> QED  BY <1>0, <1>1, <1>6, <3>1, <3>2, <3>3, <4>1 DEF DecidedOn
    <3>4. CASE ~first
      BY <1>1, <1>5, <3>4, AddedToDecided
    <3> QED  BY <3>3, <3>4
  <2>4. \A k : IF first /\ Remembered(f, facts, seq, k)
               THEN FollowedBy(all, seq, k) = FollowedBy(facts, seq, k) \union {f}
               ELSE FollowedBy(all, seq, k) = FollowedBy(facts, seq, k)
    BY <1>1, <1>5, AddedToFollowed
  <2> QED  BY <2>1, <2>2, <2>3, <2>4
<1>8. \A k : /\ Cardinality(DecidedOn(facts, seq, k) \union {f})
                  = Cardinality(DecidedOn(facts, seq, k)) + 1
             /\ Cardinality(FollowedBy(facts, seq, k) \union {f})
                  = Cardinality(FollowedBy(facts, seq, k)) + 1
  <2>1. \A k : DecidedOn(facts, seq, k) \subseteq facts /\ FollowedBy(facts, seq, k) \subseteq facts
    BY DEF DecidedOn, FollowedBy, Firsts, OfKind
  <2> QED  BY <1>0, <2>1, OneMore
<1>9. \A k \in ThroughputKeys :
         /\ after.throughput[k].created = Cardinality(CreatedOn(all, k))
         /\ after.throughput[k].decided = Cardinality(DecidedOn(all, seq, k))
  BY <1>3, <1>4, <1>7, <1>8 DEF IsDerived
<1>10. \A k \in RuleKeys : k \in RulesOfCase(m, c) <=> Remembered(f, facts, seq, k)
  <2> SUFFICES ASSUME NEW k \in RuleKeys
               PROVE  k \in RulesOfCase(m, c) <=> Remembered(f, facts, seq, k)
    OBVIOUS
  <2>1. <<c, k[1], k[2]>> \in m.findings <=> Remembered(f, facts, seq, k)
    <3>1. k = <<k[1], k[2]>>
      BY DEF RuleKeys
    <3>2. m.findings = {FindingKey(g) : g \in FirstFirings(facts, seq)}
      BY DEF IsDerived
    <3> QED  BY <1>1, <3>1, <3>2 DEF FindingKey, RuleKey, Remembered
  <2>2. ASSUME Remembered(f, facts, seq, k)
        PROVE  m.effectiveness[k].raised > 0
    <3>1. RaisedBy(facts, k) # {} /\ RaisedBy(facts, k) \subseteq facts
      BY <2>2 DEF Remembered, FirstFirings, RaisedBy, OfKind
    <3>2. RaisedBy(facts, k) \in SUBSET Facts
      BY <1>0, <3>1
    <3>3. IsFiniteSet(RaisedBy(facts, k))
      BY <3>2, FactsAssumption, FS_Subset
    <3>4. Cardinality(RaisedBy(facts, k)) \in Nat /\ Cardinality(RaisedBy(facts, k)) # 0
      BY <3>1, <3>3, FS_CardinalityType, FS_EmptySet
    <3> QED  BY <3>4 DEF IsDerived
  <2> QED  BY <2>1, <2>2 DEF RulesOfCase
<1>11. \A k \in RuleKeys :
         /\ after.effectiveness[k].raised = Cardinality(RaisedBy(all, k))
         /\ after.effectiveness[k].concluded = Cardinality(FollowedBy(all, seq, k))
  <2>1. m.effectiveness \in [RuleKeys -> [raised : Nat, concluded : Nat]]
    BY ModelFields
  <2>2. \A k \in RuleKeys :
           /\ n.effectiveness[k].raised = m.effectiveness[k].raised
           /\ n.effectiveness[k].concluded =
                IF first /\ k \in RulesOfCase(m, c) THEN m.effectiveness[k].concluded + 1
                                                    ELSE m.effectiveness[k].concluded
    BY <1>3, <2>1 DEF Concluded
  <2> QED  BY <1>4, <1>7, <1>8, <1>10, <2>2 DEF IsDerived
<1>12. \A d \in Cases :
          IF Decisions(all, d) = {} THEN after.cycleTime[d] = NoFact
                                    ELSE IsLatest(after.cycleTime[d], Decisions(all, d), seq)
  <2> SUFFICES ASSUME NEW d \in Cases
               PROVE  IF Decisions(all, d) = {} THEN after.cycleTime[d] = NoFact
                      ELSE IsLatest(after.cycleTime[d], Decisions(all, d), seq)
    OBVIOUS
  <2>1. CASE d = c
    <3>1. Decisions(all, d) = Decisions(facts, d) \union {f}
      BY <1>1, <2>1 DEF Decisions, OfKind, OfCase
    <3>3. after.cycleTime[d] = f
      BY <1>3, <1>4, <2>1
    <3>2. \A g \in Decisions(facts, d) : seq[g] <= seq[f]
      BY <1>1, <2>1 DEF Decisions, OfKind, OfCase, Follows, Before
    <3> QED  BY <1>0, <3>1, <3>2, <3>3 DEF IsLatest
  <2>2. CASE d # c
    <3>1. Decisions(all, d) = Decisions(facts, d)
      BY <1>1, <2>2 DEF Decisions, OfKind, OfCase
    <3>2. after.cycleTime[d] = m.cycleTime[d]
      BY <1>3, <1>4, <2>2
    <3> QED  BY <3>1, <3>2 DEF IsDerived
  <2> QED  BY <2>1, <2>2
<1>13. /\ OfKind(all, "created") = OfKind(facts, "created")
       /\ FirstFirings(all, seq) = FirstFirings(facts, seq)
  <2>1. ~FiresFirst(f, facts)
    BY DEF FiresFirst
  <2> QED  BY <1>1, <2>1, AddedFiring DEF OfKind
<1>14. \E g \in all : IsLatest(g, all, seq) /\ after.lastSequence = seq[g]
  BY <1>1, <1>4, WatermarkMoves
<1> QED  BY <1>1, <1>4, <1>9, <1>11, <1>12, <1>13, <1>14 DEF IsDerived

\* Whatever fact is applied after all of its case, with what the transaction read still true,
\* the model stays what its facts say.
LEMMA AppliedDerived ==
    ASSUME NEW m \in ReadModels, NEW f, NEW facts, NEW seq, Follows(f, facts, seq),
           IsDerived(m, facts, seq),
           NEW pack \in Packs, NEW first \in BOOLEAN,
           KindOf[f] = "decided" =>
              /\ pack = IF CaseOf[f] \in m.dimensions THEN "known" ELSE "unknown"
              /\ first <=> m.cycleTime[CaseOf[f]] = NoFact
    PROVE  IsDerived(Applied(m, f, pack, first, seq[f]), facts \union {f}, seq)
<1>1. KindOf[f] \in {"created", "decided", "finding"}
  BY FactsAssumption DEF Follows
<1>2. PICK after : after = Applied(m, f, pack, first, seq[f])
  OBVIOUS
<1>3. CASE KindOf[f] = "created"
  BY <1>3, <1>2, CreatedDerived
<1>4. CASE KindOf[f] = "finding"
  BY <1>4, <1>2, FindingDerived
<1>5. CASE KindOf[f] = "decided"
  BY <1>5, <1>2, DecidedDerived
<1> QED  BY <1>1, <1>2, <1>3, <1>4, <1>5

LEMMA EmptyDerived ==
    ASSUME NEW seq
    PROVE  IsDerived(EmptyReadModel, {}, seq)
<1>1. /\ \A kind : OfKind({}, kind) = {}
      /\ \A c : Decisions({}, c) = {}
      /\ FirstFirings({}, seq) = {}
      /\ Firsts({}, seq) = {}
  BY DEF OfKind, Decisions, OfCase, FirstFirings, Firsts
<1>2. \A k : /\ CreatedOn({}, k) = {} /\ DecidedOn({}, seq, k) = {}
             /\ RaisedBy({}, k) = {} /\ FollowedBy({}, seq, k) = {}
  BY <1>1 DEF CreatedOn, DecidedOn, RaisedBy, FollowedBy
<1>3. Cardinality({}) = 0
  BY FS_EmptySet
<1>4. /\ \A k \in ThroughputKeys : /\ EmptyReadModel.throughput[k].created = 0
                                   /\ EmptyReadModel.throughput[k].decided = 0
      /\ \A k \in RuleKeys : /\ EmptyReadModel.effectiveness[k].raised = 0
                             /\ EmptyReadModel.effectiveness[k].concluded = 0
      /\ \A c \in Cases : EmptyReadModel.cycleTime[c] = NoFact
      /\ EmptyReadModel.dimensions = {} /\ EmptyReadModel.findings = {}
      /\ EmptyReadModel.processed = {} /\ EmptyReadModel.lastSequence = 0
  BY DEF EmptyReadModel
<1> QED  BY <1>1, <1>2, <1>3, <1>4 DEF IsDerived

\* Sequences drawn for other facts change nothing.
LEMMA DerivedElsewhere ==
    ASSUME NEW m, NEW facts, NEW seq, NEW later, IsDerived(m, facts, seq),
           \A f \in facts : later[f] = seq[f]
    PROVE  IsDerived(m, facts, later)
<1>1. /\ \A kind : OfKind(facts, kind) \subseteq facts
      /\ \A c : Decisions(facts, c) \subseteq facts
  BY DEF OfKind, Decisions, OfCase
<1>2. FirstFirings(facts, later) = FirstFirings(facts, seq)
  BY <1>1 DEF FirstFirings
<1>3. Firsts(facts, later) = Firsts(facts, seq)
  BY <1>1 DEF Firsts
<1>4. \A d \in facts : PackAt(facts, later, d) = PackAt(facts, seq, d)
  BY DEF PackAt, OfKind, OfCase
<1>5. FirstFirings(facts, seq) \subseteq facts /\ Firsts(facts, seq) \subseteq facts
  BY <1>1 DEF FirstFirings, Firsts
<1>6. \A k : DecidedOn(facts, later, k) = DecidedOn(facts, seq, k)
  BY <1>3, <1>4, <1>5 DEF DecidedOn
<1>7. \A k : FollowedBy(facts, later, k) = FollowedBy(facts, seq, k)
  BY <1>2, <1>3, <1>5 DEF FollowedBy
<1>8. \A c \in Cases :
         IF Decisions(facts, c) = {} THEN m.cycleTime[c] = NoFact
                                     ELSE IsLatest(m.cycleTime[c], Decisions(facts, c), later)
  <2>1. \A c, f : IsLatest(f, Decisions(facts, c), seq) => IsLatest(f, Decisions(facts, c), later)
    BY <1>1 DEF IsLatest
  <2> QED  BY <2>1 DEF IsDerived
<1>9. IF facts = {} THEN m.lastSequence = 0
      ELSE \E f \in facts : IsLatest(f, facts, later) /\ m.lastSequence = later[f]
  <2>1. \A f \in facts : IsLatest(f, facts, seq) => IsLatest(f, facts, later)
    BY DEF IsLatest
  <2> QED  BY <2>1 DEF IsDerived
<1> QED  BY <1>2, <1>6, <1>7, <1>8, <1>9 DEF IsDerived

-----------------------------------------------------------------------------
(* The order of each case's facts in a queue. *)

\* No control message from i to j.
Plain(q, i, j) == \A k \in i..j : q[k].body # Control

\* Between two control messages, each case's facts are in the order they happened.
InOrder(q, seq) ==
    \A i, j \in 1..Len(q) : i < j /\ Plain(q, i, j) => Before(q[i].body, q[j].body, seq)

\* What is delivered before the next reset is recorded, or later than all that is.
Fresh(q, seq, facts) ==
    \A i \in 1..Len(q) : Plain(q, 1, i) =>
        q[i].body \in facts \/ \A g \in facts : Before(g, q[i].body, seq)

\* What is between two control messages when a message comes in, and when the head leaves.
LEMMA PlainAppended ==
    ASSUME NEW q \in Seq(Messages), NEW m \in Messages, NEW i \in Nat \ {0}
    PROVE  /\ \A j \in 1..Len(q) : Plain(Append(q, m), i, j) <=> Plain(q, i, j)
           /\ i <= Len(q) + 1 =>
                (Plain(Append(q, m), i, Len(q) + 1) <=> Plain(q, i, Len(q)) /\ m.body # Control)
<1>1. \A k \in 1..Len(q) : Append(q, m)[k] = q[k]
  OBVIOUS
<1>2. Append(q, m)[Len(q) + 1] = m
  OBVIOUS
<1>3. ASSUME NEW j \in 1..Len(q)
      PROVE  Plain(Append(q, m), i, j) <=> Plain(q, i, j)
  <2>1. \A k \in i..j : k \in 1..Len(q)
    OBVIOUS
  <2> QED  BY <1>1, <2>1 DEF Plain
<1>4. ASSUME i <= Len(q) + 1
      PROVE  Plain(Append(q, m), i, Len(q) + 1) <=> Plain(q, i, Len(q)) /\ m.body # Control
  <2>1. \A k : k \in i..(Len(q) + 1) <=> k \in i..Len(q) \/ k = Len(q) + 1
    BY <1>4
  <2>2. \A k \in i..Len(q) : Append(q, m)[k] = q[k]
    BY <1>1
  <2> QED  BY <1>2, <2>1, <2>2 DEF Plain
<1> QED  BY <1>3, <1>4

LEMMA PlainBehindHead ==
    ASSUME NEW q \in Seq(Messages), q # <<>>, NEW i \in Nat \ {0}, NEW j \in Nat
    PROVE  /\ Plain(Tail(q), i, j) /\ j < Len(q) => Plain(q, i + 1, j + 1)
           /\ Plain(q, i + 1, j + 1) /\ j < Len(q) => Plain(Tail(q), i, j)
<1>1. \A k \in 1..(Len(q) - 1) : Tail(q)[k] = q[k + 1]
  OBVIOUS
<1>2. ASSUME j < Len(q), Plain(Tail(q), i, j)
      PROVE  Plain(q, i + 1, j + 1)
  <2> SUFFICES ASSUME NEW k \in (i + 1)..(j + 1)
               PROVE  q[k].body # Control
    BY DEF Plain
  <2>1. k - 1 \in i..j /\ k - 1 \in 1..(Len(q) - 1) /\ (k - 1) + 1 = k
    BY <1>2
  <2> QED  BY <1>1, <1>2, <2>1 DEF Plain
<1>3. ASSUME j < Len(q), Plain(q, i + 1, j + 1)
      PROVE  Plain(Tail(q), i, j)
  <2> SUFFICES ASSUME NEW k \in i..j
               PROVE  Tail(q)[k].body # Control
    BY DEF Plain
  <2>1. k + 1 \in (i + 1)..(j + 1) /\ k \in 1..(Len(q) - 1)
    BY <1>3
  <2> QED  BY <1>1, <1>3, <2>1 DEF Plain
<1> QED  BY <1>2, <1>3

\* Order and freshness when a message comes in, when the head leaves, when it is applied.
LEMMA OrderAppended ==
    ASSUME NEW q \in Seq(Messages), NEW m \in Messages, NEW seq, InOrder(q, seq),
           m.body # Control =>
              \A i \in 1..Len(q) : Plain(q, i, Len(q)) => Before(q[i].body, m.body, seq)
    PROVE  InOrder(Append(q, m), seq)
<1> SUFFICES ASSUME NEW i \in 1..Len(Append(q, m)), NEW j \in 1..Len(Append(q, m)),
                    i < j, Plain(Append(q, m), i, j)
             PROVE  Before(Append(q, m)[i].body, Append(q, m)[j].body, seq)
  BY DEF InOrder
<1>1. Len(Append(q, m)) = Len(q) + 1 /\ i \in 1..Len(q) /\ Append(q, m)[i] = q[i]
  OBVIOUS
<1>2. CASE j \in 1..Len(q)
  BY <1>1, <1>2, PlainAppended DEF InOrder
<1>3. CASE j = Len(q) + 1
  <2>1. Plain(q, i, Len(q)) /\ m.body # Control /\ Append(q, m)[j] = m
    BY <1>1, <1>3, PlainAppended
  <2> QED  BY <1>1, <2>1
<1> QED  BY <1>1, <1>2, <1>3

LEMMA FreshAppended ==
    ASSUME NEW q \in Seq(Messages), NEW m \in Messages, NEW seq, NEW facts, Fresh(q, seq, facts),
           m.body # Control /\ Plain(q, 1, Len(q)) =>
              m.body \in facts \/ \A g \in facts : Before(g, m.body, seq)
    PROVE  Fresh(Append(q, m), seq, facts)
<1> SUFFICES ASSUME NEW i \in 1..Len(Append(q, m)), Plain(Append(q, m), 1, i)
             PROVE  \/ Append(q, m)[i].body \in facts
                    \/ \A g \in facts : Before(g, Append(q, m)[i].body, seq)
  BY DEF Fresh
<1>1. Len(Append(q, m)) = Len(q) + 1 /\ 1 \in Nat \ {0} /\ 1 <= Len(q) + 1
  OBVIOUS
<1>2. CASE i \in 1..Len(q)
  <2>1. Append(q, m)[i] = q[i]
    BY <1>2
  <2>2. Plain(q, 1, i)
    BY <1>1, <1>2, PlainAppended
  <2> QED  BY <1>2, <2>1, <2>2 DEF Fresh
<1>3. CASE i = Len(q) + 1
  <2>1. Append(q, m)[i] = m
    BY <1>3
  <2>2. Plain(q, 1, Len(q)) /\ m.body # Control
    BY <1>1, <1>3, PlainAppended
  <2> QED  BY <2>1, <2>2
<1> QED  BY <1>1, <1>2, <1>3

LEMMA OrderBehindHead ==
    ASSUME NEW q \in Seq(Messages), q # <<>>, NEW seq, InOrder(q, seq)
    PROVE  InOrder(Tail(q), seq)
<1> SUFFICES ASSUME NEW i \in 1..Len(Tail(q)), NEW j \in 1..Len(Tail(q)),
                    i < j, Plain(Tail(q), i, j)
             PROVE  Before(Tail(q)[i].body, Tail(q)[j].body, seq)
  BY DEF InOrder
<1>1. Tail(q)[i] = q[i + 1] /\ Tail(q)[j] = q[j + 1] /\ Len(Tail(q)) = Len(q) - 1
  OBVIOUS
<1>2. i \in Nat \ {0} /\ j \in Nat /\ j < Len(q)
  BY <1>1
<1>3. Plain(q, i + 1, j + 1)
  BY <1>2, PlainBehindHead
<1>4. i + 1 \in 1..Len(q) /\ j + 1 \in 1..Len(q) /\ i + 1 < j + 1
  BY <1>1
<1> QED  BY <1>1, <1>3, <1>4 DEF InOrder

LEMMA PlainFromHead ==
    ASSUME NEW q \in Seq(Messages), q # <<>>, NEW j \in Nat, j < Len(q), Plain(Tail(q), 1, j),
           Head(q).body # Control
    PROVE  Plain(q, 1, j + 1)
<1>1. Plain(q, 2, j + 1)
  <2>1. 1 \in Nat \ {0} /\ 1 + 1 = 2
    OBVIOUS
  <2> QED  BY <2>1, PlainBehindHead
<1>2. \A k \in 1..(j + 1) : k = 1 \/ k \in 2..(j + 1)
  OBVIOUS
<1> QED  BY <1>1, <1>2 DEF Plain

LEMMA FreshBehindHead ==
    ASSUME NEW q \in Seq(Messages), q # <<>>, NEW seq, NEW facts, Fresh(q, seq, facts),
           Head(q).body = Control => facts = {}
    PROVE  Fresh(Tail(q), seq, facts)
<1>1. CASE Head(q).body = Control
  BY <1>1 DEF Fresh
<1>2. CASE Head(q).body # Control
  <2> SUFFICES ASSUME NEW i \in 1..Len(Tail(q)), Plain(Tail(q), 1, i)
               PROVE  \/ Tail(q)[i].body \in facts
                      \/ \A g \in facts : Before(g, Tail(q)[i].body, seq)
    BY DEF Fresh
  <2>1. Tail(q)[i] = q[i + 1] /\ i \in Nat /\ i < Len(q) /\ i + 1 \in 1..Len(q)
    OBVIOUS
  <2>2. Plain(q, 1, i + 1)
    BY <1>2, <2>1, PlainFromHead
  <2> QED  BY <2>1, <2>2 DEF Fresh
<1> QED  BY <1>1, <1>2

LEMMA FreshAfterHead ==
    ASSUME NEW q \in Seq(Messages), q # <<>>, NEW seq, NEW facts, InOrder(q, seq),
           Fresh(q, seq, facts), NEW f, f = Head(q).body
    PROVE  Fresh(q, seq, facts \union {f})
<1> SUFFICES ASSUME NEW i \in 1..Len(q), Plain(q, 1, i)
             PROVE  \/ q[i].body \in facts \union {f}
                    \/ \A g \in facts \union {f} : Before(g, q[i].body, seq)
  BY DEF Fresh
<1>1. q[1].body = f /\ 1 \in 1..Len(q)
  OBVIOUS
<1>2. CASE i = 1
  BY <1>1, <1>2
<1>3. CASE i # 1
  <2>1. Before(f, q[i].body, seq)
    BY <1>1, <1>3 DEF InOrder
  <2>2. q[i].body \in facts \/ \A g \in facts : Before(g, q[i].body, seq)
    BY DEF Fresh
  <2> QED  BY <2>1, <2>2
<1> QED  BY <1>2, <1>3

\* Sequences drawn for facts that are not in the queue change nothing.
LEMMA OrderElsewhere ==
    ASSUME NEW q, NEW seq, NEW later, NEW facts, InOrder(q, seq), Fresh(q, seq, facts),
           \A i \in 1..Len(q) : q[i].body # Control => later[q[i].body] = seq[q[i].body],
           \A g \in facts : later[g] = seq[g], Len(q) \in Nat
    PROVE  InOrder(q, later) /\ Fresh(q, later, facts)
<1>1. ASSUME NEW i \in 1..Len(q), NEW j \in 1..Len(q), i < j, Plain(q, i, j)
      PROVE  Before(q[i].body, q[j].body, later)
  <2>1. q[i].body # Control /\ q[j].body # Control
    BY <1>1 DEF Plain
  <2> QED  BY <1>1, <2>1 DEF InOrder, Before
<1>2. ASSUME NEW i \in 1..Len(q), Plain(q, 1, i)
      PROVE  q[i].body \in facts \/ \A g \in facts : Before(g, q[i].body, later)
  <2>1. q[i].body # Control
    BY <1>2 DEF Plain
  <2> QED  BY <1>2, <2>1 DEF Fresh, Before
<1> QED  BY <1>1, <1>2 DEF InOrder, Fresh

-----------------------------------------------------------------------------
(* The inductive invariant of the derived read model. *)

Drawn == {f \in Facts : seqOf[f] > 0}

\* Sequences are drawn once and grow, and an open row is the last of its case.
Numbering ==
    /\ \A f \in Facts : row[f] # "none" => seqOf[f] > 0
    /\ \A f \in Facts : seqOf[f] <= Cardinality(Drawn)
    /\ \A f, g \in Drawn : seqOf[f] = seqOf[g] => f = g
    /\ \A f \in Facts, g \in Drawn : row[f] = "open" /\ f # g => Before(g, f, seqOf)

Waiting == Committed \ (announced \union Unparsable)

\* What is announced is committed, and nothing after a later fact of its case.
AnnouncedInOrder ==
    /\ announced \subseteq Committed \ Unparsable
    /\ \A f \in Waiting, g \in announced : Before(g, f, seqOf)

\* No handler fails.
NothingFailed ==
    /\ faults = 0
    /\ \A c \in Consumers : retry[c] = <<>> /\ tx[c].phase \notin {"failed", "copied"}

\* What c is still to settle was announced, and is ahead of nothing it comes after.
StreamOrdered(c) ==
    /\ \A i \in 1..Len(queue[c]) : queue[c][i].body \in announced \union {Control}
    /\ InOrder(queue[c], seqOf)
    /\ Fresh(queue[c], seqOf, db.processed)

StreamsOrdered ==
    /\ db.processed \subseteq announced
    /\ \A i \in 1..Len(queue["live"]) : queue["live"][i].body # Control
    /\ \A c \in Consumers : StreamOrdered(c)

\* A running replay is past what it has sent, and once its reset is settled past all there is.
PagingOrdered ==
    replay = "paging" =>
        LET q == queue["replay"]
        IN  /\ \A f \in page : f \in Committed /\ seqOf[f] > cursor
            /\ \A i \in 1..Len(q) : Plain(q, i, Len(q)) => seqOf[q[i].body] <= cursor
            /\ Plain(q, 1, Len(q)) => \A g \in db.processed : seqOf[g] <= cursor

\* What the transaction of c has done, or read, while it is settled.
SettlingOrdered(c) ==
    /\ tx[c].phase = "handled" =>
          IF Delivery(c) = Control THEN db.processed = {} ELSE Delivery(c) \in db.processed
    /\ tx[c].phase \in {"attributed", "ready"} =>
          tx[c].pack = IF CaseOf[Delivery(c)] \in db.dimensions THEN "known" ELSE "unknown"

DerivedInv ==
    /\ CountersInv
    /\ Numbering /\ AnnouncedInOrder /\ NothingFailed
    /\ StreamsOrdered /\ PagingOrdered
    /\ \A c \in Consumers : SettlingOrdered(c)
    /\ IsDerived(db, db.processed, seqOf)

\* The number drawn next is greater than all drawn so far, and counts them.
LEMMA NextIsLast ==
    ASSUME LogTyped, Numbering, NEW f \in Facts, row[f] = "none"
    PROVE  /\ \A g \in Facts : seqOf[g] \in Nat /\ seqOf[g] < NextSequence
           /\ NextSequence \in Nat \ {0} /\ NextSequence = Cardinality(Drawn) + 1
           /\ Cardinality(Drawn \union {f}) = NextSequence
           /\ f \notin Drawn
<1>1. Drawn \in SUBSET Facts /\ IsFiniteSet(Facts) /\ Cardinality(Facts) \in Nat
  BY FactsAssumption, FS_CardinalityType DEF Drawn
<1>2. IsFiniteSet(Drawn) /\ Cardinality(Drawn) \in Nat
  BY <1>1, FS_Subset, FS_CardinalityType
<1>3. NextSequence = Cardinality(Drawn) + 1
  BY DEF NextSequence, Drawn
<1>4. \A g \in Facts : seqOf[g] \in Nat
  BY <1>1 DEF LogTyped
<1>5. f \notin Drawn
  BY DEF LogTyped, Drawn
<1>6. Cardinality(Drawn \union {f}) = Cardinality(Drawn) + 1
  BY <1>2, <1>5, FS_AddElement
<1>7. \A g \in Facts : seqOf[g] <= Cardinality(Drawn)
  BY DEF Numbering
<1> QED  BY <1>2, <1>3, <1>4, <1>5, <1>6, <1>7

\* Drawing a number, committing and announcing keep the log in order.
LEMMA NumberingKept ==
    ASSUME LogTyped, Numbering, [Next]_vars
    PROVE  Numbering'
<1>1. ASSUME NEW f \in Facts, AppendDomainEvent(f)
      PROVE  Numbering'
  <2>1. row[f] = "none" /\ MayRecord(f)
    BY <1>1 DEF AppendDomainEvent
  <2>2. PICK n : n = NextSequence
    OBVIOUS
  <2>3. /\ \A g \in Facts : seqOf[g] \in Nat /\ seqOf[g] < n
        /\ n \in Nat \ {0}
        /\ Cardinality(Drawn \union {f}) = n
        /\ f \notin Drawn
    BY <2>1, <2>2, NextIsLast
  <2>4. /\ \A g \in Facts : row'[g] = IF g = f THEN "open" ELSE row[g]
        /\ \A g \in Facts : seqOf'[g] = IF g = f THEN n ELSE seqOf[g]
    BY <1>1, <2>2 DEF AppendDomainEvent, LogTyped
  <2>5. Drawn' = Drawn \union {f}
    BY <2>3, <2>4 DEF Drawn
  <2>6. \A g \in Facts : row'[g] # "none" => seqOf'[g] > 0
    BY <2>3, <2>4 DEF Numbering
  <2>7. \A g \in Facts : seqOf'[g] <= Cardinality(Drawn')
    BY <2>3, <2>4, <2>5
  <2>8. \A g, h \in Drawn' : seqOf'[g] = seqOf'[h] => g = h
    BY <2>3, <2>4, <2>5 DEF Numbering, Drawn
  <2>9. ASSUME NEW g \in Facts, NEW h \in Drawn', row'[g] = "open", g # h
        PROVE  CaseOf[h] = CaseOf[g] => seqOf'[h] < seqOf'[g]
    <3>1. CASE g = f
      BY <2>3, <2>4, <2>5, <2>9, <3>1 DEF Drawn
    <3>2. CASE g # f /\ h = f
      BY <2>1, <2>4, <2>9, <3>2 DEF MayRecord, OfCase
    <3>3. CASE g # f /\ h # f
      BY <2>4, <2>5, <2>9, <3>3 DEF Numbering, Before, Drawn
    <3> QED  BY <3>1, <3>2, <3>3
  <2> QED  BY <2>6, <2>7, <2>8, <2>9 DEF Numbering, Before
<1>2. ASSUME NEW f \in Facts, CommitEvent(f)
      PROVE  Numbering'
  <2>1. \A g \in Facts : row'[g] = IF g = f THEN "committed" ELSE row[g]
    BY <1>2 DEF CommitEvent, LogTyped
  <2>2. UNCHANGED seqOf /\ row[f] # "none"
    BY <1>2 DEF CommitEvent
  <2> QED  BY <2>1, <2>2 DEF Numbering, Drawn, Before
<1>3. CASE UNCHANGED <<row, seqOf>>
  BY <1>3 DEF Numbering, Drawn, Before
<1>4. (\E f \in Facts : Announce(f)) \/ CommandNext \/ ConsumerNext \/ UNCHANGED vars
         => UNCHANGED <<row, seqOf>>
  BY DEF Announce, CommandNext, ConsumerNext, vars, log, StartReplay, Paging, ReadPage,
         FinishReplay, PublishRow, PublishRefused, Resetting, BeginReset, DeleteTable,
         CommitReset, Consume, Claim, ReadDimension, ReadCycleTime, CommitApply,
         TransactionFails, SendRetryCopy, GiveUp, Acknowledge, ExpireRetry, Crash
<1> QED  BY <1>1, <1>2, <1>3, <1>4, NextByActor DEF LogNext, Publishing

LEMMA AnnouncedKept ==
    ASSUME LogTyped, Numbering, AnnouncedInOrder, [Next]_vars
    PROVE  AnnouncedInOrder'
<1>0. \A f \in Facts : seqOf[f] \in Nat
  BY FactsAssumption, FS_CardinalityType DEF LogTyped
<1>1. ASSUME NEW f \in Facts, AppendDomainEvent(f)
      PROVE  AnnouncedInOrder'
  <2>1. /\ \A g \in Facts : g # f => row'[g] = row[g] /\ seqOf'[g] = seqOf[g]
        /\ row'[f] = "open" /\ row[f] = "none" /\ UNCHANGED announced
    BY <1>1 DEF AppendDomainEvent, LogTyped
  <2>2. Committed' = Committed /\ Waiting' = Waiting /\ f \notin Committed
    BY <2>1 DEF Committed, Waiting
  <2>3. Waiting \subseteq Committed /\ Committed \subseteq Facts
    BY DEF Waiting, Committed
  <2> QED  BY <2>1, <2>2, <2>3 DEF AnnouncedInOrder, Before
<1>2. ASSUME NEW f \in Facts, CommitEvent(f)
      PROVE  AnnouncedInOrder'
  <2>1. /\ Committed' = Committed \union {f} /\ UNCHANGED <<seqOf, announced>>
        /\ row[f] = "open"
    BY <1>2 DEF CommitEvent, Committed, LogTyped
  <2>2. \A g \in announced : Before(g, f, seqOf)
    <3>1. \A g \in announced : g \in Drawn /\ g # f
      BY <2>1 DEF AnnouncedInOrder, Committed, Numbering, Drawn
    <3> QED  BY <2>1, <3>1 DEF Numbering
  <2> QED  BY <2>1, <2>2 DEF AnnouncedInOrder, Waiting, Before
<1>3. ASSUME NEW f \in Facts, Announce(f)
      PROVE  AnnouncedInOrder'
  <2>1. /\ f \in Waiting /\ f = Earliest(Waiting, seqOf)
        /\ announced' = announced \union {f} /\ UNCHANGED <<row, seqOf>>
    BY <1>3 DEF Announce, Waiting
  <2>2. Waiting \subseteq Facts /\ Waiting # {} /\ Waiting \subseteq Drawn
    BY <2>1 DEF Waiting, Committed, Numbering, Drawn
  <2>3. \A g \in Waiting : seqOf[f] <= seqOf[g]
    BY <1>0, <2>1, <2>2, EarliestIsOldest
  <2>4. \A g \in Waiting : g # f => seqOf[f] < seqOf[g]
    BY <1>0, <2>1, <2>2, <2>3 DEF Numbering
  <2>5. Committed' = Committed /\ Waiting' = Waiting \ {f}
    BY <2>1 DEF Committed, Waiting
  <2> QED  BY <2>1, <2>4, <2>5 DEF AnnouncedInOrder, Before, Waiting
<1>4. CASE UNCHANGED log
  BY <1>4 DEF log, AnnouncedInOrder, Waiting, Committed, Before
<1>5. CommandNext \/ ConsumerNext \/ UNCHANGED vars => UNCHANGED log
  BY DEF CommandNext, ConsumerNext, vars, StartReplay, Paging, ReadPage,
         FinishReplay, PublishRow, PublishRefused, Resetting, BeginReset, DeleteTable,
         CommitReset, Consume, Claim, ReadDimension, ReadCycleTime, CommitApply,
         TransactionFails, SendRetryCopy, GiveUp, Acknowledge, ExpireRetry, Crash
<1> QED  BY <1>1, <1>2, <1>3, <1>4, <1>5, NextByActor DEF LogNext, Publishing

\* Without faults no delivery is ever retried or set aside.
LEMMA NothingFails ==
    ASSUME MaxFaults = 0, AnalyticsTyped, NothingFailed, [Next]_vars
    PROVE  NothingFailed'
<1>0. tx \in [Consumers -> Transactions]
  BY DEF AnalyticsTyped
<1>1. ASSUME NEW c \in Consumers, ExpireRetry(c)
      PROVE  FALSE
  BY <1>1 DEF ExpireRetry, NothingFailed
<1>2. ASSUME NEW c \in Consumers, TransactionFails(c) \/ SendRetryCopy(c) \/ GiveUp(c)
      PROVE  FALSE
  BY <1>2 DEF TransactionFails, SendRetryCopy, GiveUp, NothingFailed
<1>3. ASSUME NEW c \in Consumers,
             Claim(c) \/ ReadDimension(c) \/ ReadCycleTime(c) \/ CommitApply(c) \/ Acknowledge(c)
      PROVE  NothingFailed'
  <2>1. PICK phase \in {"claimed", "attributed", "ready", "handled", "idle"} : tx'[c].phase = phase
    <3>1. CASE Claim(c) \/ CommitApply(c) \/ Acknowledge(c)
      <4>1. \/ \E phase \in {"claimed", "handled"} : tx'[c] = In(phase)
            \/ tx'[c] = Idle
        BY <1>0, <3>1 DEF Claim, CommitApply, Acknowledge
      <4> QED  BY <4>1, PhasesTyped DEF Phases
    <3>2. CASE ReadDimension(c)
      <4>1. PICK pack \in Packs : tx' = [tx EXCEPT ![c] = [In("attributed") EXCEPT !.pack = pack]]
        BY <3>2 DEF ReadDimension, Packs
      <4>2. In("attributed") \in Transactions /\ In("attributed").phase = "attributed"
        BY PhasesTyped DEF Phases
      <4> QED  BY <1>0, <4>1, <4>2 DEF Transactions
    <3>3. CASE ReadCycleTime(c)
      <4>1. tx' = [tx EXCEPT ![c] = [tx[c] EXCEPT !.phase = "ready",
                                        !.first = db.cycleTime[CaseOf[Delivery(c)]] = NoFact]]
        BY <1>0, <3>3 DEF ReadCycleTime
      <4> QED  BY <1>0, <4>1 DEF Transactions
    <3> QED  BY <1>3, <3>1, <3>2, <3>3
  <2>2. UNCHANGED <<retry, faults>> /\ \A d \in Consumers : d # c => tx'[d] = tx[d]
    BY <1>0, <1>3 DEF Claim, ReadDimension, ReadCycleTime, CommitApply, Acknowledge, broker
  <2> QED  BY <2>1, <2>2 DEF NothingFailed
<1>4. CASE BeginReset \/ CommitReset
  <2>1. PICK phase \in {"resetting", "handled"} : tx' = [tx EXCEPT !["replay"] = In(phase)]
    BY <1>4 DEF BeginReset, CommitReset
  <2>2. In(phase).phase = phase /\ UNCHANGED <<retry, faults>>
    BY <1>4, PhasesTyped DEF Phases, BeginReset, CommitReset, broker
  <2> QED  BY <1>0, <2>1, <2>2 DEF NothingFailed
<1>5. CASE DeleteTable
  <2>1. PICK t \in Transactions : t = tx["replay"]
    BY <1>0 DEF Consumers
  <2>2. tx' = [tx EXCEPT !["replay"] = [t EXCEPT !.wiped = t.wiped + 1]] /\ UNCHANGED <<retry, faults>>
    BY <1>5, <2>1 DEF DeleteTable, broker
  <2>3. [t EXCEPT !.wiped = t.wiped + 1].phase = t.phase
    BY DEF Transactions
  <2> QED  BY <1>0, <2>1, <2>2, <2>3 DEF NothingFailed
<1>6. CASE Crash
  BY <1>6, PhasesTyped DEF Crash, NothingFailed, broker, Phases
<1>7. CASE UNCHANGED <<retry, tx, faults>>
  BY <1>7 DEF NothingFailed
<1>8. LogNext \/ CommandNext \/ UNCHANGED vars => UNCHANGED <<retry, tx, faults>>
  BY DEF LogNext, CommandNext, vars, broker, analytics, AppendDomainEvent, Publishing,
         CommitEvent, Announce, StartReplay, Paging, ReadPage, FinishReplay, PublishRow,
         PublishRefused
<1> QED  BY <1>1, <1>2, <1>3, <1>4, <1>5, <1>6, <1>7, <1>8, NextByActor
         DEF ConsumerNext, Resetting, Consume

\* What the log and the command leave to prove at a step.
OrderKept ==
    /\ StreamsOrdered' /\ PagingOrdered'
    /\ \A c \in Consumers : SettlingOrdered(c)'
    /\ IsDerived(db', db'.processed, seqOf')

\* What a transaction has done stays done while its delivery and the database are left alone.
LEMMA SettlingStays ==
    ASSUME NEW c \in Consumers, SettlingOrdered(c), tx'[c] = tx[c], db' = db,
           tx[c].phase # "idle" => Head(queue'[c]) = Head(queue[c])
    PROVE  SettlingOrdered(c)'
BY DEF SettlingOrdered, Delivery

LEMMA SettlingWhenIdle ==
    ASSUME NEW c \in Consumers, tx'[c] = Idle
    PROVE  SettlingOrdered(c)'
BY PhasesTyped DEF SettlingOrdered, Phases

LEMMA StreamUntouched ==
    ASSUME NEW c \in Consumers, StreamOrdered(c), UNCHANGED <<seqOf, db>>,
           announced \subseteq announced', queue'[c] = queue[c]
    PROVE  StreamOrdered(c)'
BY DEF StreamOrdered

\* A fact inserted, committed or announced: its sequence is new, and of its case nothing that
\* is under way or recorded is later.
LEMMA LogOrders ==
    ASSUME ~Overlap, DerivedInv, LogNext
    PROVE  OrderKept
<1>0. /\ LogTyped /\ BrokerTyped /\ \A c \in Consumers : Current(c) /\ queue[c] \in Seq(Messages)
      /\ "live" \in Consumers /\ "replay" \in Consumers /\ Consumers = {"live", "replay"}
  BY DEF DerivedInv, CountersInv, BrokerTyped, Consumers
<1>1. replay' # "paging"
  <2>1. NoReplayRunning
    BY DEF LogNext, Publishing, AppendDomainEvent, CommitEvent, Announce, Exclusive,
           NoLiveTraffic, DerivedInv, CountersInv
  <2> QED  BY <1>0, <2>1, LogAppends DEF NoReplayRunning
<1>2. PagingOrdered'
  BY <1>1 DEF PagingOrdered
<1>3. UNCHANGED <<tx, db>>
  BY <1>0, LogAppends
<1>4. \A c \in Consumers : SettlingOrdered(c)'
  <2> SUFFICES ASSUME NEW c \in Consumers
               PROVE  SettlingOrdered(c)'
    OBVIOUS
  <2>1. tx[c].phase # "idle" => queue[c] # <<>>
    BY <1>0 DEF Current
  <2>2. tx[c].phase # "idle" => Head(queue'[c]) = Head(queue[c])
    BY <1>0, <2>1, LogAppends
  <2> QED  BY <1>3, <2>2, SettlingStays DEF DerivedInv
<1>5. ASSUME NEW f \in Facts, AppendDomainEvent(f)
      PROVE  OrderKept
  <2>1. /\ \A g \in Facts : g # f => seqOf'[g] = seqOf[g]
        /\ row[f] = "none" /\ UNCHANGED <<announced, queue>>
    BY <1>0, <1>5 DEF AppendDomainEvent, LogTyped, broker
  <2>2. \A g \in announced : seqOf'[g] = seqOf[g]
    BY <2>1 DEF DerivedInv, AnnouncedInOrder, Committed
  <2>3. db.processed \subseteq announced
    BY DEF DerivedInv, StreamsOrdered
  <2>4. ASSUME NEW c \in Consumers
        PROVE  StreamOrdered(c)'
    <3>1. StreamOrdered(c)
      BY DEF DerivedInv, StreamsOrdered
    <3>2. PICK q : q = queue[c]
      OBVIOUS
    <3>3. \A i \in 1..Len(q) : q[i].body # Control => seqOf'[q[i].body] = seqOf[q[i].body]
      BY <2>2, <3>1, <3>2 DEF StreamOrdered
    <3>4. \A g \in db.processed : seqOf'[g] = seqOf[g]
      BY <2>2, <2>3
    <3>5. Len(q) \in Nat /\ InOrder(q, seqOf) /\ Fresh(q, seqOf, db.processed)
      BY <1>0, <3>1, <3>2 DEF StreamOrdered
    <3>6. InOrder(q, seqOf') /\ Fresh(q, seqOf', db.processed)
      BY <3>3, <3>4, <3>5, OrderElsewhere
    <3> QED  BY <1>3, <2>1, <3>1, <3>2, <3>6 DEF StreamOrdered
  <2>5. IsDerived(db', db'.processed, seqOf')
    <3>1. \A g \in db.processed : seqOf'[g] = seqOf[g]
      BY <2>2, <2>3
    <3>2. IsDerived(db, db.processed, seqOf)
      BY DEF DerivedInv
    <3>3. IsDerived(db, db.processed, seqOf')
      BY <3>1, <3>2, DerivedElsewhere
    <3> QED  BY <1>3, <3>3
  <2>6. StreamsOrdered'
    BY <1>3, <2>1, <2>4 DEF DerivedInv, StreamsOrdered
  <2> QED  BY <1>2, <1>4, <2>5, <2>6 DEF OrderKept
<1>6. ASSUME NEW f \in Facts, CommitEvent(f)
      PROVE  OrderKept
  <2>1. UNCHANGED <<announced, queue, seqOf>>
    BY <1>6 DEF CommitEvent, broker
  <2>2. StreamsOrdered'
    BY <1>3, <2>1, StreamUntouched DEF DerivedInv, StreamsOrdered
  <2> QED  BY <1>2, <1>3, <1>4, <2>1, <2>2 DEF OrderKept, DerivedInv
<1>7. ASSUME NEW f \in Facts, Announce(f)
      PROVE  OrderKept
  <2>1. /\ f \in Waiting /\ announced' = announced \union {f} /\ UNCHANGED seqOf
        /\ \/ queue' = [queue EXCEPT !["live"] = Append(queue["live"], Message(f))]
           \/ UNCHANGED queue
    BY <1>7 DEF Announce, Waiting
  <2>2. Message(f) \in Messages /\ Message(f).body = f /\ f # Control
    BY MessagesTyped, ReplayAssumption DEF Message
  <2>3. \A g \in announced : Before(g, f, seqOf)
    BY <2>1 DEF DerivedInv, AnnouncedInOrder
  <2>4. ASSUME NEW q, q = queue["live"], NEW m, m = Message(f)
        PROVE  /\ \A i \in 1..Len(Append(q, m)) :
                     Append(q, m)[i].body \in announced' /\ Append(q, m)[i].body # Control
               /\ InOrder(Append(q, m), seqOf)
               /\ Fresh(Append(q, m), seqOf, db.processed)
    <3>1. q \in Seq(Messages) /\ m \in Messages /\ m.body = f
      BY <1>0, <2>2, <2>4
    <3>2. /\ \A i \in 1..Len(q) : q[i].body \in announced /\ q[i].body # Control
          /\ InOrder(q, seqOf) /\ Fresh(q, seqOf, db.processed)
          /\ db.processed \subseteq announced
      BY <1>0, <2>4 DEF DerivedInv, StreamsOrdered, StreamOrdered
    <3>3. InOrder(Append(q, m), seqOf)
      BY <2>3, <3>1, <3>2, OrderAppended
    <3>4. Fresh(Append(q, m), seqOf, db.processed)
      BY <2>3, <3>1, <3>2, FreshAppended
    <3>5. \A i \in 1..Len(Append(q, m)) : Append(q, m)[i] = m \/ \E j \in 1..Len(q) : Append(q, m)[i] = q[j]
      BY <3>1
    <3> QED  BY <2>1, <2>2, <3>1, <3>2, <3>3, <3>4, <3>5
  <2>5. StreamOrdered("replay")'
    <3>1. queue'["replay"] = queue["replay"] /\ announced \subseteq announced'
      BY <1>0, <2>1 DEF BrokerTyped
    <3> QED  BY <1>0, <1>3, <2>1, <3>1, StreamUntouched DEF DerivedInv, StreamsOrdered
  <2>6. StreamOrdered("live")' /\ \A i \in 1..Len(queue'["live"]) : queue'["live"][i].body # Control
    <3>1. CASE queue' = [queue EXCEPT !["live"] = Append(queue["live"], Message(f))]
      <4>1. queue'["live"] = Append(queue["live"], Message(f))
        BY <1>0, <3>1 DEF BrokerTyped
      <4> QED  BY <1>3, <2>1, <2>4, <4>1 DEF StreamOrdered
    <3>2. CASE UNCHANGED queue
      <4>1. announced \subseteq announced'
        BY <2>1
      <4> QED  BY <1>0, <1>3, <2>1, <3>2, <4>1, StreamUntouched DEF DerivedInv, StreamsOrdered
    <3> QED  BY <2>1, <3>1, <3>2
  <2>7. StreamsOrdered'
    BY <1>0, <1>3, <2>1, <2>5, <2>6 DEF DerivedInv, StreamsOrdered
  <2> QED  BY <1>2, <1>3, <1>4, <2>1, <2>7 DEF OrderKept, DerivedInv
<1> QED  BY <1>5, <1>6, <1>7 DEF LogNext, Publishing

\* A command that runs sends history in the order of the outbox, behind its control message.
LEMMA CommandOrders ==
    ASSUME ~Overlap, DerivedInv, CommandNext
    PROVE  OrderKept
<1>0. /\ LogTyped /\ BrokerTyped /\ CommandTyped
      /\ \A c \in Consumers : Current(c) /\ queue[c] \in Seq(Messages)
      /\ "live" \in Consumers /\ "replay" \in Consumers /\ Consumers = {"live", "replay"}
  BY DEF DerivedInv, CountersInv, BrokerTyped, Consumers
<1>1. NoLiveTraffic
  BY <1>0 DEF CommandNext, StartReplay, Paging, ReadPage, FinishReplay, PublishRow,
              PublishRefused, Exclusive, NoReplayRunning, CommandTyped, DerivedInv, CountersInv
<1>2. UNCHANGED <<announced, tx, db>> /\ queue'["live"] = queue["live"]
  BY <1>0, CommandAppends
<1>3. UNCHANGED seqOf
  BY DEF CommandNext, StartReplay, Paging, ReadPage, FinishReplay, PublishRow, PublishRefused, log
<1>4. \A c \in Consumers : SettlingOrdered(c)'
  <2> SUFFICES ASSUME NEW c \in Consumers
               PROVE  SettlingOrdered(c)'
    OBVIOUS
  <2>1. tx[c].phase # "idle" => queue[c] # <<>>
    BY <1>0 DEF Current
  <2>2. tx[c].phase # "idle" => Head(queue'[c]) = Head(queue[c])
    BY <1>0, <2>1, CommandAppends
  <2> QED  BY <1>2, <2>2, SettlingStays DEF DerivedInv
<1>5. PICK q \in Seq(Messages) : q = queue["replay"]
  BY <1>0
<1>6. /\ \A i \in 1..Len(q) : q[i].body \in announced \union {Control}
      /\ InOrder(q, seqOf) /\ Fresh(q, seqOf, db.processed)
  BY <1>0, <1>5 DEF DerivedInv, StreamsOrdered, StreamOrdered
<1>7. ASSUME NEW m \in Messages, queue'["replay"] = Append(q, m),
             m.body \in announced \union {Control},
             InOrder(Append(q, m), seqOf), Fresh(Append(q, m), seqOf, db.processed)
      PROVE  StreamsOrdered'
  <2>1. \A i \in 1..Len(Append(q, m)) : Append(q, m)[i] = m \/ \E j \in 1..Len(q) : Append(q, m)[i] = q[j]
    OBVIOUS
  <2>2. StreamOrdered("replay")'
    BY <1>2, <1>3, <1>6, <1>7, <2>1 DEF StreamOrdered
  <2>3. StreamOrdered("live")'
    BY <1>0, <1>2, <1>3, StreamUntouched DEF DerivedInv, StreamsOrdered
  <2> QED  BY <1>0, <1>2, <2>2, <2>3 DEF DerivedInv, StreamsOrdered
<1>8. ASSUME UNCHANGED queue
      PROVE  StreamsOrdered'
  BY <1>2, <1>3, <1>8, StreamUntouched DEF DerivedInv, StreamsOrdered
<1>9. ASSUME StartReplay
      PROVE  StreamsOrdered' /\ PagingOrdered'
  <2>1. PICK m \in Messages : m = Message(Control)
    BY MessagesTyped
  <2>2. m.body = Control
    BY <2>1 DEF Message
  <2>3. queue'["replay"] = Append(q, m) /\ page' = {}
    BY <1>0, <1>5, <1>9, <2>1 DEF StartReplay, BrokerTyped
  <2>4. InOrder(Append(q, m), seqOf) /\ Fresh(Append(q, m), seqOf, db.processed)
    BY <1>6, <2>2, OrderAppended, FreshAppended
  <2>5. StreamsOrdered'
    BY <1>7, <2>2, <2>3, <2>4
  <2>6. Len(Append(q, m)) = Len(q) + 1 /\ Append(q, m)[Len(q) + 1] = m
    OBVIOUS
  <2>7. \A i \in 1..Len(Append(q, m)) : ~Plain(Append(q, m), i, Len(Append(q, m)))
    BY <2>2, <2>6 DEF Plain
  <2>8. ~Plain(Append(q, m), 1, Len(Append(q, m)))
    BY <2>6, <2>7
  <2> QED  BY <2>3, <2>5, <2>7, <2>8 DEF PagingOrdered
<1>10. ASSUME ReadPage
       PROVE  StreamsOrdered' /\ PagingOrdered'
  <2>1. UNCHANGED <<queue, row, replay, cursor>> /\ \A f \in page' : f \in Committed /\ seqOf[f] > cursor
    BY <1>10 DEF ReadPage, IsPage, Beyond, broker, log
  <2>2. Committed' = Committed
    BY <2>1 DEF Committed
  <2> QED  BY <1>2, <1>3, <1>8, <2>1, <2>2 DEF DerivedInv, PagingOrdered
<1>11. ASSUME FinishReplay \/ PublishRefused
       PROVE  StreamsOrdered' /\ PagingOrdered'
  BY <1>8, <1>11 DEF FinishReplay, PublishRefused, broker, PagingOrdered
<1>12. ASSUME PublishRow
       PROVE  StreamsOrdered' /\ PagingOrdered'
  <2>0. \A f \in Facts : seqOf[f] \in Nat
    BY <1>0, FactsAssumption, FS_CardinalityType DEF LogTyped
  <2>1. PICK f \in page : f = Earliest(page, seqOf)
    BY <1>0, <1>12, <2>0, EarliestIsOldest DEF PublishRow, CommandTyped
  <2>2. /\ f \in Facts /\ page \subseteq Facts /\ replay = "paging" /\ cursor \in Nat
        /\ \A g \in page : seqOf[f] <= seqOf[g]
    <3>1. page \subseteq Facts /\ page # {} /\ replay = "paging"
      BY <1>0, <1>12 DEF PublishRow, CommandTyped
    <3>2. cursor \in Nat
      BY <1>0, FactsAssumption, FS_CardinalityType DEF CommandTyped
    <3> QED  BY <2>0, <2>1, <3>1, <3>2, EarliestIsOldest
  <2>3. /\ cursor' = seqOf[f] /\ page' = page \ {f} /\ UNCHANGED <<row, replay>>
        /\ \/ f \in Unparsable /\ UNCHANGED queue
           \/ f \notin Unparsable /\ queue' = [queue EXCEPT !["replay"] = Append(q, Message(f))]
    BY <1>5, <1>12, <2>1 DEF PublishRow, log
  <2>4. /\ \A g \in page : g \in Committed /\ seqOf[g] > cursor
        /\ \A i \in 1..Len(q) : Plain(q, i, Len(q)) => seqOf[q[i].body] <= cursor
        /\ Plain(q, 1, Len(q)) => \A g \in db.processed : seqOf[g] <= cursor
    BY <1>5, <2>2 DEF DerivedInv, PagingOrdered
  <2>5. \A g \in page \ {f} : seqOf[g] > seqOf[f]
    <3>1. \A g \in page : g \in Drawn
      BY <2>2, <2>4 DEF DerivedInv, Numbering, Committed, Drawn
    <3> QED  BY <2>0, <2>2, <3>1 DEF DerivedInv, Numbering
  <2>6. \A g \in page' : g \in Committed' /\ seqOf'[g] > cursor'
    BY <1>3, <2>3, <2>4, <2>5 DEF Committed
  <2>7. /\ \A g \in db.processed : g \in Facts
        /\ \A i \in 1..Len(q) : q[i].body # Control => q[i].body \in Facts
    BY <1>6 DEF DerivedInv, StreamsOrdered, AnnouncedInOrder, Committed
  <2>8. /\ \A i \in 1..Len(q) : Plain(q, i, Len(q)) => q[i].body \in Facts /\ seqOf[q[i].body] < seqOf[f]
        /\ Plain(q, 1, Len(q)) => \A g \in db.processed : seqOf[g] < seqOf[f]
    <3>1. \A i \in 1..Len(q) : Plain(q, i, Len(q)) => q[i].body \in Facts
      BY <2>7 DEF Plain
    <3>2. seqOf[f] > cursor
      BY <2>4
    <3> QED  BY <2>0, <2>2, <2>4, <2>7, <3>1, <3>2
  <2>9. CASE UNCHANGED queue
    <3>1. /\ \A i \in 1..Len(q) : Plain(q, i, Len(q)) => seqOf[q[i].body] <= seqOf[f]
          /\ Plain(q, 1, Len(q)) => \A g \in db.processed : seqOf[g] <= seqOf[f]
      BY <2>0, <2>2, <2>7, <2>8
    <3> QED  BY <1>2, <1>3, <1>5, <1>8, <2>3, <2>6, <2>9, <3>1 DEF PagingOrdered
  <2>10. CASE f \notin Unparsable /\ queue' = [queue EXCEPT !["replay"] = Append(q, Message(f))]
    <3>1. PICK m \in Messages : m = Message(f) /\ m.body = f
      BY <2>2, MessagesTyped DEF Message
    <3>2. queue'["replay"] = Append(q, m) /\ f # Control
      BY <1>0, <2>2, <2>10, <3>1, ReplayAssumption DEF BrokerTyped
    <3>3. f \in announced
      BY <1>1, <2>4, <2>10 DEF NoLiveTraffic
    <3>4. InOrder(Append(q, m), seqOf)
      BY <1>6, <2>8, <3>1, OrderAppended DEF Before
    <3>5. Fresh(Append(q, m), seqOf, db.processed)
      BY <1>6, <2>8, <3>1, FreshAppended DEF Before
    <3>6. StreamsOrdered'
      BY <1>7, <3>1, <3>2, <3>3, <3>4, <3>5
    <3>7. PICK s \in Seq(Messages) : s = Append(q, m)
      BY HeadKept
    <3>8. /\ Len(s) = Len(q) + 1 /\ s[Len(q) + 1] = m
          /\ \A i \in 1..Len(q) : s[i] = q[i]
          /\ Len(q) \in Nat
      BY <3>7
    <3>9. ASSUME NEW i \in 1..Len(s), Plain(s, i, Len(s))
          PROVE  seqOf[s[i].body] <= seqOf[f]
      <4>1. CASE i = Len(q) + 1
        BY <2>0, <2>2, <3>1, <3>8, <4>1
      <4>2. CASE i \in 1..Len(q)
        <5>1. Plain(q, i, Len(q))
          BY <3>7, <3>8, <3>9, <4>2, PlainAppended
        <5> QED  BY <2>0, <2>2, <2>8, <3>8, <4>2, <5>1
      <4> QED  BY <3>8, <4>1, <4>2
    <3>10. ASSUME Plain(s, 1, Len(s))
           PROVE  \A g \in db.processed : seqOf[g] <= seqOf[f]
      <4>1. 1 \in Nat \ {0} /\ 1 <= Len(q) + 1
        BY <3>8
      <4>2. Plain(q, 1, Len(q))
        BY <3>7, <3>8, <3>10, <4>1, PlainAppended
      <4> QED  BY <2>0, <2>2, <2>7, <2>8, <4>2
    <3>11. PagingOrdered'
      BY <1>2, <1>3, <2>3, <2>6, <3>2, <3>7, <3>9, <3>10 DEF PagingOrdered
    <3> QED  BY <3>6, <3>11
  <2> QED  BY <2>3, <2>9, <2>10
<1>13. StreamsOrdered' /\ PagingOrdered'
  BY <1>9, <1>10, <1>11, <1>12 DEF CommandNext, Paging
<1> QED  BY <1>2, <1>3, <1>4, <1>13 DEF OrderKept, DerivedInv

\* A transaction that reads, deletes or rolls back leaves streams and database alone.
LEMMA TransactionOrders ==
    ASSUME DerivedInv, UNCHANGED <<log, command, queue, db>>,
           \A c \in Consumers : SettlingOrdered(c)'
    PROVE  OrderKept
<1>1. Committed' = Committed /\ UNCHANGED <<seqOf, announced, replay, page, cursor>>
  BY DEF log, command, Committed
<1>2. StreamsOrdered'
  BY <1>1 DEF DerivedInv, StreamsOrdered, StreamOrdered
<1>3. PagingOrdered'
  BY <1>1 DEF DerivedInv, PagingOrdered
<1> QED  BY <1>1, <1>2, <1>3 DEF OrderKept, DerivedInv

\* What the transaction reads, it reads of the database as it is.
LEMMA ReadsSettle ==
    ASSUME DerivedInv, NEW c \in Consumers, UNCHANGED <<queue, db>>,
           Claim(c) \/ ReadDimension(c) \/ ReadCycleTime(c)
    PROVE  SettlingOrdered(c)'
<1>0. tx \in [Consumers -> Transactions]
  BY DEF DerivedInv, CountersInv, AnalyticsTyped
<1>1. CASE Claim(c)
  <2>1. PICK phase \in Phases : phase = IF Duplicate(Delivery(c)) THEN "handled" ELSE "claimed"
    BY DEF Phases
  <2>2. tx'[c] = In(phase) /\ Delivery(c) # Control
    BY <1>0, <1>1, <2>1 DEF Claim, HandlesFact
  <2>3. tx'[c].phase = phase /\ Delivery(c)' = Delivery(c)
    BY <2>2, PhasesTyped DEF Delivery
  <2> QED  BY <2>1, <2>2, <2>3 DEF SettlingOrdered, Duplicate
<1>2. CASE ReadDimension(c)
  <2>1. PICK pack \in Packs :
           /\ pack = IF CaseOf[Delivery(c)] \in db.dimensions THEN "known" ELSE "unknown"
           /\ tx' = [tx EXCEPT ![c] = [In("attributed") EXCEPT !.pack = pack]]
    BY <1>2 DEF ReadDimension, Packs
  <2>2. In("attributed") \in Transactions /\ In("attributed").phase = "attributed"
    BY PhasesTyped DEF Phases
  <2>3. tx'[c].phase = "attributed" /\ tx'[c].pack = pack /\ Delivery(c)' = Delivery(c)
    BY <1>0, <2>1, <2>2 DEF Transactions, Delivery
  <2> QED  BY <2>1, <2>3 DEF SettlingOrdered
<1>3. CASE ReadCycleTime(c)
  <2>1. tx' = [tx EXCEPT ![c] = [tx[c] EXCEPT !.phase = "ready",
                                    !.first = db.cycleTime[CaseOf[Delivery(c)]] = NoFact]]
    BY <1>0, <1>3 DEF ReadCycleTime
  <2>2. tx'[c].phase = "ready" /\ tx'[c].pack = tx[c].pack /\ Delivery(c)' = Delivery(c)
    BY <1>0, <2>1 DEF Transactions, Delivery
  <2>3. tx[c].phase = "attributed" /\ SettlingOrdered(c)
    BY <1>3 DEF ReadCycleTime, DerivedInv
  <2> QED  BY <2>2, <2>3 DEF SettlingOrdered
<1> QED  BY <1>1, <1>2, <1>3

\* An apply: the head of the stream comes after all that is recorded of its case.
LEMMA ApplyOrders ==
    ASSUME ~Overlap, DerivedInv, NEW c \in Consumers, CommitApply(c)
    PROVE  OrderKept
<1>0. /\ LogTyped /\ BrokerTyped /\ AnalyticsTyped /\ Current(c) /\ Exclusive /\ Sound(db)
      /\ tx \in [Consumers -> Transactions]
      /\ \A d \in Consumers : queue[d] \in Seq(Messages)
      /\ "live" \in Consumers /\ "replay" \in Consumers /\ Consumers = {"live", "replay"}
  BY DEF DerivedInv, CountersInv, BrokerTyped, AnalyticsTyped, Consumers
<1>1. PICK q \in Seq(Messages) : q = queue[c]
  BY <1>0
<1>2. PICK f, t : f = Delivery(c) /\ t = tx[c]
  OBVIOUS
<1>3. /\ UNCHANGED <<seqOf, announced, queue, replay, page, cursor, row>>
      /\ tx' = [tx EXCEPT ![c] = In("handled")]
      /\ q # <<>> /\ f # Control /\ f = Head(q).body
  BY <1>1, <1>2 DEF CommitApply, HandlesFact, Delivery, log, command, broker
<1>4. f \in Facts \ db.processed /\ t.phase # "idle"
  BY <1>2 DEF CommitApply, ReadyToWrite, Current, HoldsClaim, DerivedInv, CountersInv
<1>5. t.pack \in Packs /\ t.first \in BOOLEAN
  BY <1>0, <1>2 DEF Transactions
<1>6. KindOf[f] = "decided" =>
         /\ t.pack = IF CaseOf[f] \in db.dimensions THEN "known" ELSE "unknown"
         /\ t.first <=> db.cycleTime[CaseOf[f]] = NoFact
  BY <1>0, <1>2 DEF CommitApply, ReadyToWrite, Current, DerivedInv, SettlingOrdered
<1>7. /\ \A i \in 1..Len(q) : q[i].body \in announced \union {Control}
      /\ InOrder(q, seqOf) /\ Fresh(q, seqOf, db.processed)
      /\ db.processed \subseteq announced /\ announced \subseteq Facts
  BY <1>1 DEF DerivedInv, StreamsOrdered, StreamOrdered, AnnouncedInOrder, Committed
<1>8. 1 \in 1..Len(q) /\ q[1].body = f /\ Plain(q, 1, 1)
  BY <1>3 DEF Plain
<1>9. f \in announced /\ \A g \in db.processed : Before(g, f, seqOf)
  BY <1>3, <1>4, <1>7, <1>8 DEF Fresh
<1>10. Follows(f, db.processed, seqOf)
  <2>1. \A g \in Facts : seqOf[g] \in Nat
    BY <1>0, FactsAssumption, FS_CardinalityType DEF LogTyped
  <2> QED  BY <1>4, <1>7, <1>9, <2>1 DEF Follows
<1>11. PICK after, all : /\ after = Applied(db, f, t.pack, t.first, seqOf[f])
                         /\ all = db.processed \union {f}
  OBVIOUS
<1>12. db' = after
  BY <1>2, <1>11 DEF CommitApply, Applied
<1>13. IsDerived(after, all, seqOf)
  BY <1>0, <1>5, <1>6, <1>10, <1>11, AppliedDerived DEF Sound, DerivedInv
<1>14. db'.processed = all
  BY <1>12, <1>13 DEF IsDerived
<1>15. Fresh(q, seqOf, all)
  BY <1>3, <1>7, <1>11, FreshAfterHead
<1>16. StreamOrdered(c)'
  BY <1>1, <1>3, <1>7, <1>14, <1>15 DEF StreamOrdered
<1>17. ~Settled(c)
  BY <1>1, <1>3 DEF Settled
<1>18. PICK d \in Consumers : d = Other(c) /\ d # c
  BY <1>0 DEF Other
<1>19. queue[d] = <<>> /\ tx[d] = Idle /\ \A e \in Consumers : e = c \/ e = d
  BY <1>0, <1>17, <1>18, OtherAtRest DEF Settled
<1>20. StreamOrdered(d)'
  BY <1>3, <1>19 DEF StreamOrdered, InOrder, Fresh
<1>21. StreamsOrdered'
  BY <1>3, <1>7, <1>9, <1>11, <1>14, <1>16, <1>19, <1>20 DEF DerivedInv, StreamsOrdered
<1>22. PagingOrdered'
  <2> SUFFICES ASSUME replay = "paging"
               PROVE  PagingOrdered'
    BY <1>3 DEF PagingOrdered
  <2>1. c = "replay"
    BY <1>0, <1>17 DEF Exclusive, NoReplayRunning, NoLiveTraffic
  <2>2. /\ \A g \in page : g \in Committed /\ seqOf[g] > cursor
        /\ \A i \in 1..Len(q) : Plain(q, i, Len(q)) => seqOf[q[i].body] <= cursor
        /\ Plain(q, 1, Len(q)) => \A g \in db.processed : seqOf[g] <= cursor
    BY <1>1, <2>1 DEF DerivedInv, PagingOrdered
  <2>3. Plain(q, 1, Len(q)) => \A g \in all : seqOf[g] <= cursor
    BY <1>8, <1>11, <2>2
  <2>4. Committed' = Committed
    BY <1>3 DEF Committed
  <2> QED  BY <1>1, <1>3, <1>14, <2>1, <2>2, <2>3, <2>4 DEF PagingOrdered
<1>23. SettlingOrdered(c)'
  <2>1. tx'[c].phase = "handled" /\ Delivery(c)' = f
    BY <1>0, <1>2, <1>3, PhasesTyped DEF Phases, Delivery
  <2> QED  BY <1>3, <1>11, <1>14, <2>1 DEF SettlingOrdered
<1>24. SettlingOrdered(d)'
  <2>1. tx'[d] = Idle
    BY <1>0, <1>3, <1>18, <1>19
  <2> QED  BY <2>1, SettlingWhenIdle
<1> QED  BY <1>3, <1>12, <1>13, <1>14, <1>19, <1>21, <1>22, <1>23, <1>24 DEF OrderKept

\* A reset leaves nothing recorded, and nothing to come after.
LEMMA ResetOrders ==
    ASSUME ~Overlap, DerivedInv, CommitReset
    PROVE  OrderKept
<1>0. /\ BrokerTyped /\ AnalyticsTyped /\ Current("replay") /\ Exclusive /\ Sound(db) /\ ResetInv
      /\ tx \in [Consumers -> Transactions]
      /\ "live" \in Consumers /\ "replay" \in Consumers /\ Consumers = {"live", "replay"}
      /\ Other("replay") = "live"
  BY DEF DerivedInv, CountersInv, AnalyticsTyped, Consumers, Other
<1>1. /\ UNCHANGED <<seqOf, announced, queue, replay, page, cursor, row>>
      /\ tx' = [tx EXCEPT !["replay"] = In("handled")]
      /\ tx["replay"].phase = "resetting"
  BY DEF CommitReset, log, command, broker
<1>2. db' = EmptyReadModel
  BY <1>0, ResetLeavesNothing
<1>3. db'.processed = {} /\ IsDerived(db', {}, seqOf)
  BY <1>2, EmptyDerived DEF EmptyReadModel
<1>4. ASSUME NEW c \in Consumers
      PROVE  StreamOrdered(c)'
  BY <1>1, <1>3 DEF DerivedInv, StreamsOrdered, StreamOrdered, Fresh
<1>5. StreamsOrdered'
  BY <1>1, <1>3, <1>4 DEF DerivedInv, StreamsOrdered
<1>6. PagingOrdered'
  <2>1. Committed' = Committed
    BY <1>1 DEF Committed
  <2> QED  BY <1>1, <1>3, <2>1 DEF DerivedInv, PagingOrdered
<1>7. SettlingOrdered("replay")'
  <2>1. tx'["replay"].phase = "handled" /\ Delivery("replay")' = Delivery("replay")
    BY <1>0, <1>1, PhasesTyped DEF Phases, Delivery
  <2>2. Delivery("replay") = Control
    BY <1>0, <1>1 DEF ResetInv
  <2> QED  BY <1>3, <2>1, <2>2 DEF SettlingOrdered
<1>8. SettlingOrdered("live")'
  <2>1. ~Settled("replay")
    BY <1>1, PhasesTyped DEF Settled, Phases
  <2>2. tx["live"] = Idle
    BY <1>0, <2>1, OtherAtRest
  <2>3. tx'["live"] = Idle
    BY <1>0, <1>1, <2>2
  <2> QED  BY <1>0, <2>3, SettlingWhenIdle
<1> QED  BY <1>0, <1>1, <1>3, <1>5, <1>6, <1>7, <1>8 DEF OrderKept

\* A settled delivery leaves its stream; what comes next was ahead of nothing either.
LEMMA AcknowledgeOrders ==
    ASSUME DerivedInv, NEW c \in Consumers, Acknowledge(c)
    PROVE  OrderKept
<1>0. /\ BrokerTyped /\ AnalyticsTyped /\ Current(c)
      /\ tx \in [Consumers -> Transactions] /\ queue[c] \in Seq(Messages)
      /\ "live" \in Consumers /\ "replay" \in Consumers /\ Consumers = {"live", "replay"}
  BY DEF DerivedInv, CountersInv, BrokerTyped, AnalyticsTyped, Consumers
<1>1. PICK q \in Seq(Messages) : q = queue[c]
  BY <1>0
<1>2. /\ UNCHANGED <<seqOf, announced, db, replay, page, cursor, row>>
      /\ queue' = [queue EXCEPT ![c] = Tail(q)]
      /\ tx' = [tx EXCEPT ![c] = Idle]
      /\ tx[c].phase = "handled"
  BY <1>1 DEF Acknowledge, Done, DerivedInv, NothingFailed, log, command
<1>3. q # <<>>
  BY <1>0, <1>1, <1>2 DEF Current
<1>4. queue'[c] = Tail(q) /\ \A d \in Consumers : d # c => queue'[d] = queue[d]
  BY <1>0, <1>2 DEF BrokerTyped
<1>5. Head(q).body = Control => db.processed = {}
  BY <1>1, <1>2 DEF DerivedInv, SettlingOrdered, Delivery
<1>6. Len(Tail(q)) = Len(q) - 1 /\ \A i \in 1..Len(Tail(q)) : Tail(q)[i] = q[i + 1] /\ i + 1 \in 1..Len(q)
  BY <1>3
<1>7. /\ \A i \in 1..Len(q) : q[i].body \in announced \union {Control}
      /\ InOrder(q, seqOf) /\ Fresh(q, seqOf, db.processed)
  BY <1>1 DEF DerivedInv, StreamsOrdered, StreamOrdered
<1>8. StreamOrdered(c)'
  <2>1. InOrder(Tail(q), seqOf)
    BY <1>3, <1>7, OrderBehindHead
  <2>2. Fresh(Tail(q), seqOf, db.processed)
    BY <1>3, <1>5, <1>7, FreshBehindHead
  <2>3. PICK r : r = Tail(q)
    OBVIOUS
  <2>4. \A i \in 1..Len(r) : r[i].body \in announced \union {Control}
    BY <1>6, <1>7, <2>3
  <2> QED  BY <1>2, <1>4, <2>1, <2>2, <2>3, <2>4 DEF StreamOrdered
<1>9. ASSUME NEW d \in Consumers, d # c
      PROVE  StreamOrdered(d)'
  BY <1>2, <1>4, <1>9, StreamUntouched DEF DerivedInv, StreamsOrdered
<1>10. \A i \in 1..Len(queue'["live"]) : queue'["live"][i].body # Control
  <2>1. CASE c = "live"
    <3>1. \A i \in 1..Len(q) : q[i].body # Control
      BY <1>1, <2>1 DEF DerivedInv, StreamsOrdered
    <3> QED  BY <1>4, <1>6, <2>1, <3>1
  <2>2. CASE c # "live"
    BY <1>0, <1>4, <2>2 DEF DerivedInv, StreamsOrdered
  <2> QED  BY <2>1, <2>2
<1>11. StreamsOrdered'
  BY <1>2, <1>8, <1>9, <1>10 DEF DerivedInv, StreamsOrdered
<1>c. Committed' = Committed
  BY <1>2 DEF Committed
<1>12. PagingOrdered'
  <2>1. CASE c # "replay"
    BY <1>0, <1>c, <1>2, <1>4, <2>1 DEF DerivedInv, PagingOrdered
  <2>2. CASE c = "replay" /\ replay = "paging"
    <3>1. /\ \A g \in page : g \in Committed /\ seqOf[g] > cursor
          /\ \A i \in 1..Len(q) : Plain(q, i, Len(q)) => seqOf[q[i].body] <= cursor
          /\ Plain(q, 1, Len(q)) => \A g \in db.processed : seqOf[g] <= cursor
      BY <1>1, <2>2 DEF DerivedInv, PagingOrdered
    <3>2. PICK n \in Nat : n = Len(q) - 1 /\ n + 1 = Len(q) /\ n < Len(q)
      BY <1>3
    <3>3. ASSUME NEW i \in 1..n, Plain(Tail(q), i, n)
          PROVE  seqOf[Tail(q)[i].body] <= cursor
      <4>1. i \in Nat \ {0}
        OBVIOUS
      <4>2. Plain(q, i + 1, n + 1)
        BY <1>3, <3>2, <3>3, <4>1, PlainBehindHead
      <4> QED  BY <1>6, <3>1, <3>2, <4>2
    <3>4. ASSUME Plain(Tail(q), 1, n), Head(q).body # Control
          PROVE  \A g \in db.processed : seqOf[g] <= cursor
      <4>1. Plain(q, 1, n + 1)
        BY <1>3, <3>2, <3>4, PlainFromHead
      <4> QED  BY <3>1, <3>2, <4>1
    <3>5. Plain(Tail(q), 1, n) => \A g \in db.processed : seqOf[g] <= cursor
      BY <1>5, <3>4
    <3>6. queue'["replay"] = Tail(q) /\ Len(Tail(q)) = n
      BY <1>4, <1>6, <2>2, <3>2
    <3> QED  BY <1>c, <1>2, <3>1, <3>3, <3>5, <3>6 DEF PagingOrdered
  <2>3. CASE replay # "paging"
    BY <1>2, <2>3 DEF PagingOrdered
  <2> QED  BY <2>1, <2>2, <2>3
<1>13. ASSUME NEW d \in Consumers
       PROVE  SettlingOrdered(d)'
  <2>1. CASE d = c
    BY <1>0, <1>2, <2>1, SettlingWhenIdle
  <2>2. CASE d # c
    BY <1>0, <1>2, <1>4, <2>2, SettlingStays DEF DerivedInv
  <2> QED  BY <2>1, <2>2
<1> QED  BY <1>2, <1>11, <1>12, <1>13 DEF OrderKept, DerivedInv

\* Of the consumers' steps only an apply, a reset and an acknowledgement matter.
LEMMA ConsumerOrders ==
    ASSUME ~Overlap, MaxFaults = 0, DerivedInv, ConsumerNext
    PROVE  OrderKept
<1>0. /\ tx \in [Consumers -> Transactions] /\ BrokerTyped /\ AnalyticsTyped
      /\ \A c \in Consumers : Current(c)
      /\ "live" \in Consumers /\ "replay" \in Consumers /\ Consumers = {"live", "replay"}
  BY DEF DerivedInv, CountersInv, AnalyticsTyped, Consumers
<1>1. ASSUME NEW c \in Consumers, Claim(c) \/ ReadDimension(c) \/ ReadCycleTime(c)
      PROVE  OrderKept
  <2>1. /\ UNCHANGED <<log, command, queue, db>>
        /\ \A d \in Consumers : d # c => tx'[d] = tx[d]
    BY <1>0, <1>1 DEF Claim, ReadDimension, ReadCycleTime, broker
  <2>2. SettlingOrdered(c)'
    BY <1>1, <2>1, ReadsSettle
  <2>3. ASSUME NEW d \in Consumers
        PROVE  SettlingOrdered(d)'
    <3>1. CASE d = c
      BY <2>2, <3>1
    <3>2. CASE d # c
      BY <2>1, <3>2, SettlingStays DEF DerivedInv
    <3> QED  BY <3>1, <3>2
  <2> QED  BY <2>1, <2>3, TransactionOrders
<1>2. ASSUME BeginReset \/ DeleteTable
      PROVE  OrderKept
  <2>1. UNCHANGED <<log, command, queue, db>> /\ tx'["live"] = tx["live"]
    BY <1>0, <1>2 DEF BeginReset, DeleteTable, broker
  <2>2. tx'["replay"].phase = "resetting"
    <3>1. CASE BeginReset
      BY <1>0, <3>1, PhasesTyped DEF BeginReset, Phases
    <3>2. CASE DeleteTable
      <4>1. PICK t \in Transactions : t = tx["replay"]
        BY <1>0
      <4>2. tx' = [tx EXCEPT !["replay"] = [t EXCEPT !.wiped = t.wiped + 1]] /\ t.phase = "resetting"
        BY <3>2, <4>1 DEF DeleteTable
      <4>3. [t EXCEPT !.wiped = t.wiped + 1].phase = t.phase
        BY DEF Transactions
      <4> QED  BY <1>0, <4>2, <4>3
    <3> QED  BY <1>2, <3>1, <3>2
  <2>3. SettlingOrdered("replay")'
    BY <2>2 DEF SettlingOrdered
  <2>4. SettlingOrdered("live")'
    BY <1>0, <2>1, SettlingStays DEF DerivedInv
  <2> QED  BY <1>0, <2>1, <2>3, <2>4, TransactionOrders
<1>3. ASSUME Crash
      PROVE  OrderKept
  <2>1. UNCHANGED <<log, command, queue, db>> /\ \A c \in Consumers : tx'[c] = Idle
    BY <1>3 DEF Crash, broker
  <2> QED  BY <2>1, SettlingWhenIdle, TransactionOrders
<1>4. ASSUME NEW c \in Consumers, TransactionFails(c) \/ SendRetryCopy(c) \/ GiveUp(c) \/ ExpireRetry(c)
      PROVE  FALSE
  BY <1>4 DEF TransactionFails, SendRetryCopy, GiveUp, ExpireRetry, DerivedInv, NothingFailed
<1> QED  BY <1>1, <1>2, <1>3, <1>4, ApplyOrders, ResetOrders, AcknowledgeOrders
         DEF ConsumerNext, Resetting, Consume

LEMMA DerivedInvInit ==
    ASSUME MaxFaults = 0
    PROVE  Init => DerivedInv
<1> SUFFICES ASSUME Init PROVE DerivedInv
  OBVIOUS
<1>1. CountersInv
  BY CountersInvInit
<1>2. /\ \A f \in Facts : row[f] = "none" /\ seqOf[f] = 0
      /\ announced = {} /\ replay = "off" /\ faults = 0 /\ db = EmptyReadModel
      /\ \A c \in Consumers : queue[c] = <<>> /\ retry[c] = <<>> /\ tx[c] = Idle
  BY DEF Init
<1>3. Drawn = {} /\ Committed = {} /\ Waiting = {} /\ db.processed = {}
  BY <1>2 DEF Drawn, Committed, Waiting, EmptyReadModel
<1>4. Numbering
  <2>1. Cardinality({}) = 0
    BY FS_EmptySet
  <2> QED  BY <1>2, <1>3, <2>1 DEF Numbering
<1>5. AnnouncedInOrder
  BY <1>2, <1>3 DEF AnnouncedInOrder
<1>6. NothingFailed
  BY <1>2, PhasesTyped DEF NothingFailed, Phases
<1>7. StreamsOrdered
  <2>1. "live" \in Consumers
    BY DEF Consumers
  <2> QED  BY <1>2, <1>3, <2>1 DEF StreamsOrdered, StreamOrdered, InOrder, Fresh
<1>8. PagingOrdered
  BY <1>2 DEF PagingOrdered
<1>9. \A c \in Consumers : SettlingOrdered(c)
  BY <1>2, PhasesTyped DEF SettlingOrdered, Phases
<1>10. IsDerived(db, db.processed, seqOf)
  BY <1>2, <1>3, EmptyDerived
<1> QED  BY <1>1, <1>4, <1>5, <1>6, <1>7, <1>8, <1>9, <1>10 DEF DerivedInv

LEMMA DerivedInvStep ==
    ASSUME ~Overlap, MaxFaults = 0, DerivedInv, [Next]_vars
    PROVE  DerivedInv'
<1>1. CountersInv' /\ Numbering' /\ AnnouncedInOrder' /\ NothingFailed'
  BY CountersInvStep, NumberingKept, AnnouncedKept, NothingFails DEF DerivedInv, CountersInv
<1>2. CASE UNCHANGED vars
  <2>1. UNCHANGED <<log, command, queue, db, tx>>
    BY <1>2 DEF vars, broker, analytics
  <2>2. \A c \in Consumers : SettlingOrdered(c)'
    BY <2>1, SettlingStays DEF DerivedInv
  <2> QED  BY <2>1, <2>2, TransactionOrders, <1>1 DEF OrderKept, DerivedInv
<1>3. CASE LogNext \/ CommandNext \/ ConsumerNext
  <2>1. OrderKept
    BY <1>3, LogOrders, CommandOrders, ConsumerOrders
  <2>2. (\A c \in Consumers : SettlingOrdered(c))'
    BY <2>1 DEF OrderKept, Consumers
  <2>3. IsDerived(db, db.processed, seqOf)'
    BY <2>1 DEF OrderKept
  <2> QED  BY <1>1, <2>1, <2>2, <2>3 DEF OrderKept, DerivedInv
<1> QED  BY <1>2, <1>3, NextByActor

LEMMA DerivedInvDerives == DerivedInv => ReadModelIsDerived
<1> SUFFICES ASSUME DerivedInv PROVE ReadModelIsDerived
  OBVIOUS
<1>1. \A f \in Facts : seqOf[f] \in Nat
  BY FactsAssumption, FS_CardinalityType DEF DerivedInv, CountersInv, LogTyped
<1>2. db.processed \subseteq Drawn
  BY <1>1 DEF DerivedInv, StreamsOrdered, AnnouncedInOrder, Committed, Numbering, Drawn
<1>3. Numbered(db.processed, seqOf)
  BY <1>1, <1>2 DEF Numbered, DerivedInv, Numbering, Drawn
<1>4. db \in ReadModels
  BY DEF DerivedInv, CountersInv, Sound
<1>5. IsDerived(db, db.processed, seqOf)
  BY DEF DerivedInv
<1> QED  BY <1>3, <1>4, <1>5, DerivedIs DEF ReadModelIsDerived

\* For any history, page size, number of replays, refusals and crashes: as long as no handler
\* fails and no replay runs while cases are worked on, the read model is at every moment what
\* the facts it has processed say, counted in the order they happened, whatever was
\* redelivered, reset or replayed (AnalyticsStore.apply and reset, project).
THEOREM ReadModelDerived ==
    ASSUME ~Overlap, MaxFaults = 0
    PROVE  Spec => []ReadModelIsDerived
<1>1. DerivedInv /\ [Next]_vars => DerivedInv'
  BY DerivedInvStep
<1>2. Init => DerivedInv
  BY DerivedInvInit
<1> QED  BY <1>1, <1>2, DerivedInvDerives, PTL DEF Spec

-----------------------------------------------------------------------------
(* A rebuild: its pages leave nothing out, its stream loses nothing, and what the relay *)
(* announced meanwhile is not lost either. *)

HasRun == replay \in {"paging", "published"}

\* Everything up to the cursor is sent, and a page is what comes next.
PagesInv ==
    HasRun =>
        /\ cursor <= Cardinality(Drawn)
        /\ \A f \in Facts : row[f] = "open" => seqOf[f] > cursor
        /\ \A f \in Committed : seqOf[f] <= cursor => f \in sent
        /\ \A f \in page, g \in Committed \ page : seqOf[g] <= cursor \/ seqOf[f] < seqOf[g]

\* f is behind the last control message of q.
Ahead(q, f) == \E i \in 1..Len(q) : q[i].body = f /\ Plain(q, i, Len(q))

\* What is sent is still to be delivered, or recorded and no reset is to come.
SentInv ==
    HasRun =>
        \A f \in sent \ Unparsable :
            \/ Ahead(queue["replay"], f)
            \/ f \in db.processed /\ Plain(queue["replay"], 1, Len(queue["replay"]))

InQueue(q, f) == \E i \in 1..Len(q) : q[i].body = f

\* Once a run has ended: what the relay delivered is history, recorded or still queued, and as
\* long as the replay stream is not drained it is all history.
LiveInv ==
    replay = "published" =>
        /\ \A f \in announced \ discarded :
              seqOf[f] <= cursor \/ f \in db.processed \/ InQueue(queue["live"], f)
        /\ queue["replay"] # <<>> => \A f \in announced : seqOf[f] <= cursor

ExactInv == DerivedInv /\ PagesInv /\ SentInv /\ LiveInv

LEMMA SequencesAreNumbers ==
    ASSUME LogTyped
    PROVE  (\A f \in Facts : seqOf[f] \in Nat) /\ Cardinality(Drawn) \in Nat
<1>1. \A f \in Facts : seqOf[f] \in Nat
  BY FactsAssumption, FS_CardinalityType DEF LogTyped
<1>2. IsFiniteSet(Drawn)
  <2>1. Drawn \in SUBSET Facts
    BY DEF Drawn
  <2> QED  BY <2>1, FactsAssumption, FS_Subset
<1> QED  BY <1>1, <1>2, FS_CardinalityType

\* An apply forgets nothing.
LEMMA ProcessedGrows ==
    ASSUME LogTyped, AnalyticsTyped, Sound(db), NEW c \in Consumers, Current(c), CommitApply(c)
    PROVE  db'.processed = db.processed \union {Delivery(c)}
<1>1. PICK f, t : f = Delivery(c) /\ t = tx[c]
  OBVIOUS
<1>2. f \in Facts
  BY <1>1 DEF CommitApply, ReadyToWrite, Current, HoldsClaim
<1>3. t.pack \in Packs /\ t.first \in BOOLEAN /\ seqOf[f] \in Nat
  BY <1>1, <1>2, SequencesAreNumbers DEF AnalyticsTyped, Transactions
<1>4. PICK m \in ReadModels : m = db
  BY DEF Sound
<1>5. PICK n : n = Project(m, f, t.pack, t.first)
  OBVIOUS
<1>6. n \in ReadModels /\ n.processed = m.processed
  <2>1. CASE KindOf[f] = "created"
    <3>1. n = CaseCreated(m, f)
      BY <1>5, <2>1 DEF Project
    <3> QED  BY <1>2, <3>1, CreatedFields
  <2>2. CASE KindOf[f] = "finding"
    <3>1. n = FindingRaised(m, f)
      BY <1>5, <2>2 DEF Project
    <3> QED  BY <1>2, <3>1, FindingFields
  <2>3. CASE KindOf[f] = "decided"
    <3>1. n = CaseDecided(m, f, t.pack, t.first)
      BY <1>5, <2>3 DEF Project
    <3>2. PICK key, d : key = <<DayOf[f], t.pack>> /\ d = CaseOf[f]
      OBVIOUS
    <3> QED  BY <1>2, <1>3, <3>1, <3>2, DecidedFields
  <2> QED  BY <1>2, <2>1, <2>2, <2>3, FactsAssumption
<1>7. db' = RecordProcessed(n, f, seqOf[f])
  BY <1>1, <1>4, <1>5 DEF CommitApply
<1> QED  BY <1>1, <1>2, <1>3, <1>4, <1>6, <1>7, RecordFields

\* Whatever commits after a page was read comes after it; whatever the command publishes is
\* the oldest of the page.
LEMMA PagesKept ==
    ASSUME ~Overlap, DerivedInv, PagesInv, [Next]_vars
    PROVE  PagesInv'
<1>0. /\ LogTyped /\ BrokerTyped /\ CommandTyped /\ Numbering
      /\ \A f \in Facts : seqOf[f] \in Nat
      /\ Cardinality(Drawn) \in Nat /\ cursor \in Nat /\ page \subseteq Facts
      /\ \A f \in Committed : f \in Facts /\ f \in Drawn /\ seqOf[f] > 0
      /\ page # {} => replay = "paging"
  <2>1. LogTyped /\ BrokerTyped /\ CommandTyped /\ Numbering
    BY DEF DerivedInv, CountersInv
  <2>2. cursor \in Nat
    BY <2>1, FactsAssumption, FS_CardinalityType DEF CommandTyped
  <2> QED  BY <2>1, <2>2, SequencesAreNumbers DEF CommandTyped, Committed, Numbering, Drawn
<1>1. ASSUME NEW f \in Facts, AppendDomainEvent(f)
      PROVE  PagesInv'
  <2>1. row[f] = "none" /\ UNCHANGED <<replay, cursor, page, sent>>
    BY <1>1 DEF AppendDomainEvent, command
  <2>2. PICK n : n = NextSequence
    OBVIOUS
  <2>3. n \in Nat /\ n = Cardinality(Drawn) + 1 /\ Cardinality(Drawn \union {f}) = n /\ f \notin Drawn
    BY <1>0, <2>1, <2>2, NextIsLast
  <2>4. /\ \A g \in Facts : row'[g] = IF g = f THEN "open" ELSE row[g]
        /\ \A g \in Facts : seqOf'[g] = IF g = f THEN n ELSE seqOf[g]
    BY <1>0, <1>1, <2>2 DEF AppendDomainEvent, LogTyped
  <2>5. Drawn' = Drawn \union {f} /\ Committed' = Committed /\ f \notin Committed
    <3>1. n > 0
      BY <1>0, <2>3
    <3>2. Drawn' = Drawn \union {f}
      BY <2>4, <3>1 DEF Drawn
    <3>3. Committed' = Committed /\ f \notin Committed
      BY <2>1, <2>4 DEF Committed
    <3> QED  BY <3>2, <3>3
  <2>6. replay # "paging"
    BY <1>1 DEF AppendDomainEvent, NoReplayRunning
  <2>7. page = {}
    BY <1>0, <2>6
  <2> SUFFICES ASSUME HasRun
               PROVE  PagesInv'
    BY <2>1 DEF PagesInv, HasRun
  <2>8. cursor < n /\ cursor <= Cardinality(Drawn')
    BY <1>0, <2>3, <2>5 DEF PagesInv
  <2>9. \A g \in Facts : row'[g] = "open" => seqOf'[g] > cursor
    BY <1>0, <2>3, <2>4, <2>8 DEF PagesInv
  <2>10. \A g \in Committed' : seqOf'[g] <= cursor => g \in sent
    BY <1>0, <2>4, <2>5 DEF PagesInv
  <2> QED  BY <2>1, <2>7, <2>8, <2>9, <2>10 DEF PagesInv
<1>2. ASSUME NEW f \in Facts, CommitEvent(f)
      PROVE  PagesInv'
  <2>1. /\ row[f] = "open" /\ UNCHANGED <<seqOf, replay, cursor, page, sent>>
        /\ \A g \in Facts : row'[g] = IF g = f THEN "committed" ELSE row[g]
    BY <1>0, <1>2 DEF CommitEvent, command, LogTyped
  <2>2. Committed' = Committed \union {f} /\ Drawn' = Drawn
    BY <2>1 DEF Committed, Drawn
  <2>3. replay # "paging"
    BY <2>1 DEF DerivedInv, CountersInv, Exclusive, NoLiveTraffic, NoReplayRunning
  <2>4. page = {}
    BY <1>0, <2>3
  <2> SUFFICES ASSUME HasRun
               PROVE  PagesInv'
    BY <2>1 DEF PagesInv, HasRun
  <2>5. \A g \in Facts : row'[g] = "open" => seqOf[g] > cursor
    BY <2>1 DEF PagesInv
  <2>6. \A g \in Committed \union {f} : seqOf[g] <= cursor => g \in sent
    <3>1. seqOf[f] > cursor
      BY <2>1 DEF PagesInv
    <3> QED  BY <1>0, <3>1 DEF PagesInv
  <2> QED  BY <2>1, <2>2, <2>4, <2>5, <2>6 DEF PagesInv
<1>3. ASSUME StartReplay
      PROVE  PagesInv'
  <2>1. cursor' = 0 /\ page' = {} /\ UNCHANGED <<row, seqOf>>
    BY <1>3 DEF StartReplay, log
  <2>2. Committed' = Committed /\ Drawn' = Drawn
    BY <2>1 DEF Committed, Drawn
  <2>3. \A f \in Facts : row[f] = "open" => seqOf[f] > 0
    BY <1>0 DEF Numbering
  <2> QED  BY <1>0, <2>1, <2>2, <2>3 DEF PagesInv
<1>4. ASSUME ReadPage
      PROVE  PagesInv'
  <2>1. /\ UNCHANGED <<row, seqOf, replay, cursor, sent>> /\ IsPage(page') /\ HasRun
    BY <1>4 DEF ReadPage, log, HasRun
  <2>2. Committed' = Committed /\ Drawn' = Drawn
    BY <2>1 DEF Committed, Drawn
  <2>3. \A f \in page', g \in Committed \ page' : seqOf[g] <= cursor \/ seqOf[f] < seqOf[g]
    <3>1. \A g \in Committed : g \in Beyond \/ seqOf[g] <= cursor
      BY <1>0 DEF Beyond
    <3> QED  BY <2>1, <3>1 DEF IsPage
  <2> QED  BY <2>1, <2>2, <2>3 DEF PagesInv
<1>5. ASSUME PublishRow
      PROVE  PagesInv'
  <2>1. PICK f \in page : f = Earliest(page, seqOf)
    BY <1>0, <1>5, EarliestIsOldest DEF PublishRow
  <2>2. \A g \in page : seqOf[f] <= seqOf[g]
    BY <1>0, <1>5, <2>1, EarliestIsOldest DEF PublishRow
  <2>3. /\ cursor' = seqOf[f] /\ page' = page \ {f} /\ sent' = sent \union {f}
        /\ UNCHANGED <<row, seqOf, replay>> /\ HasRun /\ replay = "paging"
    BY <1>0, <1>5, <2>1 DEF PublishRow, log, HasRun
  <2>4. Committed' = Committed /\ Drawn' = Drawn
    BY <2>3 DEF Committed, Drawn
  <2>5. /\ f \in Committed /\ seqOf[f] > cursor /\ seqOf[f] \in Nat
        /\ \A g \in page : g \in Committed
    BY <1>0, <2>3 DEF DerivedInv, PagingOrdered
  <2>6. seqOf[f] <= Cardinality(Drawn)
    BY <1>0 DEF Numbering
  <2>7. \A g \in Facts : row[g] # "open"
    <3>1. ~NoReplayRunning
      BY <2>3 DEF NoReplayRunning
    <3> QED  BY <3>1 DEF DerivedInv, CountersInv, Exclusive, NoLiveTraffic
  <2>8. ASSUME NEW g \in Committed, seqOf[g] <= seqOf[f]
        PROVE  g \in sent \union {f}
    <3>1. CASE seqOf[g] <= cursor
      BY <2>3, <3>1 DEF PagesInv
    <3>2. CASE g \notin page /\ ~(seqOf[g] <= cursor)
      BY <1>0, <2>3, <2>8, <3>2 DEF PagesInv
    <3>3. CASE g \in page
      <4>1. seqOf[g] = seqOf[f]
        BY <1>0, <2>2, <2>8, <3>3
      <4> QED  BY <1>0, <2>5, <4>1 DEF Numbering
    <3> QED  BY <3>1, <3>2, <3>3
  <2>9. ASSUME NEW h \in page \ {f}, NEW g \in Committed \ (page \ {f})
        PROVE  seqOf[g] <= seqOf[f] \/ seqOf[h] < seqOf[g]
    <3>1. CASE g = f
      BY <2>5, <3>1
    <3>2. CASE g # f
      <4>1. seqOf[g] <= cursor \/ seqOf[h] < seqOf[g]
        BY <2>3, <3>2 DEF PagesInv
      <4> QED  BY <1>0, <2>5, <4>1
    <3> QED  BY <3>1, <3>2
  <2> QED  BY <2>3, <2>4, <2>6, <2>7, <2>8, <2>9 DEF PagesInv
<1>6. ASSUME FinishReplay
      PROVE  PagesInv'
  <2>1. UNCHANGED <<row, seqOf, cursor, page, sent>> /\ HasRun
    BY <1>6 DEF FinishReplay, log, HasRun
  <2>2. Committed' = Committed /\ Drawn' = Drawn
    BY <2>1 DEF Committed, Drawn
  <2> QED  BY <2>1, <2>2 DEF PagesInv
<1>7. ASSUME PublishRefused
      PROVE  PagesInv'
  BY <1>7 DEF PublishRefused, PagesInv, HasRun
<1>8. CASE UNCHANGED <<row, seqOf, replay, cursor, page, sent>>
  <2>1. Committed' = Committed /\ Drawn' = Drawn
    BY <1>8 DEF Committed, Drawn
  <2> QED  BY <1>8, <2>1 DEF PagesInv, HasRun
<1>9. (\E f \in Facts : Announce(f)) \/ ConsumerNext \/ UNCHANGED vars
         => UNCHANGED <<row, seqOf, replay, cursor, page, sent>>
  BY DEF Announce, ConsumerNext, vars, log, command, Resetting, BeginReset, DeleteTable,
         CommitReset, Consume, Claim, ReadDimension, ReadCycleTime, CommitApply,
         TransactionFails, SendRetryCopy, GiveUp, Acknowledge, ExpireRetry, Crash
<1> QED  BY <1>1, <1>2, <1>3, <1>4, <1>5, <1>6, <1>7, <1>8, <1>9, NextByActor
         DEF LogNext, Publishing, CommandNext, Paging

\* What is behind the last control message when a message comes in, and when the head leaves.
LEMMA AheadAppended ==
    ASSUME NEW q \in Seq(Messages), NEW m \in Messages, m.body # Control
    PROVE  /\ Ahead(Append(q, m), m.body)
           /\ \A f : Ahead(q, f) => Ahead(Append(q, m), f)
           /\ Plain(q, 1, Len(q)) => Plain(Append(q, m), 1, Len(Append(q, m)))
<1>1. PICK s \in Seq(Messages) : s = Append(q, m)
  BY HeadKept
<1>2. /\ Len(s) = Len(q) + 1 /\ s[Len(q) + 1] = m /\ Len(q) \in Nat
      /\ \A i \in 1..Len(q) : s[i] = q[i]
  BY <1>1
<1>3. ASSUME NEW i \in 1..(Len(q) + 1), Plain(q, i, Len(q))
      PROVE  Plain(s, i, Len(s))
  <2>1. \A k \in i..(Len(q) + 1) : (k \in i..Len(q) /\ k \in 1..Len(q)) \/ k = Len(q) + 1
    BY <1>2
  <2> QED  BY <1>2, <1>3, <2>1 DEF Plain
<1>4. Ahead(s, m.body)
  <2>1. Plain(q, Len(q) + 1, Len(q)) /\ Len(q) + 1 \in 1..(Len(q) + 1)
    BY <1>2 DEF Plain
  <2>2. Plain(s, Len(q) + 1, Len(s))
    BY <1>3, <2>1
  <2> QED  BY <1>2, <2>1, <2>2 DEF Ahead
<1>5. ASSUME NEW f, Ahead(q, f)
      PROVE  Ahead(s, f)
  <2>1. PICK i \in 1..Len(q) : q[i].body = f /\ Plain(q, i, Len(q))
    BY <1>5 DEF Ahead
  <2>2. i \in 1..(Len(q) + 1) /\ i \in 1..Len(s)
    BY <1>2
  <2>3. Plain(s, i, Len(s))
    BY <1>3, <2>1, <2>2
  <2> QED  BY <1>2, <2>1, <2>2, <2>3 DEF Ahead
<1>6. Plain(q, 1, Len(q)) => Plain(s, 1, Len(s))
  <2>1. 1 \in 1..(Len(q) + 1)
    BY <1>2
  <2> QED  BY <1>3, <2>1
<1> QED  BY <1>1, <1>4, <1>5, <1>6

LEMMA AheadBehindHead ==
    ASSUME NEW q \in Seq(Messages), q # <<>>
    PROVE  /\ \A f : Ahead(q, f) => \/ Ahead(Tail(q), f)
                                    \/ f = Head(q).body /\ Plain(q, 1, Len(q))
           /\ Plain(q, 1, Len(q)) => Plain(Tail(q), 1, Len(Tail(q)))
<1>1. PICK n \in Nat : n = Len(q) - 1 /\ n + 1 = Len(q) /\ n < Len(q) /\ n = Len(Tail(q))
  <2>1. Len(q) - 1 \in Nat /\ Len(Tail(q)) = Len(q) - 1
    OBVIOUS
  <2>2. Len(q) \in Nat
    OBVIOUS
  <2>3. PICK n \in Nat : n = Len(q) - 1
    BY <2>1
  <2>4. n + 1 = Len(q) /\ n < Len(q)
    BY <2>2, <2>3
  <2> QED  BY <2>1, <2>3, <2>4
<1>2. \A i \in 1..n : Tail(q)[i] = q[i + 1]
  BY <1>1
<1>3. q[1] = Head(q)
  OBVIOUS
<1>4. ASSUME NEW f, Ahead(q, f)
      PROVE  Ahead(Tail(q), f) \/ (f = Head(q).body /\ Plain(q, 1, Len(q)))
  <2>1. PICK i \in 1..Len(q) : q[i].body = f /\ Plain(q, i, Len(q))
    BY <1>4 DEF Ahead
  <2>2. CASE i = 1
    BY <1>3, <2>1, <2>2
  <2>3. CASE i # 1
    <3>1. PICK j \in 1..n : j + 1 = i
      <4>1. i - 1 \in 1..n /\ (i - 1) + 1 = i
        BY <1>1, <2>3
      <4> QED  BY <4>1
    <3>2. j \in Nat \ {0}
      OBVIOUS
    <3>3. Plain(Tail(q), j, n)
      BY <1>1, <2>1, <3>1, <3>2, PlainBehindHead
    <3> QED  BY <1>1, <1>2, <2>1, <3>1, <3>3 DEF Ahead
  <2> QED  BY <2>2, <2>3
<1>5. ASSUME Plain(q, 1, Len(q))
      PROVE  Plain(Tail(q), 1, n)
  <2>1. 1 \in Nat \ {0} /\ \A k \in (1 + 1)..(n + 1) : k \in 1..Len(q)
    BY <1>1
  <2>2. Plain(q, 1 + 1, n + 1)
    BY <1>5, <2>1 DEF Plain
  <2> QED  BY <1>1, <2>1, <2>2, PlainBehindHead
<1> QED  BY <1>1, <1>4, <1>5

\* A reset wipes what is recorded only while all that was sent is still behind it.
LEMMA SentKept ==
    ASSUME ~Overlap, MaxFaults = 0, DerivedInv, SentInv, [Next]_vars
    PROVE  SentInv'
<1>0. /\ LogTyped /\ BrokerTyped /\ CommandTyped /\ AnalyticsTyped /\ Sound(db) /\ ResetInv
      /\ tx \in [Consumers -> Transactions] /\ queue["replay"] \in Seq(Messages)
      /\ \A c \in Consumers : Current(c)
      /\ "live" \in Consumers /\ "replay" \in Consumers /\ Consumers = {"live", "replay"}
      /\ Other("live") = "replay" /\ Other("replay") = "live"
  BY DEF DerivedInv, CountersInv, BrokerTyped, AnalyticsTyped, Consumers, Other
<1>1. PICK q \in Seq(Messages) : q = queue["replay"]
  BY <1>0
<1>2. ASSUME queue'["replay"] = queue["replay"], db.processed \subseteq db'.processed,
             UNCHANGED sent, HasRun' => HasRun
      PROVE  SentInv'
  BY <1>2 DEF SentInv
<1>3. CASE LogNext
  <2>1. queue'["replay"] = queue["replay"] /\ UNCHANGED db
    BY <1>0, <1>3, LogAppends
  <2>2. UNCHANGED <<sent, replay>>
    BY <1>3 DEF LogNext, Publishing, AppendDomainEvent, CommitEvent, Announce, command
  <2> QED  BY <1>2, <2>1, <2>2 DEF HasRun
<1>4. CASE StartReplay
  BY <1>4 DEF StartReplay, SentInv
<1>5. CASE ReadPage \/ FinishReplay
  BY <1>2, <1>5 DEF ReadPage, FinishReplay, broker, analytics, HasRun
<1>6. CASE PublishRefused
  BY <1>6 DEF PublishRefused, SentInv, HasRun
<1>7. CASE PublishRow
  <2>0. \A f \in Facts : seqOf[f] \in Nat
    BY <1>0, SequencesAreNumbers
  <2>1. PICK f \in page : f = Earliest(page, seqOf)
    BY <1>0, <1>7, <2>0, EarliestIsOldest DEF PublishRow, CommandTyped
  <2>2. /\ f \in Facts /\ sent' = sent \union {f} /\ UNCHANGED <<db, replay>>
        /\ HasRun /\ HasRun'
        /\ \/ f \in Unparsable /\ UNCHANGED queue
           \/ f \notin Unparsable /\ queue' = [queue EXCEPT !["replay"] = Append(q, Message(f))]
    BY <1>0, <1>1, <1>7, <2>1 DEF PublishRow, analytics, HasRun, CommandTyped
  <2>3. CASE f \in Unparsable /\ UNCHANGED queue
    BY <2>2, <2>3 DEF SentInv
  <2>4. CASE f \notin Unparsable /\ queue' = [queue EXCEPT !["replay"] = Append(q, Message(f))]
    <3>1. PICK m \in Messages : m = Message(f) /\ m.body = f
      BY <2>2, MessagesTyped DEF Message
    <3>2. queue'["replay"] = Append(q, m) /\ m.body # Control
      BY <1>0, <2>2, <2>4, <3>1, ReplayAssumption DEF BrokerTyped
    <3>3. PICK s : s = Append(q, m)
      OBVIOUS
    <3>4. /\ Ahead(s, f)
          /\ \A g : Ahead(q, g) => Ahead(s, g)
          /\ Plain(q, 1, Len(q)) => Plain(s, 1, Len(s))
      BY <3>1, <3>2, <3>3, AheadAppended
    <3> QED  BY <1>1, <2>2, <3>2, <3>3, <3>4 DEF SentInv
  <2> QED  BY <2>2, <2>3, <2>4
<1>8. ASSUME NEW c \in Consumers, CommitApply(c)
      PROVE  SentInv'
  <2>1. UNCHANGED <<queue, sent, replay>>
    BY <1>8 DEF CommitApply, command, broker
  <2>2. db.processed \subseteq db'.processed
    BY <1>0, <1>8, ProcessedGrows DEF DerivedInv, CountersInv
  <2> QED  BY <1>2, <2>1, <2>2 DEF HasRun
<1>9. CASE CommitReset
  <2>1. UNCHANGED <<queue, sent, replay>> /\ tx["replay"].phase = "resetting"
    BY <1>9 DEF CommitReset, command, broker
  <2>2. q # <<>> /\ Head(q).body = Control
    BY <1>0, <1>1, <2>1 DEF Current, ResetInv, Delivery
  <2>3. ~Plain(q, 1, Len(q))
    <3>1. 1 \in 1..Len(q) /\ q[1] = Head(q)
      BY <2>2
    <3> QED  BY <2>2, <3>1 DEF Plain
  <2> QED  BY <1>1, <2>1, <2>3 DEF SentInv, HasRun
<1>10. ASSUME Acknowledge("replay")
       PROVE  SentInv'
  <2>1. /\ UNCHANGED <<db, sent, replay>> /\ queue'["replay"] = Tail(q)
        /\ tx["replay"].phase = "handled"
    BY <1>0, <1>1, <1>10 DEF Acknowledge, Done, DerivedInv, NothingFailed, command, BrokerTyped
  <2>2. q # <<>>
    BY <1>0, <1>1, <2>1 DEF Current
  <2>3. Head(q).body # Control => Head(q).body \in db.processed
    BY <1>0, <1>1, <2>1 DEF DerivedInv, SettlingOrdered, Delivery
  <2>4. Plain(q, 1, Len(q)) => Head(q).body # Control
    <3>1. 1 \in 1..Len(q) /\ q[1] = Head(q)
      BY <2>2
    <3> QED  BY <3>1 DEF Plain
  <2>5. PICK r : r = Tail(q)
    OBVIOUS
  <2>6. /\ \A f : Ahead(q, f) => \/ Ahead(r, f)
                                 \/ f = Head(q).body /\ Plain(q, 1, Len(q))
        /\ Plain(q, 1, Len(q)) => Plain(r, 1, Len(r))
    BY <2>2, <2>5, AheadBehindHead
  <2>7. HasRun' => HasRun
    BY <2>1 DEF HasRun
  <2> QED  BY <1>1, <2>1, <2>3, <2>4, <2>5, <2>6, <2>7 DEF SentInv
<1>11. ASSUME Acknowledge("live")
       PROVE  SentInv'
  BY <1>0, <1>2, <1>11 DEF Acknowledge, command, BrokerTyped, HasRun
<1>12. ASSUME NEW c \in Consumers, TransactionFails(c) \/ SendRetryCopy(c) \/ GiveUp(c) \/ ExpireRetry(c)
       PROVE  FALSE
  BY <1>12 DEF TransactionFails, SendRetryCopy, GiveUp, ExpireRetry, DerivedInv, NothingFailed
<1>13. CASE UNCHANGED <<queue, db, sent, replay>>
  BY <1>2, <1>13 DEF HasRun
<1>14. UNCHANGED vars \/ BeginReset \/ DeleteTable \/ Crash
         \/ (\E c \in Consumers : Claim(c) \/ ReadDimension(c) \/ ReadCycleTime(c))
         => UNCHANGED <<queue, db, sent, replay>>
  BY DEF vars, command, broker, analytics, BeginReset, DeleteTable, Crash, Claim, ReadDimension,
         ReadCycleTime
<1> QED  BY <1>0, <1>3, <1>4, <1>5, <1>6, <1>7, <1>8, <1>9, <1>10, <1>11, <1>12, <1>13, <1>14,
            NextByActor
         DEF CommandNext, Paging, ConsumerNext, Resetting, Consume

\* What is in a queue when a message comes in, and when the head leaves.
LEMMA QueueAppended ==
    ASSUME NEW q \in Seq(Messages), NEW m \in Messages
    PROVE  InQueue(Append(q, m), m.body) /\ \A f : InQueue(q, f) => InQueue(Append(q, m), f)
<1>1. PICK s \in Seq(Messages) : s = Append(q, m)
  BY HeadKept
<1>2. /\ Len(s) = Len(q) + 1 /\ s[Len(q) + 1] = m /\ Len(q) + 1 \in 1..Len(s)
      /\ \A i \in 1..Len(q) : i \in 1..Len(s) /\ s[i] = q[i]
  BY <1>1
<1> QED  BY <1>1, <1>2 DEF InQueue

LEMMA QueueBehindHead ==
    ASSUME NEW q \in Seq(Messages), q # <<>>
    PROVE  \A f : InQueue(q, f) => InQueue(Tail(q), f) \/ f = Head(q).body
<1> SUFFICES ASSUME NEW f, InQueue(q, f)
             PROVE  InQueue(Tail(q), f) \/ f = Head(q).body
  OBVIOUS
<1>1. PICK i \in 1..Len(q) : q[i].body = f
  BY DEF InQueue
<1>2. CASE i = 1
  BY <1>1, <1>2
<1>3. CASE i # 1
  <2>1. i - 1 \in 1..Len(Tail(q)) /\ Tail(q)[i - 1] = q[i]
    BY <1>3
  <2> QED  BY <1>1, <2>1 DEF InQueue
<1> QED  BY <1>2, <1>3

\* A live fact leaves its queue when it is recorded; the reset that forgets it belongs to a
\* run whose history holds it.
LEMMA LiveKept ==
    ASSUME ~Overlap, MaxFaults = 0, DerivedInv, LiveInv, [Next]_vars
    PROVE  LiveInv'
<1>0. /\ LogTyped /\ BrokerTyped /\ CommandTyped /\ AnalyticsTyped /\ Sound(db)
      /\ tx \in [Consumers -> Transactions] /\ queue["live"] \in Seq(Messages)
      /\ queue["replay"] \in Seq(Messages)
      /\ \A c \in Consumers : Current(c)
      /\ "live" \in Consumers /\ "replay" \in Consumers
      /\ announced \subseteq Committed \ Unparsable
  BY DEF DerivedInv, CountersInv, BrokerTyped, AnalyticsTyped, Consumers, AnnouncedInOrder
<1>1. PICK q \in Seq(Messages) : q = queue["live"]
  BY <1>0
<1>2. ASSUME UNCHANGED <<announced, discarded, cursor>>, replay' = "published" => replay = "published",
             \A f \in announced : seqOf'[f] = seqOf[f],
             db.processed \subseteq db'.processed,
             queue'["live"] = queue["live"],
             queue'["replay"] # <<>> => queue["replay"] # <<>>
      PROVE  LiveInv'
  BY <1>2 DEF LiveInv
<1>3. ASSUME NEW f \in Facts, AppendDomainEvent(f)
      PROVE  LiveInv'
  <2>1. /\ \A g \in Facts : g # f => seqOf'[g] = seqOf[g]
        /\ row[f] = "none" /\ UNCHANGED <<announced, discarded, cursor, replay, db, queue>>
    BY <1>0, <1>3 DEF AppendDomainEvent, LogTyped, broker, command, analytics
  <2>2. \A g \in announced : seqOf'[g] = seqOf[g]
    BY <1>0, <2>1 DEF Committed
  <2> QED  BY <1>2, <2>1, <2>2
<1>4. ASSUME NEW f \in Facts, Announce(f)
      PROVE  LiveInv'
  <2>1. /\ announced' = announced \union {f} /\ UNCHANGED <<seqOf, cursor, replay, db>>
        /\ f \in Waiting
        /\ \/ /\ queue' = [queue EXCEPT !["live"] = Append(q, Message(f))]
              /\ UNCHANGED discarded
           \/ discarded' = discarded \union {f} /\ UNCHANGED queue
    BY <1>1, <1>4 DEF Announce, command, analytics, Waiting
  <2>2. queue["replay"] = <<>> /\ queue'["replay"] = queue["replay"]
    <3>1. NoReplayRunning
      BY <1>4 DEF Announce, DerivedInv, CountersInv, Exclusive, NoLiveTraffic
    <3> QED  BY <1>0, <2>1, <3>1 DEF NoReplayRunning, Settled, BrokerTyped
  <2>3. CASE queue' = [queue EXCEPT !["live"] = Append(q, Message(f))] /\ UNCHANGED discarded
    <3>1. PICK m \in Messages : m = Message(f) /\ m.body = f
      BY <2>1, MessagesTyped DEF Message, Waiting, Committed
    <3>2. PICK s : s = Append(q, m)
      OBVIOUS
    <3>3. queue'["live"] = s
      BY <1>0, <2>3, <3>1, <3>2 DEF BrokerTyped
    <3>4. InQueue(s, f) /\ \A g : InQueue(q, g) => InQueue(s, g)
      BY <3>1, <3>2, QueueAppended
    <3> QED  BY <1>1, <2>1, <2>2, <2>3, <3>3, <3>4 DEF LiveInv
  <2>4. CASE discarded' = discarded \union {f} /\ UNCHANGED queue
    BY <2>1, <2>2, <2>4 DEF LiveInv
  <2> QED  BY <2>1, <2>3, <2>4
<1>5. CASE FinishReplay
  <2>1. UNCHANGED <<seqOf, announced, cursor>> /\ Beyond = {}
    BY <1>5 DEF FinishReplay, log
  <2>2. \A f \in announced : seqOf[f] <= cursor
    <3>1. \A f \in Facts : seqOf[f] \in Nat
      BY <1>0, SequencesAreNumbers
    <3>2. cursor \in Nat
      BY <1>0, FactsAssumption, FS_CardinalityType DEF CommandTyped
    <3> QED  BY <1>0, <2>1, <3>1, <3>2 DEF Beyond, Committed
  <2> QED  BY <2>1, <2>2 DEF LiveInv
<1>6. ASSUME StartReplay \/ ReadPage \/ PublishRow \/ PublishRefused
      PROVE  LiveInv'
  <2>1. replay' # "published"
    BY <1>0, <1>6 DEF StartReplay, ReadPage, PublishRow, PublishRefused, CommandTyped
  <2> QED  BY <2>1 DEF LiveInv
<1>7. ASSUME NEW c \in Consumers, CommitApply(c)
      PROVE  LiveInv'
  <2>1. UNCHANGED <<announced, discarded, cursor, replay, seqOf, queue>>
    BY <1>7 DEF CommitApply, log, command, broker
  <2>2. db.processed \subseteq db'.processed
    BY <1>0, <1>7, ProcessedGrows
  <2> QED  BY <1>2, <2>1, <2>2
<1>8. CASE CommitReset
  <2>1. UNCHANGED <<announced, discarded, cursor, replay, seqOf, queue>>
        /\ tx["replay"].phase = "resetting"
    BY <1>8 DEF CommitReset, log, command, broker
  <2>2. queue["replay"] # <<>>
    BY <1>0, <2>1 DEF Current
  <2> QED  BY <2>1, <2>2 DEF LiveInv
<1>9. ASSUME Acknowledge("replay")
      PROVE  LiveInv'
  <2>1. /\ UNCHANGED <<announced, discarded, cursor, replay, seqOf, db>>
        /\ queue' = [queue EXCEPT !["replay"] = Tail(@)] /\ tx["replay"].phase # "idle"
    BY <1>9 DEF Acknowledge, Done, log, command
  <2>2. queue'["live"] = queue["live"]
    BY <1>0, <2>1 DEF BrokerTyped
  <2>3. queue["replay"] # <<>>
    BY <1>0, <2>1 DEF Current
  <2> QED  BY <1>2, <2>1, <2>2, <2>3
<1>10. ASSUME Acknowledge("live")
       PROVE  LiveInv'
  <2>1. /\ UNCHANGED <<announced, discarded, cursor, replay, seqOf, db>>
        /\ queue' = [queue EXCEPT !["live"] = Tail(q)] /\ tx["live"].phase = "handled"
    BY <1>0, <1>1, <1>10 DEF Acknowledge, Done, log, command, DerivedInv, NothingFailed
  <2>2. queue'["replay"] = queue["replay"] /\ queue'["live"] = Tail(q)
    BY <1>0, <2>1 DEF BrokerTyped
  <2>3. q # <<>>
    BY <1>0, <1>1, <2>1 DEF Current
  <2>4. Head(q).body \in db.processed
    <3>1. 1 \in 1..Len(q) /\ q[1] = Head(q)
      BY <2>3
    <3>2. Head(q).body # Control
      BY <1>1, <3>1 DEF DerivedInv, StreamsOrdered
    <3> QED  BY <1>0, <1>1, <2>1, <3>2 DEF DerivedInv, SettlingOrdered, Delivery
  <2>5. PICK r : r = Tail(q)
    OBVIOUS
  <2>6. \A f : InQueue(q, f) => InQueue(r, f) \/ f = Head(q).body
    BY <2>3, <2>5, QueueBehindHead
  <2> QED  BY <1>1, <2>1, <2>2, <2>4, <2>5, <2>6 DEF LiveInv
<1>11. ASSUME NEW c \in Consumers, TransactionFails(c) \/ SendRetryCopy(c) \/ GiveUp(c) \/ ExpireRetry(c)
       PROVE  FALSE
  BY <1>11 DEF TransactionFails, SendRetryCopy, GiveUp, ExpireRetry, DerivedInv, NothingFailed
<1>12. CASE UNCHANGED <<announced, discarded, cursor, replay, seqOf, queue, db>>
  BY <1>2, <1>12
<1>13. UNCHANGED vars \/ BeginReset \/ DeleteTable \/ Crash \/ (\E f \in Facts : CommitEvent(f))
         \/ (\E c \in Consumers : Claim(c) \/ ReadDimension(c) \/ ReadCycleTime(c))
         => UNCHANGED <<announced, discarded, cursor, replay, seqOf, queue, db>>
  BY DEF vars, log, command, broker, analytics, BeginReset, DeleteTable, Crash, CommitEvent,
         Claim, ReadDimension, ReadCycleTime
<1>c. Consumers = {"live", "replay"}
  BY DEF Consumers
<1> QED  BY <1>c, <1>3, <1>4, <1>5, <1>6, <1>7, <1>8, <1>9, <1>10, <1>11, <1>12, <1>13, NextByActor
         DEF LogNext, Publishing, CommandNext, Paging, ConsumerNext, Resetting, Consume

LEMMA ExactInvInit ==
    ASSUME MaxFaults = 0
    PROVE  Init => ExactInv
<1> SUFFICES ASSUME Init PROVE ExactInv
  OBVIOUS
<1>1. replay = "off" /\ ~HasRun
  BY DEF Init, HasRun
<1> QED  BY <1>1, DerivedInvInit DEF ExactInv, PagesInv, SentInv, LiveInv

LEMMA ExactInvStep ==
    ASSUME ~Overlap, MaxFaults = 0, ExactInv, [Next]_vars
    PROVE  ExactInv'
BY DerivedInvStep, PagesKept, SentKept, LiveKept DEF ExactInv

LEMMA ExactInvExact == ExactInv => RebuildIsExact
<1> SUFFICES ASSUME ExactInv PROVE RebuildIsExact
  OBVIOUS
<1>1. announced \subseteq Committed \ Unparsable
  BY DEF ExactInv, DerivedInv, AnnouncedInOrder
<1>2. PagesSkipNothing
  BY DEF PagesSkipNothing, ExactInv, PagesInv, HasRun
<1>3. ASSUME ReplayDrained
      PROVE  /\ History \subseteq db.processed
             /\ announced \ discarded \subseteq db.processed
  <2>1. replay = "published" /\ queue["live"] = <<>> /\ queue["replay"] = <<>> /\ HasRun
    BY <1>3 DEF ReplayDrained, Settled, Consumers, HasRun
  <2>2. \A f : ~Ahead(queue["replay"], f) /\ ~InQueue(queue["live"], f)
    BY <2>1 DEF Ahead, InQueue
  <2>3. History \subseteq db.processed
    <3> SUFFICES ASSUME NEW f \in History
                 PROVE  f \in db.processed
      OBVIOUS
    <3>1. f \in sent \ Unparsable
      BY <2>1 DEF History, ExactInv, PagesInv
    <3> QED  BY <2>1, <2>2, <3>1 DEF ExactInv, SentInv
  <2>4. announced \ discarded \subseteq db.processed
    <3> SUFFICES ASSUME NEW f \in announced \ discarded
                 PROVE  f \in db.processed
      OBVIOUS
    <3>1. seqOf[f] <= cursor => f \in History
      BY <1>1 DEF History
    <3>2. seqOf[f] <= cursor \/ f \in db.processed
      BY <2>1, <2>2 DEF ExactInv, LiveInv
    <3> QED  BY <2>3, <3>1, <3>2
  <2> QED  BY <2>3, <2>4
<1>4. db = Derived(db.processed, seqOf)
  BY DerivedInvDerives DEF ExactInv, ReadModelIsDerived
<1> QED  BY <1>2, <1>3, <1>4 DEF RebuildIsExact, RebuiltFromHistory, NoDeliveredFactForgotten

\* Under the same conditions a rebuild is exact: pages pass over no row, and once a run has
\* ended and both streams are drained all of history is projected, what the live path lost
\* included, nothing the relay delivered is forgotten, and the model is what history says
\* (replayOutbox, the replay consumer).
THEOREM RebuildExact ==
    ASSUME ~Overlap, MaxFaults = 0
    PROVE  Spec => []RebuildIsExact
<1>1. ExactInv /\ [Next]_vars => ExactInv'
  BY ExactInvStep
<1>2. Init => ExactInv
  BY ExactInvInit
<1> QED  BY <1>1, <1>2, ExactInvExact, PTL DEF Spec

=============================================================================
