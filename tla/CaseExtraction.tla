--------------------------- MODULE CaseExtraction ---------------------------
(***************************************************************************)
(* One run of a case job in the worker, from the pages of its documents to *)
(* the case it writes (apps/worker/src/production-runtime.ts, processJob). *)
(*                                                                         *)
(* Two phases ask the model about many items at once: extract about every  *)
(* chunk, classify about every document.  A fan of workers shares the list *)
(* of items, each finished item reports its progress on the row of the     *)
(* job, and the first failed call or a timeout abandons the whole attempt: *)
(* the review graph starts the phase once more, while the calls of the     *)
(* abandoned attempt go on running.  What the phases found is merged,      *)
(* reconciled and evaluated, and decides whether a person must look.       *)
(*                                                                         *)
(* Values and conditions are those of RuleConditions; the paths of a pack  *)
(* are not prefixes of each other; confidences are in per mille.           *)
(***************************************************************************)
EXTENDS RuleConditions

CONSTANTS
  Documents,           \* the sequence of document ids of the case
  Pages,               \* a sequence of [document, page, words, pdf]
  OcrResults,          \* what recognition may answer: [ok, words]
  MinText,             \* a page with fewer words is recognized
  ChunkSize, Overlap,  \* in words
  MaxDocuments, MaxChunks,
  Concurrency, PhaseAttempts,
  Extractions(_),      \* what the model may answer about a chunk
  Classifications(_),  \* what it may answer about a document
  FieldTypes,          \* the catalog: path -> type
  DocumentTypes,
  ReviewBelow,         \* domainPack.thresholds.extractionReview
  CandidatePaths,      \* the sequence of paths one reconciliation compares
  NormalForm,          \* value -> what the normalizer makes of it
  Rules,               \* a set of [id, severity, when]
  RequiredDocuments,   \* a set of [id, type, severity, when]
  Retrievals           \* what retrieval may answer: "found", "abstained"

VARIABLES
  phase,      \* what the run does now
  attempt,    \* of the current phase
  row,        \* the job's row: [status, progress]
  pages,      \* sourcePages
  chunks,     \* evidenceChunks
  fan,        \* the calls of the current attempt
  late,       \* the fans of abandoned attempts that still run
  found,      \* the kept facts: path -> [value, document, page, quote, confidence]
  extracted,  \* what every chunk answered, in the order of the chunks
  classes,    \* the settled classifications: document -> answer
  reasons,    \* reviewReasons
  item        \* what the run made of the case, once it has ended

extractionVars == <<phase, attempt, row, pages, chunks, fan, late, found, extracted, classes, reasons, item>>

Position == [read |-> 0, extract |-> 1, classify |-> 2, evaluate |-> 3, done |-> 4, failed |-> 4]

Ended == phase \in {"done", "failed"}

-----------------------------------------------------------------------------
(* Text: a page is trimmed, recognized when it is nearly empty, and cut.   *)

ReadPage(p, ocr) ==
  IF Len(p.words) < MinText /\ p.pdf /\ ocr.ok THEN [p EXCEPT !.words = ocr.words] ELSE p

ChunkSourcePage(p) ==
  LET step == ChunkSize - Overlap
      starts == {s \in 0..(Len(p.words) - 1) :
                   s % step = 0 /\ (s = 0 \/ s - step + ChunkSize < Len(p.words))}
      Chunk(s) == [p EXCEPT !.words = SubSeq(p.words, s + 1, Min({s + ChunkSize, Len(p.words)}))]
  IN [i \in 1..Cardinality(starts) |-> Chunk((i - 1) * step)]

Chunks(source) == FlattenSeq([i \in DOMAIN source |-> ChunkSourcePage(source[i])])

(* What recognition may make of the pages. *)
Readings ==
  {[i \in DOMAIN Pages |-> ReadPage(Pages[i], ocr[i])] : ocr \in [DOMAIN Pages -> OcrResults]}

ASSUME LimitsAssumption ==
  /\ Concurrency \in Nat \ {0} /\ PhaseAttempts \in Nat \ {0} /\ ReviewBelow \in Nat

ASSUME InputsAssumption ==
  /\ IsList(Documents) /\ IsList(Pages) /\ IsList(CandidatePaths)
  /\ \A read \in Readings : \A i \in DOMAIN read : IsList(read[i].words)

(* What extractionSchema lets an answer be. *)
ASSUME AnswersAssumption ==
  \A read \in Readings : \A chunk \in ToSet(Chunks(read)) : \A answer \in Extractions(chunk) :
    IsList(answer) /\ \A i \in DOMAIN answer : answer[i].confidence \in Nat

EvidenceContainsQuote(words, quote) == quote # <<>> /\ Includes(words, quote)

PagesOf(d) == {pages[i] : i \in {j \in DOMAIN pages : pages[j].document = d}}

Readable(d) == \E p \in PagesOf(d) : p.words # <<>>

-----------------------------------------------------------------------------
(* What an answer of the model is worth.                                   *)

IsExtractionValueAllowed(type, value) ==
  CASE type \in {"number", "currency"} -> value[1] = "num"
    [] type = "boolean" -> value[1] = "bool"
    [] type = "list" -> value[1] = "list"
    [] OTHER -> value[1] = "text"

Supported(o, chunk) ==
  /\ o.path \in DOMAIN FieldTypes
  /\ IsExtractionValueAllowed(FieldTypes[o.path], o.value)
  /\ o.document = chunk.document
  /\ o.page = chunk.page
  /\ EvidenceContainsQuote(chunk.words, o.quote)

(* Mutant: of two observations the one that came first is kept. *)
NotLess(old, new) == old.confidence >= new.confidence

Outweighs(old, new) == old.confidence > new.confidence

Keep(facts, o) ==
  IF o.path \in DOMAIN facts /\ Outweighs(facts[o.path], o)
  THEN facts
  ELSE Put(facts, o.path, [value |-> o.value, document |-> o.document, page |-> o.page,
                           quote |-> o.quote, confidence |-> o.confidence])

(* The answers about the source chunks in their order, and which of them pass the gates. *)
Observed(source, results) ==
  FlattenSeq([i \in DOMAIN source |->
                [j \in DOMAIN results[i] |->
                   [saw |-> results[i][j], held |-> Supported(results[i][j], source[i])]]])

Merge(seen) ==
  LET merged[n \in 0..Len(seen)] ==
        IF n = 0 THEN <<>>
        ELSE IF seen[n].held THEN Keep(merged[n - 1], seen[n].saw) ELSE merged[n - 1]
  IN merged[Len(seen)]

MergeFacts(source, results) == Merge(Observed(source, results))

Quarantined(source, results) ==
  \E i \in DOMAIN results : \E j \in DOMAIN results[i] : ~Supported(results[i][j], source[i])

(* What a document is settled on, Unclassified where a person has to look. *)
Unclassified == [document |-> "none", type |-> "none", page |-> 0, quote |-> <<>>, confidence |-> 0]

(* Mutant: the quote of a classification may stand on any page. *)
QuotedAnywhere(d, a) == \E p \in PagesOf(d) : EvidenceContainsQuote(p.words, a.quote)

CitationSupported(d, a) ==
  \E p \in PagesOf(d) : p.page = a.page /\ EvidenceContainsQuote(p.words, a.quote)

Classification(d, a) ==
  IF /\ Readable(d) /\ a.document = d
     /\ a.type \in DocumentTypes
     /\ CitationSupported(d, a)
     /\ a.confidence >= ReviewBelow
  THEN a ELSE Unclassified

TypesOf(settled) == {settled[d].type : d \in DOMAIN settled} \ {"none"}

-----------------------------------------------------------------------------
(* The deterministic end of the run. *)

(* One value per candidate path that has one, the most confident first. *)
(* Mutant: only the two most confident candidates are compared. *)
FirstTwoDiffer(facts) ==
  LET known == SelectSeq(CandidatePaths, LAMBDA p : p \in DOMAIN facts)
      sorted == SortSeq(known, LAMBDA p, q : facts[p].confidence > facts[q].confidence)
  IN Len(sorted) >= 2 /\ NormalForm[facts[sorted[1]].value] # NormalForm[facts[sorted[2]].value]

ReconcileConflict(facts) ==
  LET known == {i \in DOMAIN CandidatePaths : CandidatePaths[i] \in DOMAIN facts}
      Fact(i) == facts[CandidatePaths[i]]
      selected == Min({i \in known : \A j \in known : Fact(j).confidence <= Fact(i).confidence})
  IN \E i \in known : NormalForm[Fact(i).value] # NormalForm[Fact(selected).value]

EvaluationContext(facts) ==
  Put([p \in DOMAIN facts |-> facts[p].value],
      "reconciliation.supplierLegalNameConflict", Bool(ReconcileConflict(facts)))

EvaluateRules(context) == {r \in Rules : EvaluateCondition(r.when, context)}

EvaluateRequiredDocuments(context, types) ==
  {r \in RequiredDocuments : EvaluateCondition(r.when, context) /\ r.type \notin types}

(* Mutant: the low confidence of a kept fact is no reason for review. *)
NoLowConfidence(facts) == {}

LowConfidencePaths(facts) == {p \in DOMAIN facts : facts[p].confidence < ReviewBelow}

Material(findings) == {f \in findings : f.severity \in {"critical", "major"}}

MapDecision(gap, approvable) ==
  IF gap THEN "request_information" ELSE IF approvable THEN "approve" ELSE "manual_review"

(* The evidence of the first path of the rule that has some. *)
FindingEvidence(rule, facts) ==
  LET known == {i \in Leaves(rule.when) : rule.when[i].path \in DOMAIN facts}
  IN IF known = {} THEN "none" ELSE rule.when[Min(known)].path

-----------------------------------------------------------------------------
(* Fans: mapWithConcurrency and createProgressReporter.                    *)

ItemsOf(ph) == IF ph = "extract" THEN Len(chunks) ELSE Len(Documents)

Processing(progress) == [status |-> "processing", progress |-> progress]

\* Rounded as Math.round does.
ReportedProgress(ph, completed) ==
  (IF ph = "extract" THEN 40 ELSE 55) + (28 * completed + ItemsOf(ph)) \div (2 * ItemsOf(ph))

NewFan(ph, n) ==
  LET workers == Min({Concurrency, ItemsOf(ph)})
  IN [phase |-> ph, attempt |-> n, next |-> workers + 1, calls |-> 1..workers, reports |-> <<>>,
      completed |-> 0, results |-> <<>>]

NoFan == [phase |-> "none", attempt |-> 0, next |-> 1, calls |-> {}, reports |-> <<>>,
          completed |-> 0, results |-> <<>>]

(* A call has returned: its worker reports, in the order of the completions. *)
Returned(f, i) ==
  [f EXCEPT !.calls = @ \ {i}, !.completed = @ + 1, !.reports = Append(@, f.completed + 1)]

(* Mutant: the reports are not chained: the database may take them in any order. *)
AnyReport(f) == DOMAIN f.reports

FirstReport(f) == {1} \cap DOMAIN f.reports

(* Mutant: a worker ends with its first item. *)
OneItemEach(f, r) == [f EXCEPT !.reports = RemoveAt(@, r)]

(* Mutant: a worker takes the item after the last one. *)
PastTheEnd(f, r) ==
  [f EXCEPT !.reports = RemoveAt(@, r), !.calls = @ \cup {f.next}, !.next = @ + 1]

(* A report is on the row: its worker takes the next item of the list. *)
Advanced(f, r) ==
  LET more == f.next <= ItemsOf(f.phase)
  IN [f EXCEPT !.reports = RemoveAt(@, r),
               !.calls = IF more THEN @ \cup {f.next} ELSE @,
               !.next = IF more THEN @ + 1 ELSE @]

Running(f) == f.calls # {} \/ f.reports # <<>>

FanDone(f) == ~Running(f) /\ f.next > ItemsOf(f.phase)

(* What is left of a fan nobody waits for: its results, and about which of the items its
   calls are, never matter again. *)
Forgotten(f) ==
  IF Running(f)
  THEN {[f EXCEPT !.results = <<>>, !.calls = 1..Cardinality(@)]}
  ELSE {}

-----------------------------------------------------------------------------
(* Actions. *)

ExtractionInit ==
  /\ phase = "read" /\ attempt = 0 /\ row = Processing(5)
  /\ pages = <<>> /\ chunks = <<>> /\ fan = NoFan /\ late = {}
  /\ found = <<>> /\ extracted = <<>> /\ classes = <<>> /\ reasons = {} /\ item = <<>>

(* The graph starts a phase, for the first time or once more. *)
StartPhase(ph, n) ==
  /\ phase' = ph /\ attempt' = n
  /\ fan' = NewFan(ph, n)
  /\ row' = Processing(IF ph = "extract" THEN 40 ELSE 55)

(* processJob's catch: the case goes to a person, the row fails. *)
Fail ==
  /\ phase' = "failed"
  /\ row' = [status |-> "failed", progress |-> 100]
  /\ fan' = NoFan
  /\ item' = [status |-> "needs_review", recommendation |-> "none", documents |-> <<>>]
  /\ UNCHANGED <<attempt, found, extracted, classes, reasons>>

Read ==
  /\ phase = "read" /\ pages = <<>>
  /\ pages' \in Readings
  /\ chunks' = Chunks(pages')
  /\ row' = Processing(25)
  /\ UNCHANGED <<phase, attempt, fan, late, found, extracted, classes, reasons, item>>

(* A document that cannot be loaded, or a budget that is exceeded. *)
CannotRead ==
  /\ phase = "read"
  /\ pages = <<>> \/ Len(Documents) > MaxDocuments \/ Len(chunks) > MaxChunks
  /\ Fail /\ UNCHANGED <<pages, chunks, late>>

Extract ==
  /\ phase = "read" /\ pages # <<>>
  /\ Len(Documents) <= MaxDocuments /\ Len(chunks) <= MaxChunks
  /\ StartPhase("extract", 1)
  /\ UNCHANGED <<pages, chunks, late, found, extracted, classes, reasons, item>>

(* What may be answered about an item: a document without text is not asked about. *)
Answers(ph, i) ==
  IF ph = "extract" THEN Extractions(chunks[i])
  ELSE IF Readable(Documents[i]) THEN Classifications(Documents[i]) ELSE {Unclassified}

CallReturns(i) ==
  /\ i \in fan.calls
  /\ \E a \in Answers(phase, i) :
       fan' = [Returned(fan, i) EXCEPT !.results = Put(@, i, a)]
  /\ UNCHANGED <<phase, attempt, row, pages, chunks, late, found, extracted, classes, reasons, item>>

ReportProgress ==
  /\ \E r \in FirstReport(fan) :
       /\ row' = Processing(ReportedProgress(phase, fan.reports[r]))
       /\ fan' = Advanced(fan, r)
  /\ UNCHANGED <<phase, attempt, pages, chunks, late, found, extracted, classes, reasons, item>>

(* The attempt is given up: withRetry starts the phase again, or the run fails. *)
Abandon(leftovers) ==
  /\ late' = late \cup leftovers
  /\ IF attempt < PhaseAttempts
     THEN /\ StartPhase(phase, attempt + 1)
          /\ UNCHANGED <<found, extracted, classes, reasons, item>>
     ELSE Fail
  /\ UNCHANGED <<pages, chunks>>

CallFails(i) ==
  /\ i \in fan.calls
  /\ phase = "classify" => Readable(Documents[i])
  /\ Abandon(Forgotten([fan EXCEPT !.calls = @ \ {i}]))

(* The timer of the phase runs out first: no worker is stopped. *)
TimesOut == Running(fan) /\ Abandon(Forgotten(fan))

(* The row cannot be written: every later report of the attempt fails with it. *)
ReportFails == fan.reports # <<>> /\ Abandon({})

(* A call of an abandoned attempt ends: answered, its worker reports and goes on. *)
LateCall(f) ==
  \E i \in f.calls :
    /\ \/ late' = (late \ {f}) \cup Forgotten(Returned(f, i))
       \/ late' = (late \ {f}) \cup Forgotten([f EXCEPT !.calls = @ \ {i}])
    /\ UNCHANGED <<phase, attempt, row, pages, chunks, fan, found, extracted, classes, reasons, item>>

LateReport(f) ==
  \E r \in FirstReport(f) :
    /\ row' = Processing(ReportedProgress(f.phase, f.reports[r]))
    /\ late' = (late \ {f}) \cup Forgotten(Advanced(f, r))
    /\ UNCHANGED <<phase, attempt, pages, chunks, fan, found, extracted, classes, reasons, item>>

Reason(b, r) == IF b THEN {r} ELSE {}

EndExtract ==
  /\ phase = "extract" /\ FanDone(fan)
  /\ extracted' = fan.results
  /\ found' = MergeFacts(chunks, fan.results)
  /\ reasons' = Reason(Quarantined(chunks, fan.results), "quarantined")
  /\ StartPhase("classify", 1)
  /\ UNCHANGED <<pages, chunks, late, classes, item>>

EndClassify ==
  /\ phase = "classify" /\ FanDone(fan)
  /\ LET settled == [i \in DOMAIN Documents |-> Classification(Documents[i], fan.results[i])]
     IN /\ classes' = [d \in ToSet(Documents) |-> settled[CHOOSE i \in DOMAIN Documents : Documents[i] = d]]
        /\ reasons' = reasons \cup Reason(Unclassified \in ToSet(settled), "unclassified")
  /\ phase' = "evaluate" /\ fan' = NoFan
  /\ row' = Processing(70)
  /\ UNCHANGED <<attempt, pages, chunks, late, found, extracted, item>>

(* retrieve, evaluate, review or summarize, and the case that is saved. *)
EvaluateCase ==
  /\ phase = "evaluate"
  /\ \E retrieval \in Retrievals :
       LET context == EvaluationContext(found)
           missing == EvaluateRequiredDocuments(context, TypesOf(classes))
           findings == missing \cup EvaluateRules(context)
           all == reasons
             \cup Reason(ReconcileConflict(found), "conflict")
             \cup Reason(retrieval = "abstained", "abstained")
             \cup Reason(LowConfidencePaths(found) # {}, "low_confidence")
             \cup Reason(Material(findings) # {}, "material_finding")
           approvable == findings = {} /\ all = {}
           decision == MapDecision(missing # {}, approvable)
           review == all # {} \/ findings # {}
       IN /\ reasons' = all
          /\ item' = [ status |-> "needs_review",
                       recommendation |-> IF decision = "manual_review"
                                          THEN "request_information" ELSE decision,
                       documents |-> [d \in DOMAIN classes |->
                                        IF classes[d] = Unclassified THEN "needs_review" ELSE "ready"],
                       findings |-> {[rule |-> f.id, evidence |-> FindingEvidence(f, found)] :
                                       f \in findings} ]
          /\ row' = [status |-> IF review THEN "needs_review" ELSE "completed", progress |-> 100]
  /\ phase' = "done"
  /\ UNCHANGED <<attempt, pages, chunks, fan, late, found, extracted, classes>>

LiveStep ==
  \/ Read \/ Extract \/ ReportProgress \/ EndExtract \/ EndClassify \/ EvaluateCase
  \/ \E i \in fan.calls : CallReturns(i)

LateStep == \E f \in late : LateCall(f) \/ LateReport(f)

ExtractionNext ==
  \/ LiveStep \/ LateStep \/ CannotRead \/ TimesOut \/ ReportFails
  \/ \E i \in fan.calls : CallFails(i)

(* A started call ends, by its own time limit at the latest, and the event loop of
   the worker runs what is ready; failures and timeouts need not happen. *)
ExtractionFairness == WF_extractionVars(LiveStep) /\ WF_extractionVars(LateStep)

ExtractionSpec == ExtractionInit /\ [][ExtractionNext]_extractionVars /\ ExtractionFairness

-----------------------------------------------------------------------------
(* Properties. *)

(* Every state is of its type: no fan has more calls and reports than workers, and none is
   about an item that does not exist. *)
ExtractionTypeOK ==
  /\ phase \in DOMAIN Position /\ attempt \in 0..PhaseAttempts
  /\ row.status \in {"processing", "needs_review", "completed", "failed"}
  /\ row.progress \in 0..100
  /\ \A f \in late \cup {fan} :
       /\ Cardinality(f.calls) + Len(f.reports) <= Concurrency
       /\ f # NoFan => f.calls \subseteq 1..ItemsOf(f.phase) /\ f.completed <= ItemsOf(f.phase)
  /\ \A p \in DOMAIN found : p \in DOMAIN FieldTypes
  /\ TypesOf(classes) \subseteq DocumentTypes

(* Whatever the order in which the calls returned, and whatever abandoned attempts answered: a
   path holds its most confident supported observation, the latest one in document order when
   several are (the merge after extract). *)
FactsAreBestSupported ==
  phase = "evaluate" =>
    LET seen == Observed(chunks, extracted)
        At(p) == {i \in DOMAIN seen : seen[i].held /\ seen[i].saw.path = p}
        top(p) == Max({seen[i].saw.confidence : i \in At(p)})
        best(p) == seen[Max({i \in At(p) : seen[i].saw.confidence = top(p)})].saw
    IN /\ DOMAIN found = {seen[i].saw.path : i \in {j \in DOMAIN seen : seen[j].held}}
       /\ \A p \in DOMAIN found : \A k \in DOMAIN found[p] : found[p][k] = best(p)[k]

(* A case is recommended for approval only when nothing in the run is open: every document was
   read and classified, every observation held, every kept fact is confident enough, the
   candidates of the reconciliation agree pairwise, policy was found and no rule fired. *)
ApprovalIsUnclouded ==
  phase = "done" /\ item.recommendation = "approve" =>
    /\ ~Quarantined(chunks, extracted)
    /\ \A d \in DOMAIN classes : item.documents[d] = "ready" /\ Readable(d)
    /\ \A p \in DOMAIN found : found[p].confidence >= ReviewBelow
    /\ \A p, q \in ToSet(CandidatePaths) \cap DOMAIN found :
         NormalForm[found[p].value] = NormalForm[found[q].value]
    /\ \A r \in RequiredDocuments :
         EvaluateCondition(r.when, EvaluationContext(found)) => r.type \in TypesOf(classes)

(* What the documents of a case disagree about reaches a person: a pair of kept candidates with
   different normal forms is a reason for review whichever two of them it is (reconcileFacts
   compares with the most confident one only). *)
DisagreementIsReviewed ==
  phase = "done" =>
    \A p, q \in ToSet(CandidatePaths) \cap DOMAIN found :
      NormalForm[found[p].value] # NormalForm[found[q].value] =>
        "conflict" \in reasons /\ item.recommendation # "approve"

(* A document counts as ready, and satisfies a requirement, only when the answer it was settled on
   is about it, confident, and quotes the page it names: never because of a quote from elsewhere
   in the document. *)
ReadyIsCited ==
  phase = "done" =>
    \A d \in DOMAIN classes : item.documents[d] = "ready" =>
      /\ classes[d].document = d /\ classes[d].confidence >= ReviewBelow
      /\ \E i \in DOMAIN pages : /\ pages[i].document = d /\ pages[i].page = classes[d].page
                               /\ EvidenceContainsQuote(pages[i].words, classes[d].quote)

(* What the run leaves to a reviewer, or takes off their hands, is what its answers support. *)
ReviewedWhereUnclear == ExtractionTypeOK /\ ApprovalIsUnclouded /\ DisagreementIsReviewed /\ ReadyIsCited

(* As long as no attempt was abandoned the progress a reviewer sees never falls: the reports of
   concurrent calls are written in the order of their numbers. *)
ProgressRises == [][late = {} /\ attempt' <= 1 => row'.progress >= row.progress]_extractionVars

(* Calls that end are enough for the run to end, with every worker it started: no item is left
   without a worker, and no abandoned call runs for ever. *)
RunsOut == <>[](Ended /\ late = {})

(* The items of a phase are all worked off, and their number only rises on the screen. *)
EveryItemIsWorkedOff == ProgressRises /\ RunsOut
=============================================================================
