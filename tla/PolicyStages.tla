---------------------------- MODULE PolicyStages ----------------------------
(***************************************************************************)
(* What one policy-processing job makes of a document, stage by stage:     *)
(* processPolicyJob of apps/worker/src/production-runtime.ts.  How jobs    *)
(* crash, stall and race with administrators is PolicyLifecycle's subject; *)
(* here a job runs once and the question is what its stages let through.   *)
(*                                                                         *)
(* work is what the current stage made; a finished stage leaves only what  *)
(* later stages read.                                                      *)
(***************************************************************************)
EXTENDS PolicyFiling, FieldProposals

CONSTANTS
  NativePages,   \* the pages as the text provider returns them
  OcrResults,    \* what OCR may return for a page: [ok, paragraphs]
  Collections,   \* the tenant's collections, in order: [id, label, terms]
  ChunkSize, ChunkOverlap,   \* collection id -> its chunk settings
  Answers,       \* what the model may answer when it classifies
  Drafts,        \* rules the model may draft: [when, citations]
  Candidates,    \* fields the model may propose
  Dictionary,    \* the fields of the tenant's active pack
  Indexed,       \* the search index an earlier pack left behind
  Similarities,  \* similarities the index search may return
  Uploader, Admins, AllowSelfApproval

VARIABLES
  stage,       \* the stage the job has reached
  pages,       \* the extracted pages
  collection,  \* the policy's collection, "none" until it is settled
  chunks,      \* the searchable clauses, once the pages are cut
  index,       \* the tenant's field search index
  work         \* what the current stage made

stagesVars == <<stage, pages, collection, chunks, index, work>>

(* Text is cut into paragraphs of words, and blank paragraphs are dropped.  *)
ASSUME TextAssumption ==
  /\ IsList(NativePages)
  /\ \A read \in {NativePages[i] : i \in DOMAIN NativePages} \cup OcrResults :
       /\ IsList(read.paragraphs)
       /\ \A k \in DOMAIN read.paragraphs : IsList(read.paragraphs[k]) /\ read.paragraphs[k] # <<>>

(* A collection is known by its id; its words are counted.                  *)
ASSUME CollectionsAssumption ==
  /\ IsList(Collections)
  /\ \A i, k \in DOMAIN Collections : Collections[i].id = Collections[k].id => i = k
  /\ \A i \in DOMAIN Collections :
       /\ Collections[i].id # "none"
       /\ IsFiniteSet(Collections[i].terms)
       /\ ChunkSize[Collections[i].id] \in Nat \ {0}
       /\ ChunkOverlap[Collections[i].id] \in Nat

(* The lexical reading claims at most a half for a tie: a deployment that   *)
(* filed at a half would file a tie in the collection that is listed first. *)
ASSUME ThresholdAssumption == AutoFileConfidence \in Nat /\ AutoFileConfidence > 500

(* What a model drafts has passed the schema of its answers.                *)
ASSUME DraftsAssumption ==
  \A draft \in Drafts :
    /\ IsCondition(draft.when) /\ IsList(draft.citations)
    /\ \A i \in DOMAIN draft.citations :
         /\ DOMAIN draft.citations[i] = {"chunk", "page", "quote"}
         /\ IsList(draft.citations[i].quote)

(* A policy is uploaded by a user.                                          *)
ASSUME UploaderAssumption == Uploader # NoApprover

Nothing == [none |-> TRUE]

PageNumbers == {NativePages[i].page : i \in DOMAIN NativePages}

(* A stored clause: its ordinal, the page it is cited by and its words.     *)
IsClause(c) ==
  DOMAIN c = {"id", "page", "content"} /\ c.page \in PageNumbers /\ c.content # <<>>

CollectionIds == {Collections[i].id : i \in DOMAIN Collections}

Overlap == Min({ChunkOverlap[collection], ChunkSize[collection] - 1})

StagesInit ==
  /\ stage = "text"
  /\ pages = <<>>
  /\ collection \in CollectionIds \cup {"none"}
  /\ chunks = <<>>
  /\ index = Indexed
  /\ work = Nothing

ExtractPolicyPages ==
  /\ stage = "text"
  /\ \E ocr \in [DOMAIN NativePages -> OcrResults] :
       pages' = [i \in DOMAIN NativePages |-> ExtractPage(NativePages[i], ocr[i])]
  /\ stage' = IF \A i \in DOMAIN pages' : PageWords(pages'[i]) = <<>> THEN "failed"
              ELSE IF collection = "none" THEN "collection" ELSE "chunks"
  /\ UNCHANGED <<collection, chunks, index, work>>

(* A policy without a collection is filed, or waits for an administrator.   *)
FilePolicy ==
  /\ stage = "collection"
  /\ \E classifier \in {"lexical", "model"}, alike \in CollectionIds \cup {"none"} :
     \E answer \in IF classifier = "lexical" THEN LexicalAnswers(pages, Collections) ELSE Answers :
       LET settled == SettleCollectionClassification(classifier, answer, alike, pages, Collections)
       IN /\ work' = [answer |-> answer, settled |-> settled]
          /\ collection' = settled.filed
          /\ stage' = IF settled.filed = "none" THEN "awaiting" ELSE "filed"
  /\ UNCHANGED <<pages, chunks, index>>

ClassifierFails ==
  /\ stage = "collection"
  /\ stage' = "awaiting"
  /\ UNCHANGED <<pages, collection, chunks, index, work>>

(* The administrator's choice; the next attempt starts from the text.       *)
ChooseCollection ==
  /\ stage = "awaiting"
  /\ collection' \in CollectionIds
  /\ stage' = "text"
  /\ pages' = <<>>
  /\ work' = Nothing
  /\ UNCHANGED <<chunks, index>>

ChunkPages ==
  /\ stage \in {"chunks", "filed"}
  /\ chunks' = ChunkPolicyPages(pages, ChunkSize[collection], Overlap)
  /\ stage' = "rules"
  /\ work' = Nothing
  /\ UNCHANGED <<pages, collection, index>>

(* One of the model's drafts; drafts do not influence each other.           *)
ProposeRule ==
  /\ stage = "rules"
  /\ work = Nothing
  /\ \E draft \in Drafts :
       LET made == PolicyProposal(draft, chunks, Uploader)
       IN work' = [draft |-> draft, rule |-> made.rule, issues |-> made.issues,
                   status |-> made.status, by |-> NoApprover]
  /\ UNCHANGED <<stage, pages, collection, chunks, index>>

(* An administrator approves: the rule is validated again, for them.        *)
ApproveRule ==
  /\ stage = "rules"
  /\ work # Nothing
  /\ work.status = "proposed"
  /\ \E admin \in Admins :
       /\ ValidateRuleProposal(work.rule, Uploader, admin, AllowSelfApproval) = {}
       /\ work' = [work EXCEPT !.status = "approved", !.by = admin]
  /\ UNCHANGED <<stage, pages, collection, chunks, index>>

RulesDone ==
  /\ stage = "rules"
  /\ stage' = "fields"
  /\ work' = Nothing
  /\ UNCHANGED <<pages, collection, chunks, index>>

(* The index is brought up to date before the first candidate is compared.  *)
SyncIndex ==
  /\ stage = "fields"
  /\ index' = SyncFieldEmbeddingIndex(index, Dictionary)
  /\ stage' = "recall"
  /\ UNCHANGED <<pages, collection, chunks, work>>

Recalled == UNION {[found -> Similarities] : found \in SUBSET DOMAIN index}

ProposeField ==
  /\ stage = "recall"
  /\ work = Nothing
  /\ \E candidate \in Candidates, recalled \in Recalled :
     \E answer \in DOMAIN index \cup {"none", "unavailable", "unlisted"} :
       work' = [ candidate |-> candidate, recalled |-> recalled,
                 made |-> FieldProposal(candidate, recalled, answer, Dictionary, chunks) ]
  /\ UNCHANGED <<stage, pages, collection, chunks, index>>

FieldsDone ==
  /\ stage = "recall"
  /\ stage' = "under_review"
  /\ work' = Nothing
  /\ UNCHANGED <<pages, collection, chunks, index>>

StagesNext ==
  \/ ExtractPolicyPages \/ FilePolicy \/ ClassifierFails \/ ChooseCollection
  \/ ChunkPages \/ ProposeRule \/ ApproveRule \/ RulesDone
  \/ SyncIndex \/ ProposeField \/ FieldsDone

StagesSpec == StagesInit /\ [][StagesNext]_stagesVars

-----------------------------------------------------------------------------
(* Properties. *)

CONSTANT Samples  \* path -> values the facts of a case may have

ASSUME SamplesAssumption ==
  \A path \in DOMAIN Facts : \A v \in Samples[path] :
    ScalarAllowed(Facts[path].type, v) /\ (v[1] = "num" => v[2] \in Int)

(* A case has a sampled value at a path, one that the tests make up, or none. *)
Values(c, path) ==
  Samples[path] \cup {Undefined}
  \cup UNION {{WitnessValue(p), CounterexampleValue(p)} : p \in {q \in Predicates(c) : q.path = path}}

Inputs(c) ==
  LET paths == {p.path : p \in Predicates(c)}
  IN {input \in [paths -> UNION {Values(c, path) : path \in paths}] :
        \A path \in paths : input[path] \in Values(c, path)}

Fires(c, input) == EvaluateCondition(c, input)

Drafted == stage = "rules" /\ work # Nothing

RuleReviewable == Drafted /\ work.status \in {"proposed", "approved"}

(* Every stage leaves data of its kind: the pages keep their numbers, the   *)
(* policy is filed in a collection of the tenant or nowhere, and it is in   *)
(* one from chunking on.                                                    *)
StagesTypeOK ==
  /\ stage \in {"text", "collection", "awaiting", "filed", "chunks", "rules", "fields", "recall",
                 "under_review", "failed"}
  /\ pages # <<>> => /\ DOMAIN pages = DOMAIN NativePages
                     /\ \A i \in DOMAIN pages : pages[i].page = NativePages[i].page
  /\ collection \in CollectionIds \cup {"none"}
  /\ stage \in {"filed", "chunks", "rules", "fields", "recall", "under_review"} => collection # "none"
  /\ Drafted => work.status \in {"proposed", "invalid", "approved"}
  /\ DOMAIN Indexed \subseteq DOMAIN index
  /\ \A i \in DOMAIN chunks : chunks[i].id = i /\ IsClause(chunks[i])

(* A rule that reaches review fires on some case and stays silent on        *)
(* another: validateRuleProposal asks for tests that show both.             *)
ReviewableRulesDiscriminate ==
  RuleReviewable => /\ \E input \in Inputs(work.rule.when) : Fires(work.rule.when, input)
                /\ \E input \in Inputs(work.rule.when) : ~Fires(work.rule.when, input)

(* A draft that only says an amount is present, cited for a minimum, comes  *)
(* to review as a rule that fires just below the minimum and never at it    *)
(* or above (normalizeMinimumCurrencyRequirement).                          *)
MinimumIsEnforced ==
  LET minimum == MinimumCurrency(work.rule.citations)
      amounts == {p.path : p \in Predicates(work.rule.when)} \cap CurrencyPaths
  IN (RuleReviewable /\ minimum > 0 /\ ~HasNumericComparison(work.draft.when)) =>
       \E path \in amounts :
         /\ \A input \in Inputs(work.rule.when) :
              Fires(work.rule.when, input) => input[path][1] = "num" /\ input[path][2] < minimum
         /\ \E input \in Inputs(work.rule.when) :
              Fires(work.rule.when, input) /\ input[path] = Num(minimum - 1)

(* A rule that reaches review is cited: each quote stands word for word on  *)
(* the page it names, and the quotes name every fact the rule reads.        *)
ReviewableRulesAreCited ==
  RuleReviewable =>
    /\ \A i \in DOMAIN work.rule.citations :
         \E k \in DOMAIN pages : /\ pages[k].page = work.rule.citations[i].page
                                 /\ QuoteIn(pages[k], work.rule.citations[i].quote)
    /\ \A p \in Predicates(work.rule.when) :
         Facts[p.path].terms \cap Quoted(work.rule.citations) # {}

(* A rule that reaches review is worth a reviewer's time: it is cited, it   *)
(* tells cases apart, and it asks for the minimum its policy names.         *)
ReviewableRulesHold ==
  ReviewableRulesDiscriminate /\ MinimumIsEnforced /\ ReviewableRulesAreCited

(* A draft the pack's vocabulary allows, cited and grounded, reaches review *)
(* when it reads each fact once and compares it with one value: the tests   *)
(* the worker makes up for it pass the governance checks.                   *)
Plain(p) ==
  /\ p.op # "in"
  /\ p.op = "contains" => p.value[1] = "text" /\ p.value[2] # <<>> /\ Facts[p.path].type = "string"

PlainRulesReachReview ==
  (/\ Drafted
   /\ \A p \in Predicates(work.draft.when) : PredicateIssue(p) = {} /\ Plain(p)
   /\ \A i, j \in Leaves(work.draft.when) : work.draft.when[i].path = work.draft.when[j].path => i = j
   /\ \A i \in DOMAIN work.rule.citations : CitationHolds(work.rule.citations[i], chunks)
   /\ ConditionGrounding(work.rule.when, work.rule.citations) = {}
   /\ MinimumCurrency(work.rule.citations) = 0)
  => RuleReviewable

(* A quote no longer than the overlap and one word more is found whole in a *)
(* chunk of its page, wherever the page is cut (splitWithOverlap).          *)
ShortQuotesSurvive ==
  (stage = "rules" /\ work = Nothing) =>
    \A i \in DOMAIN pages : \A k \in DOMAIN pages[i].paragraphs :
      LET words == pages[i].paragraphs[k]
      IN \A from \in DOMAIN words : \A to \in from..Min({Len(words), from + Overlap}) :
           \E c \in DOMAIN chunks : /\ chunks[c].page = pages[i].page
                                    /\ Includes(chunks[c].content, SubSeq(words, from, to))

(* A policy is filed without asking only where the document itself points:  *)
(* its collection shares more words with the text than any other, and the   *)
(* quote is on a page (settleCollectionClassification).                     *)
FiledOnEvidence ==
  stage = "filed" =>
    /\ \A i, k \in DOMAIN Collections :
         (Collections[i].id = collection /\ i # k) =>
           Hits(pages, Collections[k]) < Hits(pages, Collections[i])
    /\ \E i \in DOMAIN pages : QuoteIn(pages[i], work.answer.quote)

(* From the pages to the chunks and the collection, what the document says  *)
(* is kept and followed.                                                    *)
EvidenceIsKept == StagesTypeOK /\ ShortQuotesSurvive /\ FiledOnEvidence

(* A proposed field teaches the pack something and contradicts nothing: a   *)
(* new one has a path no field has in any letter case, an alias keeps the   *)
(* type of its field and brings words the field does not have.              *)
FieldsWidenTheDictionary ==
  LET made == work.made
  IN (stage = "recall" /\ work # Nothing /\ work.made.issues = {}) =>
       IF made.kind = "new_field"
       THEN /\ \A p \in DOMAIN Dictionary : NormalizeFieldPath(p) # NormalizeFieldPath(made.path)
            /\ made.documentType \in DocumentTypes /\ made.type \in FieldTypes
       ELSE /\ made.type = work.candidate.type
            /\ made.aliases # {}
            /\ made.aliases \cap Wording(Dictionary[made.path]) = {}
=============================================================================
