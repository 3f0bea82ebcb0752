--------------------------- MODULE RuleProposals ---------------------------
(***************************************************************************)
(* From the text of a policy to a rule an administrator may review:        *)
(* apps/worker/src/policy/policy-pipeline.ts and the validation of         *)
(* packages/domain/src/policies/governance.ts.                             *)
(*                                                                         *)
(* A page is [page, paragraphs]; a paragraph, a quote and the content of a *)
(* chunk are sequences of words.  What the code looks for in a quote with  *)
(* regular expressions is a property of its words: the facts a word names, *)
(* the words of comparison and of matching, and the minimum amount that a  *)
(* phrase such as "at least EUR 50" (one word here) sets.                  *)
(***************************************************************************)
EXTENDS RuleConditions

CONSTANTS
  Facts,          \* rule facts of the pack: path -> [type, terms]
  ConflictPaths,  \* the facts of them that are reconciliation conflicts
  Comparing,      \* words that call for a comparison, a date or a match
  Matching,       \* those of them that call for a match
  Amounts         \* phrase -> the minimum amount it sets, in cents

ASSUME FactsAssumption ==
  ConflictPaths \subseteq DOMAIN Facts /\ \A f \in ConflictPaths : Facts[f].type = "boolean"
ASSUME WordsAssumption ==
  /\ (DOMAIN Amounts \cup Matching) \subseteq Comparing
  /\ \A phrase \in DOMAIN Amounts : Amounts[phrase] \in Nat

-----------------------------------------------------------------------------
(* Chunking. *)

(* Mutant: consecutive pieces do not overlap. *)
SplitApart(words, size, overlap) ==
  LET pieces == (Len(words) + size - 1) \div size
  IN [k \in 1..pieces |-> SubSeq(words, (k - 1) * size + 1, Min({k * size, Len(words)}))]

SplitWithOverlap(words, size, overlap) ==
  LET step == size - overlap
      Offset(k) == (k - 1) * step
      count == Min({k \in 1..Len(words) : Offset(k) + size >= Len(words)})
  IN IF Len(words) <= size THEN <<words>>
     ELSE [k \in 1..count |-> SubSeq(words, Offset(k) + 1, Min({Offset(k) + size, Len(words)}))]

(* The pieces of a page, each of one paragraph. *)
PagePieces(page, size, overlap) ==
  LET pieces == FlattenSeq([i \in DOMAIN page.paragraphs |->
                              SplitWithOverlap(page.paragraphs[i], size, overlap)])
  IN [k \in DOMAIN pieces |-> [page |-> page.page, content |-> pieces[k]]]

ChunkPolicyPages(pages, size, overlap) ==
  LET pieces == FlattenSeq([i \in DOMAIN pages |-> PagePieces(pages[i], size, overlap)])
  IN [i \in DOMAIN pieces |-> [id |-> i, page |-> pieces[i].page, content |-> pieces[i].content]]

-----------------------------------------------------------------------------
(* Citations.  A quote is empty only when nothing but spaces was cited.    *)

ContainsQuote(content, quote) == quote # <<>> /\ Includes(content, quote)

(* A model may name the wrong chunk for a quote that is on its page. *)
Relocate(citation, chunks) ==
  LET Holds(chunk) == chunk.page = citation.page /\ ContainsQuote(chunk.content, citation.quote)
      at == SelectInSeq(chunks, Holds)
  IN IF at = 0 THEN citation ELSE [citation EXCEPT !.chunk = chunks[at].id]

(* Mutant: the page a citation claims is not compared with its chunk's. *)
CitedOnAnyPage(citation, chunks) ==
  \E i \in DOMAIN chunks : /\ chunks[i].id = citation.chunk
                           /\ ContainsQuote(chunks[i].content, citation.quote)

CitationHolds(citation, chunks) ==
  \E i \in DOMAIN chunks : /\ chunks[i].id = citation.chunk
                           /\ chunks[i].page = citation.page
                           /\ ContainsQuote(chunks[i].content, citation.quote)

Quoted(citations) == UNION {ToSet(citations[i].quote) : i \in DOMAIN citations}

-----------------------------------------------------------------------------
(* What the cited words require of the condition. *)

(* The first minimum that is cited; 0 when there is none. *)
MinimumCurrency(citations) ==
  LET words == FlattenSeq([i \in DOMAIN citations |-> citations[i].quote])
      sets == {k \in DOMAIN words : words[k] \in DOMAIN Amounts}
  IN IF sets = {} THEN 0 ELSE Amounts[words[Min(sets)]]

CurrencyPaths == {f \in DOMAIN Facts : Facts[f].type = "currency" /\ f \notin ConflictPaths}

HasNumericComparison(c) ==
  \E p \in Predicates(c) : p.op \in {"lte", "gte", "eq"} /\ p.value[1] = "num"

(* Mutant: the violation includes the minimum itself. *)
UpToTheMinimum(path, minimum) == [op |-> "lte", path |-> path, value |-> Num(minimum)]

BelowMinimum(path, minimum) == [op |-> "lte", path |-> path, value |-> Num(minimum - 1)]

NormalizeMinimumCurrencyRequirement(c, citations) ==
  LET minimum == MinimumCurrency(citations)
      present == {i \in Leaves(c) : c[i].op = "exists" /\ c[i].path \in CurrencyPaths}
      below == BelowMinimum(c[Min(present)].path, minimum)
      n == Len(c)
  IN IF minimum = 0 \/ HasNumericComparison(c) \/ Cardinality(present) # 1
     THEN c
     ELSE IF c[n].op = "all"
          THEN SubSeq(c, 1, n - 1) \o <<below, [c[n] EXCEPT !.of = @ \cup {n}]>>
          ELSE c \o <<below, [op |-> "all", of |-> {n, n + 1}]>>

(* A conflict flag that merely exists says nothing; it must be set. *)
MustBeSet(p) ==
  IF p.op = "exists" /\ p.value[2] /\ p.path \in ConflictPaths
  THEN [p EXCEPT !.op = "eq", !.value = Bool(TRUE)]
  ELSE p

MapCondition(c) ==
  [i \in DOMAIN c |-> IF i \in Leaves(c) THEN MustBeSet(c[i]) ELSE c[i]]

NormalizePolicyCondition(c, citations) ==
  LET normalized == NormalizeMinimumCurrencyRequirement(c, citations)
  IN IF Quoted(citations) \cap Matching = {} THEN normalized ELSE MapCondition(normalized)

NumericRequirementCovered(c, citations) ==
  \/ MinimumCurrency(citations) = 0
  \/ \E p \in Predicates(c) : p.path \in CurrencyPaths /\ p.op \in {"lte", "gte", "eq"}

ConditionGrounding(c, citations) ==
  LET unnamed == {p \in Predicates(c) : /\ p.path \in DOMAIN Facts
                                        /\ Facts[p.path].terms \cap Quoted(citations) = {}}
      weak == /\ \A p \in Predicates(c) : p.op = "exists"
              /\ Quoted(citations) \cap Comparing # {}
  IN {x \in {"citation_condition_mismatch"} : unnamed # {}}
     \cup {x \in {"condition_too_weak"} : weak}

-----------------------------------------------------------------------------
(* The fixed vocabulary of conditions. *)

OperatorAllowed(type, op) ==
  \/ op \in {"exists", "eq", "neq", "in"}
  \/ op = "contains" /\ type \in {"string", "list"}
  \/ op \in {"gte", "lte"} /\ type \in {"number", "currency"}
  \/ op \in {"before", "after"} /\ type = "date"

ScalarAllowed(type, v) ==
  CASE type \in {"number", "currency"} -> v[1] = "num"
    [] type = "boolean" -> v[1] = "bool"
    [] type = "date" -> v[1] = "date"
    [] type = "list" -> v[1] = "list"
    [] type = "string" -> v[1] = "text"

ValueAllowed(type, op, v) ==
  CASE op = "exists" -> TRUE
    [] op = "in" -> v[1] = "list" /\ v[2] # <<>> /\ \A i \in DOMAIN v[2] : ScalarAllowed(type, v[2][i])
    [] op = "contains" /\ type = "list" -> v[1] # "list"
    [] OTHER -> ScalarAllowed(type, v)

(* Empty when the predicate is one the pack's vocabulary allows. *)
PredicateIssue(p) ==
  IF p.path \notin DOMAIN Facts THEN {"unknown_fact_path"}
  ELSE IF ~OperatorAllowed(Facts[p.path].type, p.op) THEN {"unsupported_operator"}
  ELSE IF ~ValueAllowed(Facts[p.path].type, p.op, p.value) THEN {"incompatible_value"}
  ELSE {}

(* Issues of a rule by itself; the approver may not be its proposer. *)
ValidateRuleProposal(rule, proposer, approver, allowSelfApproval) ==
  (UNION {PredicateIssue(p) : p \in Predicates(rule.when)})
  \cup {x \in {"citation_required"} : rule.citations = <<>>}
  \cup {x \in {"test_required"} : MissingTests(rule.tests) # {}}
  \cup {x \in {"test_mismatch"} : ~TestsHold(rule.when, rule.tests)}
  \cup {x \in {"self_approval_forbidden"} : proposer = approver /\ ~allowSelfApproval}

NoApprover == "nobody"

(* What the worker stores for one rule that the model drafted. *)
PolicyProposal(draft, chunks, uploader) ==
  LET citations == [i \in DOMAIN draft.citations |-> Relocate(draft.citations[i], chunks)]
      when == NormalizePolicyCondition(draft.when, citations)
      rule == [when |-> when, citations |-> citations, tests |-> BuildCanonicalRuleTests(when)]
      issues == ValidateRuleProposal(rule, uploader, NoApprover, FALSE)
                \cup {x \in {"numeric_requirement_missing"} : ~NumericRequirementCovered(when, citations)}
                \cup {x \in {"invalid_citation"} :
                        \E i \in DOMAIN citations : ~CitationHolds(citations[i], chunks)}
                \cup ConditionGrounding(when, citations)
  IN [rule |-> rule, issues |-> issues, status |-> IF issues = {} THEN "proposed" ELSE "invalid"]
=============================================================================
