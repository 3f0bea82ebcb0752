---------------------------- MODULE PolicyFiling ----------------------------
(***************************************************************************)
(* Reading a policy and filing it into a collection of the tenant:         *)
(* extractPolicyPages of policy-pipeline.ts and                            *)
(* apps/worker/src/policy/collection-classification.ts.                    *)
(*                                                                         *)
(* A collection is [id, label, terms]: terms are the content words of its  *)
(* label and description.  Confidence is in thousandths.  A classifier's   *)
(* answer is [decision, named, confidence, quote, page].                   *)
(***************************************************************************)
EXTENDS Integers, Lists

CONSTANTS
  Slugs,              \* name -> the collection id it slugs to
  StopWords,          \* words too short or too common to count
  AutoFileConfidence, \* at or above this a match may be filed
  ShortText           \* fewer words than this on a page call for OCR

Slug(name) == IF name \in DOMAIN Slugs THEN Slugs[name] ELSE name

PageWords(page) == FlattenSeq(page.paragraphs)

(* The text provider's page, unless it is nearly empty and OCR reads more;  *)
(* an OCR failure leaves the page as it is.                                 *)
ExtractPage(native, ocr) ==
  IF /\ Len(PageWords(native)) < ShortText
     /\ ocr.ok
     /\ Len(PageWords(ocr)) > Len(PageWords(native))
  THEN [page |-> native.page, paragraphs |-> ocr.paragraphs]
  ELSE [page |-> native.page, paragraphs |-> native.paragraphs]

-----------------------------------------------------------------------------
(* The lexical reading. *)

ContentTerms(words) == ToSet(words) \ StopWords

DocumentTerms(pages) == UNION {ContentTerms(PageWords(pages[i])) : i \in DOMAIN pages}

Hits(pages, collection) == Cardinality(collection.terms \cap DocumentTerms(pages))

(* The collection that shares the most words, the tenant's first of several. *)
Leader(pages, collections) ==
  Min({i \in DOMAIN collections :
         \A k \in DOMAIN collections : Hits(pages, collections[k]) <= Hits(pages, collections[i])})

(* The most words that any other shares. *)
RunnerUp(pages, collections) ==
  Max({0} \cup {Hits(pages, collections[k]) : k \in DOMAIN collections \ {Leader(pages, collections)}})

(* Mutant: a tie is won by the collection listed first. *)
FirstOfTie(pages, collections) ==
  LET first == Leader(pages, collections)
  IN IF collections = <<>> \/ Hits(pages, collections[first]) < 2 THEN "none" ELSE collections[first].id

LexicalCorroboration(pages, collections) ==
  LET first == Leader(pages, collections)
      best == Hits(pages, collections[first])
  IN IF collections = <<>> \/ best < 2 \/ best <= RunnerUp(pages, collections)
     THEN "none"
     ELSE collections[first].id

(* The first sentence (here a paragraph) with a wanted word, or the first. *)
Evidence(pages, wanted) ==
  LET at == {<<i, k>> : i \in DOMAIN pages, k \in UNION {DOMAIN pages[n].paragraphs : n \in DOMAIN pages}}
      filled == {x \in at : /\ x[2] \in DOMAIN pages[x[1]].paragraphs
                            /\ pages[x[1]].paragraphs[x[2]] # <<>>}
      with == {x \in filled : ContentTerms(pages[x[1]].paragraphs[x[2]]) \cap wanted # {}}
      chosen == IF with = {} THEN filled ELSE with
      first == CHOOSE x \in chosen : \A y \in chosen : x[1] < y[1] \/ (x[1] = y[1] /\ x[2] <= y[2])
  IN [quote |-> pages[first[1]].paragraphs[first[2]], page |-> pages[first[1]].page]

(* What the lexical classifier may answer: nothing without a collection. *)
LexicalAnswers(pages, collections) ==
  LET first == Leader(pages, collections)
      best == Hits(pages, collections[first])
      ahead == best > RunnerUp(pages, collections)
      evidence == Evidence(pages, collections[first].terms \cap DocumentTerms(pages))
  IN IF collections = <<>> THEN {}
     ELSE {[ decision |-> "existing", named |-> collections[first].id,
             confidence |-> IF ahead THEN Min({1000, best * 250}) ELSE Min({500, best * 125}),
             quote |-> evidence.quote, page |-> evidence.page ]}

-----------------------------------------------------------------------------
(* What happens to the policy. *)

QuoteIn(page, quote) ==
  LET words == PageWords(page)
  IN quote # <<>> /\ \E i \in 0..(Len(words) - Len(quote)) :
                       SubSeq(words, i + 1, i + Len(quote)) = quote

(* The page a quote is on: the cited one if it is there, else the first     *)
(* that has it; 0 when none has.                                            *)
LocateQuote(answer, pages) ==
  LET on == {i \in DOMAIN pages : QuoteIn(pages[i], answer.quote)}
  IN CASE on = {} -> 0
       [] \E i \in on : pages[i].page = answer.page -> answer.page
       [] OTHER -> pages[Min(on)].page

(* An id, then what the name slugs to, then a label; from the list only. *)
ResolveCollection(named, collections) ==
  LET Named(k, value) == {i \in DOMAIN collections : collections[i][k] = value}
      ways == <<Named("id", named), Named("id", Slug(named)), Named("label", named)>>
      found == {w \in 1..3 : ways[w] # {}}
  IN IF found = {} THEN "none" ELSE collections[Min(ways[Min(found)])].id

(* The lexical classifier is its own independent reading. *)
IndependentReading(classifier, picked, pages, collections) ==
  IF classifier = "lexical" THEN picked ELSE LexicalCorroboration(pages, collections)

SettleExisting(classifier, answer, pages, collections) ==
  LET picked == ResolveCollection(answer.named, collections)
  IN {x \in {"quote_not_found"} : LocateQuote(answer, pages) = 0}
     \cup {x \in {"no_match"} : picked = "none"}
     \cup {x \in {"low_confidence"} : answer.confidence < AutoFileConfidence}
     \cup {x \in {"not_corroborated"} :
             /\ picked # "none"
             /\ IndependentReading(classifier, picked, pages, collections) # picked}

(* A collection the tenant has that a proposed name comes close to; likeness *)
(* of the embedded labels is any of the tenant's collections or none.       *)
NearestCollection(label, alike, collections) ==
  LET same == {i \in DOMAIN collections : collections[i].id = Slug(label) \/ collections[i].label = label}
  IN IF same # {} THEN collections[Min(same)].id ELSE alike

(* filed is the collection's id, or "none": the policy waits. *)
SettleCollectionClassification(classifier, answer, alike, pages, collections) ==
  IF answer.decision = "existing"
  THEN LET reasons == SettleExisting(classifier, answer, pages, collections)
       IN [ reasons |-> reasons, nearest |-> "none", page |-> LocateQuote(answer, pages),
            filed |-> IF reasons = {} THEN ResolveCollection(answer.named, collections) ELSE "none" ]
  ELSE LET nearest == IF answer.named = "" THEN "none"
                      ELSE NearestCollection(answer.named, alike, collections)
       IN [ reasons |-> {"new_collection"}
                        \cup {x \in {"quote_not_found"} : LocateQuote(answer, pages) = 0}
                        \cup {x \in {"no_match"} : answer.named = ""}
                        \cup {x \in {"near_duplicate"} : nearest # "none"},
            nearest |-> nearest, page |-> LocateQuote(answer, pages), filed |-> "none" ]
=============================================================================
