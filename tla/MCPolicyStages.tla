--------------------------- MODULE MCPolicyStages ---------------------------
(* A two-page policy, the second page scanned; two collections; every       *)
(* condition of at most two predicates over five facts of each type.        *)
EXTENDS PolicyStages

MCNative ==
  << [page |-> 1, paragraphs |-> << <<"the", "coverage", "must", "atleast50", "insured">>,
                                    <<"holder", "matches", "expires">> >>],
     [page |-> 2, paragraphs |-> <<>>] >>
MCOcr == { [ok |-> FALSE, paragraphs |-> <<>>],
           [ok |-> TRUE, paragraphs |-> << <<"insured", "liability">> >>] }
MCSlugs == [x \in {"Cover"} |-> "cover"]
MCCollections ==
  << [id |-> "cover", label |-> "Cover", terms |-> {"coverage", "insured", "liability", "atleast50"}],
     [id |-> "people", label |-> "Parties", terms |-> {"holder", "matches", "expires"}] >>
MCChunkSize == [c \in {"cover", "people"} |-> IF c = "cover" THEN 4 ELSE 3]
MCChunkOverlap == [c \in {"cover", "people"} |-> IF c = "cover" THEN 2 ELSE 5]

MCQuotes == { <<"coverage", "must", "atleast50">>, <<"holder", "matches", "expires">>,
              <<"coverage", "must", "atleast50", "insured">>, <<"insured">>,
              <<"the", "coverage">>, <<"holder", "must">> }
MCAnswers ==
  [decision : {"existing"}, named : {"cover", "Cover", "Parties", "other", ""},
   confidence : {700, 900}, quote : MCQuotes, page : 1..3]
  \cup [decision : {"new"}, named : {"", "Cover", "Travel"}, confidence : {900},
        quote : MCQuotes, page : {1}]

Fact(type, terms) == [type |-> type, terms |-> terms]
MCFacts ==
  ("coverage" :> Fact("currency", {"coverage"})) @@ ("insured" :> Fact("boolean", {"insured"}))
  @@ ("expires" :> Fact("date", {"expires"})) @@ ("holder" :> Fact("string", {"holder"}))
  @@ ("conflict" :> Fact("boolean", {"matches", "holder"})) @@ ("perils" :> Fact("list", {"insured"}))
MCAmounts == "atleast50" :> 5000

P(path, op, v) == [op |-> op, path |-> path, value |-> v]
acme == <<"acme">>
MCPredicates ==
  { P("coverage", "exists", Bool(TRUE)), P("coverage", "exists", Bool(FALSE)),
    P("coverage", "lte", Num(4999)), P("coverage", "gte", Num(5000)), P("coverage", "eq", Num(5000)),
    P("coverage", "in", List(<<Num(5000), Num(6000)>>)), P("coverage", "lte", Text(acme)),
    P("insured", "exists", Bool(TRUE)), P("insured", "eq", Bool(TRUE)), P("insured", "neq", Bool(TRUE)),
    P("expires", "before", Date(10)), P("expires", "after", Date(10)), P("expires", "gte", Num(1)),
    P("holder", "eq", Text(acme)), P("holder", "contains", Text(acme)), P("holder", "in", List(<<Text(acme)>>)),
    P("holder", "contains", Text(<<>>)), P("holder", "exists", Bool(FALSE)),
    P("conflict", "exists", Bool(TRUE)), P("perils", "contains", Num(100)), P("colour", "eq", Text(acme)) }
MCConditions ==
  {<<p>> : p \in MCPredicates}
  \cup {<<p, [op |-> "not", of |-> {1}]>> : p \in MCPredicates}
  \cup {<<p, q, [op |-> o, of |-> {1, 2}]>> : o \in {"all", "any"}, p, q \in MCPredicates}
MCCite(page, quote) == [chunk |-> 1, page |-> page, quote |-> quote]
MCCitations ==
  {<<MCCite(p, q)>> : p \in {1, 2}, q \in MCQuotes}
  \cup {<<MCCite(1, <<"the", "coverage">>), MCCite(1, <<"insured">>)>>}
MCDrafts == [when : MCConditions, citations : MCCitations]

MCSamples ==
  ("coverage" :> {Num(4999), Num(5000), Num(7000)}) @@ ("insured" :> {Bool(TRUE), Bool(FALSE)})
  @@ ("expires" :> {Date(9), Date(10), Date(11)}) @@ ("holder" :> {Text(acme), Text(<<"other">>)})
  @@ ("conflict" :> {Bool(TRUE), Bool(FALSE)}) @@ ("perils" :> {List(<<Num(100)>>), List(<<>>)})

Field(doc, label, type, aliases) ==
  [documentType |-> doc, label |-> label, type |-> type, aliases |-> aliases]
MCDictionary == ("a.limit" :> Field("cert", "coverage", "currency", {"limit"}))
             @@ ("a.from" :> Field("cert", "expires", "date", {}))
MCIndexed == ("a.limit" :> {"coverage"}) @@ ("a.gone" :> {"holder"})
MCLower == "a.Limit" :> "a.limit"
MCCandidates ==
  { [documentType |-> d, path |-> p, label |-> l, type |-> t, aliases |-> {"limit"}, citation |-> MCCite(1, q)] :
      d \in {"cert", "letter"}, p \in {"b.sum", "a.Limit", "bad path", "facts.x"},
      l \in {"coverage", "expires"}, t \in {"currency", "date", "colour"},
      q \in {<<"coverage", "must">>, <<"expires">>, <<"holder", "must">>} }
=============================================================================
