-------------------------- MODULE MCCaseExtraction --------------------------
(* A register extract of one page, cut in two chunks, and a scanned insurance        *)
(* certificate: a name on each, a limit that a rule asks for.                        *)
EXTENDS CaseExtraction

MCDocuments == <<"register", "insurance">>
MCCandidatePaths == <<"register.name", "contract.name", "insured.name">>
MCPages ==
  << [document |-> "register", page |-> 1, words |-> <<"acme", "ltd", "berlin", "acme", "gmbh">>, pdf |-> TRUE],
     [document |-> "insurance", page |-> 1, words |-> <<>>, pdf |-> TRUE] >>
MCOcr == { [ok |-> FALSE, words |-> <<>>], [ok |-> TRUE, words |-> <<"acme", "5000">>] }

MCFieldTypes == ("register.name" :> "string") @@ ("contract.name" :> "string")
             @@ ("insured.name" :> "string") @@ ("limit" :> "currency")
acme == Text(<<"acme">>)
ltd == Text(<<"acme", "ltd">>)
gmbh == Text(<<"acme", "gmbh">>)
MCNormalForm == (acme :> "acme") @@ (ltd :> "acme") @@ (gmbh :> "gmbh")

Saw(path, value, document, quote, confidence) ==
  [path |-> path, value |-> value, document |-> document, page |-> 1, quote |-> quote,
   confidence |-> confidence]
MCExtractions(chunk) ==
  IF chunk.document = "insurance"
  THEN { <<Saw("insured.name", acme, "insurance", <<"acme">>, 900), Saw("limit", Num(5000), "insurance", <<"5000">>, 700)>>,
         <<Saw("limit", Num(5000), "insurance", <<"5000">>, 900)>> }
  ELSE { <<Saw("register.name", ltd, "register", <<"acme">>, 900)>>,
         <<Saw("register.name", gmbh, "register", <<"acme", "gmbh">>, 900), Saw("contract.name", ltd, "register", <<"acme">>, 950)>>,
         <<Saw("register.name", Num(1), "register", <<"acme">>, 990), Saw("contract.name", gmbh, "register", <<"acme">>, 800)>> }
MCClassifications(d) ==
  { [document |-> d, type |-> d, page |-> 1, quote |-> <<"acme">>, confidence |-> 900],
    IF d = "register"
    THEN [document |-> d, type |-> d, page |-> 2, quote |-> <<"acme">>, confidence |-> 900]
    ELSE [document |-> d, type |-> "invoice", page |-> 1, quote |-> <<"acme">>, confidence |-> 900] }

P(path, op, v) == [op |-> op, path |-> path, value |-> v]
MCRules ==
  { [id |-> "low", severity |-> "major", when |-> <<P("limit", "lte", Num(4999))>>],
    [id |-> "unnamed", severity |-> "minor", when |-> <<P("register.name", "exists", Bool(FALSE))>>] }
MCRequired ==
  { [id |-> "register-always", type |-> "register", severity |-> "critical", when |-> <<P("limit", "exists", Bool(TRUE)), P("limit", "exists", Bool(FALSE)), [op |-> "any", of |-> {1, 2}]>>] }
=============================================================================
