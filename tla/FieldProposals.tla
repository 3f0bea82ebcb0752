--------------------------- MODULE FieldProposals ---------------------------
(***************************************************************************)
(* Fields a policy asks the tenant to record, deduplicated by meaning:     *)
(* apps/worker/src/policy/field-proposal-pipeline.ts.                      *)
(*                                                                         *)
(* A dictionary maps the path of a field to [documentType, label, type,    *)
(* aliases]; labels and aliases are words in the form the code compares.   *)
(* A candidate is [documentType, path, label, type, aliases, citation].    *)
(* Similarity is in hundredths.                                            *)
(***************************************************************************)
EXTENDS RuleProposals

CONSTANTS
  Lower,            \* path -> the path in lower case, where that differs
  Malformed,        \* paths that are not dotted identifiers
  ReservedPaths,    \* paths in the namespaces of the rule language
  FieldTypes, DocumentTypes,
  SimilarityFloor   \* less similar fields are not put to the model

NormalizeFieldPath(path) == IF path \in DOMAIN Lower THEN Lower[path] ELSE path

(* Mutant: paths are compared letter by letter. *)
SameLetters(path, other) == path = other

SamePath(path, other) == NormalizeFieldPath(path) = NormalizeFieldPath(other)

Wording(field) == {field.label} \cup field.aliases

(* What an indexed field is embedded from. *)
Fingerprint(field) == Wording(field)

(* Mutant: the index is rebuilt from the pack. *)
RebuildIndex(index, dictionary) == [p \in DOMAIN dictionary |-> Fingerprint(dictionary[p])]

(* The index after the fields whose wording it does not hold are embedded;  *)
(* it keeps the rows of fields the pack no longer has.                      *)
SyncFieldEmbeddingIndex(index, dictionary) ==
  LET stale == {p \in DOMAIN dictionary :
                  p \notin DOMAIN index \/ index[p] # Fingerprint(dictionary[p])}
  IN [p \in DOMAIN index \cup stale |-> IF p \in stale THEN Fingerprint(dictionary[p]) ELSE index[p]]

RunDeterministicGates(candidate, dictionary, chunks) ==
  LET citation == Relocate(candidate.citation, chunks)
      path == candidate.path
      taken == \E p \in DOMAIN dictionary : SamePath(p, path)
  IN {x \in {"invalid_path"} : path \in Malformed}
     \cup {x \in {"reserved_path"} : path \in ReservedPaths}
     \cup {x \in {"path_collision"} : taken}
     \cup {x \in {"invalid_field_type"} : candidate.type \notin FieldTypes}
     \cup {x \in {"unknown_document_type"} : candidate.documentType \notin DocumentTypes}
     \cup {x \in {"ungrounded_citation"} : ~CitationHolds(citation, chunks)}
     \cup {x \in {"label_not_in_quote"} : Wording(candidate) \cap ToSet(citation.quote) = {}}

(* The field that means the same, or "none".  recalled maps the paths that  *)
(* the index search returned to their similarity; answer is the model's,    *)
(* "unavailable" when the call failed.                                      *)
ResolveDedup(candidate, recalled, answer, dictionary) ==
  LET best == IF recalled = <<>> THEN 0 ELSE Max({recalled[p] : p \in DOMAIN recalled})
      chosen == {p \in DOMAIN recalled : SamePath(p, answer)}
      existing == {p \in DOMAIN dictionary : \E q \in chosen : SamePath(p, q)}
  IN IF \/ recalled = <<>>
        \/ best < SimilarityFloor
        \/ answer \in {"unavailable", "none"}
        \/ existing = {}
        \/ \E p \in existing : dictionary[p].type # candidate.type
     THEN "none"
     ELSE CHOOSE p \in existing : TRUE

DistinctWording(candidate, field) == Wording(candidate) \ Wording(field)

(* A duplicate becomes an alias on the field it duplicates. *)
ApplyDedup(candidate, matched, dictionary) ==
  IF matched = "none"
  THEN [ kind |-> "new_field", path |-> candidate.path, documentType |-> candidate.documentType,
         label |-> candidate.label, type |-> candidate.type,
         aliases |-> candidate.aliases \ {candidate.label}, issues |-> {} ]
  ELSE LET field == dictionary[matched]
           new == DistinctWording(candidate, field)
       IN [ kind |-> "alias", path |-> matched, documentType |-> field.documentType,
            label |-> field.label, type |-> field.type, aliases |-> new,
            issues |-> {x \in {"alias_adds_nothing"} : new = {}} ]

FieldProposal(candidate, recalled, answer, dictionary, chunks) ==
  LET gate == RunDeterministicGates(candidate, dictionary, chunks)
      plain == ApplyDedup(candidate, "none", dictionary)
  IN IF gate # {} THEN [plain EXCEPT !.issues = gate]
     ELSE ApplyDedup(candidate, ResolveDedup(candidate, recalled, answer, dictionary), dictionary)
=============================================================================
