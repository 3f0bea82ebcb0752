SPECIFICATION StagesSpec
CONSTANTS
  Slugs <- MCSlugs
  StopWords = {"the", "must"}
  AutoFileConfidence = 800
  ShortText = 3
  Facts <- MCFacts
  ConflictPaths = {"conflict"}
  Comparing = {"atleast50", "matches", "expires"}
  Matching = {"matches"}
  Amounts <- MCAmounts
  Lower <- MCLower
  Malformed = {"bad path"}
  ReservedPaths = {"facts.x"}
  FieldTypes = {"string", "number", "boolean", "date", "currency", "list"}
  DocumentTypes = {"cert"}
  SimilarityFloor = 40
  NativePages <- MCNative
  OcrResults <- MCOcr
  Collections <- MCCollections
  ChunkSize <- MCChunkSize
  ChunkOverlap <- MCChunkOverlap
  Answers <- MCAnswers
  Drafts <- MCDrafts
  Candidates <- MCCandidates
  Dictionary <- MCDictionary
  Indexed <- MCIndexed
  Similarities = {30, 60}
  Uploader = "u1"
  Admins = {"u1", "u2"}
  AllowSelfApproval = FALSE
  Samples <- MCSamples
INVARIANTS ReviewableRulesHold PlainRulesReachReview EvidenceIsKept FieldsWidenTheDictionary
CHECK_DEADLOCK FALSE
