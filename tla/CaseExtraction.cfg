SPECIFICATION ExtractionSpec
CONSTANTS
  Documents <- MCDocuments
  Pages <- MCPages
  OcrResults <- MCOcr
  MinText = 1
  ChunkSize = 3
  Overlap = 1
  MaxDocuments = 2
  MaxChunks = 3
  Concurrency = 2
  PhaseAttempts = 2
  Extractions <- MCExtractions
  Classifications <- MCClassifications
  FieldTypes <- MCFieldTypes
  DocumentTypes = {"register", "insurance"}
  ReviewBelow = 750
  CandidatePaths <- MCCandidatePaths
  NormalForm <- MCNormalForm
  Rules <- MCRules
  RequiredDocuments <- MCRequired
  Retrievals = {"found", "abstained"}
INVARIANTS FactsAreBestSupported ReviewedWhereUnclear
PROPERTIES EveryItemIsWorkedOff
CHECK_DEADLOCK FALSE
