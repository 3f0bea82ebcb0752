CONSTANTS
  Calls <- MCCalls
  Call <- MCCall
  File <- MCFile
  MaxDocuments = 2
  SeedFiles <- MCSeedFiles
  PageSize = 1
  MaxSends = 1
  MaxCrashes = 1
  MaxFaults = 1
  MaxEdits = 3
SPECIFICATION Spec
CHECK_DEADLOCK FALSE
INVARIANTS CasesAreSound  UntouchedAreListed
PROPERTIES DocumentsStay DecidedOnWhatWasSeen
