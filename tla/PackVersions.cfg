SPECIFICATION FairSpec
CONSTANTS
    p1 = p1
    p2 = p2
    c1 = c1
    a1 = a1
    a2 = a2
    old = old
    new = new
    compiled = compiled
    added = added
    Admins = {a1, a2}
    Proposals = {p1, p2}
    NewFields = {p1}
    Collections = {c1}
    Elements = {p1, p2, c1, compiled, added}
    ElementOf <- Additions
    FieldOf <- AliasFields
    Tasks <- OwnTasks
    Releases = {old, new}
    ReleaseVersion <- VersionOf
    ReleaseContent <- ContentOf
    Majors = {1}
    MaxMinor = 6
    MaxCrashes = 1
    MaxRederivations = 1
INVARIANTS
    AtMostOneActive
    
PROPERTIES
    VersionsNeverRewritten
    NeverBackwards
    ApprovalsSettle
CHECK_DEADLOCK FALSE
