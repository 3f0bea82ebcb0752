SPECIFICATION FairSpec
CONSTANTS
    created1 = created1
    finding1 = finding1
    finding2 = finding2
    decided1 = decided1
    again1 = again1
    c1 = c1
    r1 = r1
    low = low
    high = high
    d1 = d1
    d2 = d2
    NoFact = NoFact
    Control = Control
    Facts = {created1, finding1, decided1, again1}
    Cases = {c1}
    Rules = {r1}
    Severities = {low, high}
    Days = {d1, d2}
    KindOf <- KindByName
    CaseOf <- CaseByName
    DayOf <- DayByName
    RuleOf <- RuleByName
    SeverityOf <- SeverityByName
    Unparsable = {finding1}
    BatchSize = 1
    RetryTiers = 1
    Overlap = FALSE
    MaxReplays = 2
    MaxCrashes = 1
    MaxFaults = 0
    MaxRefusals = 0
    MaxDiscards = 1
INVARIANTS
    ReadModelIsDerived
    
CHECK_DEADLOCK FALSE
PROPERTIES
    RebuildCompletes
