SPECIFICATION Spec
CONSTANTS
    created1 = created1
    finding1 = finding1
    finding2 = finding2
    decided1 = decided1
    again1 = again1
    c1 = c1
    r1 = r1
    low = low
    high = high
    d1 = d1
    d2 = d2
    NoFact = NoFact
    Control = Control
    Facts = {created1, finding1, decided1, again1}
    Cases = {c1}
    Rules = {r1}
    Severities = {low, high}
    Days = {d1, d2}
    KindOf <- KindByName
    CaseOf <- CaseByName
    DayOf <- DayByName
    RuleOf <- RuleByName
    SeverityOf <- SeverityByName
    Unparsable = {}
    BatchSize = 2
    RetryTiers = 1
    Overlap = FALSE
    MaxReplays = 1
    MaxCrashes = 1
    MaxFaults = 2
    MaxRefusals = 1
    MaxDiscards = 0
INVARIANTS
    CountersAreSound
CHECK_DEADLOCK FALSE
