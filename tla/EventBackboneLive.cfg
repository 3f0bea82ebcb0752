SPECIFICATION FairSpec
CONSTANTS
    e1 = e1
    e2 = e2
    e3 = e3
    Events = {e1, e2, e3}
    Relays = {r1}
    Causes <- DecidedAfterCreated
    Unparsable = {e3}
    Unreadable = {e1}
    BatchSize = 2
    MaxPublishAttempts = 2
    RetryTiers = 1
    Prefetch = 1
    MaxSequence = 3
    MaxCrashes = 1
    MaxRefusals = 1
    MaxFaults = 2
INVARIANTS
    CausesAppliedFirst
PROPERTIES
    EveryFactSettles
    ImplementsDelivery
CHECK_DEADLOCK FALSE
