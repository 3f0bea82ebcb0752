SPECIFICATION Spec
CONSTANTS
    e1 = e1
    e2 = e2
    e3 = e3
    Events = {e1, e2}
    Relays = {r1, r2}
    Causes <- DecidedAfterCreated
    Unparsable = {}
    Unreadable = {}
    BatchSize = 2
    MaxPublishAttempts = 2
    RetryTiers = 1
    Prefetch = 1
    MaxSequence = 2
    MaxCrashes = 1
    MaxRefusals = 2
    MaxFaults = 2
SYMMETRY RelaySymmetry
INVARIANTS
    IInv
    NoStampedEventLost
    DeadLetteredWhenSpent
CHECK_DEADLOCK FALSE
