SPECIFICATION FairSpec
CONSTANTS
    k1 = k1
    k2 = k2
    w1 = w1
    w2 = w2
    Keys = {k1}
    Intake = k1
    Reprocess = {}
    Clients = {c1}
    Workers = {w1}
    Nobody = Nobody
    MaxAttempts = 2
    MaxEdits = 1
    MaxRequests = 1
    MaxFaults = 1
PROPERTIES
    JobsSettle
CHECK_DEADLOCK FALSE
