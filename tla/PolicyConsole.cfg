SPECIFICATION ConsoleSpec
CONSTANTS
    p1 = p1
    p2 = p2
    w1 = w1
    w2 = w2
    Policies = {p1, p2}
    Rivals = {p2}
    Regenerated = {}
    Workers = {w1, w2}
    Nobody = Nobody
    MaxAttempts = 1
    MaxDrafts = 2
    MaxRequests = 4
    MaxFaults = 1
    ta = ta
    tb = tb
    c1 = c1
    c2 = c2
    fa = fa
    fb = fb
    Tenants = {ta, tb}
    Collections = {c1, c2}
    Classify = Classify
    NewCollection = NewCollection
    NoOne = NoOne
    Proposed <- FieldsOf
    Declared <- CollectionsOf
    MaxSwitches = 2
    MaxAsked = 1
    f1 = f1
    f2 = f2
    a1 = a1
    Findings = {f1, f2}
    Facts = {a1}
    MaxClicks = 3
    MaxOthers = 1
    pa = pa
    pb = pb
    ja = ja
    jb = jb
    jc = jc
    Profiles = {pa, pb}
    FeedJobs <- JobsOf
    Window = 1
    MaxUpdates = 3
    MaxProfileSwitches = 1
    admin = admin
    reviewer = reviewer
    Grants = {admin, reviewer}
    NoRole = NoRole
    Lifetime = 3
    Margin = 1
    ReturnsIdToken = TRUE
    Horizon = 4
    MaxSignIns = 2
    MaxOpen = 2
INVARIANTS
    PoliciesAreSound
    KeepsToItsWorkspace
    
    DecidedOncePerVersion
    OneFaithfulFeed
    LostRolesExpire
PROPERTIES
    FiledOnce
SYMMETRY WorkerSymmetry
CHECK_DEADLOCK FALSE
