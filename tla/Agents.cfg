SPECIFICATION FairSpec
CONSTANTS
    h1 = h1
    self = self
    other = other
    own = own
    old = old
    older = older
    c1 = c1
    c2 = c2
    x1 = x1
    x2 = x2
    y1 = y1
    Absent = Absent
    Parts = {"nodes", "backoff", "agent", "license", "crds"}
    Hosts = {h1}
    OtherIDs = {old, older}
    Statuses = {"OK", "ApplyFailed"}
    Hashes = {x1, x2, y1}
    Faulty = {y1}
    MaxInterval = 4
    RetryAfters = {0, 3}
    Names = {1, 2}
    maxConditionNum = 3
    MayDisable = FALSE
    CRDs = {c1, c2}
    MaxTime = 1
    MaxChanges = 3
    MaxFaults = 1
INVARIANTS
    SetUpOnce
PROPERTIES
    EventuallyInOrder
    PushesSettle
    LicensesArrive
    EventuallySetUp
CHECK_DEADLOCK FALSE
