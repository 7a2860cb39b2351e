SPECIFICATION FairSpec
CONSTANTS
    o1 = o1
    o2 = o2
    s1 = s1
    Absent = Absent
    NoSecret = NoSecret
    Objects = {o1, o2}
    Secrets = {s1}
    Scenarios <- OneController
    Broken = {2}
    ReportsEnabled = TRUE
    BufferSize = 1
    MaxChanges = 4
    MaxFaults = 1
INVARIANTS
    ReferencesExact
PROPERTIES
    CacheFollowsCluster
    CacheCatchesUp
    SecretsServed
    EventuallyReported
CHECK_DEADLOCK FALSE
