SPECIFICATION FairSpec
CONSTANTS
    svc = svc
    route = route
    v1 = v1
    v2 = v2
    uid = uid
    g1 = g1
    g2 = g2
    Absent = Absent
    NoCache = NoCache
    Nil = Nil
    Initial = Initial
    Partial = Partial
    Objects = {svc}
    Versions = {v1, v2}
    Refs <- MCRefs
    UidOf <- MCUidOf
    Rejected <- MCRejectedService
    Untranslatable <- MCUntranslatable
    Gateways = {g1}
    DBLess = TRUE
    FallbackConfiguration = TRUE
    UseLastValidConfigForFallback = FALSE
    WithKonnect = FALSE
    EnableReverseSync = FALSE
    ReportsAll = FALSE
    LostAnswers = FALSE
    Discovery = FALSE
    InitWaitSuffices = TRUE
    MaxFaults = 1
PROPERTIES
    EventuallyConfigured
