SPECIFICATION Spec
CONSTANTS
    svc = svc
    route = route
    plugin = plugin
    cplugin = cplugin
    v1 = v1
    v2 = v2
    u1 = u1
    u2 = u2
    g1 = g1
    Absent = Absent
    NoCache = NoCache
    Nil = Nil
    Initial = Initial
    Partial = Partial
    Versions = {v1, v2}
    Scenarios = {"stores", "backfill", "excluding", "generator"}
INVARIANTS
    RecoverySound
    FallbackIsolates
    ExclusionSound
    BackfillSound
