SPECIFICATION TranslationSpec
CONSTANTS
    Foci = {"http expressions", "http traditional", "filters", "ingress", "ingresses",
            "ingress ranks", "rewrite", "rewrites", "overrides", "stream ingresses",
            "stream routes", "merge", "grpc expressions", "grpc traditional", "upstreams",
            "policies", "certificates", "ca", "consumers", "vaults",
            "plugins", "plugin configs", "global plugins", "entities", "build", "classes"}
    Malformed = {}
    HostnameSpan = 8
    PathSpan = 8
    HeaderSpan = 4
    QuerySpan = 4
    OrderSpan = 4
    ServiceSpan = 16
    MethodSpan = 16
    GRPCOrderSpan = 4
    IngressPathSpan = 4
    PreservedSpan = 32
    HeaderNumberSpan = 4
    MatchFieldsSpan = 8
    WordSpan = 1048576
INVARIANTS
    HTTPRoutesServed
    IngressesServed
    StreamsServed
    GRPCRoutesServed
    BackendsServed
    CredentialsServed
    PluginsServed
    ContentSound
CHECK_DEADLOCK FALSE
