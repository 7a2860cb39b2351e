SPECIFICATION TranslationSpec
CONSTANTS
    Foci = {"plugins"}
    Malformed = {}
    HostnameSpan = 8
    PathSpan = 8
    HeaderSpan = 4
    QuerySpan = 4
    OrderSpan = 4
    ServiceSpan = 16
    MethodSpan = 16
    GRPCOrderSpan = 4
    IngressPathSpan = 4
    PreservedSpan = 32
    HeaderNumberSpan = 4
    MatchFieldsSpan = 8
    WordSpan = 1048576
INVARIANTS
    OneConsumerStopsNothing
CHECK_DEADLOCK FALSE
