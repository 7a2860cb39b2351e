SPECIFICATION FairSpec
CONSTANTS
    g1 = g1
    g2 = g2
    r1 = r1
    Absent = Absent
    NoGateway = NoGateway
    Gateways = {g1, g2}
    Routes = {r1}
    Scenarios <- MCScenarios
    PublishService <- MCPublishService
    Kong <- MCKong
    Grants = {}
    SecretStates <- MCSecretStates
    Chosen = {"quiet", "edited", "lifecycle", "two parents", "listening", "late", "empty", "only", "not ours", "managed", "GRPCRoute", "TLSRoute", "TCPRoute", "UDPRoute", "broken", "clock", "ports", "certificates"}
INVARIANTS
    RoutesServed
    StatusTold
    ListenersReported
    GatewaysServed

    
CHECK_DEADLOCK FALSE
