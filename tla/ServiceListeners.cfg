SPECIFICATION Spec
CONSTANTS
    g1 = g1
    g2 = g2
    r1 = r1
    Absent = Absent
    NoGateway = NoGateway
    Gateways = {g1, g2}
    Routes = {r1}
    Scenarios <- MCScenarios
    PublishService <- MCPublishService
    Kong <- MCKong
    Grants = {}
    SecretStates <- MCSecretStates
    Chosen = {"ports"}
INVARIANTS
    ListenersFollowService
CHECK_DEADLOCK FALSE
