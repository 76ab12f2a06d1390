\* One process beside the gateway, two requests at once; periods shrunk in their order.
SPECIFICATION Spec
CONSTANTS
    r1 = r1
    r2 = r2
    Providers = {"user-1"}
    Requests = {r1, r2}
    None = None
    Names = {"user-service"}
    HeartbeatInterval = 2
    FailureThreshold = 2
    SuccessThreshold = 2
    ResetTimeout = 2
    Timeout = 2
    ClientTimeout = 1
SYMMETRY Symmetric
INVARIANT RegistryIsSound
PROPERTIES CallsReachTheLiving BreakerMovesForAReason
