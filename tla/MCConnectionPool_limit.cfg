SPECIFICATION CPSpec
CONSTANTS
    k1 = k1
    k2 = k2
    c1 = c1
    c2 = c2
    Callers <- TwoCallers
    Conns <- TwoConns
    MaxConnectionsPerHost = 1
    MaxReconnectAttempts = 1
    CircuitBreakerThreshold = 2
    SuccessesToClose = 2
CHECK_DEADLOCK FALSE
INVARIANT HostBound
