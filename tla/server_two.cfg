SPECIFICATION Spec
CONSTANTS
    MaxSockets = 4
    Ports <- MCPorts
    MaxConns = 2
    N = 2
    Port <- TwoPorts
    QueueSize = 1
    TcpTimeout <- TwoTimeouts
    Blocking <- FirstServer
    Careless <- FirstServer
INVARIANTS HeldAreOpen HeldOnce SessionKept
