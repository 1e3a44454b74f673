SPECIFICATION Spec
CONSTANTS
    MaxSockets = 4
    Ports <- MCPorts
    MaxConns = 3
    N = 2
    Port <- TwoPorts
    QueueSize = 1
    TcpTimeout <- NoTimeouts
    Blocking <- FirstServer
    Careless <- NoServer
INVARIANTS SessionIntact
