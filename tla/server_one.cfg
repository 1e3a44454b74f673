SPECIFICATION Spec
CONSTANTS
    MaxSockets = 4
    Ports <- MCPorts
    MaxConns = 3
    N = 1
    Port <- OnePort
    QueueSize = 2
    TcpTimeout <- OneTimeout
    Blocking <- FirstServer
    Careless <- NoServer
INVARIANTS TypeOK QueueCompact SessionIntact
PROPERTIES ImplementsFifo
