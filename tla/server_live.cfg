SPECIFICATION FairSpec
CONSTANTS
    MaxSockets = 2
    Ports <- MCPorts
    MaxConns = 3
    N = 1
    Port <- OnePort
    QueueSize = 1
    TcpTimeout <- OneTimeout
    Blocking <- NoServer
    Careless <- NoServer
PROPERTIES WaitingAreServed SilentAreDropped KeepsListening ImplementsFairFifo KilledIsFreed
