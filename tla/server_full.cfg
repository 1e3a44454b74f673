SPECIFICATION Spec
CONSTANTS
    MaxSockets = 4
    Ports <- MCPorts
    MaxConns = 3
    N = 2
    Port <- SecondDisabled
    QueueSize = 1
    TcpTimeout <- FirstTimeout
    Blocking <- NoServer
    Careless <- NoServer
INVARIANTS NoLeak KilledIsClosing FinMeansPeerClosed NoStaleInput
PROPERTIES OnlyTheHolderCloses
