SPECIFICATION FairSpec
CONSTANTS
    SecLevels <- MCLevels
    TcpTimeout = 1
    RxBuffSize = 6
    ConfigLength = 1
    Unhandled <- MCUnhandled
    Frames <- MCFrames
    MaxInput = 4
    MaxFrames = 2
INVARIANTS TypeOK
PROPERTIES ImplementsService EveryMessageIsHandled WaitEndsWithClient SilentIsDropped
