SPECIFICATION FairSpec
CONSTANTS
    TxSlots = 3
    RxSlots = 5
    MaxPayload = 2
    MaxRetries = 1
    WindowMod = 16
    PeerBuffer = 2
    Loads <- MCLoads
    MaxFlight = 2

INVARIANTS TypeOK
PROPERTIES TxIsStream RxIsStream UnansweredIsGivenUp PeerIsTold
CHECK_DEADLOCK FALSE
