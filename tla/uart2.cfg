SPECIFICATION FairSpec
CONSTANTS
    TxSize = 4
    RxSize = 3
    FifoDepth = 2
    BootText = 2
    MaxWrites = 5
    MaxArrivals = 5
INVARIANTS TypeOK NoLostWakeup
PROPERTIES FlushMeansSent TxIsChannel RxIsChannel CallsReturn
