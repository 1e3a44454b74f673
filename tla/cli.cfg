SPECIFICATION FairSpec
CONSTANTS
    Letters <- MCLetters
    Login = "l"
    Exit = "e"
    Password <- MCPassword
    SecLevel = 2
    CliRxSize = 4
    Keystrokes <- PlainClient
    CutsKeystrokes = FALSE
    MaxInput = 3
INVARIANTS TypeOK ExecutesWhatWasTyped
PROPERTIES GateHolds CallReturns
