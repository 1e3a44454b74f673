SPECIFICATION Spec
CONSTANTS
    Letters <- MCLetters
    Login = "l"
    Exit = "e"
    Password <- MCPassword
    SecLevel = 2
    CliRxSize = 4
    Keystrokes <- EditingClient
    CutsKeystrokes = FALSE
    MaxInput = 3
INVARIANT ExecutesWhatWasTyped
