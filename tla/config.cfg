SPECIFICATION Spec
CONSTANTS
    Passwords <- MCPasswords
    FactoryPassword = "LWDAQ"
    Levels = {0, 1, 2}
    Numbers = {2}
    FactoryNumber = 2
    CliEdits <- SomeEdits
    LwdaqEdits <- SomeEdits
    Erased = Erased
    None = None
INVARIANTS TypeOK ChangesNeedThePassword
PROPERTY BootsWhatWasWritten
