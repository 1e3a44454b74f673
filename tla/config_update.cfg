SPECIFICATION Spec
CONSTANTS
    Passwords <- MCPasswords
    FactoryPassword = "LWDAQ"
    Levels = {0, 1, 2}
    Numbers = {2}
    FactoryNumber = 2
    CliEdits <- LevelEdits
    LwdaqEdits <- PasswordEdits
    Erased = Erased
    None = None
INVARIANT UpdatesNamedFields
