SPECIFICATION FairSpec
CONSTANTS
    pbkdf2_vault = pbkdf2_vault
    argon2_vault = argon2_vault
    Vaults = {pbkdf2_vault, argon2_vault}
    Recoverable = {pbkdf2_vault}
    MaxStarts = 3
    MaxLines = 1
    None = None
INVARIANTS
    TypeOK
    ButtonIsTruthful
    LogIsComplete
PROPERTIES
    EveryRunIsTold
CHECK_DEADLOCK FALSE
