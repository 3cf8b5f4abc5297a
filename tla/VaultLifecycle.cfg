SPECIFICATION Spec
CONSTANTS
    prime = prime
    pool1 = pool1
    pool2 = pool2
    Committee = {prime, pool1, pool2}
    MaxVaults = 3
    NoVault = NoVault
    NoMode = NoMode
SYMMETRY CommitteeSymmetry
INVARIANTS
    TypeOK
    VaultIsComplete
    AnsweredIsDurable
    NoPlaintextLeft
PROPERTIES
    NothingHalfDestroyed
    VaultIsForever
