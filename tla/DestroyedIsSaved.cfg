SPECIFICATION Spec
CONSTANTS
    prime = prime
    pool1 = pool1
    pool2 = pool2
    Committee = {prime, pool1, pool2}
    MaxVaults = 1
    NoVault = NoVault
    NoMode = NoMode
SYMMETRY CommitteeSymmetry
INVARIANTS
    DestroyedIsSaved
