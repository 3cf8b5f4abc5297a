SPECIFICATION Spec
CONSTANTS
    prime = prime
    pool1 = pool1
    pool2 = pool2
    pool3 = pool3
    Committee = {prime, pool1, pool2}
    Prime = prime
    PoolThreshold = 2
    UseCodewords = TRUE
    MaxVaults = 1
    MaxSessions = 1
    MaxCrashes = 0
    MaxTimeouts = 0
    MaxLives = 1
    None = None
    Bits = 8
    Reduction = 27
INVARIANTS
    QuorumSuffices
CHECK_DEADLOCK FALSE
