SPECIFICATION Spec
CONSTANTS
    ash = ash
    birch = birch
    Words = {ash, birch}
    Bits = 2
    Reduction = 3
    Secrets = {0, 1, 2, 3}
    MaxTrustees = 3
    MaxTyped = 4
    None = None
SYMMETRY WordSymmetry
INVARIANTS
    TypeOK
    OrderDoesNotMatter
    QuorumOpens
    TooFewTellNothing
