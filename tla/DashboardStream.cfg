SPECIFICATION FairSpec
CONSTANTS
    ana = ana
    bo = bo
    Trustees = {ana, bo}
    Quorum = 2
    MaxSessions = 2
    MaxHandlers = 2
    MaxQueue = 1
    None = None
INVARIANTS
    TypeOK
    SettledIsTruthful
PROPERTIES
    VaultShowsUp
