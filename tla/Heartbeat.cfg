SPECIFICATION FairSpec
CONSTANTS
    ana = ana
    bo = bo
    Trustees = {ana, bo}
    Timeout = 1
    MaxHandlers = 1
    None = None
INVARIANTS
    TypeOK
    CardsAreTruthful
PROPERTIES
    SilenceIsShown
    RunningIsShown
