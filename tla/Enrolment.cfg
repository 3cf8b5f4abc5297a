SPECIFICATION FairSpec
CONSTANTS
    ana = ana
    bo = bo
    Trustees = {ana, bo}
    Combiner = Combiner
    MaxLaunches <- Launches
    MaxFaults = 2
    Absent = Absent
    Empty = Empty
INVARIANTS
    TypeOK
    KeyOpensEnvelopes
    PollersAreRegistered
PROPERTIES
    IdentitiesStay
    TrusteesGetToPolling
CHECK_DEADLOCK FALSE
