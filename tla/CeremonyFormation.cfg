SPECIFICATION Spec
CONSTANTS
    ana = ana
    bo = bo
    cy = cy
    di = di
    olga = olga
    People = {ana, bo, cy, di, olga}
    Operators = {olga}
    TTL = 1
    MaxSlots = 3
    MaxBackups = 2
    MaxCeremonies = 2
    NoOne = NoOne
    NoVault = NoVault
SYMMETRY CandidateSymmetry
INVARIANTS
    TypeOK
    SeparationOfDuties
    OnePersonOneSeat
    StatusTellsSlots
    ConsentIsBinding
PROPERTIES
    BackfillInRankOrder
    VaultFromConsent
