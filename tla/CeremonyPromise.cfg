SPECIFICATION FairSpec
CONSTANTS
    ana = ana
    bo = bo
    cy = cy
    di = di
    olga = olga
    People = {ana, bo, cy, olga}
    Operators = {olga}
    TTL = 1
    MaxSlots = 2
    MaxBackups = 1
    MaxCeremonies = 2
    NoOne = NoOne
    NoVault = NoVault
PROPERTIES
    FormationIsDecided
    KeepsPromise
