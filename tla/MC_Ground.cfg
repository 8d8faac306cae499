SPECIFICATION Spec
CONSTANTS
    coin = coin
    rod = rod
    body = body
    Players <- Two
    Tiles <- Yard
    Things <- Plains
    Loot = coin
    Corpse = body
    Source <- YardSource
    Stock <- TwoStock
    Limit = 5
    MaxRecords = 3
    DecayAfter = 1
    MaxLoot = 1
    MaxTicks = 2
    MaxCorpses = 2
    MaxDrops = 1
    MaxStarts = 1
    MaxLooks = 2
INVARIANTS
    TypeOK
    DiskRestoresTheGround
PROPERTIES
    OnlyDecayLeavesGaps
    NothingIsMadeOrLost
CHECK_DEADLOCK FALSE
