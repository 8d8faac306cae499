SPECIFICATION Spec
CONSTANTS
    Players = {1}
    Imported <- Pair
    Summons <- Nothing
    Kind <- NoKind
    Npcs = {}
    Tiles <- Corridor
    Rock = {}
    SpawnTile <- PairSpawnTile
    SpawnArea <- PairSpawnArea
    Interval <- PairInterval
    Cooldown <- PairCooldown
    FullHealth <- PairFullHealth
    Range = 2
    Homeless = {}
    MaxElapsed = 1
    MaxHits = 1
    MaxSaves = 1
    MaxRestarts = 1
INVARIANTS
    TypeOK
    SpawnsOutliveRestarts
PROPERTIES
    SpawnsReturn
CHECK_DEADLOCK FALSE
