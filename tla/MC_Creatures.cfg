SPECIFICATION Spec
CONSTANTS
    Players = {1, 2}
    Imported <- Lone
    Summons <- Summoned
    Kind <- LikeEleven
    Npcs = {}
    Tiles <- Corridor
    Rock = {}
    SpawnTile <- LoneSpawnTile
    SpawnArea <- LoneSpawnArea
    Interval <- LoneInterval
    Cooldown <- NoCooldown
    FullHealth <- LoneFullHealth
    Range = 2
    Homeless = {2}
    MaxElapsed = 1
    MaxHits = 1
    MaxSaves = 0
    MaxRestarts = 0
INVARIANTS
    OccupancyIsExact
    ReferencesAreLive
PROPERTIES
    ImplementsTiles
CHECK_DEADLOCK FALSE
