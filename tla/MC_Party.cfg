SPECIFICATION Spec
CONSTANTS
    Players <- MCPlayers
    NoPlayer = NoPlayer
    Fighters <- MCFighters
    MaxFlushes = 1
INVARIANTS
    TypeOK
    PartyMapsAgree
    FlushNeverKillsHeartbeat
    StoredRowsAreFlat
PROPERTIES
    PartyStaysTogether
