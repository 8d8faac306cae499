CONSTANTS
    Players <- One
    Sessions <- OneCharacter
    Owner <- OwnerMC
    Full = 2
    Loss = TRUE
    Pvp = TRUE
    MaxHits = 2
    MaxHeals = 1
    MaxKicks = 1
    MaxLogins = 3

SPECIFICATION Spec
INVARIANTS
    TypeOK
    SoleOwner
    ToldOnce
PROPERTIES
    DeathsAreTold
    KicksAreObeyed
    SavesCatchUp
CHECK_DEADLOCK FALSE
