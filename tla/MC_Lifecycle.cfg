CONSTANTS
    Players <- Two
    Sessions <- TwoCharacters
    Owner <- OwnerMC
    Full = 2
    Loss = TRUE
    Pvp = TRUE
    MaxHits = 3
    MaxHeals = 0
    MaxKicks = 0
    MaxLogins = 3

SPECIFICATION Spec
INVARIANTS
    ChargedOncePerDeath
PROPERTIES
    DeathsStayStored
CHECK_DEADLOCK FALSE
