SPECIFICATION FairSpec
CONSTANTS
    Players = {anna, bert}
    Movers = {bert}
    Partners = {}
    Creatures = {}
INVARIANTS
    TypeOK
    StaleViewsArePending
PROPERTIES
    WatchersAreRedrawn
