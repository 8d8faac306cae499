SPECIFICATION FairSpec
CONSTANTS
    Players = {anna, bert}
    Movers = {}
    Partners = {anna, bert}
    Creatures = {}
INVARIANTS
    OutdatedShieldsArePending
PROPERTIES
    OutdatedShieldsAreReplaced
