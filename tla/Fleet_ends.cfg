SPECIFICATION FairSpec
PROPERTY EveryFleetEnds
CONSTANTS
    Players = {"a", "b"}
    Nobody = "nobody"
    Places <- MCOnePlace
    Space = "space"
    Home <- MCOneHome
    Ships0 <- MCOneShip
    Stock0 <- MCNothing
    Procs = {w1}
    Missions = {"colonize", "expedition"}
    MaxSlots <- MCSlots
    MaxColonies = 3
    MaxLoot = 0
    MaxSalvage = 0
    Founding = 0
    Postgres = FALSE
    MaxSends = 3
    MaxFaults = 1
CHECK_DEADLOCK FALSE
