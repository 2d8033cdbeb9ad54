SPECIFICATION Spec
INVARIANTS ReportedHasArrived
CONSTANTS
    Players = {"a", "b"}
    Nobody = "nobody"
    Places <- MCPlaces
    Space = "space"
    Home <- MCHome
    Ships0 <- MCShips
    Stock0 <- MCStock
    Procs = {w1, w2}
    Missions = {"colonize"}
    MaxSlots <- MCSlots
    MaxColonies = 3
    MaxLoot = 1
    MaxSalvage = 0
    Founding = 0
    Postgres = FALSE
    MaxSends = 2
    MaxFaults = 0
CHECK_DEADLOCK FALSE
