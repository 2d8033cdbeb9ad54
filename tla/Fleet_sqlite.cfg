SPECIFICATION Spec
INVARIANTS TypeOK ShipsConserved CargoConserved EffectOnce SlotsRespected TerritoryAddsUp
PROPERTY OnlyOnward
CONSTANTS
    Players = {"a", "b"}
    Nobody = "nobody"
    Places <- MCPlaces
    Space = "space"
    Home <- MCHome
    Ships0 <- MCShips
    Stock0 <- MCStock
    Procs = {w1, w2}
    Missions = {"transport", "collect", "deploy", "attack", "hold", "expedition", "colonize"}
    MaxSlots <- MCSlots
    MaxColonies = 3
    MaxLoot = 1
    MaxSalvage = 1
    Founding = 1
    Postgres = FALSE
    MaxSends = 2
    MaxFaults = 1
SYMMETRY MCSymmetry
CHECK_DEADLOCK FALSE
