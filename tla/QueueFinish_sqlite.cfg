SPECIFICATION Spec
CONSTANTS
    mine = mine
    nano = nano
    NoLevels = NoLevels
    Workers = {w1}
    Pages = {p1}
    Enqueues = {e1}
    Cancels = {c1}
    Buildings = {mine, nano}
    NumJobs = 3
    BuildingOf <- MCBuildingOf
    FinishAt <- MCFinishAt
    Grace = 1
    Postgres = FALSE
    Horizon = 1
CHECK_DEADLOCK FALSE
INVARIANTS
    TypeOK
    EndsOnce
    NoLevelLost
