SPECIFICATION FairSpec
CONSTANTS
    Buildings <- MCBuildings
    Nanofactory = "nano"
    MaxLevel <- MCMaxLevel
    BaseCost <- MCBaseCost
    BaseTime <- MCBaseTime
    Requires <- MCRequires
    QueueLimit = 2
    MaxBatch = 1
    Floor = 2
    Grace = 1
    VacationMin = 1
    Postgres = FALSE
    InitialMetal = 5
    InitialTk = 0
    BoostAsks = {}
    Horizon = 4
    MaxJobs = 2
INVARIANTS
    QueueHoldsOpenOrders
PROPERTIES
    FrozenOnVacation
    DueIsDelivered
