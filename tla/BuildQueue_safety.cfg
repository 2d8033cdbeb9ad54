SPECIFICATION HomeSpec
CONSTANTS
    Buildings <- MCBuildings
    Nanofactory = "nano"
    MaxLevel <- MCMaxLevel
    BaseCost <- MCBaseCost
    BaseTime <- MCBaseTime
    Requires <- MCRequires
    QueueLimit = 3
    MaxBatch = 2
    Floor = 2
    Grace = 1
    VacationMin = 1
    Postgres = TRUE
    InitialMetal = 6
    InitialTk = 2
    BoostAsks = {1, 9}
    Horizon = 4
    MaxJobs = 3
INVARIANTS
    TypeOK
    SlotSerial
    WindowFitsTarget
    WithinCaps
    QueueHoldsOpenOrders
    SlotThroughput
PROPERTIES
    ImplementsContract
