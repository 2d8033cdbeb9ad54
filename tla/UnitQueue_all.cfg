SPECIFICATION Spec
CONSTANTS
    Kinds = {"yard", "barracks"}
    Unit = 2
    MaxLevel = 3
    Amounts = {1, 4}
    QueueLimit = 2
    InitialStock = 12
    Boosts = {1}
    MaxBoost = 1
    MaxOrders = 3
    Horizon = 6
INVARIANTS
    TypeOK
    UnitsAccounted
    Throughput
    NoGaps
    WholeRefundUnstarted
PROPERTIES
    TroopsKeepDue
CHECK_DEADLOCK FALSE
