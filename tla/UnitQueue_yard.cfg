SPECIFICATION Spec
CONSTANTS
    Kinds = {"yard"}
    Unit = 2
    MaxLevel = 1
    Amounts = {1, 3}
    QueueLimit = 2
    InitialStock = 10
    Boosts = {1}
    MaxBoost = 0
    MaxOrders = 2
    Horizon = 6
PROPERTIES
    AllKeepDue
CHECK_DEADLOCK FALSE
