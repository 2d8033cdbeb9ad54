SPECIFICATION Spec
CONSTANTS
    Tokens = {t1, t2}
    u1 = u1
    Payer <- MCPayer
    Promoted = {t1}
    Hooks = {h1, h2}
    Returns = {r1}
    Operators = {p1}
    Admins = {d1}
    Units = 2
    Postgres = FALSE
    MaxOrders = 2
    MaxByHand = 1
SYMMETRY MCShopSymmetry
CHECK_DEADLOCK FALSE
INVARIANTS
    TypeOK
    RewardsMatchStatus
    DeliveredIsCaptured
    OneOrderPerPayment
    CommissionPaidOnce
