SPECIFICATION Spec
CONSTANTS
    Tokens = {t1}
    u1 = u1
    Payer <- MCPayer
    Promoted = {t1}
    Hooks = {h1}
    Returns = {r1}
    Operators = {p1}
    Admins = {d1}
    Units = 2
    Postgres = TRUE
    MaxOrders = 2
    MaxByHand = 0
CHECK_DEADLOCK FALSE
INVARIANTS
    RewardsMatchStatus
