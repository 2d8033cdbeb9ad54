SPECIFICATION Spec
CONSTANTS
    a1 = a1
    a2 = a2
    a3 = a3
    a4 = a4
    b1 = b1
    procA = procA
    procB = procB
    Polls <- MCPolls
    Processes = {procA, procB}
    ProcessOf <- MCProcessOf
    TTL = 3
    MaxWait = 4
    Postgres = FALSE
    Horizon = 6
SYMMETRY MCPollSymmetry
CHECK_DEADLOCK FALSE
INVARIANTS
    LeaseExcludes
    WinnerNearby
