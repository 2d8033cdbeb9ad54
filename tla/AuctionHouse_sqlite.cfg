SPECIFICATION Spec
CONSTANTS
    ann = ann
    bob = bob
    a1 = a1
    a2 = a2
    b1 = b1
    x = x
    y = y
    z = z
    Players = {ann, bob}
    Planets = {a1, a2, b1}
    OwnerOf <- MCOwnerOf
    NoOne = NoOne
    Funds <- MCFunds
    page = page
    poll = poll
    Pages = {page, poll}
    Requests = {x, y, z}
    Copies <- MCCopies
    SenderOf <- MCSenderOf
    ListingOf <- MCListingOf
    Offers <- MCOffers
    ActiveTarget = 1
    MaxBids = 2
    StartPrice = 1
    Durations = {1}
    Postgres = FALSE
    Horizon = 1
    MaxListings = 3
SYMMETRY MCSymmetry
CHECK_DEADLOCK FALSE
INVARIANTS
    TypeOK
    StakesConserved
    BoxForLeader
    HighestBidLeads
    RequestBidsOnce
    TargetKept
