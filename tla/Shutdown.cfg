SPECIFICATION ShutdownFairSpec
CONSTANTS
    Gifts = {g1, g2}
    Home = n1
    Nodes = {n1, n2}
    None = None
    BatchSize = 2
    MaxRetries = 2
    MaxExits = 1
    Scenarios = {{"fail"}, {"fail", "lost"}, {"rooms"}, {"rooms", "drain"}, {"crash", "slow"}}
    MaxDrains = 3
    MaxRooms = 2
    MaxFailures = 2
INVARIANTS
    FailureIsTrue
    NoGiftLost
    CancelHolds
PROPERTIES
    GiftsSettle
CHECK_DEADLOCK FALSE
