SPECIFICATION BlockFairSpec
CONSTANTS
    n1 = n1
    n2 = n2
    a = a
    Nodes = {n1, n2}
    Home = n1
    UserSockets = {a}
    NodeOf <- OnFirst
    None = None
    MaxEvents = 2
    BlockScenarios = {{}, {"single", "audio"}, {"single", "queue"}, {"crash", "single", "queue"}, {"single", "audio", "slowjoin", "slowproduce"}}
INVARIANTS
    EmittedOnce
PROPERTIES
    
    BlockedIsOut
CHECK_DEADLOCK FALSE
