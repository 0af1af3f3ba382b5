SPECIFICATION MediaFairSpec
CONSTANTS
    Size = 3
    MaxDeaths = 2
    Attempts = 2
    Users = {u1, u2}
    Producers = {1, 2}
    Listeners = {l1, l2}
    Routers = {1, 2}
    Cap = 1
    None = None
    MaxTrouble = 2
    Scenarios = {{"fail"}, {"remove"}, {"close"}, {"death"}}
INVARIANTS
    EveryoneHears
    
PROPERTIES
    ListenerGetsIn
    
CHECK_DEADLOCK FALSE
