SPECIFICATION FairSpec
CONSTANTS
    Nodes = {n1, n2}
    n1 = n1
    n2 = n2
    Home = n1
    Sockets = {a}
    None = None
    Idle = 4
    Grace = 1
    MaxPosts = 1
    Scenarios = {{"affinity", "crash"}, {"affinity", "loss"}}
INVARIANTS
    OwnRoomHasState

    
    
