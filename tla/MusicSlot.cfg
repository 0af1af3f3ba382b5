SPECIFICATION FairSpec
CONSTANTS
    o = o
    a = a
    b = b
    n1 = n1
    n2 = n2
    so = so
    sa = sa
    sb = sb
    sa2 = sa2
    Users = {o, a, b}
    Owner = o
    Nobody = Nobody
    Nodes = {n1, n2}
    Sockets = {so, sa, sb}
    UserOf <- UserOfAll
    NodeOf <- NodeOfAll
    MaxPlays = 4
    MaxLosses = 2
    Scenarios = {{}, {"takeover", "update"}, {"leave", "crash", "slowplay"}}

    
    
PROPERTIES
    QueueAdvances
CHECK_DEADLOCK FALSE
