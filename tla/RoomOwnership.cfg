SPECIFICATION FairSpec
CONSTANTS
    Nodes = {n1, n2}
    Clients = {c1}
    None = None
    Empty = Empty
    MaxCrashes = 1
    Scenarios = {{"publish", "stall"}, {"publish", "crash"}, {"close", "failure", "stall"}}
PROPERTIES
    RivalPublisherStops
    EdgeHeals
