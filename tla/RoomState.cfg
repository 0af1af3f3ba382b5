SPECIFICATION FairSpec
CONSTANTS
    Sockets = {a, b}
    SeatCounts = {20}
    DefaultSeats = 15
    MaxCount = 4
    Up = 2
    Down = 1
    DemoteGrace = 1
    Scenarios = {{"mode", "relay"}, {"refetch", "close", "transfer"}}
    Gone = Gone
PROPERTIES
    ModeConverges
    DemoteDamped
    CountHeals
