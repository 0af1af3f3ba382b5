SPECIFICATION FairSpec
CONSTANTS
    Rooms = {r1, r2}
    Speakers = {s1, s2}
    Ports = {4, 6, 8, 10}
    MaxOps = 2
    MaxChanges = 4
    MaxSegments = 3
    Window = 2
    Scenarios = {{}, {"few"}, {"upload"}, {"kick", "fail", "exit"}, {"slow", "upload"}}
INVARIANTS
    PortsAccounted
    NoOrphan
    ManifestComplete
PROPERTIES
    EncoderFollows
CHECK_DEADLOCK FALSE
