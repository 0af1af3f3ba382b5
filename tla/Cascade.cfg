SPECIFICATION FairSpec
CONSTANTS
    Edges = {e1, e2}
    Producers = {p1}
    Voices = {v1}
    None = None
    MaxMade = 6
    MaxTrouble = 2
    Scenarios = {{"forward", "pair"}, {"forward", "lost", "over"}, {"forward", "leave"}, {"reverse", "lost", "over"}, {"reverse", "pair", "over"}, {"reverse", "leave"}, {"reverse", "unmute"}, {"reverse", "deaf"}}
INVARIANTS
    OnePipe
    
    NoGhostVoice
PROPERTIES
    HearsAll
    VoiceCrosses
    
CHECK_DEADLOCK FALSE
