SPECIFICATION FairSpec
CONSTANTS
    N = 4
    Modes = {"serial", "superfetch", "watermark", "engine"}
    MaxPoll = 2
    Window = 2
    Buffer = 1
    MaxFaults = 2
INVARIANTS
    NothingStranded
    SlotsBalanced
PROPERTIES
    AtLeastOnce
    Drains
