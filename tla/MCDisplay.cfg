SPECIFICATION FairFrameSpec
CONSTANTS
    Kinds <- MCKinds
    Chunks = 3
    ReadLimit = 3
    DrainLimit = 4
    EmptyLimit = 2
    Buffer = 4
    Leftovers = 6
    MaxGlitches = 3
INVARIANT FramesWhole
PROPERTY Recovers
