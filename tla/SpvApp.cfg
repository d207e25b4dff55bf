CONSTANTS
    g = g
    a1 = a1
    a2 = a2
    a3 = a3
    b2 = b2
    b3 = b3
    Blocks <- LineBlocks
    Genesis = g
    prev_hash <- LinePrev
    difficulty <- LineDifficulty
    MaxNodes = 10
    limits = 2
    MaxRestarts = 2
SPECIFICATION AppSpec
INVARIANT StoreCoversHeirs
PROPERTIES
    ReloadLosesLessThanAPage
    LoadEnds
