CONSTANTS
    g = g
    a1 = a1
    b1 = b1
    b2 = b2
    Blocks <- TwoBranches
    Genesis = g
    prev_hash <- TwoPrev
    difficulty <- TwoDifficulty
    MaxNodes = 6
    BatchSize = 2
SPECIFICATION SyncSpec
PROPERTY CatchesUp
