CONSTANTS
    g = g
    a1 = a1
    a2 = a2
    c3 = c3
    b1 = b1
    b2 = b2
    b3 = b3
    c2 = c2
    d1 = d1
    Blocks <- ForkedBlocks
    Genesis = g
    prev_hash <- ForkedPrev
    difficulty <- ForkedDifficulty
    MaxNodes = 16
SPECIFICATION Spec
INVARIANT HeirsHaveMostWork
