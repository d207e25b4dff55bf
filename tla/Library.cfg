SPECIFICATION MCSpec
CONSTANTS
    AvlKeys = {1, 2, 3, 4, 5}
    Items = {1, 2}
    MaxHeld = 4
    MaxBuffer = 6
    UnitSize = 3
    Leaves <- MCLeaves
    MaxLeaves = 5
    MaxLayers = 3
    MaxRecalcs = 2
    Width = 7
    Targets <- MCTargets
    Addends <- MCAddends
    MaxAdds = 3
    Payloads <- MCPayloads
    MessageTypes <- MCTypes
    Commands <- MCCommands
    Contents <- MCContents
    MaxObjects = 2
INVARIANTS
    AvlIsOrderedSet
    AvlIteratesInOrder
    ContainersKeepOrder
    MessageKeepsItsParts
    MerkleRootRight
    CompactKeepsTarget
    CompactOrder
    TxRoundTrip
    TxFailureReleases
CHECK_DEADLOCK FALSE
