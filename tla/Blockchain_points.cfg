SPECIFICATION Spec
CONSTANTS
    Blocks <- LongBlocks
    Genesis = "g"
    Parent <- LongParent
    Height <- LongHeights
    Line <- LongLine
    Work <- LongHeights
    Tx <- LongTx
    Txs <- LongTxs
    KeyImage <- LongKeyImage
    BadHeader = {"c3"}
    BadInputs = {}
    BadReward = {}
    NewPoints = {"a3", "b3", "b4"}
    MaxBatch = 2
    MayPop = TRUE
    MayDrop = TRUE
    MayRestart = TRUE
INVARIANTS RestoreSucceeds KnownOnce PointsEnforced
