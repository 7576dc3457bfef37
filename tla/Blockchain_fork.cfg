SPECIFICATION FairSpec
CONSTANTS
    Blocks <- ForkBlocks
    Genesis = "g"
    Parent <- ForkParent
    Height <- ForkHeights
    Line <- ForkLine
    Work <- ForkWork
    Tx <- ForkTx
    Txs <- ForkTxs
    KeyImage <- ForkKeyImage
    BadHeader = {}
    BadInputs = {"v"}
    BadReward = {"d3"}
    NewPoints = {}
    MaxBatch = 1
    MayPop = FALSE
    MayDrop = FALSE
    MayRestart = TRUE
INVARIANTS MainValid NoNestedSwitch NeverBlamesValid BestKnown
PROPERTIES HeaviestWins
