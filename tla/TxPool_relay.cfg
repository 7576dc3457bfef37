CONSTANTS
    None = None
    Genesis = "g"
    KeyImage = {1, 2}
    Tx <- RelayedTx
    Block <- RelayBlock
    Inputs <- RelayInputs
    Needs <- RelayNeeds
    Weight <- RelayWeight
    ByRate <- RelayByRate
    ByHash <- RelayByRate
    Parent <- RelayParent
    Txs <- RelayTxs
    Version <- RelayVersion
    BadReward = {}
    Barred <- RelayBarred
    Cheap <- RelayBarred
    Offers <- RelayOffers
    Asked = {"b"}
    Unpaid = {}
    Lasting = {"a", "b"}
    MaxWeight = 2
    MaxBlock = 2
    Modulus = 8
    MineStem = FALSE
    MaxBatch = 1
    MaxAgain = 1
    MaxFaults = 1
SPECIFICATION FairSpec
INVARIANTS NotStranded
PROPERTIES NeverHidden Fluffed
CHECK_DEADLOCK FALSE
