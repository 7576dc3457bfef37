CONSTANTS
    None = None
    Genesis = "g"
    KeyImage = {1, 2}
    Tx <- SmallTx
    Block <- SmallBlock
    Inputs <- SmallInputs
    Needs <- SmallNeeds
    Weight <- SmallWeight
    ByRate <- SmallByRate
    ByHash <- SmallByHash
    Parent <- SmallParent
    Txs <- SmallTxs
    Version <- SmallVersion
    BadReward = {}
    Barred <- SmallBarred
    Cheap <- SmallCheap
    Offers <- SmallOffers
    Asked = {"b"}
    Unpaid = {{}, {"b"}}
    Lasting = {}
    MaxWeight = 2
    MaxBlock = 2
    Modulus = 8
    MineStem = FALSE
    MaxBatch = 2
    MaxAgain = 0
    MaxFaults = 1
SPECIFICATION Spec
INVARIANTS IndexesAgree NotMinedAndPooled TemplateSound Restartable
CHECK_DEADLOCK FALSE
