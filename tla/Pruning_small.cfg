SPECIFICATION Spec
CONSTANTS
    StripeSize = 2
    LogStripes = 2
    TipBlocks = 2
    V1Txs <- EarlyTxs
    CommitCount = 2
    MaxHeight = 11
    MaxPops = 2
    MaxStops = 1
INVARIANTS ClaimsUntilPopped NothingLeftBehind NextUnprunedIsLeast OffersOnlyStored
PROPERTIES PrunedEventually
