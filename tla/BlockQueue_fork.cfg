SPECIFICATION Spec
CONSTANTS
    A = A
    B = B
    Connections = {A, B}
    Hashes <- ForkHashes
    Chain <- ForkChain
    Seed <- ForkSeeds
    LocalSeed <- OwnSeed
    MaxBlocks = 2
    StripeSize = 2
    LogStripes = 1
    TipBlocks = 1
INVARIANTS NoLeakedRequest HaveIsFilled NextNeededSound ReservedIsDownloadable
