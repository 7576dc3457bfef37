SPECIFICATION FairSpec
CONSTANTS
    A = A
    B = B
    Connections = {A, B}
    Hashes <- ForkHashes
    Chain <- ForkChain
    Seed <- Seeds0
    LocalSeed = 0
    MaxBlocks = 2
    StripeSize = 2
    LogStripes = 1
    TipBlocks = 1
    Genesis = Genesis
    None = None
    Bad = {"2"}
    NearBlocks = 1
    MaxSpans = 1
    MaxIds = 3
    MaxFaults = 1
INVARIANTS NotForgotten
PROPERTIES QueueSpec Downloaded Settles
