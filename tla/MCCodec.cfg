CONSTANTS
    PubkeySize = 1
    AddrSize = 1
    SigSize = 1
    HashSize = 1
    NonceExtraSize = 1
    NumAncestors = 2
    CommitSize = 1
    U128Size = 3
    MaxVarintLen = 3
    MaxMergeMined = 3
    MaxSideBlocks = 2
    MaxTxPerBlock = 2
SPECIFICATION Spec
INVARIANTS
    TxRoundTrip
    BlockRoundTrip
    MinedBlockAccepted
