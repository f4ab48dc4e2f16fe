CONSTANTS
    Blocks   <- MCBlocks
    Genesis  = "G"
    Parent   <- MCParent
    Weight   <- MCWeight
    Invalid  <- MCInvalid
    BadTx    <- MCBadTx
    TxBlocks <- MCTxBlocks
    NoBlock  = NoBlock

SPECIFICATION Spec

INVARIANT TypeOK
INVARIANT MainChainIndexed
INVARIANT StateIsMainChain
INVARIANT HeaviestChainSelected
INVARIANT OrphansAwaitParent
PROPERTY ImplementsChainSpec
