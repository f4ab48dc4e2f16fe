CONSTANTS
    Blocks   <- ForkBlocks
    Genesis  = "G"
    Parent   <- ForkParent
    Weight   <- ForkWeight
    Invalid  = {}
    BadTx    = {}
    TxBlocks = {}
    NoBlock  = NoBlock

SPECIFICATION FairSpec

PROPERTY AdoptsHeaviestChain
