CONSTANTS
    Blocks   <- LiveBlocks
    Genesis  = "G"
    Parent   <- LiveParent
    Weight   <- LiveWeight
    Invalid  = {}
    BadTx    = {}
    TxBlocks = {}
    NoBlock  = NoBlock

SPECIFICATION FairSpec

PROPERTY AdoptsHeaviestChain
