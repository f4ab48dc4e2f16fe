CONSTANTS
    Blocks   <- PoisonBlocks
    Genesis  = "G"
    Parent   <- PoisonParent
    Weight   <- PoisonWeight
    Invalid  = {}
    BadTx    = {"b3"}
    TxBlocks = {"b3"}
    NoBlock  = NoBlock

SPECIFICATION FairSpec

PROPERTY AdoptsHeaviestChain
