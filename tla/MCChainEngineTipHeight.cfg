CONSTANTS
    Blocks   <- TipBlocks
    Genesis  = "G"
    Parent   <- TipParent
    Weight   <- TipWeight
    Invalid  = {}
    BadTx    = {}
    TxBlocks = {}
    NoBlock  = NoBlock

SPECIFICATION Spec

INVARIANT HeightsRecorded
