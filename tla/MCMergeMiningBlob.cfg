CONSTANTS
    NetworkID = 2
    NetIds = {1, 2, 3}
    Hashes = {h1, h2}
    MaxMergeMined = 3
    MaxBlobLen = 3
SPECIFICATION Spec
INVARIANT SetMiningBlobMatchesSpec
