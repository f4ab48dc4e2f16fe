CONSTANTS
    Addresses = {G, u1, u2}
    GenesisAddress = G
    Amounts <- MCHonestAmounts
    Fees = {1}
    MaxNonce = 2
    MaxTxs = 2
    MaxHeight = 2
    Reward <- MCReward
    FeePercent = 10
    W = 16
SPECIFICATION Spec
INVARIANTS
    TypeOK
    SupplyMatchesSchedule
    IndexCountsMatchChain
