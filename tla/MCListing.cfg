SPECIFICATION ListingSpec
CONSTANTS
    Keys <- MCKeys
    Order <- MCOrder
    AskedPrefixes <- MCPrefixes
    AskedMax = {0, 1}
    MaxKeys = 2
    Trouble = 2
INVARIANTS
    KeptIsListed
    AtRestIsExact
PROPERTY
    ListingEnds
