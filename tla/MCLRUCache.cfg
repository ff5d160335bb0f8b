SPECIFICATION FairSpec
CONSTANTS
    small = small
    large = large
    huge = huge
    Keys <- MCDistinct
    SafeChars = {c1, c2}
    Underscore = Underscore
    Values = {small, large, huge}
    Readers = {r1}
    SizeOf <- MCSizeOf
    MaxBytes = 3
    TTL = 1
    NoFile = NoFile
    Partial = Partial
INVARIANTS  BytesWithinLimit RecencyOrder  CollectedStayExpired
PROPERTIES PutKeepsItsKey ExpiredEventuallyRemoved 
