SPECIFICATION FairSpec
CONSTANTS
    Requests = {r1, r2}
    MaxVersion = 2
    SizeOf <- MCSizeOf
    Threshold = 1
INVARIANTS FreshUnlessMissed BufferBounded
PROPERTY ReplacedLeavesForGood
