SPECIFICATION Spec
CONSTANTS
    Requests = {r1, r2}
    MaxVersion = 2
    SizeOf <- MCSizeOf
    Headers <- MCHeaders
    blockSize = 2
    PrefetchCount = 1
SYMMETRY RequestSymmetry
INVARIANTS BytesPlaced  RangeSelectsAsked
