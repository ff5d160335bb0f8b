SPECIFICATION Spec
CONSTANTS
    Requests = {r1, r2}
    MaxVersion = 2
    SizeOf <- MCSizeOf
    Threshold = 1
INVARIANT NextGetIsFresh
