SPECIFICATION Spec
CONSTANTS
    Zero = Zero
    NoSum = NoSum
    Parts = {1, 2}
    Sizes = {1}
    Contents = {1, 2}
    maxPartSize = 1
    maxMultipartUploadSize = 1
    Requests = {r1, r2}
SYMMETRY Symmetry
INVARIANTS OvershootBounded CompletedWhole
PROPERTY AloneIsExact
