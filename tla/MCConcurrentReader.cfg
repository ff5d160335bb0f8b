SPECIFICATION FairSpec
CONSTANTS
    Workers = {w1, w2}
    blobSize = 7
    chunkSize = 2
PROPERTIES ImplementsStream CloseReleasesAll
\* Every goroutine returns in the end.
CHECK_DEADLOCK FALSE
