SPECIFICATION Spec
CONSTANTS
    short = short
    long = long
    NoBody = NoBody
    Bodies <- MCBodies
    Size <- MCSize
    CleanEnds <- MCCleanEnds
    Uploads = {u1, u2}
    Parts = {1, 2}
    Requests = {r1, r2}
    MaxWrites = 2
SYMMETRY Symmetry
PROPERTIES  CompletedWhole AloneIsExact
