SPECIFICATION CapsSpec
CONSTANTS
    Admins = {a1}
    Streams = {s1, s2}
    Rates = {1, 2}
    MaxBuckets = 6
SYMMETRY Symmetry
INVARIANTS SettledCaps OrphansAreOff
