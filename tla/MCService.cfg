SPECIFICATION ServiceFairSpec
CONSTANTS
    Commands = {c1}
    Pids = {p1, p2}
    NoFile = NoFile
    Empty = Empty
    NoPid = NoPid
    Unset = Unset
    Garbled = Garbled
    Requests = {r1, r2}
    Environments <- MCEnvironments
    FlagSets <- MCFlagSets
INVARIANTS  SoundServes
PROPERTIES DrainsFirst ShutdownEnds
