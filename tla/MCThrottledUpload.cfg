SPECIFICATION FairSpec
CONSTANTS
    Takers = {t1, t2}
    Upload = t1
    Chunks = {1, 2, 3}
    Rates = {1, 2}
    Second = 2
    Off = 0
    Bodies <- MCBodies
    MaxRead = 2
INVARIANT DecodedIsExact
PROPERTIES ImplementsMeter 
