SPECIFICATION ServerFairSpec
CONSTANTS
    Requests = {r1, r2, h1}
    Control = {h1}
    CfgMin = 0
    CfgMax = 2
    MaxCounted = 3
    MethodOrder <- MCMethodOrder
    Asked <- MCAsked
INVARIANTS SlotsAccounted WithinLimit TotalsAgree 
PROPERTIES ImplementsAdmission SnapshotOvershoot
