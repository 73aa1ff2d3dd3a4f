CONSTANTS
    Profiles = {"LP", "LPAVG", "LPRT"}
    Size <- MCSize
    Gap <- MCGap
    Unit <- MCUnit
    LenMod = 8
    Entries = {0, 1, 2, 3}
    MaxUnsaved = 2
    MaxIndex = 5
    MaxLosses = 1
SPECIFICATION Spec
INVARIANTS
    TypeOK
    WindowHeld
    BlockIsDue
    SagKeepsRecords
