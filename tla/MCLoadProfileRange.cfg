CONSTANTS
    Profiles = {"LP"}
    Size <- MCSize
    Gap <- MCGap
    Unit <- MCUnit
    LenMod = 8
    Entries = {0, 1, 2, 3}
    MaxUnsaved = 2
    MaxIndex = 5
    MaxLosses = 1
SPECIFICATION Spec
INVARIANT ProfileIsNewest
