\* A metering image, stopped and begun again.
CONSTANTS
    sys = sys
    bad = bad
    met = met
    mdm = mdm
    none = none
    old = old
    Images = {met}
    NoImage = none
    Part <- MCPart
    Size <- MCSize
    Valid = {met}
    Corrupt = {}
    CutShort = {}
    Stray = {}
    Old = old
    PageBlocks = 2
    FlashBlocks = 4
    MaxHashed = 3
    WriteOutcomes = {TRUE}
    ModemOutcomes = {TRUE, FALSE}
SPECIFICATION Spec
INVARIANT IntactMeterImageChecks
