\* The three parts, refused and malformed initiations, a stray first block
\* and a corrupt metering block.
CONSTANTS
    sys = sys
    bad = bad
    met = met
    mdm = mdm
    none = none
    old = old
    Images = {sys, bad, met, mdm}
    NoImage = none
    Part <- MCPart
    Size <- MCSize
    Valid = {sys, met, mdm}
    Corrupt <- MCCorrupt
    CutShort = {bad}
    Stray <- MCStray
    Old = old
    PageBlocks = 2
    FlashBlocks = 4
    MaxHashed = 3
    WriteOutcomes = {TRUE}
    ModemOutcomes = {TRUE, FALSE}
SPECIFICATION Spec
INVARIANTS
    TypeOK
    ReceivedIsStored
PROPERTIES
    ActivatedIsFrozen
    SysHashCoversDownload
    VerifiedSysIsReceived
