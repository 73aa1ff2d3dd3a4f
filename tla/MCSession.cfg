\* Two media and clients of every kind the arbitration tells apart.
CONSTANTS
    Frames <- MCFrames
    Media = {"RS485", "EXT"}
    MaxRx = 2
    Behind <- MCBehind
    FactoryOutcomes = {TRUE, FALSE}

SPECIFICATION FairSpec

INVARIANTS TypeOK AssociationOfClient SessionIsTimed ClearingOfAsker UnsecuredStays
PROPERTIES ClearingEnds
