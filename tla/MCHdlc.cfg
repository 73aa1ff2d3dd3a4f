\* Any order of frames of two clients.
CONSTANTS
    c1 = c1
    c2 = c2
    d = d
    x = x
    none = none
    Clients <- MCClients
    NoClient = none
    Data = {d}
    Junk = x
    Frames <- MCFrames
    Pushes <- MCPushes
    Replies <- MCReplies
    Answers <- MCAnswers
    MaxInfo = 2
    SegFrameSize = 2
    BuffSize = 4
    NvOutcomes = {TRUE, FALSE}
SPECIFICATION Spec
INVARIANTS
    TypeOK
    KeptFrameIsCurrent
    KeptFramesBelongToClient
    SegOffsetInBuffer
PROPERTY HandOverIsFresh
