\* A lossy medium with frames for other meters, a client that repeats frames
\* early, push notifications, a meter that may drop the connection once.
CONSTANTS
    c1 = c1
    none = none
    junk = junk
    Clients = {c1}
    NoClient = none
    NoRequest = none
    TheClient = c1
    Data <- MCData
    Junk = junk
    Frames = {}
    Pushes <- MCPushes
    Replies <- MCReplies
    Answers <- MCAnswers
    ReplyOf <- MCReplyOf
    Requests <- MCRequests
    SegmentLengths = {2}
    MaxInfo = 2
    ClientMaxInfo = 2
    SegFrameSize = 5
    BuffSize = 6
    NvOutcomes = {TRUE}
    Noise <- MCNoise
    Capacity = 2
    MaxStops = 1
SPECIFICATION FairLinkSpec
INVARIANTS
    NumbersInStep
    NeverRejected
PROPERTIES
    ImplementsExchange
    RequestAnswered
