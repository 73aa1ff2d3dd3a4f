\* The same link on a bus on which a segment for another meter passes.

CONSTANTS
    c1 = c1
    none = none
    junk = junk
    Clients = {c1}
    NoClient = none
    NoRequest = none
    TheClient = c1
    Data <- MCData
    Junk = junk
    Frames = {}
    Pushes = {}
    Replies <- MCReplies
    Answers <- MCAnswers
    ReplyOf <- MCReplyOf
    Requests <- MCRequests
    SegmentLengths = {1, 2}
    MaxInfo = 2
    ClientMaxInfo = 2
    SegFrameSize = 5
    BuffSize = 6
    NvOutcomes = {TRUE}
    Noise <- SegmentedNoise
    Capacity = 1
    MaxStops = 0
SPECIFICATION LinkSpec
INVARIANT ExecutedIsAsked
