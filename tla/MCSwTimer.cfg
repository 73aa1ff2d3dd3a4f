\* Two timers, one-shot and periodic, intervals of none to two ticks, one start
\* or stop at a time interrupted by ticks; the callbacks come.
CONSTANTS
    Last = 1
    Intervals = {0, 2}
    Periods = {TRUE, FALSE}
    CountRange = 4
    MaxTrigger = 2
    MaxCalls = 1
SPECIFICATION FairSpec
INVARIANTS
    TypeOK
    ExactUnlessTorn
PROPERTIES
    StoppedIsSilent
    ExpiryIsServed
