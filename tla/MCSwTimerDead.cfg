\* One-shot timers of two ticks.
CONSTANTS
    Last = 1
    Intervals = {2}
    Periods = {FALSE}
    CountRange = 4
    MaxTrigger = 2
    MaxCalls = 2
SPECIFICATION Spec
INVARIANT StartedIsUnderway
