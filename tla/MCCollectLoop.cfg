\* Period is a multiple of Interval; SIGINT and SIGTERM may both arrive.
CONSTANTS
    Period = 4
    Interval = 2
    MaxNow = 8

SPECIFICATION FairSpec

INVARIANTS
    LoopClock
    OneSamplePerSlot
    PeriodCovered
    OverrunBounded
    SignalPrompt

PROPERTIES
    ImplementsSampling
    Termination
