\* Two ticks and two samples: each group can count between any two steps.
CONSTANTS
    ipc = ipc
    stalls = stalls
    Provided <- MCProvided
    BuiltIn <- MCBuiltIn
    Typed <- MCTyped
    MaxEvents = 2
    BaseEvents <- MCBase
    PlatformEvents <- MCPlatform
    Rate <- MCRate
    MaxTicks = 2
    MaxSamples = 2
    Online <- MCOnline
    Broken = Broken
    Unreadable = Broken
    Absent = Absent
    Unnamed = Unnamed
    NoConfig = NoConfig

SPECIFICATION PipelineSpec

INVARIANTS
    AddedNamesNew
    DeleteFinds
    CountsKept
    RatiosKept
    EveryEventShown
