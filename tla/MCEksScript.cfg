\* Three runs: one that leaves a pod, one that meets it, and one after it.
CONSTANTS
    Options <- MCOptions
    MaxRuns = 3
    NoPod = NoPod
    Nothing = Nothing

SPECIFICATION FairSpec

INVARIANTS
    RightReport
    SuccessMeansCopied

PROPERTY
    PollEnds
