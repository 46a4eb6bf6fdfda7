\* Two arguments can bring three recordings; all contents occur in each.
CONSTANTS
    a1 = a1
    a2 = a2
    b = b
    blue = blue
    green = green
    earlier = earlier
    cpu = cpu
    flame = flame
    Places = {a1, a2, b}
    Names = {blue, green}
    NameOf <- MCNameOf
    Reports = {earlier}
    Inside <- MCInside
    Visualizers = {cpu, flame}
    Flamegraph = flame
    Profiled = {b}
    Contents <- MCContents
    MaxArgs = 2
    Junk = Junk
    Nothing = Nothing
    Empty = Empty
    NoData = NoData
    New = New
    Unnamed = Unnamed

SPECIFICATION Spec

INVARIANTS
    RunsKeptApart
    NamesUnique
    ArchivesCopied
