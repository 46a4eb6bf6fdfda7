\* Titles are interchangeable, and no property here is about liveness.
CONSTANTS
    free = free
    avail = avail
    huge = huge
    nmi = nmi
    err = err
    vmstat = vmstat
    netstat = netstat
    aperf = aperf
    swap = swap
    rss_key = rss_key
    cpus = cpus
    region = region
    hostname = hostname
    net = net
    fs = fs
    usb = usb
    MemKeys = {free, avail, huge}
    OptionalKeys = {avail, huge}
    CountedKeys = {huge}
    Kilo = 2
    CpuNumbers <- MCCpuNumbers
    IrqLines = {nmi}
    TotalLine = err
    Collectors = {vmstat, netstat}
    WholeRound = aperf
    Settings = {swap, rss_key}
    NotCollected = {rss_key}
    HostKeys = {cpus}
    InstanceKeys = {region, hostname}
    Hidden = {hostname}
    Unknown = Unknown
    Top = 1
    MaxTaken = 2
    Fields = 2
    Titles = {net, fs, usb}
    MaxItems = 7
    Root = Root
    MaxBlocks = 3
    MaxRounds = 3

SYMMETRY MCPrompts

SPECIFICATION TypesSpec

INVARIANTS
    SettingsKept
    MenusNested
    TopFunctionsWhole
    WrittenIsRead
    PlottedAsRead
