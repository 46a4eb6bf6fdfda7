\* Three samples: a thing can come back after it has gone.
CONSTANTS
    sda = sda
    sdb = sdb
    user = user
    idle = idle
    proc1 = proc1
    proc2 = proc2
    Disks = {sda, sdb}
    Cpus <- MCCpus
    Kinds = {user, idle}
    Pids = {proc1, proc2}
    Key = Key
    MaxCount = 3
    MaxTicks = 3
    MaxSamples = 3
    Modulus = 4
    Factor = 2

SPECIFICATION SeriesSpec

INVARIANTS
    TotalsKept
    LimitsFit
    TicksEarned
    PercentagesFit
    SeriesStable
