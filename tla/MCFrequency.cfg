\* Two rounds tell a collector that is a sample ahead from one that is behind.
CONSTANTS
    systeminfo = systeminfo
    cpu = cpu
    vmstat = vmstat
    perf = perf
    flamegraph = flamegraph
    java = java
    Static = {systeminfo}
    Sampled = {cpu, vmstat}
    Profilers = {perf, flamegraph, java}
    Launchers = {perf, java}
    Perf = perf
    Options <- MCOptions
    Frequencies = {99, 400}
    Default = 99
    MaxRounds = 2
    NoArchive = NoArchive
    Nobody = Nobody

SPECIFICATION Spec

INVARIANT PerfAtRequestedFrequency
