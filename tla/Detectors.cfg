SPECIFICATION DetectorsSpec
CONSTANTS
    a = a
    b = b
    victim = victim
    none = none
    Null = none
    Packets <- MCPackets
    ScanWindow = 2
    SynWindow = 1
    PortRepeatWindow = 2
    IcmpWindow = 1
    FlowTimeout = 2
    SlowMinDuration = 1
    SlowMaxBps = 6
    Gaps = {0, 1, 3}
    MaxPackets = 4
    Broadcasts = {}
    ScanDeviation = 1
    ScanMinPorts = 2
    SynThreshold = 3
    BruteForcePorts = {22}
    BruteForceThreshold = 2
    PortRepeatThreshold = 3
    SlowMinConnections = 2
    IcmpThreshold = 2
    ExfilBytes = 6
    ExfilMinDuration = 2
    DnsWindow = 2
    DnsMinDistinct = 2
    EncodedLabels = {}
    TtlThreshold = 2
    Intel = {b}
    MaxFailures = 1
INVARIANTS
    DetectorsTypeOK
    FlowTableIsExact
    SignalsAreExact
    ReasonsAreJustified
    EvidenceIsReported
CHECK_DEADLOCK FALSE
