SPECIFICATION FairSpec
CONSTANTS
    Ips = {a, b}
    Engine = engine
    Maintenance = maintenance
    Dashboard = {}
    Cli = {}
    Null = null
    Duration = 1
    MaxTime = 5
    MaxRules = 2
    Faults = {"iptables"}
INVARIANTS
    RowHasRule
PROPERTIES
    ExpiredBlocksRemoved
    KeepsThePromise
CHECK_DEADLOCK FALSE
