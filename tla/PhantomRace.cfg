SPECIFICATION FairSpec
CONSTANTS
    Ips = {a}
    Engine = engine
    Maintenance = maintenance
    Dashboard = {d1}
    Cli = {}
    Null = null
    Duration = 1
    MaxTime = 2
    MaxRules = 2
    Faults = {}
PROPERTY ExpiredBlocksRemoved
CHECK_DEADLOCK FALSE
