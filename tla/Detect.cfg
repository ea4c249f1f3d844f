SPECIFICATION DetectSpec
CONSTANTS
    Ips = {a, b}
    Engine = engine
    Maintenance = maintenance
    Dashboard = {}
    Cli = {}
    Null = null
    Duration = 1
    MaxTime = 1
    MaxRules = 2
    Faults = {"abort", "crash"}
    Macs = {m1, m2}
    Whitelist = {b}
INVARIANTS
    DetectTypeOK
    WhitelistHolds
    BlocksAreAlerted
PROPERTIES
    NoAlertWhileBlocked
