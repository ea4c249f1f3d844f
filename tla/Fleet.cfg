SPECIFICATION Spec
CONSTANTS
    Ips = {a}
    Engine = engine
    Maintenance = maintenance
    Dashboard = {d1}
    Cli = {c1}
    Null = null
    Duration = 1
    MaxTime = 2
    MaxRules = 2
    Faults = {"iptables", "abort", "crash", "reboot", "config"}
INVARIANTS
    TypeOK
    NoDuplicateRule
    NoOrphanRule
    RulesAreReachable
