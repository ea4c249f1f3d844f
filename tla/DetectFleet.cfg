SPECIFICATION FairDetectSpec
CONSTANTS
    Ips = {a}
    Engine = engine
    Maintenance = maintenance
    Dashboard = {d1}
    Cli = {}
    Null = null
    Duration = 1
    MaxTime = 2
    MaxRules = 2
    Faults = {"crash", "reboot", "config"}
    Macs = {m1}
    Whitelist = {}
PROPERTIES
    VerdictsAreEnforced
