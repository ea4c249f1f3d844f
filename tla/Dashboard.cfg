SPECIFICATION DashboardSpec
CONSTANTS
    Threads = {t1, t2}
    AuthMax = 1
    Window = 6
    MaxAlerts = 3
INVARIANTS
    FailuresBounded
    GuessesBounded
PROPERTIES
    LockoutEnds
    AlertsAreTold
    ProbesAreAnswered
