SPECIFICATION Spec
CONSTANTS
    None = none
    Analysts = {ana}
    TrafficAge = 1
    AlertAge = 2
    MaxLag = 1
    MaxRows = 2
    MaxTime = 3
INVARIANTS
    RecordsTypeOK
    DiscardedIsArchived
    FeedbackIsMeant
    AuditTrailIsKept
    AlertHasTraffic
PROPERTIES
    ConfirmedNeverTrained
