SPECIFICATION Spec
CONSTANTS
    Null = null
    Partial = partial
    Engine = engine
    Others = {request}
    OldAlerts <- MCOldAlerts
    OldBlocked <- MCOldestBlocked
    MaxTrainings = 1
    MaxEdits = 0
    MaxFaults = 0
PROPERTIES
    ExpiryIsAdded
