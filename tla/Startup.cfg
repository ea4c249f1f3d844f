SPECIFICATION Spec
CONSTANTS
    Null = null
    Partial = partial
    Engine = engine
    Others = {request}
    OldAlerts <- MCOldAlerts
    OldBlocked <- MCOldBlocked
    MaxTrainings = 2
    MaxEdits = 2
    MaxFaults = 1
INVARIANTS
    StartupTypeOK
    ReadyFindsSchema
    PinnedModel
PROPERTIES
    EngineComesUp
