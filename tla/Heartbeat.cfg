SPECIFICATION Spec
CONSTANTS
    Null = null
    Interval = 1
    ViewInterval = 1
    MaxPass = 1
    MaxWrite = 1
    MaxTime = 14
INVARIANTS
    TypeOK
    RunningIsShownActive
    EndedIsShownInactive
PROPERTIES
    OnlyALatePassRevives
