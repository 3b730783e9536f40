SPECIFICATION LiveSpec
CONSTANTS
    NumSlaves = 2
    MaxFails = 2
    Threshold = 2
    Interval = 1
    MaxEvents = 4
INVARIANTS ContextAlive FreshTemps GiveUpDisarms
PROPERTIES HealthyKept SlavesRecover TeardownEnds
CHECK_DEADLOCK FALSE
