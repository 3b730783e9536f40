SPECIFICATION LiveSpec
CONSTANTS
    NumDrives = 2
    MaxRetries = 2
    StableCycles = 1
    HealthyCycles = 1
    ResetLow = 1
    ResetCycles = 2
    SyncCycles = 1
    MaxEvents = 3
INVARIANTS LockedIsDown NoJump
PROPERTIES StableMeansStable ImplementsEpisodes Settles
