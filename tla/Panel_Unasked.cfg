SPECIFICATION Spec
CONSTANTS
    EngageReads = 2
    ReleaseReads = 2
    ReinitPolls = 3
    MaxEvents = 6
PROPERTIES StartsOnlyWanted
