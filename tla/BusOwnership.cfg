SPECIFICATION LiveSpec
INVARIANTS
    OwnersTakeTurns
    StopKept
PROPERTIES
    StopServed
    PumpHolds
    HandoversEnd
