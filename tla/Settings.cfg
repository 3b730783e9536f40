SPECIFICATION Spec
CONSTANTS
    Pages = {p1}
    None = None
    MaxWrites = 3
INVARIANTS
    BeltKeepsItsOwn
    PillTells
    HapticsTold
PROPERTIES
    StaleRefused
    SavesLand
