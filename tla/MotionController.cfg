SPECIFICATION MotionSafety
CONSTANTS
    PosAxes = {left, right}
    BeltAxes = {belt}
    DevAxes = {shifter}
    AllAxes = all
    Commands <- EveryCommand
    TestPlans <- PosPlan
    QueueCap = 1
SYMMETRY Posts
INVARIANTS LiveIsHomed StoppedUnderEstop
PROPERTIES NothingStartsUnderEstop OneTrigger RigUnparksTogether
