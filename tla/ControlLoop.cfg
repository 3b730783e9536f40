SPECIFICATION LiveSpec
CONSTANTS
    PosAxes = {post}
    BeltAxes = {}
    DevAxes = {}
    AllAxes = all
    Commands <- PostCommands
    TestPlans <- PosPlan
    QueueCap = 1
    Patient = FALSE
INVARIANTS StopsParked FreshReference
PROPERTIES StopEnds EstopSettles
