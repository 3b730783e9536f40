SPECIFICATION Spec
CONSTANTS
    PosAxes = {post}
    BeltAxes = {}
    DevAxes = {}
    AllAxes = all
    Commands <- PostCommands
    TestPlans <- NoPlan
    QueueCap = 1
    Patient = TRUE
PROPERTY RehomeRequired
