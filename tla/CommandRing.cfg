SPECIFICATION Spec
CONSTANTS
    N = 4
    Surfaces = {web, panel}
    Commands = {home, park}
    Blank = home
    Nobody = nobody
INVARIANT OldDiscarded
PROPERTIES ImplementsFifo RoomAgain
