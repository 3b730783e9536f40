SPECIFICATION Spec
CONSTANTS
    Callers = {web, gpio}
    Inits = {worker, button}
    NoSource = none
    MaxEvents = 3
PROPERTY ImplementsLatch
