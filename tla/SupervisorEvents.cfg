SPECIFICATION FairSpec

CONSTANTS
    Calls = {}
    Approved = {a1}
    ActionOf <- SameAction
    Activation = "onEvent"
    Activating = {}
    Restart = "always"
    Subscribes = TRUE
    ShutsDown = TRUE
    WaiterMax = 1
    MaxBuffer = 1
    MaxInstances = 2
    MaxQueue = 1
    None = None
    a1 = a1
    a2 = a2
    c1 = c1
    c2 = c2
    c3 = c3

INVARIANTS
    RunningIsWired

PROPERTIES
    NoStartAfterJoin
    RestartHappens

CHECK_DEADLOCK FALSE
