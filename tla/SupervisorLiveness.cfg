SPECIFICATION FairSpec

CONSTANTS
    Calls = {c1}
    Approved = {a1}
    ActionOf <- SameAction
    Activation = "onAction"
    Activating = {a1}
    Restart = "onCrash"
    Subscribes = FALSE
    ShutsDown = TRUE
    WaiterMax = 1
    MaxBuffer = 1
    MaxInstances = 2
    MaxQueue = 2
    None = None
    a1 = a1
    a2 = a2
    c1 = c1
    c2 = c2
    c3 = c3

PROPERTIES
    ShutdownReturns
    CallsReturn

CHECK_DEADLOCK FALSE
