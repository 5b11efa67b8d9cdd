SPECIFICATION Spec

CONSTANTS
    Calls = {c1, c2}
    Approved = {a1}
    ActionOf <- SameAction
    Activation = "onAction"
    Activating = {a1}
    Restart = "always"
    Subscribes = FALSE
    ShutsDown = FALSE
    WaiterMax = 1
    MaxBuffer = 1
    MaxInstances = 2
    MaxQueue = 2
    None = None
    a1 = a1
    a2 = a2
    c1 = c1
    c2 = c2
    c3 = c3

SYMMETRY CallSymmetry

INVARIANTS
    TypeOK
    WaitersAndEntries
    NoStrandedCall

PROPERTIES
    ImplementsContract

CHECK_DEADLOCK FALSE
