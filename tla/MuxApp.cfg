SPECIFICATION Spec
VIEW Shape
CONSTANTS
  NoOne = NoOne
  Api = Api
  STEP = 300
  Me = Me
  Pointers = {p1, p2}
  Screens <- AScreens
  SIDEBAR = 1
  SIDEBAR_MIN = 2
  STATUS = 1
  Ratios = {285}
  Nudges <- SomeNudges
  Ops <- SomeOps
  Dirs = {"right"}
  MaxPanes = 3
  MaxTabs = 3
  LastSession = 1
  MaxExits = 2
INVARIANTS TypeOK PanesMatch ScreenFits RestartKeepsView
PROPERTIES DragFaithful
CHECK_DEADLOCK FALSE
SYMMETRY Interchangeable
