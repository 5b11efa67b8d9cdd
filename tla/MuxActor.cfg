SPECIFICATION Spec
VIEW Shape
CONSTANTS
  NoOne = NoOne
  Api = Api
  STEP = 200
  Clients = {c1, c2}
  Workspaces = {w1, w2}
  Home = w1
  Viewports <- AViewports
  Ratios = {100}
  Ops <- AnOps
  Saved <- ASaved
  MaxPanes = 2
  MaxTabs = 3
INVARIANTS G1 TreeConsistency SizesDerived PanesTile
PROPERTIES RevTellsLayout HiddenFrozen
SYMMETRY Interchangeable
