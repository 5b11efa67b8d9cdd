SPECIFICATION FairSpec
CONSTANTS
  ask = ask
  answer = answer
  act = act
  note = note
  None = None
  Kinds = {ask, answer}
  Publications <- Asks
  Actions = {act, note}
  Configs <- Reload
  MaxEvents = 1
  MaxRuns = 1
  MaxReloads = 2
INVARIANT AwaitEndsOnce
PROPERTIES AwaitsEnd KeptEventsDispatched DispatchedOnce
