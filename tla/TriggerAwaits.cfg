SPECIFICATION Spec
CONSTANTS
  ask = ask
  answer = answer
  act = act
  note = note
  None = None
  Kinds = {ask, answer}
  Publications <- Alike
  Actions = {act}
  Configs <- OnlyAlike
  MaxEvents = 3
  MaxRuns = 2
  MaxReloads = 0
INVARIANTS AwaitEndsOnce TrustBoundary RepliesAfterCompletions
