SPECIFICATION Spec
CONSTANTS
  t = t
  a = a
  g = g
  h = h
  o = o
  Trigger = t
  Nodes <- JoinNodes
  Kind <- JoinKind
  Pred <- JoinPred
  MaxAttempts = 2
  Tokens = {k1, k2}
  KeysFor <- BusyKeys
  UiOnly = FALSE
  PortYields = TRUE
  MaxFaults = 0
SYMMETRY TokenSymmetry
INVARIANT CompletedMeansAllDone
INVARIANT InProgressIsWatched
 
PROPERTY AgentRowsFinal
PROPERTY DoneIsFinal
CHECK_DEADLOCK FALSE
