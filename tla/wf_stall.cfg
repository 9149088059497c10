SPECIFICATION FairSpec
CONSTANTS
  t = t
  a = a
  g = g
  h = h
  o = o
  Trigger = t
  Nodes <- GateNodes
  Kind <- GateKind
  Pred <- GatePred
  MaxAttempts = 2
  Tokens = {k1, k2}
  KeysFor <- FreshKeys
  UiOnly = TRUE
  PortYields = FALSE
  MaxFaults = 0
PROPERTY StallCovered
CHECK_DEADLOCK FALSE
