SPECIFICATION Spec
CONSTANTS
  t = t
  a = a
  g = g
  h = h
  o = o
  Trigger = t
  Nodes <- OutputNodes
  Kind <- OutputKind
  Pred <- OutputPred
  MaxAttempts = 2
  Tokens = {k1, k2}
  KeysFor <- FreshKeys
  UiOnly = TRUE
  PortYields = FALSE
  MaxFaults = 0
INVARIANT NoRejection
CHECK_DEADLOCK FALSE
