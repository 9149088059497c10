SPECIFICATION FairSpec
CONSTANTS
  c1 = c1
  c2 = c2
  Callers = {c1, c2}
  MaxProcs = 11
  MaxFaults = 3
INVARIANT TypeOK
INVARIANT OneProcess
 
PROPERTY EveryCallEnds
CHECK_DEADLOCK FALSE
