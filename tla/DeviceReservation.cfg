CONSTANTS
  j1 = j1
  j2 = j2
  j3 = j3
  Jobs <- ThreeJobs
  Pairs = 3
  MaxFaults = 2
SPECIFICATION FairSpec
INVARIANTS ExclusiveVFs WiredTogether NothingLeftBehind
PROPERTIES OthersUndisturbed AllocatesVFs EveryJobEnds
CHECK_DEADLOCK FALSE
