CONSTANTS
  j1 = j1
  j2 = j2
  tb1 = tb1
  tb2 = tb2
  Jobs = {j1, j2}
  Topos = {tb1, tb2}
  Topologies <- MCTopologies
  NoJob = NoJob
  NoTopo = NoTopo
  MaxFaults = 2
SPECIFICATION FairSpec
INVARIANTS MutualExclusion TagNamesHolder LeakExplained
PROPERTIES OnlyCreatorRemoves LockSpec EveryJobServed
CHECK_DEADLOCK FALSE
