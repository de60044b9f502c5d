CONSTANTS
  j1 = j1
  j2 = j2
  tb1 = tb1
  tb2 = tb2
  Jobs = {j1, j2}
  Topos = {tb1, tb2}
  Topologies <- MCTopologies
  NoJob = NoJob
  NoTopo = NoTopo
  MaxFaults = 1
SPECIFICATION Spec
INVARIANT CleanupFailureIgnored
CHECK_DEADLOCK FALSE
