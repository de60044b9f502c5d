SPECIFICATION FairSpec
CONSTANTS
  MaxSuites = 2
  MaxTrials = 3
  MaxFaults = 2
INVARIANTS
  PortsInvariant
  QuietBetweenTests
PROPERTIES
  OwnTrial
  StartupEnds
CHECK_DEADLOCK FALSE
