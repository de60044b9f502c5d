CONSTANTS
  Phases = 2
  FinalWidth = 1
  WidthGoal <- MCWidthGoal
  Doublings = 1
  MinRate = 1
  MaxRate = 7
  CanTimeOut = TRUE
  None = None
SPECIFICATION FairSpec
INVARIANTS ProperIntervals ResultNarrowed ResultBrackets NdrBelowPdr
PROPERTIES Terminates TrialsProgress
CHECK_DEADLOCK FALSE
