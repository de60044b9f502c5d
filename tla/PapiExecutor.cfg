CONSTANTS
  create = create
  set = set
  reply = reply
  x = x
  y = y
  old = old
  new = new
  None = None
  d1 = d1
  d2 = d2
  Names = {create, set, reply}
  Commands = {create, set}
  Crcs = {x, y}
  Collections = {old, new}
  Known <- MCKnown
  ReplyOf <- MCReplyOf
  DUTs = {d1, d2}
  MaxCommands = 2
  MaxBlocks = 2
  MaxFaults = 2

SPECIFICATION FairSpec
INVARIANTS ExecutedAsRecorded RepliesAreLatest UnverifiedTold FittingBuildAccepted LeftoversExplained
PROPERTIES BlocksEnd
CHECK_DEADLOCK FALSE
