CONSTANTS
  tg = tg
  dut = dut
  t1 = t1
  t2 = t2
  kept = kept
  short = short
  Nodes = {tg, dut}
  Users = {t1, t2, kept, short}
  NodeOf <- MCNodeOf
  TG = tg
  Kept = kept
  Short = short
  MaxFaults = 1
  MaxCalls = 3

SPECIFICATION FairSpec
INVARIANTS SetupFailureRaised
CHECK_DEADLOCK FALSE
