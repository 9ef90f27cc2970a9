SPECIFICATION FairSpec
CONSTANTS
  w1 = w1
  w2 = w2
  Free = Free
  Writer = {w1, w2}
  Env = {"crash", "torn"}
  MaxEntries = 2
CHECK_DEADLOCK FALSE
PROPERTIES MirrorConverges
