SPECIFICATION Spec
CONSTANTS
  w1 = w1
  w2 = w2
  Free = Free
  Writer = {w1, w2}
  Env = {"crash", "torn", "io_error"}
  MaxEntries = 3
SYMMETRY Symmetry
CONSTRAINT Scope
CHECK_DEADLOCK FALSE
INVARIANTS CacheCoherent DamageAtTail MirrorIsCopy ChainIntact
PROPERTIES ChainRefined AlarmNeedsAppend
