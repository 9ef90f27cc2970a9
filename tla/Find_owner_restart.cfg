SPECIFICATION Spec
CONSTANTS
  t1 = t1
  t2 = t2
  t3 = t3
  build = build
  ship = ship
  g1 = g1
  policy = policy
  None = None
  Task = {t1, t2, t3}
  Node <- OneNode
  Graph = {g1}
  Team = {policy}
  GraphOf <- OneGraphOf
  TeamOf <- OneTeamOf
  DependsOn <- OneDependsOn
  Report = {}
  Env = {"restart"}
  MaxLog = 8
SYMMETRY Symmetry
CHECK_DEADLOCK FALSE
INVARIANT ReplayShowsOneOwner
