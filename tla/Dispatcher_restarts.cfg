SPECIFICATION Spec
CONSTANTS
  t1 = t1
  t2 = t2
  t3 = t3
  build = build
  ship = ship
  g1 = g1
  policy = policy
  None = None
  Task = {t1, t2, t3}
  Node <- TwoNodes
  Graph = {g1}
  Team = {policy}
  GraphOf <- TwoGraphOf
  TeamOf <- TwoTeamOf
  DependsOn <- TwoDependsOn
  Report = {}
  Env = {"restart", "pause"}
  MaxLog = 8
SYMMETRY Symmetry
CHECK_DEADLOCK FALSE
INVARIANTS SupersessionSound OneOwnerUnlessReclaimedTwice OwnerRestorable
  NoDispatchWhilePaused DependenciesGatedFirst PassIsLogged ShipFollowsLog PassedOwnerKept
PROPERTY RegisterRefined
