SPECIFICATION Spec
CONSTANTS
  p1 = p1
  p2 = p2
  t1 = t1
  t2 = t2
  build = build
  survey = survey
  policy = policy
  research = research
  None = None
  Process = {p1, p2}
  Task = {t1, t2}
  Node = {build, survey}
  Team = {policy, research}
  TeamOf <- TwoTeamOf
  DependsOn <- TwoDependsOn
  Retirable = {research}
  Env = {}
  MaxLog = 6
SYMMETRY Symmetry
CHECK_DEADLOCK FALSE
INVARIANT OneOwner
