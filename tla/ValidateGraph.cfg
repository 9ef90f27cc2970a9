SPECIFICATION Command
CONSTANTS
  a = a
  b = b
  c = c
  d = d
  x = x
  f = f
  g = g
  policy = policy
  network = network
  research = research
  gp = gp
  gn = gn
  l1 = l1
  l2 = l2
  s1 = s1
  s2 = s2
  Unclaimed = Unclaimed
  OtherGate = OtherGate
  NoLead = NoLead
  Id <- AllIds
  Team = {policy, network, research}
  Path = {f, g}
  Agent = {l1, l2, s1, s2}
  Gate = {gp, gn}
  OwnerTeam <- TwoOwners
  ExitGate <- TwoGates
  Graphs <- GraphsAsked
  Manifests <- AllManifests
  Inputs <- AllInputs
CHECK_DEADLOCK FALSE
INVARIANTS AcceptedIsWellFormed RejectedHasFlaw
  AcceptedIsGoverned RejectedIsUngoverned
  OnlyUnknownGatesSlipThrough GatesCanPass
PROPERTY CommandEnds
