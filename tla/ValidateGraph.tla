---------------------------- MODULE ValidateGraph ----------------------------
(***************************************************************************)
(* The validate-graph command of src/orchestrator/cli.py: it loads the     *)
(* topology manifest, parses and validates the work graph, and looks up    *)
(* the team of every node.  Composes Topology and WorkGraph, and compares  *)
(* what the command accepts with what Dispatcher.dispatch later refuses.   *)
(***************************************************************************)
EXTENDS WorkGraph

CONSTANTS
  Agent, Gate, OtherGate, OwnerTeam, NoLead, Manifests,  \* see Topology
  ExitGate,  \* the gate a node of each id names: nothing here looks at it
  Inputs     \* the pairs of a manifest and a graph the command is given

ASSUME InputsAssumption == Inputs \subseteq [manifest : Manifests, graph : Graphs]

ASSUME GatesAssumption ==
  /\ OwnerTeam \in [Gate -> Team]
  /\ OtherGate \notin Gate
  /\ ExitGate \in [Id -> Gate \cup {OtherGate}]

VARIABLES
  manifest, phase, turn, names, leads, roster, claimed,  \* see Topology
  step,  \* what the command is at: "topology", "graph", "teams", or its exit
  row    \* the node whose team it looks up

T == INSTANCE Topology

ASSUME ManifestsAssumption == Manifests \subseteq T!Manifest

topologyVars == <<manifest, phase, turn, names, leads, roster, claimed>>
commandVars == <<vars, topologyVars, step, row>>

CommandInit ==
  /\ \E in \in Inputs : manifest = in.manifest /\ nodes = in.graph
  /\ T!Begin /\ Init
  /\ step = "topology" /\ row = 1

LoadTopology ==
  /\ step = "topology"
  /\ \/ T!Next /\ UNCHANGED step
     \/ phase = "accepted" /\ step' = "graph" /\ UNCHANGED topologyVars
     \/ phase = "rejected" /\ step' = "error" /\ UNCHANGED topologyVars
  /\ UNCHANGED <<vars, row>>

ParseGraph ==
  /\ step = "graph"
  /\ \/ Next /\ UNCHANGED step
     \/ pc = "accepted" /\ step' = "teams" /\ UNCHANGED vars
     \/ pc = "rejected" /\ step' = "error" /\ UNCHANGED vars
  /\ UNCHANGED <<topologyVars, row>>

LookUpFirstTeam ==
  /\ step = "teams"
  /\ step' = IF T!Declares(nodes[1].team) THEN "ok" ELSE "error"
  /\ UNCHANGED <<vars, topologyVars, row>>

\* "unknown team" ends the command with an error
LookUpTeam ==
  /\ step = "teams"
  /\ \/ row \in DOMAIN nodes /\ T!Declares(nodes[row].team) /\ row' = row + 1 /\ UNCHANGED step
     \/ row \in DOMAIN nodes /\ ~T!Declares(nodes[row].team) /\ step' = "error" /\ UNCHANGED row
     \/ row \notin DOMAIN nodes /\ step' = "ok" /\ UNCHANGED row
  /\ UNCHANGED <<vars, topologyVars>>

CommandNext == LoadTopology \/ ParseGraph \/ LookUpTeam

\* The command is one process, run to its end
Command == CommandInit /\ [][CommandNext]_commandVars /\ WF_commandVars(CommandNext)

-----------------------------------------------------------------------------

\* What dispatch looks up for a node before it signs anything
DispatchResolves(node) ==
  /\ T!Declares(node.team)
  /\ ExitGate[node.id] \in Gate
  /\ \E i \in DOMAIN manifest.teams :
       ExitGate[node.id] \in T!Members(manifest.teams[i].gatesOwned)

\* GateResult.validate: the gate is a known one and its owner checked it
Certified(g, checkedBy) == g \in Gate /\ checkedBy = OwnerTeam[g]

-----------------------------------------------------------------------------
(* Properties.                                                             *)

\* The manifests that reach the graph are the governed ones: see Topology.
AcceptedIsGoverned == T!AcceptedIsGoverned
RejectedIsUngoverned == T!RejectedIsUngoverned

\* Of what dispatch can refuse about a node of a validated graph, one thing is
\* left: an exit gate that is in no registry.  Nothing of validate-graph looks
\* at the gate, so such a node is found only in the middle of a wave.
OnlyUnknownGatesSlipThrough ==
  step = "ok" =>
    \A i \in DOMAIN nodes :
      ExitGate[nodes[i].id] \in Gate => DispatchResolves(nodes[i])

\* Every gate a node of a validated graph may name can be passed: the team that
\* dispatch finds for it is the one whose result GateResult.validate accepts.
GatesCanPass ==
  step = "ok" =>
    \A g \in Gate : Certified(g, T!TeamForGate(g))

\* The command ends, whatever it is given.
CommandEnds == <>(step \in {"ok", "error"})

=============================================================================
