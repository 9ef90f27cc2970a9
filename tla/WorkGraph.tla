------------------------------ MODULE WorkGraph ------------------------------
(***************************************************************************)
(* WorkGraph.validate of src/orchestrator/schema.py, which decides whether *)
(* a decomposition may be dispatched at all: the ids, the dependencies,    *)
(* Kahn's algorithm over them, and the teams that claim each artifact.     *)
(* One action is one turn of one of its loops.                             *)
(*                                                                         *)
(* A node is its id, its team, the ids it depends on and the paths it      *)
(* delivers; sound says whether it passes the checks of WorkNode.validate  *)
(* that look at one of its fields alone.                                   *)
(***************************************************************************)
EXTENDS Naturals, Sequences

CONSTANTS
  Id,        \* node ids
  Team,      \* team names
  Path,      \* artifact paths
  Unclaimed, \* no node has claimed a path yet
  Graphs     \* the graphs validate is called with: sequences of nodes

WorkNode ==
  [id : Id, team : Team, dependsOn : SUBSET Id, paths : SUBSET Path, sound : BOOLEAN]

ASSUME WorkGraphAssumption ==
  /\ Graphs \subseteq Seq(WorkNode)
  /\ Unclaimed \notin Team

VARIABLES
  nodes,    \* WorkGraph.nodes
  pc,       \* the loop validate is in, or its outcome
  at,       \* the index the loop is at
  seen,     \* validate: the ids seen
  pending,  \* _reject_cycles: the ids whose node is not ready yet
  waits,    \* _reject_cycles: the dependencies each of them still waits for
  owner     \* _reject_shared_deliverables: the team that claims each path

vars == <<nodes, pc, at, seen, pending, waits, owner>>

Ids == {nodes[i].id : i \in DOMAIN nodes}
NodeOf(n) == nodes[CHOOSE i \in DOMAIN nodes : nodes[i].id = n]

-----------------------------------------------------------------------------

Init ==
  /\ nodes \in Graphs
  /\ pc = IF nodes = <<>> THEN "rejected" ELSE "ids"
  /\ at = 1
  /\ seen = {} /\ pending = {}
  /\ waits = [n \in Id |-> {}]
  /\ owner = [p \in Path |-> Unclaimed]

SelfDependent(node) == node.id \in node.dependsOn

CheckNodeOnce ==
  /\ pc = "ids" /\ at \in DOMAIN nodes
  /\ IF ~nodes[at].sound \/ SelfDependent(nodes[at])
       THEN pc' = "rejected" /\ UNCHANGED <<at, seen>>
       ELSE pc' = pc /\ at' = at + 1 /\ seen' = seen \cup {nodes[at].id}
  /\ UNCHANGED <<nodes, pending, waits, owner>>

\* node.validate, and "duplicate node id"
CheckNode ==
  /\ pc = "ids" /\ at \in DOMAIN nodes
  /\ IF ~nodes[at].sound \/ SelfDependent(nodes[at]) \/ nodes[at].id \in seen
       THEN pc' = "rejected" /\ UNCHANGED <<at, seen>>
       ELSE pc' = pc /\ at' = at + 1 /\ seen' = seen \cup {nodes[at].id}
  /\ UNCHANGED <<nodes, pending, waits, owner>>

NodesChecked ==
  /\ pc = "ids" /\ at \notin DOMAIN nodes
  /\ pc' = "deps"
  /\ at' = 1
  /\ UNCHANGED <<nodes, seen, pending, waits, owner>>

\* "depends on unknown node"
CheckDependencies ==
  /\ pc = "deps" /\ at \in DOMAIN nodes
  /\ IF nodes[at].dependsOn \subseteq seen
       THEN pc' = pc /\ at' = at + 1
       ELSE pc' = "rejected" /\ UNCHANGED at
  /\ UNCHANGED <<nodes, seen, pending, waits, owner>>

\* _reject_cycles starts with every node pending
StartRounds ==
  /\ pc = "deps" /\ at \notin DOMAIN nodes
  /\ pc' = "rounds"
  /\ pending' = Ids
  /\ waits' = [n \in Id |-> IF n \in Ids THEN NodeOf(n).dependsOn ELSE {}]
  /\ UNCHANGED <<nodes, at, seen, owner>>

Ready == {n \in pending : waits[n] = {}}

RoundKeepsWaits ==
  /\ pc = "rounds" /\ pending # {}
  /\ IF Ready = {}
       THEN pc' = "rejected" /\ UNCHANGED <<pending, waits>>
       ELSE /\ pending' = pending \ Ready
            /\ waits' = waits
            /\ pc' = pc
  /\ UNCHANGED <<nodes, at, seen, owner>>

RoundKeepsPending ==
  /\ pc = "rounds" /\ pending # {}
  /\ IF Ready = {}
       THEN pc' = "rejected" /\ UNCHANGED <<pending, waits>>
       ELSE /\ pending' = pending
            /\ waits' = [n \in Id |-> waits[n] \ Ready]
            /\ pc' = pc
  /\ UNCHANGED <<nodes, at, seen, owner>>

\* One turn of the while loop; "contains a dependency cycle"
Round ==
  /\ pc = "rounds" /\ pending # {}
  /\ IF Ready = {}
       THEN pc' = "rejected" /\ UNCHANGED <<pending, waits>>
       ELSE /\ pending' = pending \ Ready
            /\ waits' = [n \in Id |-> waits[n] \ Ready]
            /\ pc' = pc
  /\ UNCHANGED <<nodes, at, seen, owner>>

RoundsDone ==
  /\ pc = "rounds" /\ pending = {}
  /\ pc' = "artifacts"
  /\ at' = 1
  /\ UNCHANGED <<nodes, seen, pending, waits, owner>>

\* None of the node's paths is claimed by another team
ClaimsHold(node) == \A p \in node.paths : owner[p] \in {Unclaimed, node.team}

\* "is claimed by team ... and team ..."
CheckArtifacts ==
  /\ pc = "artifacts" /\ at \in DOMAIN nodes
  /\ IF ClaimsHold(nodes[at])
       THEN /\ owner' = [p \in Path |->
                           IF p \in nodes[at].paths THEN nodes[at].team ELSE owner[p]]
            /\ at' = at + 1
            /\ pc' = pc
       ELSE pc' = "rejected" /\ UNCHANGED <<at, owner>>
  /\ UNCHANGED <<nodes, seen, pending, waits>>

Accept ==
  /\ pc = "artifacts" /\ at \notin DOMAIN nodes
  /\ pc' = "accepted"
  /\ UNCHANGED <<nodes, at, seen, pending, waits, owner>>

Next ==
  \/ CheckNode \/ NodesChecked \/ CheckDependencies \/ StartRounds
  \/ Round \/ RoundsDone \/ CheckArtifacts \/ Accept

Spec == Init /\ [][Next]_vars

-----------------------------------------------------------------------------
(* What a graph should be, in terms of the graph alone.                    *)

UniqueIds == \A i, j \in DOMAIN nodes : nodes[i].id = nodes[j].id => i = j

KnownDependencies == \A i \in DOMAIN nodes : nodes[i].dependsOn \subseteq Ids

\* Each node of S waits for another node of S: no order starts any of them
Circular(S) ==
  S # {} /\ \A n \in S : \E i \in DOMAIN nodes :
    nodes[i].id = n /\ nodes[i].dependsOn \cap S # {}

Acyclic == \A S \in SUBSET Ids : ~Circular(S)

\* No artifact is delivered by two teams
OneTeamPerPath ==
  \A i, j \in DOMAIN nodes :
    nodes[i].paths \cap nodes[j].paths # {} => nodes[i].team = nodes[j].team

EachSound == \A i \in DOMAIN nodes : nodes[i].sound

WellFormed ==
  nodes # <<>> /\ EachSound /\ UniqueIds /\ KnownDependencies /\ Acyclic /\ OneTeamPerPath

-----------------------------------------------------------------------------
(* Properties.                                                             *)

\* The variables hold what the program keeps in them.
TypeOK ==
  /\ nodes \in Seq(WorkNode)
  /\ pc \in {"ids", "deps", "rounds", "artifacts", "accepted", "rejected"}
  /\ at \in Nat \ {0}
  /\ seen \subseteq Id /\ pending \subseteq Id
  /\ waits \in [Id -> SUBSET Id]
  /\ owner \in [Path -> Team \cup {Unclaimed}]

\* validate accepts only graphs in which every node can be dispatched in some
\* order and "exactly one team owns" each artifact: ids are unique,
\* dependencies known and free of cycles, and no two teams share a path.
AcceptedIsWellFormed == pc = "accepted" => WellFormed

\* validate refuses no graph without a reason: what it rejects lacks one of these.
RejectedHasFlaw == pc = "rejected" => ~WellFormed

\* In _reject_cycles a node leaves the pending set only after all it depends
\* on: readiness is the order dispatch_graph can later work in.
RoundsFollowOrder ==
  pc \in {"rounds", "artifacts", "accepted"} =>
    \A i \in DOMAIN nodes :
      nodes[i].id \notin pending => nodes[i].dependsOn \cap pending = {}

=============================================================================
