------------------------ MODULE ValidateGraphProofs -------------------------
(***************************************************************************)
(* The validate-graph command implements the two specifications it is      *)
(* composed of: what TopologyProofs and WorkGraphProofs prove of each      *)
(* validate holds of the command, for any manifests and graphs.            *)
(***************************************************************************)
EXTENDS ValidateGraph, WorkGraphProofs

TP == INSTANCE TopologyProofs

LEMMA TopologyStepIs == T!Next => TP!Next
BY DEF T!Next, TP!Next, T!CheckTeam, TP!CheckTeam, T!TeamsChecked, TP!TeamsChecked,
   T!ClaimGates, TP!ClaimGates, T!Conclude, TP!Conclude, T!teams, TP!teams, T!Reject, TP!Reject,
   T!Admissible, TP!Admissible, T!ValidTeam, TP!ValidTeam, T!NewIn, TP!NewIn, T!Members, TP!Members

\* Each step of the command is a step of Topology.validate or leaves it alone
LEMMA CommandStepsTopology == [CommandNext]_commandVars => [TP!Next]_(TP!vars)
<1> SUFFICES ASSUME [CommandNext]_commandVars PROVE TP!Next \/ UNCHANGED TP!vars
  OBVIOUS
<1>1. T!Next => TP!Next
  BY TopologyStepIs
<1>2. UNCHANGED topologyVars => UNCHANGED TP!vars
  BY DEF topologyVars, TP!vars
<1>. QED
  BY <1>1, <1>2 DEF CommandNext, LoadTopology, ParseGraph, LookUpTeam, commandVars

LEMMA CommandStepsGraph == [CommandNext]_commandVars => [Next]_vars
BY DEF CommandNext, LoadTopology, ParseGraph, LookUpTeam, commandVars

LEMMA CommandInits == CommandInit => TP!Init /\ Init
<1> SUFFICES ASSUME CommandInit PROVE TP!Init /\ Init
  OBVIOUS
<1>1. manifest \in Manifests
  BY InputsAssumption DEF CommandInit
<1>2. T!Begin => TP!Begin
  BY DEF T!Begin, TP!Begin, T!teams, TP!teams
<1>. QED
  BY <1>1, <1>2 DEF CommandInit, TP!Init

\* The command implements Topology.validate.
THEOREM CommandValidatesTopology == Command => TP!Spec
BY CommandInits, CommandStepsTopology, PTL DEF Command, TP!Spec

\* The command implements WorkGraph.validate.
THEOREM CommandValidatesGraph == Command => Spec
BY CommandInits, CommandStepsGraph, PTL DEF Command, Spec

\* Both modules say the same of a manifest.
LEMMA SameGoverned == T!Governed <=> TP!Governed
BY DEF T!Governed, TP!Governed, T!OneNameOneLead, TP!OneNameOneLead, T!OneLeadPerSubagent,
   TP!OneLeadPerSubagent, T!OneClaimPerGate, TP!OneClaimPerGate, T!EveryGateOwned,
   TP!EveryGateOwned, T!teams, TP!teams, T!Members, TP!Members, T!ValidTeam, TP!ValidTeam

LEMMA ManifestsTyped == Manifests \subseteq TP!Manifest
BY ManifestsAssumption DEF T!Manifest, TP!Manifest, T!TeamEntry, TP!TeamEntry

\* The command goes on only with a manifest that is governed.
THEOREM CommandAcceptsGoverned == Command => []AcceptedIsGoverned
<1>1. TP!AcceptedIsGoverned => AcceptedIsGoverned
  BY SameGoverned DEF AcceptedIsGoverned, T!AcceptedIsGoverned, TP!AcceptedIsGoverned
<1>2. TP!Spec => []TP!AcceptedIsGoverned
  BY ManifestsTyped, TP!AcceptsGoverned
<1>. QED
  BY <1>1, <1>2, CommandValidatesTopology, PTL

\* The command refuses no governed manifest.
THEOREM CommandRejectsUngoverned == Command => []RejectedIsUngoverned
<1>1. TP!RejectedIsUngoverned => RejectedIsUngoverned
  BY SameGoverned DEF RejectedIsUngoverned, T!RejectedIsUngoverned, TP!RejectedIsUngoverned
<1>2. TP!Spec => []TP!RejectedIsUngoverned
  BY ManifestsTyped, TP!RejectsUngoverned
<1>. QED
  BY <1>1, <1>2, CommandValidatesTopology, PTL

\* What WorkGraphProofs proves of validate holds of the command.
THEOREM CommandAcceptsWellFormed ==
  Command => [](AcceptedIsWellFormed /\ RejectedHasFlaw /\ RoundsFollowOrder)
BY CommandValidatesGraph, OnlyWellFormedAccepted, WellFormedNeverRejected, RoundsInOrder, PTL

-----------------------------------------------------------------------------
(* What the outcome says of the input.                                     *)

\* The command gets to a graph past an accepted manifest, to the teams past an
\* accepted graph, and to a node past those whose teams it found; an error has
\* one of three reasons.
CommandInv ==
  /\ row \in Nat \ {0} /\ row <= Len(nodes) + 1 /\ manifest \in T!Manifest
  /\ step \in {"topology", "graph", "teams", "ok", "error"}
  /\ step \in {"graph", "teams", "ok"} => phase = "accepted"
  /\ step \in {"teams", "ok"} => pc = "accepted"
  /\ \A i \in DOMAIN nodes : i < row \/ step = "ok" => T!Declares(nodes[i].team)
  /\ step = "error" =>
       \/ phase = "rejected" \/ pc = "rejected"
       \/ \E i \in DOMAIN nodes : ~T!Declares(nodes[i].team)

LEMMA InputsStay == [CommandNext]_commandVars => UNCHANGED <<manifest, nodes>>
<1> SUFFICES ASSUME [CommandNext]_commandVars PROVE UNCHANGED <<manifest, nodes>>
  OBVIOUS
<1>1. Next => UNCHANGED nodes
  BY DEF Next, CheckNode, NodesChecked, CheckDependencies, StartRounds, Round, RoundsDone,
     CheckArtifacts, Accept
<1>2. T!Next => UNCHANGED manifest
  BY DEF T!Next, T!CheckTeam, T!TeamsChecked, T!ClaimGates, T!Conclude, T!Reject
<1>. QED
  BY <1>1, <1>2
  DEF CommandNext, LoadTopology, ParseGraph, LookUpTeam, commandVars, topologyVars, vars

LEMMA CommandInvInit == CommandInit => CommandInv
<1> SUFFICES ASSUME CommandInit PROVE CommandInv
  OBVIOUS
<1>1. nodes \in Seq(WorkNode)
  BY InputsAssumption, WorkGraphAssumption DEF CommandInit
<1>2. (\A i \in DOMAIN nodes : ~(i < 1)) /\ 1 <= Len(nodes) + 1
  BY <1>1
<1>. QED
  BY <1>2, InputsAssumption, ManifestsAssumption DEF CommandInit, CommandInv

LEMMA CommandInvStep == TypeOK /\ CommandInv /\ [CommandNext]_commandVars => CommandInv'
<1> SUFFICES ASSUME TypeOK, CommandInv, [CommandNext]_commandVars PROVE CommandInv'
  OBVIOUS
<1>1. manifest' = manifest /\ nodes' = nodes
  BY InputsStay
<1>2. \A i \in DOMAIN nodes : T!Declares(nodes[i].team)' <=> T!Declares(nodes[i].team)
  BY <1>1 DEF T!Declares, T!teams
<1>3. DOMAIN nodes = 1..Len(nodes) /\ Len(nodes) \in Nat
  BY DEF TypeOK
<1>4. CASE LoadTopology
  BY <1>1, <1>2, <1>4 DEF LoadTopology, CommandInv, vars, topologyVars
<1>5. CASE ParseGraph
  BY <1>1, <1>2, <1>5 DEF ParseGraph, CommandInv, vars, topologyVars
<1>6. CASE LookUpTeam
  BY <1>1, <1>2, <1>3, <1>6 DEF LookUpTeam, CommandInv, vars, topologyVars
<1>7. CASE UNCHANGED commandVars
  BY <1>1, <1>2, <1>7 DEF commandVars, CommandInv, vars, topologyVars
<1>. QED
  BY <1>4, <1>5, <1>6, <1>7 DEF CommandNext

LEMMA CommandInvariant == Command => []CommandInv
<1>1. Command => []TypeOK
  BY CommandValidatesGraph, GraphTypesHold, PTL
<1>. QED
  BY <1>1, CommandInvInit, CommandInvStep, PTL DEF Command

\* What validate-graph is asked: is the manifest governed, the graph well-formed,
\* and every team that a node names declared?
Dispatchable ==
  T!Governed /\ WellFormed /\ \A i \in DOMAIN nodes : T!Declares(nodes[i].team)

OutcomeFitsInput == (step = "ok" => Dispatchable) /\ (step = "error" => ~Dispatchable)

\* The exit status of the command is right for every manifest and graph: "ok"
\* exactly when all three hold.
THEOREM CommandDecides == Command => []OutcomeFitsInput
<1>1. CommandInv /\ AcceptedIsGoverned /\ RejectedIsUngoverned
        /\ AcceptedIsWellFormed /\ RejectedHasFlaw => OutcomeFitsInput
  BY DEF CommandInv, AcceptedIsGoverned, RejectedIsUngoverned, T!AcceptedIsGoverned,
     T!RejectedIsUngoverned, AcceptedIsWellFormed, RejectedHasFlaw, OutcomeFitsInput, Dispatchable
<1>. QED
  BY <1>1, CommandInvariant, CommandAcceptsGoverned, CommandRejectsUngoverned,
     CommandAcceptsWellFormed, PTL

\* An exit gate of no registry is all that a validated graph can still be
\* refused for, node by node.
THEOREM OnlyUnknownGates == Command => []OnlyUnknownGatesSlipThrough
<1>1. CommandInv /\ AcceptedIsGoverned => OnlyUnknownGatesSlipThrough
  BY DEF CommandInv, AcceptedIsGoverned, OnlyUnknownGatesSlipThrough, DispatchResolves,
     T!AcceptedIsGoverned, T!Governed, T!EveryGateOwned, T!teams
<1>. QED
  BY <1>1, CommandInvariant, CommandAcceptsGoverned, PTL

\* The owner that team_for_gate finds is the registry's, for every gate.
THEOREM EveryGateCanPass == Command => []GatesCanPass
<1>1. CommandInv /\ AcceptedIsGoverned => GatesCanPass
  <2> SUFFICES ASSUME CommandInv, AcceptedIsGoverned, step = "ok", NEW h \in Gate
               PROVE  T!TeamForGate(h) = OwnerTeam[h]
    BY DEF GatesCanPass, Certified
  <2>1. T!Governed
    BY DEF CommandInv, AcceptedIsGoverned, T!AcceptedIsGoverned
  <2> DEFINE First(i) ==
        /\ h \in T!Members(T!teams[i].gatesOwned)
        /\ \A j \in 1..(i - 1) : h \notin T!Members(T!teams[j].gatesOwned)
  <2>2. DOMAIN T!teams = 1..Len(T!teams) /\ Len(T!teams) \in Nat
    BY DEF CommandInv, T!teams, T!Manifest
  <2>3. \E i \in DOMAIN T!teams : First(i)
    BY <2>1, <2>2 DEF T!Governed, T!EveryGateOwned, T!OneClaimPerGate, T!Members
  <2>4. T!TeamForGate(h) = T!teams[CHOOSE i \in DOMAIN T!teams : First(i)].name
    BY DEF T!TeamForGate
  <2>5. \A i \in DOMAIN T!teams : First(i) => OwnerTeam[h] = T!teams[i].name
    BY <2>1 DEF T!Governed, T!ValidTeam
  <2>. QED
    BY <2>3, <2>4, <2>5
<1>. QED
  BY <1>1, CommandInvariant, CommandAcceptsGoverned, PTL

-----------------------------------------------------------------------------
(* The command ends.                                                       *)

\* The steps the command still has to take, at most
CommandStepsLeft ==
  TP!TurnsLeft + StepsLeft + (Len(nodes) + 1 - row)
    + (IF step = "topology" THEN 3 ELSE IF step = "graph" THEN 2
       ELSE IF step = "teams" THEN 1 ELSE 0)

EndInv ==
  /\ TypeOK /\ AtInv /\ TP!TopologyInv /\ CommandInv
  /\ TP!TurnsLeft \in Nat /\ StepsLeft \in Nat

LEMMA EndInvHolds == Command => []EndInv
<1>1. TP!Spec => []TP!TopologyInv
  BY ManifestsTyped, TP!TopologyInvariant
<1>2. TP!TopologyInv => TP!TurnsLeft \in Nat
  BY TP!TurnsLeftCounts
<1>3. TypeOK /\ AtInv => StepsLeft \in Nat
  BY StepsLeftCounts
<1>. QED
  BY <1>1, <1>2, <1>3, CommandValidatesTopology, CommandValidatesGraph, GraphTypesHold, AtInvHolds,
     CommandInvariant, PTL DEF EndInv

LEMMA StepsCounted ==
  ASSUME EndInv
  PROVE  /\ Len(nodes) \in Nat /\ row \in Nat /\ row <= Len(nodes) + 1
         /\ DOMAIN nodes = 1..Len(nodes)
         /\ TP!TurnsLeft \in Nat /\ StepsLeft \in Nat
BY DEF EndInv, CommandInv, TypeOK

LEMMA StepCountFalls == EndInv /\ EndInv' /\ CommandNext => CommandStepsLeft' < CommandStepsLeft
<1> SUFFICES ASSUME EndInv, EndInv', CommandNext PROVE CommandStepsLeft' < CommandStepsLeft
  OBVIOUS
<1>1. manifest' = manifest /\ nodes' = nodes
  BY InputsStay
<1>2. /\ Len(nodes) \in Nat /\ row \in Nat /\ row <= Len(nodes) + 1
      /\ DOMAIN nodes = 1..Len(nodes)
      /\ TP!TurnsLeft \in Nat /\ StepsLeft \in Nat
  BY StepsCounted
<1>3. TP!TurnsLeft' \in Nat /\ StepsLeft' \in Nat
  BY DEF EndInv
<1>4. UNCHANGED vars => StepsLeft' = StepsLeft
  BY DEF vars, StepsLeft, Ids
<1>5. UNCHANGED topologyVars => TP!TurnsLeft' = TP!TurnsLeft
  BY DEF topologyVars, TP!TurnsLeft, TP!teams
<1>6. CASE LoadTopology
  <2>1. T!Next => TP!TurnsLeft' < TP!TurnsLeft
    <3>1. T!Next => TP!Next
      BY TopologyStepIs
    <3>. QED
      BY <3>1, TP!TurnsLeftFalls DEF EndInv
  <2>. QED
    BY <1>1, <1>2, <1>3, <1>4, <1>5, <1>6, <2>1 DEF LoadTopology, CommandStepsLeft
<1>7. CASE ParseGraph
  <2>1. Next => StepsLeft' < StepsLeft
    BY StepsLeftFalls DEF EndInv
  <2>. QED
    BY <1>1, <1>2, <1>3, <1>4, <1>5, <1>7, <2>1 DEF ParseGraph, CommandStepsLeft
<1>8. CASE LookUpTeam
  BY <1>1, <1>2, <1>3, <1>4, <1>5, <1>8 DEF LookUpTeam, CommandStepsLeft
<1>. QED
  BY <1>6, <1>7, <1>8 DEF CommandNext

\* The command never runs on for ever, whatever manifest and graph it is given:
\* every step of it uses up one of a number of steps known from the start.
THEOREM StepsRunOut ==
  Command => [](CommandStepsLeft \in Nat) /\ [][CommandStepsLeft' < CommandStepsLeft]_commandVars
<1>1. EndInv /\ EndInv' /\ [CommandNext]_commandVars
        => [CommandStepsLeft' < CommandStepsLeft]_commandVars
  BY StepCountFalls
<1>2. EndInv => CommandStepsLeft \in Nat
  <2> SUFFICES ASSUME EndInv PROVE CommandStepsLeft \in Nat
    OBVIOUS
  <2>1. /\ Len(nodes) \in Nat /\ row \in Nat /\ row <= Len(nodes) + 1
        /\ TP!TurnsLeft \in Nat /\ StepsLeft \in Nat
    BY StepsCounted
  <2>. QED
    BY <2>1 DEF CommandStepsLeft
<1>. QED
  BY <1>1, <1>2, EndInvHolds, PTL DEF Command

=============================================================================
