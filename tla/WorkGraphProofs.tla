--------------------------- MODULE WorkGraphProofs ---------------------------
(***************************************************************************)
(* Proofs about WorkGraph: validate accepts a graph only if it is well     *)
(* formed and rejects one only if it is not, for graphs of any size over   *)
(* any ids, teams and artifacts.                                           *)
(***************************************************************************)
EXTENDS WorkGraph, FiniteSetTheorems, TLAPS

\* What the fields of a node hold.
LEMMA NodeFields ==
  ASSUME nodes \in Seq(WorkNode), NEW i \in DOMAIN nodes
  PROVE  /\ nodes[i].id \in Id /\ nodes[i].team \in Team
         /\ nodes[i].dependsOn \subseteq Id /\ nodes[i].paths \subseteq Path
         /\ nodes[i].sound \in BOOLEAN
<1>1. nodes[i] \in WorkNode
  OBVIOUS
<1> QED
  BY <1>1 DEF WorkNode

LEMMA Indices ==
  ASSUME nodes \in Seq(WorkNode)
  PROVE  DOMAIN nodes \subseteq Nat \ {0} /\ Ids \subseteq Id
<1>1. Ids \subseteq Id
  BY NodeFields DEF Ids
<1> QED
  BY <1>1

\* NodeOf finds the node of an id when ids are unique.
LEMMA NodeOfId ==
  ASSUME UniqueIds, NEW i \in DOMAIN nodes
  PROVE  NodeOf(nodes[i].id) = nodes[i]
<1>1. \E j \in DOMAIN nodes : nodes[j].id = nodes[i].id
  OBVIOUS
<1>2. (CHOOSE j \in DOMAIN nodes : nodes[j].id = nodes[i].id) = i
  BY <1>1 DEF UniqueIds
<1> QED
  BY <1>2 DEF NodeOf

-----------------------------------------------------------------------------
(* The invariant: what each loop has established when it is at index at.   *)

\* The loop over node.validate and the ids seen
IdsSoFar ==
  /\ \A j \in DOMAIN nodes : j < at => nodes[j].sound
  /\ \A j, k \in DOMAIN nodes : j < at /\ k < at /\ nodes[j].id = nodes[k].id => j = k
  /\ \A j \in DOMAIN nodes : j < at => nodes[j].id \in seen
  /\ \A n \in seen : \E j \in DOMAIN nodes : j < at /\ nodes[j].id = n

IdsDone == EachSound /\ UniqueIds /\ seen = Ids

DependenciesSoFar ==
  \A j \in DOMAIN nodes : j < at => nodes[j].dependsOn \subseteq Ids

\* Kahn's algorithm: a pending node waits for exactly the pending nodes it
\* depends on, and a circular set of nodes stays pending as a whole
RoundsSoFar ==
  /\ pending \subseteq Ids
  /\ \A j \in DOMAIN nodes :
       nodes[j].id \in pending => waits[nodes[j].id] = nodes[j].dependsOn \cap pending
  /\ \A j \in DOMAIN nodes :
       nodes[j].id \notin pending => nodes[j].dependsOn \cap pending = {}
  /\ \A S \in SUBSET Ids : Circular(S) => S \subseteq pending

ClaimsSoFar ==
  /\ \A j \in DOMAIN nodes : j < at => \A p \in nodes[j].paths : owner[p] = nodes[j].team
  /\ \A p \in Path : owner[p] # Unclaimed =>
       \E j \in DOMAIN nodes : j < at /\ p \in nodes[j].paths /\ owner[p] = nodes[j].team

GraphInv ==
  /\ pc = "rejected" => ~WellFormed
  /\ pc # "rejected" => nodes # <<>>
  /\ pc = "ids" => IdsSoFar
  /\ pc \in {"deps", "rounds", "artifacts", "accepted"} => IdsDone
  /\ pc = "deps" => DependenciesSoFar
  /\ pc \in {"rounds", "artifacts", "accepted"} => KnownDependencies /\ RoundsSoFar
  /\ pc \in {"artifacts", "accepted"} => pending = {}
  /\ pc = "artifacts" => ClaimsSoFar
  /\ pc = "artifacts" => \A p \in Path : owner[p] = Unclaimed \/ owner[p] \in Team
  /\ pc \in {"ids", "deps", "rounds"} => owner = [p \in Path |-> Unclaimed]
  /\ pc = "accepted" => OneTeamPerPath

-----------------------------------------------------------------------------

\* The variables of validate keep their types through every loop.
THEOREM GraphTypesHold == Spec => []TypeOK
<1>1. Init => TypeOK
  BY WorkGraphAssumption DEF Init, TypeOK
<1>2. TypeOK /\ [Next]_vars => TypeOK'
  <2> SUFFICES ASSUME TypeOK, [Next]_vars PROVE TypeOK'
    OBVIOUS
  <2>1. \A i \in DOMAIN nodes :
          /\ nodes[i].id \in Id /\ nodes[i].team \in Team
          /\ nodes[i].dependsOn \subseteq Id
    BY NodeFields DEF TypeOK
  <2>2. Ids \subseteq Id
    BY Indices DEF TypeOK
  <2>3. CASE CheckNode
    BY <2>3, <2>1 DEF CheckNode, TypeOK
  <2>4. CASE NodesChecked
    BY <2>4 DEF NodesChecked, TypeOK
  <2>5. CASE CheckDependencies
    BY <2>5 DEF CheckDependencies, TypeOK
  <2>6. CASE StartRounds
    <3>1. \A n \in Ids : NodeOf(n).dependsOn \subseteq Id
      <4> SUFFICES ASSUME NEW n \in Ids PROVE NodeOf(n).dependsOn \subseteq Id
        OBVIOUS
      <4>1. \E i \in DOMAIN nodes : nodes[i].id = n
        BY DEF Ids
      <4>2. PICK i \in DOMAIN nodes : NodeOf(n) = nodes[i]
        BY <4>1 DEF NodeOf
      <4> QED
        BY <4>2, <2>1
    <3> QED
      BY <2>6, <2>2, <3>1 DEF StartRounds, TypeOK
  <2>7. CASE Round
    BY <2>7 DEF Round, TypeOK
  <2>8. CASE RoundsDone
    BY <2>8 DEF RoundsDone, TypeOK
  <2>9. CASE CheckArtifacts
    BY <2>9, <2>1 DEF CheckArtifacts, TypeOK
  <2>10. CASE Accept
    BY <2>10 DEF Accept, TypeOK
  <2>11. CASE UNCHANGED vars
    BY <2>11 DEF vars, TypeOK
  <2> QED
    BY <2>3, <2>4, <2>5, <2>6, <2>7, <2>8, <2>9, <2>10, <2>11 DEF Next
<1> QED
  BY <1>1, <1>2, PTL DEF Spec

-----------------------------------------------------------------------------
(* Nothing about the graph itself changes while validate looks at it.      *)

LEMMA GraphStays ==
  ASSUME nodes' = nodes
  PROVE  /\ Ids' = Ids /\ EachSound' = EachSound /\ UniqueIds' = UniqueIds
         /\ KnownDependencies' = KnownDependencies
         /\ OneTeamPerPath' = OneTeamPerPath
         /\ \A S : Circular(S)' = Circular(S)
         /\ Acyclic' = Acyclic
         /\ WellFormed' = WellFormed
BY DEF Ids, EachSound, UniqueIds, KnownDependencies, OneTeamPerPath, Circular, Acyclic,
       WellFormed

\* A round of Kahn's algorithm: what is ready depends on nothing pending.
LEMMA RoundKeepsOrder ==
  ASSUME TypeOK, UniqueIds, RoundsSoFar, Ready # {}, Round
  PROVE  RoundsSoFar'
<1>0. /\ pending' = pending \ Ready /\ waits' = [n \in Id |-> waits[n] \ Ready]
      /\ nodes' = nodes
  BY DEF Round
<1>1. Ids' = Ids /\ \A S : Circular(S)' = Circular(S)
  BY <1>0, GraphStays
<1>2. \A j \in DOMAIN nodes : nodes[j].id \in Id
  BY NodeFields DEF TypeOK
<1>3. \A j \in DOMAIN nodes : nodes[j].id \in Ready => nodes[j].dependsOn \cap pending = {}
  BY DEF RoundsSoFar, Ready
<1>4. pending' \subseteq Ids'
  BY <1>0, <1>1 DEF RoundsSoFar
<1>5. ASSUME NEW j \in DOMAIN nodes, nodes[j].id \in pending'
      PROVE  waits'[nodes[j].id] = nodes[j].dependsOn \cap pending'
  BY <1>0, <1>2, <1>5 DEF RoundsSoFar
<1>6. ASSUME NEW j \in DOMAIN nodes, nodes[j].id \notin pending'
      PROVE  nodes[j].dependsOn \cap pending' = {}
  BY <1>0, <1>3, <1>6 DEF RoundsSoFar
<1>7. ASSUME NEW S \in SUBSET Ids, Circular(S)
      PROVE  S \subseteq pending'
  <2>1. S \subseteq pending
    BY <1>7 DEF RoundsSoFar
  <2>2. ASSUME NEW n \in S PROVE n \notin Ready
    <3>1. PICK i \in DOMAIN nodes : nodes[i].id = n /\ nodes[i].dependsOn \cap S # {}
      BY <1>7 DEF Circular
    <3> QED
      BY <3>1, <2>1, <1>3
  <2> QED
    BY <2>1, <2>2, <1>0
<1> QED
  BY <1>0, <1>1, <1>4, <1>5, <1>6, <1>7 DEF RoundsSoFar

\* When nothing is ready the pending nodes wait for each other.
LEMMA NothingReady ==
  ASSUME TypeOK, RoundsSoFar, pending # {}, Ready = {}
  PROVE  ~Acyclic
<1>1. ASSUME NEW n \in pending
      PROVE  \E i \in DOMAIN nodes : nodes[i].id = n /\ nodes[i].dependsOn \cap pending # {}
  <2>1. PICK i \in DOMAIN nodes : nodes[i].id = n
    BY DEF RoundsSoFar, Ids
  <2>2. waits[n] # {} /\ waits[n] = nodes[i].dependsOn \cap pending
    BY <2>1 DEF Ready, RoundsSoFar
  <2> QED
    BY <2>1, <2>2
<1>2. Circular(pending)
  BY <1>1 DEF Circular
<1> QED
  BY <1>2 DEF Acyclic, RoundsSoFar

LEMMA SelfDependence ==
  ASSUME NEW i \in DOMAIN nodes, SelfDependent(nodes[i])
  PROVE  ~Acyclic
<1>1. Circular({nodes[i].id})
  BY DEF Circular, SelfDependent
<1> QED
  BY <1>1 DEF Acyclic, Ids

-----------------------------------------------------------------------------

LEMMA GraphInvHolds == Spec => []GraphInv
<1>1. Init => GraphInv
  BY WorkGraphAssumption DEF Init, GraphInv, IdsSoFar, WellFormed
<1>2. TypeOK /\ GraphInv /\ [Next]_vars => GraphInv'
  <2> SUFFICES ASSUME TypeOK, GraphInv, [Next]_vars PROVE GraphInv'
    OBVIOUS
  <2>0. /\ DOMAIN nodes \subseteq Nat \ {0} /\ Ids \subseteq Id /\ at \in Nat \ {0}
        /\ DOMAIN nodes = 1 .. Len(nodes) /\ Len(nodes) \in Nat
    BY Indices DEF TypeOK
  <2>1. ASSUME nodes' = nodes
        PROVE  /\ Ids' = Ids /\ EachSound' = EachSound /\ UniqueIds' = UniqueIds
               /\ KnownDependencies' = KnownDependencies
               /\ OneTeamPerPath' = OneTeamPerPath
               /\ \A S : Circular(S)' = Circular(S)
               /\ Acyclic' = Acyclic /\ WellFormed' = WellFormed
    BY <2>1, GraphStays
  <2>2. CASE CheckNode
    <3>1. pc = "ids" /\ IdsSoFar /\ at \in DOMAIN nodes /\ nodes' = nodes /\ owner' = owner
      BY <2>2 DEF CheckNode, GraphInv
    <3>2. CASE ~nodes[at].sound \/ SelfDependent(nodes[at]) \/ nodes[at].id \in seen
      <4>1. pc' = "rejected"
        BY <2>2, <3>2 DEF CheckNode
      <4>2. ~WellFormed
        <5>1. CASE ~nodes[at].sound
          BY <5>1, <3>1 DEF WellFormed, EachSound
        <5>2. CASE SelfDependent(nodes[at])
          BY <5>2, <3>1, SelfDependence DEF WellFormed
        <5>3. CASE nodes[at].id \in seen
          <6>1. PICK j \in DOMAIN nodes : j < at /\ nodes[j].id = nodes[at].id
            BY <5>3, <3>1 DEF IdsSoFar
          <6>2. j # at
            BY <6>1, <2>0
          <6> QED
            BY <6>1, <6>2, <3>1 DEF WellFormed, UniqueIds
        <5> QED
          BY <3>2, <5>1, <5>2, <5>3
      <4> QED
        BY <4>1, <4>2, <3>1, <2>1 DEF GraphInv
    <3>3. CASE ~(~nodes[at].sound \/ SelfDependent(nodes[at]) \/ nodes[at].id \in seen)
      <4>1. pc' = "ids" /\ at' = at + 1 /\ seen' = seen \cup {nodes[at].id}
        BY <2>2, <3>1, <3>3 DEF CheckNode
      <4>2. \A j \in DOMAIN nodes : j < at' <=> j < at \/ j = at
        BY <4>1, <2>0
      <4>3. IdsSoFar'
        BY <3>1, <3>3, <4>1, <4>2 DEF IdsSoFar
      <4> QED
        BY <4>1, <4>3, <3>1 DEF GraphInv
    <3> QED
      BY <3>2, <3>3
  <2>3. CASE NodesChecked
    <3>1. /\ pc = "ids" /\ IdsSoFar /\ at \notin DOMAIN nodes
          /\ pc' = "deps" /\ at' = 1 /\ nodes' = nodes /\ seen' = seen /\ owner' = owner
      BY <2>3 DEF NodesChecked, GraphInv
    <3>2. \A j \in DOMAIN nodes : j < at
      BY <3>1, <2>0
    <3>3. IdsDone
      BY <3>1, <3>2 DEF IdsSoFar, IdsDone, EachSound, UniqueIds, Ids
    <3>4. IdsDone'
      BY <3>1, <3>3, <2>1 DEF IdsDone
    <3>5. DependenciesSoFar'
      BY <3>1, <2>0 DEF DependenciesSoFar
    <3> QED
      BY <3>1, <3>4, <3>5 DEF GraphInv
  <2>4. CASE CheckDependencies
    <3>1. /\ pc = "deps" /\ IdsDone /\ DependenciesSoFar /\ at \in DOMAIN nodes
          /\ nodes' = nodes /\ seen' = seen /\ owner' = owner
      BY <2>4 DEF CheckDependencies, GraphInv
    <3>2. CASE nodes[at].dependsOn \subseteq seen
      <4>1. pc' = "deps" /\ at' = at + 1
        BY <2>4, <3>1, <3>2 DEF CheckDependencies
      <4>2. \A j \in DOMAIN nodes : j < at' => j < at \/ j = at
        BY <4>1, <2>0
      <4>3. DependenciesSoFar'
        BY <3>1, <3>2, <4>1, <4>2, <2>1 DEF DependenciesSoFar, IdsDone
      <4> QED
        BY <4>1, <4>3, <3>1, <2>1 DEF GraphInv, IdsDone
    <3>3. CASE ~(nodes[at].dependsOn \subseteq seen)
      <4>1. pc' = "rejected"
        BY <2>4, <3>3 DEF CheckDependencies
      <4>2. ~WellFormed
        BY <3>1, <3>3 DEF WellFormed, KnownDependencies, IdsDone
      <4> QED
        BY <4>1, <4>2, <3>1, <2>1 DEF GraphInv
    <3> QED
      BY <3>2, <3>3
  <2>5. CASE StartRounds
    <3>1. /\ pc = "deps" /\ IdsDone /\ DependenciesSoFar /\ at \notin DOMAIN nodes
          /\ pc' = "rounds" /\ pending' = Ids
          /\ waits' = [n \in Id |-> IF n \in Ids THEN NodeOf(n).dependsOn ELSE {}]
          /\ nodes' = nodes /\ seen' = seen /\ owner' = owner
      BY <2>5 DEF StartRounds, GraphInv
    <3>2. KnownDependencies
      BY <3>1, <2>0 DEF DependenciesSoFar, KnownDependencies
    <3>3. \A j \in DOMAIN nodes : nodes[j].id \in Ids
      BY DEF Ids
    <3>4. ASSUME NEW j \in DOMAIN nodes
          PROVE  waits'[nodes[j].id] = nodes[j].dependsOn \cap pending'
      <4>1. NodeOf(nodes[j].id) = nodes[j]
        BY <3>1, NodeOfId DEF IdsDone
      <4>2. waits'[nodes[j].id] = nodes[j].dependsOn
        BY <4>1, <3>1, <3>3, <2>0
      <4> QED
        BY <4>2, <3>1, <3>2 DEF KnownDependencies
    <3>5. RoundsSoFar'
      BY <3>1, <3>3, <3>4, <2>1 DEF RoundsSoFar
    <3> QED
      BY <3>1, <3>2, <3>5, <2>1 DEF GraphInv, IdsDone
  <2>6. CASE Round
    <3>1. /\ pc = "rounds" /\ IdsDone /\ KnownDependencies /\ RoundsSoFar
          /\ pending # {} /\ nodes' = nodes /\ seen' = seen /\ owner' = owner
      BY <2>6 DEF Round, GraphInv
    <3>2. CASE Ready = {}
      <4>1. pc' = "rejected" /\ ~WellFormed
        BY <2>6, <3>1, <3>2, NothingReady DEF Round, WellFormed
      <4> QED
        BY <4>1, <3>1, <2>1 DEF GraphInv
    <3>3. CASE Ready # {}
      <4>1. pc' = "rounds"
        BY <2>6, <3>1, <3>3 DEF Round
      <4>2. RoundsSoFar'
        BY <2>6, <3>1, <3>3, RoundKeepsOrder DEF IdsDone
      <4> QED
        BY <4>1, <4>2, <3>1, <2>1 DEF GraphInv, IdsDone
    <3> QED
      BY <3>2, <3>3
  <2>7. CASE RoundsDone
    <3>1. /\ pc = "rounds" /\ IdsDone /\ KnownDependencies /\ RoundsSoFar
          /\ pending = {} /\ pc' = "artifacts" /\ at' = 1
          /\ UNCHANGED <<nodes, seen, pending, waits, owner>>
          /\ owner = [p \in Path |-> Unclaimed]
      BY <2>7 DEF RoundsDone, GraphInv
    <3>2. RoundsSoFar'
      BY <3>1, <2>1 DEF RoundsSoFar
    <3>3. ClaimsSoFar'
      BY <3>1, <2>0 DEF ClaimsSoFar
    <3> QED
      BY <3>1, <3>2, <3>3, <2>1 DEF GraphInv, IdsDone
  <2>8. CASE CheckArtifacts
    <3>1. /\ pc = "artifacts" /\ IdsDone /\ KnownDependencies /\ RoundsSoFar
          /\ pending = {} /\ ClaimsSoFar /\ at \in DOMAIN nodes
          /\ UNCHANGED <<nodes, seen, pending, waits>>
          /\ \A p \in Path : owner[p] = Unclaimed \/ owner[p] \in Team
      BY <2>8 DEF CheckArtifacts, GraphInv
    <3>2. RoundsSoFar'
      BY <3>1, <2>1 DEF RoundsSoFar
    <3>3. \A j \in DOMAIN nodes : nodes[j].paths \subseteq Path /\ nodes[j].team \in Team
      BY NodeFields DEF TypeOK
    <3>4. CASE ClaimsHold(nodes[at])
      <4>1. /\ pc' = "artifacts" /\ at' = at + 1
            /\ owner' = [p \in Path |->
                           IF p \in nodes[at].paths THEN nodes[at].team ELSE owner[p]]
        BY <2>8, <3>1, <3>4 DEF CheckArtifacts
      <4>2. \A j \in DOMAIN nodes : j < at' <=> j < at \/ j = at
        BY <4>1, <2>0
      <4>3. ASSUME NEW j \in DOMAIN nodes, j < at', NEW p \in nodes[j].paths
            PROVE  owner'[p] = nodes[j].team
        <5>1. p \in Path
          BY <3>3
        <5>2. CASE p \in nodes[at].paths
          <6>1. CASE j = at
            BY <6>1, <5>1, <5>2, <4>1
          <6>2. CASE j < at
            <7>1. owner[p] = nodes[j].team /\ owner[p] # Unclaimed
              BY <6>2, <3>1, <3>3, WorkGraphAssumption DEF ClaimsSoFar
            <7> QED
              BY <7>1, <5>1, <5>2, <4>1, <3>4 DEF ClaimsHold
          <6> QED
            BY <6>1, <6>2, <4>2, <4>3
        <5>3. CASE p \notin nodes[at].paths
          BY <5>1, <5>3, <4>1, <4>2, <4>3, <3>1 DEF ClaimsSoFar
        <5> QED
          BY <5>2, <5>3
      <4>4. ASSUME NEW p \in Path, owner'[p] # Unclaimed
            PROVE  \E j \in DOMAIN nodes :
                     j < at' /\ p \in nodes[j].paths /\ owner'[p] = nodes[j].team
        BY <4>4, <4>1, <4>2, <3>1 DEF ClaimsSoFar
      <4>5. ClaimsSoFar'
        BY <4>3, <4>4, <3>1 DEF ClaimsSoFar
      <4>6. \A p \in Path : owner'[p] = Unclaimed \/ owner'[p] \in Team
        BY <4>1, <3>1, <3>3
      <4> QED
        BY <4>1, <4>5, <4>6, <3>1, <3>2, <2>1 DEF GraphInv, IdsDone
    <3>5. CASE ~ClaimsHold(nodes[at])
      <4>1. pc' = "rejected"
        BY <2>8, <3>5 DEF CheckArtifacts
      <4>2. PICK p \in nodes[at].paths : owner[p] \notin {Unclaimed, nodes[at].team}
        BY <3>5 DEF ClaimsHold
      <4>3. PICK j \in DOMAIN nodes : p \in nodes[j].paths /\ owner[p] = nodes[j].team
        BY <4>2, <3>1, <3>3 DEF ClaimsSoFar
      <4>4. ~OneTeamPerPath
        BY <4>2, <4>3, <3>1 DEF OneTeamPerPath
      <4> QED
        BY <4>1, <4>4, <3>1, <2>1 DEF GraphInv, WellFormed
    <3> QED
      BY <3>4, <3>5
  <2>9. CASE Accept
    <3>1. /\ pc = "artifacts" /\ IdsDone /\ KnownDependencies /\ RoundsSoFar
          /\ pending = {} /\ ClaimsSoFar /\ at \notin DOMAIN nodes
          /\ pc' = "accepted" /\ UNCHANGED <<nodes, at, seen, pending, waits, owner>>
      BY <2>9 DEF Accept, GraphInv
    <3>2. RoundsSoFar'
      BY <3>1, <2>1 DEF RoundsSoFar
    <3>3. \A j \in DOMAIN nodes : j < at
      BY <3>1, <2>0
    <3>4. OneTeamPerPath
      BY <3>1, <3>3 DEF ClaimsSoFar, OneTeamPerPath
    <3> QED
      BY <3>1, <3>2, <3>4, <2>1 DEF GraphInv, IdsDone
  <2>10. CASE UNCHANGED vars
    <3>1. UNCHANGED <<nodes, pc, at, seen, pending, waits, owner>>
      BY <2>10 DEF vars
    <3> QED
      BY <3>1, <2>1 DEF GraphInv, IdsSoFar, IdsDone, DependenciesSoFar, RoundsSoFar,
                        ClaimsSoFar
  <2> QED
    BY <2>2, <2>3, <2>4, <2>5, <2>6, <2>7, <2>8, <2>9, <2>10 DEF Next
<1> QED
  BY <1>1, <1>2, GraphTypesHold, PTL DEF Spec

-----------------------------------------------------------------------------

\* validate accepts only graphs with unique ids, known and acyclic
\* dependencies, and one team per artifact.
THEOREM OnlyWellFormedAccepted == Spec => []AcceptedIsWellFormed
<1>1. GraphInv => AcceptedIsWellFormed
  <2> SUFFICES ASSUME GraphInv, pc = "accepted" PROVE WellFormed
    BY DEF AcceptedIsWellFormed
  <2>1. RoundsSoFar /\ pending = {} /\ IdsDone /\ KnownDependencies /\ OneTeamPerPath
    BY DEF GraphInv
  <2>2. Acyclic
    BY <2>1 DEF Acyclic, RoundsSoFar, Circular
  <2> QED
    BY <2>1, <2>2 DEF WellFormed, GraphInv, IdsDone
<1> QED
  BY <1>1, GraphInvHolds, PTL

\* validate rejects no well-formed graph.
THEOREM WellFormedNeverRejected == Spec => []RejectedHasFlaw
<1>1. GraphInv => RejectedHasFlaw
  BY DEF GraphInv, RejectedHasFlaw
<1> QED
  BY <1>1, GraphInvHolds, PTL

\* A node leaves the pending set after everything it depends on.
THEOREM RoundsInOrder == Spec => []RoundsFollowOrder
<1>1. GraphInv => RoundsFollowOrder
  BY DEF GraphInv, RoundsFollowOrder, RoundsSoFar
<1> QED
  BY <1>1, GraphInvHolds, PTL

-----------------------------------------------------------------------------
(* The loops end.                                                          *)

\* The steps validate still has to take, at most: what is left of its loop,
\* and all of the loops after it.
StepsLeft ==
  LET turns == Len(nodes) + 1 IN
  IF pc = "ids"            THEN (turns - at) + 3 * turns + Cardinality(Ids) + 2
  ELSE IF pc = "deps"      THEN (turns - at) + 2 * turns + Cardinality(Ids) + 2
  ELSE IF pc = "rounds"    THEN Cardinality(pending) + turns + 1
  ELSE IF pc = "artifacts" THEN (turns - at) + 1
  ELSE 0

LEMMA IdsFinite == ASSUME TypeOK PROVE IsFiniteSet(Ids)
<1> DEFINE ix == 1..Len(nodes)
           f  == [i \in ix |-> nodes[i].id]
<1>1. DOMAIN nodes = ix /\ Len(nodes) \in Nat
  BY DEF TypeOK
<1>2. f \in [ix -> Ids] /\ \A n \in Ids : \E i \in ix : f[i] = n
  BY <1>1 DEF Ids
<1>3. f \in Surjection(ix, Ids)
  BY <1>2 DEF Surjection
<1>4. IsFiniteSet(ix)
  BY <1>1, FS_Interval
<1>. QED
  BY <1>3, <1>4, FS_Surjection

\* A loop is never more than one past the last node.
AtInv == at <= Len(nodes) + 1 /\ pending \subseteq Ids

LEMMA AtInvHolds == Spec => []AtInv
<1>1. Init => AtInv
  BY WorkGraphAssumption DEF Init, AtInv
<1>2. TypeOK /\ AtInv /\ [Next]_vars => AtInv'
  <2> SUFFICES ASSUME TypeOK, AtInv, [Next]_vars PROVE AtInv'
    OBVIOUS
  <2>1. nodes' = nodes
    BY DEF Next, CheckNode, NodesChecked, CheckDependencies, StartRounds, Round, RoundsDone,
       CheckArtifacts, Accept, vars
  <2>2. Ids' = Ids
    BY <2>1 DEF Ids
  <2>3. DOMAIN nodes = 1..Len(nodes) /\ Len(nodes) \in Nat /\ at \in Nat
    BY DEF TypeOK
  <2>. QED
    BY <2>1, <2>2, <2>3 DEF AtInv, Next, CheckNode, NodesChecked, CheckDependencies, StartRounds,
       Round, RoundsDone, CheckArtifacts, Accept, vars, Ready
<1>. QED
  BY <1>1, <1>2, GraphTypesHold, PTL DEF Spec

\* The sizes the steps are counted in.
LEMMA Sizes ==
  ASSUME TypeOK, AtInv
  PROVE  /\ DOMAIN nodes = 1..Len(nodes) /\ Len(nodes) \in Nat
         /\ at \in Nat /\ Len(nodes) + 1 - at \in Nat
         /\ Cardinality(Ids) \in Nat /\ Cardinality(pending) \in Nat
         /\ IsFiniteSet(pending)
<1>1. IsFiniteSet(Ids)
  BY IdsFinite
<1>2. IsFiniteSet(pending)
  BY <1>1, FS_Subset DEF AtInv
<1>3. Cardinality(Ids) \in Nat /\ Cardinality(pending) \in Nat
  BY <1>1, <1>2, FS_CardinalityType
<1>4. DOMAIN nodes = 1..Len(nodes) /\ Len(nodes) \in Nat /\ at \in Nat
  BY DEF TypeOK
<1>. QED
  BY <1>2, <1>3, <1>4 DEF AtInv

LEMMA StepsLeftCounts ==
  ASSUME TypeOK, AtInv
  PROVE  StepsLeft \in Nat
<1>1. at \in Nat /\ Len(nodes) \in Nat /\ Len(nodes) + 1 - at \in Nat
  BY Sizes
<1>2. Cardinality(Ids) \in Nat /\ Cardinality(pending) \in Nat
  BY Sizes
<1>. QED
  BY <1>1, <1>2 DEF StepsLeft

LEMMA RoundShrinks ==
  ASSUME TypeOK, AtInv, Round
  PROVE  pc' = "rejected" \/ Cardinality(pending') < Cardinality(pending)
<1> SUFFICES ASSUME Ready # {} PROVE Cardinality(pending') < Cardinality(pending)
  BY DEF Round
<1>1. pending' = pending \ Ready
  BY DEF Round
<1>2. pending' \in SUBSET pending /\ pending' # pending
  BY <1>1 DEF Ready
<1>3. IsFiniteSet(pending) /\ Cardinality(pending) \in Nat
  BY Sizes
<1>4. /\ IsFiniteSet(pending') /\ Cardinality(pending') <= Cardinality(pending)
      /\ Cardinality(pending) = Cardinality(pending') => pending = pending'
  BY <1>2, <1>3, FS_Subset
<1>5. Cardinality(pending') \in Nat
  BY <1>4, FS_CardinalityType
<1>. QED
  BY <1>2, <1>3, <1>4, <1>5

LEMMA StepsLeftFalls == TypeOK /\ AtInv /\ TypeOK' /\ AtInv' /\ Next => StepsLeft' < StepsLeft
<1> SUFFICES ASSUME TypeOK, AtInv, TypeOK', AtInv', Next PROVE StepsLeft' < StepsLeft
  OBVIOUS
<1> DEFINE ids == Cardinality(Ids)
           left == Cardinality(pending)
           turns == Len(nodes) + 1
<1>1. nodes' = nodes
  BY DEF Next, CheckNode, NodesChecked, CheckDependencies, StartRounds, Round, RoundsDone,
     CheckArtifacts, Accept
<1>2. ids' = ids
  BY <1>1 DEF Ids
<1>3. /\ DOMAIN nodes = 1..Len(nodes) /\ Len(nodes) \in Nat
      /\ at \in Nat /\ turns - at \in Nat /\ ids \in Nat /\ left \in Nat
  BY Sizes
<1>4. CASE CheckNode
  BY <1>1, <1>2, <1>3, <1>4 DEF CheckNode, StepsLeft
<1>5. CASE NodesChecked
  BY <1>1, <1>2, <1>3, <1>5 DEF NodesChecked, StepsLeft
<1>6. CASE CheckDependencies
  BY <1>1, <1>2, <1>3, <1>6 DEF CheckDependencies, StepsLeft
<1>7. CASE StartRounds
  <2>1. left' = ids
    BY <1>7 DEF StartRounds
  <2>2. pc = "deps" /\ pc' = "rounds"
    BY <1>7 DEF StartRounds
  <2>. QED
    BY <2>1, <2>2, <1>1, <1>3 DEF StepsLeft
<1>8. CASE Round
  <2>1. pc' = "rejected" \/ left' < left
    BY <1>8, RoundShrinks
  <2>2. pc = "rounds" /\ pc' \in {"rounds", "rejected"}
    BY <1>8 DEF Round
  <2>3. pc' = "rounds" => left' \in Nat
    <3>1. IsFiniteSet(pending)
      BY Sizes
    <3>2. pending' \in SUBSET pending
      BY <1>8 DEF Round
    <3>. QED
      BY <3>1, <3>2, FS_Subset, FS_CardinalityType
  <2>. QED
    BY <2>1, <2>2, <2>3, <1>1, <1>3 DEF StepsLeft
<1>9. CASE RoundsDone
  BY <1>1, <1>2, <1>3, <1>9 DEF RoundsDone, StepsLeft
<1>10. CASE CheckArtifacts
  BY <1>1, <1>2, <1>3, <1>10 DEF CheckArtifacts, StepsLeft
<1>11. CASE Accept
  BY <1>1, <1>2, <1>3, <1>11 DEF Accept, StepsLeft
<1>. QED
  BY <1>4, <1>5, <1>6, <1>7, <1>8, <1>9, <1>10, <1>11 DEF Next

=============================================================================
