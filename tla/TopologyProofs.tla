--------------------------- MODULE TopologyProofs ---------------------------
(***************************************************************************)
(* Theorems about Topology, for any manifests of any length and any gate   *)
(* registry: what validate accepts is governed, and what it refuses is     *)
(* not.  The invariant says, loop by loop, what the turns taken so far     *)
(* have established about the teams before the one the loop is at.         *)
(***************************************************************************)
EXTENDS Topology, TLAPS

TypeInv ==
  /\ manifest \in Manifest
  /\ turn \in Nat \ {0}
  /\ turn <= Len(teams) + 1
  /\ phase \in {"teams", "coverage", "accepted", "rejected"}

\* The teams the first loop is past, and the sets it has built from them
Past(n) == {i \in DOMAIN teams : i < n}

SeenTeams(n) ==
  /\ \A i \in Past(n) :
       /\ teams[i].name \in names /\ teams[i].lead \in leads
       /\ \A x \in DOMAIN teams[i].subagents : teams[i].subagents[x] \in roster
  /\ \A m \in names : \E i \in Past(n) : teams[i].name = m
  /\ \A l \in leads : \E i \in Past(n) : teams[i].lead = l
  /\ \A s \in roster : \E i \in Past(n) : \E x \in DOMAIN teams[i].subagents :
       teams[i].subagents[x] = s

UniqueTeams(n) ==
  /\ \A i \in Past(n) : ValidTeam(teams[i])
  /\ \A i, j \in Past(n) :
       teams[i].name = teams[j].name \/ teams[i].lead = teams[j].lead => i = j
  /\ \A i, j \in Past(n) : \A x \in DOMAIN teams[i].subagents, y \in DOMAIN teams[j].subagents :
       teams[i].subagents[x] = teams[j].subagents[y] => i = j /\ x = y

\* The same for the gates of the second loop
SeenGates(n) ==
  /\ \A i \in Past(n) : \A x \in DOMAIN teams[i].gatesOwned : teams[i].gatesOwned[x] \in claimed
  /\ \A g \in claimed : \E i \in Past(n) : \E x \in DOMAIN teams[i].gatesOwned :
       teams[i].gatesOwned[x] = g

UniqueGates(n) ==
  \A i, j \in Past(n) : \A x \in DOMAIN teams[i].gatesOwned, y \in DOMAIN teams[j].gatesOwned :
    teams[i].gatesOwned[x] = teams[j].gatesOwned[y] => i = j /\ x = y

LoopInv ==
  /\ phase # "rejected" => manifest.version = 1 /\ teams # <<>>
  /\ phase = "teams" => SeenTeams(turn) /\ UniqueTeams(turn) /\ claimed = {}
  /\ phase \in {"coverage", "accepted"} => UniqueTeams(Len(teams) + 1)
  /\ phase = "coverage" => SeenGates(turn) /\ UniqueGates(turn)
  /\ phase = "accepted" => UniqueGates(Len(teams) + 1) /\ EveryGateOwned
  /\ phase = "rejected" => ~Governed

TopologyInv == TypeInv /\ LoopInv

LEMMA TeamsAreSequences ==
  ASSUME TypeInv
  PROVE  /\ DOMAIN teams = 1..Len(teams) /\ Len(teams) \in Nat
         /\ \A i \in DOMAIN teams : teams[i] \in TeamEntry
         /\ Past(Len(teams) + 1) = DOMAIN teams
         /\ \A n \in DOMAIN teams : Past(n + 1) = Past(n) \cup {n} /\ n \notin Past(n)
         /\ Past(1) = {}
<1>1. teams \in Seq(TeamEntry)
  BY DEF TypeInv, Manifest, teams
<1>2. DOMAIN teams = 1..Len(teams) /\ Len(teams) \in Nat /\ \A i \in DOMAIN teams : teams[i] \in TeamEntry
  BY <1>1
<1>3. \A n \in DOMAIN teams : Past(n + 1) = Past(n) \cup {n} /\ n \notin Past(n)
  BY <1>2 DEF Past
<1>4. Past(Len(teams) + 1) = DOMAIN teams /\ Past(1) = {}
  BY <1>2 DEF Past
<1>. QED
  BY <1>2, <1>3, <1>4

LEMMA TopologyInit == ASSUME Manifests \subseteq Manifest, Init PROVE TopologyInv
<1>1. TypeInv
  <2>1. manifest \in Manifest /\ teams \in Seq(TeamEntry)
    BY DEF Init, Manifest, teams
  <2>. QED
    BY <2>1 DEF Init, Begin, TypeInv
<1>2. Past(1) = {}
  BY <1>1, TeamsAreSequences
<1>. QED
  BY <1>1, <1>2
  DEF Init, Begin, TopologyInv, LoopInv, SeenTeams, UniqueTeams, Governed

\* A team that does not get past the first loop
LEMMA RefusedTeam ==
  ASSUME TopologyInv, phase = "teams", turn \in DOMAIN teams, ~Admissible(teams[turn])
  PROVE  ~Governed
<1>1. CASE ~ValidTeam(teams[turn])
  BY <1>1 DEF Governed
<1>2. CASE teams[turn].name \in names \/ teams[turn].lead \in leads
  BY <1>2 DEF TopologyInv, LoopInv, SeenTeams, Past, Governed, OneNameOneLead, TypeInv
<1>3. CASE ~NewIn(teams[turn].subagents, roster)
  BY <1>3 DEF TopologyInv, LoopInv, SeenTeams, Past, Governed, OneLeadPerSubagent, NewIn, Members, TypeInv
<1>. QED
  BY <1>1, <1>2, <1>3 DEF Admissible

\* The turn of the first loop over a team that does
LEMMA AdmittedTeam ==
  ASSUME TopologyInv, CheckTeam, Admissible(teams[turn])
  PROVE  TopologyInv'
<1>1. /\ teams' = teams /\ manifest' = manifest /\ turn' = turn + 1 /\ phase' = phase
      /\ names' = names \cup {teams[turn].name} /\ leads' = leads \cup {teams[turn].lead}
      /\ roster' = roster \cup Members(teams[turn].subagents) /\ claimed' = claimed
      /\ phase = "teams" /\ turn \in DOMAIN teams
  BY DEF CheckTeam, teams
<1>2. Past(turn + 1) = Past(turn) \cup {turn} /\ turn \notin Past(turn)
  BY <1>1, TeamsAreSequences DEF TopologyInv
<1>3. TypeInv'
  BY <1>1, TeamsAreSequences DEF TopologyInv, TypeInv
<1>4. SeenTeams(turn) /\ UniqueTeams(turn)
  BY <1>1 DEF TopologyInv, LoopInv
<1>5. Past(turn)' = Past(turn) \cup {turn}
  BY <1>1, <1>2 DEF Past
<1>6. SeenTeams(turn)'
  BY <1>1, <1>5, <1>4 DEF SeenTeams, Members
<1>7. UniqueTeams(turn + 1)
  BY <1>1, <1>2, <1>4 DEF SeenTeams, UniqueTeams, Members, Admissible, NewIn
<1>8. UniqueTeams(turn)'
  BY <1>1, <1>2, <1>5, <1>7 DEF UniqueTeams, ValidTeam, Members
<1>9. claimed = {} /\ manifest.version = 1 /\ teams # <<>>
  BY <1>1 DEF TopologyInv, LoopInv
<1>. QED
  BY <1>1, <1>3, <1>6, <1>8, <1>9 DEF TopologyInv, LoopInv

LEMMA RefusedClaims ==
  ASSUME TopologyInv, phase = "coverage", turn \in DOMAIN teams,
         ~NewIn(teams[turn].gatesOwned, claimed)
  PROVE  ~Governed
BY DEF TopologyInv, LoopInv, SeenGates, Past, Governed, OneClaimPerGate, NewIn, Members, TypeInv

LEMMA AdmittedClaims ==
  ASSUME TopologyInv, ClaimGates, NewIn(teams[turn].gatesOwned, claimed)
  PROVE  TopologyInv'
<1>1. /\ teams' = teams /\ manifest' = manifest /\ turn' = turn + 1 /\ phase' = phase
      /\ claimed' = claimed \cup Members(teams[turn].gatesOwned)
      /\ phase = "coverage" /\ turn \in DOMAIN teams
  BY DEF ClaimGates, teams
<1>2. Past(turn + 1) = Past(turn) \cup {turn} /\ turn \notin Past(turn)
  BY <1>1, TeamsAreSequences DEF TopologyInv
<1>3. TypeInv'
  BY <1>1, TeamsAreSequences DEF TopologyInv, TypeInv
<1>4. SeenGates(turn) /\ UniqueGates(turn) /\ UniqueTeams(Len(teams) + 1)
  BY <1>1 DEF TopologyInv, LoopInv
<1>5. Past(turn)' = Past(turn) \cup {turn}
  BY <1>1, <1>2 DEF Past
<1>6. SeenGates(turn)' /\ UniqueGates(turn)'
  BY <1>1, <1>5, <1>4 DEF SeenGates, UniqueGates, Members, NewIn
<1>7. UniqueTeams(Len(teams) + 1)'
  BY <1>1, <1>4 DEF UniqueTeams, ValidTeam, Past, Members
<1>8. manifest.version = 1 /\ teams # <<>>
  BY <1>1 DEF TopologyInv, LoopInv
<1>. QED
  BY <1>1, <1>3, <1>6, <1>7, <1>8 DEF TopologyInv, LoopInv

LEMMA TopologyRejects ==
  ASSUME TopologyInv, Reject, ~Governed
  PROVE  TopologyInv'
<1>1. teams' = teams /\ manifest' = manifest /\ phase' = "rejected" /\ turn' = turn
  BY DEF Reject, teams
<1>2. ~Governed'
  BY <1>1 DEF Governed, OneNameOneLead, OneLeadPerSubagent, OneClaimPerGate, EveryGateOwned,
       ValidTeam, Members
<1>. QED
  BY <1>1, <1>2 DEF TopologyInv, TypeInv, LoopInv

LEMMA CoverageStarts ==
  ASSUME TopologyInv, TeamsChecked
  PROVE  TopologyInv'
<1>1. /\ teams' = teams /\ manifest' = manifest /\ phase' = "coverage" /\ turn' = 1
      /\ claimed' = claimed /\ phase = "teams" /\ turn \notin DOMAIN teams
  BY DEF TeamsChecked, teams
<1>2. turn = Len(teams) + 1 /\ Past(1) = {}
  BY <1>1, TeamsAreSequences DEF TopologyInv, TypeInv
<1>3. UniqueTeams(Len(teams) + 1) /\ claimed = {}
  BY <1>1, <1>2 DEF TopologyInv, LoopInv
<1>4. UniqueTeams(Len(teams) + 1)'
  BY <1>1, <1>3 DEF UniqueTeams, ValidTeam, Past, Members
<1>5. SeenGates(1)' /\ UniqueGates(1)'
  BY <1>1, <1>2, <1>3 DEF SeenGates, UniqueGates, Past
<1>6. TypeInv'
  BY <1>1, TeamsAreSequences DEF TopologyInv, TypeInv
<1>. QED
  BY <1>1, <1>4, <1>5, <1>6 DEF TopologyInv, LoopInv, SeenGates, UniqueGates, UniqueTeams, Past

\* Both loops are through: only the gates nobody claims decide
LEMMA TopologyConcludes ==
  ASSUME TopologyInv, Conclude
  PROVE  TopologyInv'
<1>1. /\ teams' = teams /\ manifest' = manifest /\ turn' = turn /\ claimed' = claimed
      /\ phase = "coverage" /\ turn \notin DOMAIN teams
      /\ phase' = IF Gate \subseteq claimed THEN "accepted" ELSE "rejected"
  BY DEF Conclude, teams
<1>2. turn = Len(teams) + 1 /\ Past(turn) = DOMAIN teams
  BY <1>1, TeamsAreSequences DEF TopologyInv, TypeInv
<1>3. SeenGates(turn) /\ UniqueGates(turn) /\ UniqueTeams(turn)
  BY <1>1, <1>2 DEF TopologyInv, LoopInv
<1>4. Gate \subseteq claimed <=> EveryGateOwned
  BY <1>2, <1>3 DEF SeenGates, EveryGateOwned, Members
<1>5. UniqueTeams(turn)' /\ UniqueGates(turn)'
  BY <1>1, <1>3 DEF UniqueTeams, UniqueGates, ValidTeam, Past, Members
<1>6. EveryGateOwned' <=> EveryGateOwned
  BY <1>1 DEF EveryGateOwned, Members
<1>. QED
  BY <1>1, <1>2, <1>4, <1>5, <1>6 DEF TopologyInv, TypeInv, LoopInv, Governed,
     UniqueTeams, UniqueGates, Past

LEMMA TopologyStep == TopologyInv /\ [Next]_vars => TopologyInv'
<1> SUFFICES ASSUME TopologyInv, [Next]_vars PROVE TopologyInv'
  OBVIOUS
<1>1. CASE CheckTeam
  <2>1. CASE Admissible(teams[turn])
    BY <1>1, <2>1, AdmittedTeam
  <2>2. CASE ~Admissible(teams[turn])
    BY <1>1, <2>2, RefusedTeam, TopologyRejects DEF CheckTeam
  <2>. QED
    BY <2>1, <2>2
<1>2. CASE TeamsChecked
  BY <1>2, CoverageStarts
<1>3. CASE ClaimGates
  <2>1. CASE NewIn(teams[turn].gatesOwned, claimed)
    BY <1>3, <2>1, AdmittedClaims
  <2>2. CASE ~NewIn(teams[turn].gatesOwned, claimed)
    BY <1>3, <2>2, RefusedClaims, TopologyRejects DEF ClaimGates
  <2>. QED
    BY <2>1, <2>2
<1>4. CASE Conclude
  BY <1>4, TopologyConcludes
<1>5. CASE UNCHANGED vars
  BY <1>5 DEF vars, TopologyInv, TypeInv, LoopInv, SeenTeams, UniqueTeams, SeenGates, UniqueGates,
     Past, teams, ValidTeam, Members, Governed, OneNameOneLead, OneLeadPerSubagent,
     OneClaimPerGate, EveryGateOwned
<1>. QED
  BY <1>1, <1>2, <1>3, <1>4, <1>5 DEF Next

LEMMA TopologyInvariant ==
  ASSUME Manifests \subseteq Manifest
  PROVE  Spec => []TopologyInv
<1>1. Init => TopologyInv
  BY TopologyInit
<1>. QED
  BY <1>1, TopologyStep, PTL DEF Spec

\* validate accepts only manifests with unique names and leads, sub-agents of
\* one lead, and each gate with its one owner.
THEOREM AcceptsGoverned ==
  ASSUME Manifests \subseteq Manifest
  PROVE  Spec => []AcceptedIsGoverned
<1>1. TopologyInv => AcceptedIsGoverned
  <2> SUFFICES ASSUME TopologyInv, phase = "accepted" PROVE Governed
    BY DEF AcceptedIsGoverned
  <2>1. Past(Len(teams) + 1) = DOMAIN teams
    BY TeamsAreSequences DEF TopologyInv
  <2>. QED
    BY <2>1 DEF TopologyInv, LoopInv, UniqueTeams, UniqueGates, Governed, OneNameOneLead,
         OneLeadPerSubagent, OneClaimPerGate
<1>. QED
  BY <1>1, TopologyInvariant, PTL

\* validate refuses only manifests that lack one of these.
THEOREM RejectsUngoverned ==
  ASSUME Manifests \subseteq Manifest
  PROVE  Spec => []RejectedIsUngoverned
<1>1. TopologyInv => RejectedIsUngoverned
  BY DEF TopologyInv, LoopInv, RejectedIsUngoverned
<1>. QED
  BY <1>1, TopologyInvariant, PTL

-----------------------------------------------------------------------------
(* The loops end.                                                          *)

\* The turns validate still has to take, at most.
TurnsLeft ==
  IF phase = "teams"         THEN (Len(teams) + 1 - turn) + Len(teams) + 2
  ELSE IF phase = "coverage" THEN (Len(teams) + 1 - turn) + 1
  ELSE 0

LEMMA TurnsLeftCounts == TopologyInv => TurnsLeft \in Nat
<1> SUFFICES ASSUME TopologyInv PROVE TurnsLeft \in Nat
  OBVIOUS
<1>1. Len(teams) \in Nat
  BY TeamsAreSequences DEF TopologyInv
<1>. QED
  BY <1>1 DEF TopologyInv, TypeInv, TurnsLeft

LEMMA TurnsLeftFalls == TopologyInv /\ Next => TurnsLeft' < TurnsLeft
<1> SUFFICES ASSUME TopologyInv, Next PROVE TurnsLeft' < TurnsLeft
  OBVIOUS
<1>1. DOMAIN teams = 1..Len(teams) /\ Len(teams) \in Nat
  BY TeamsAreSequences DEF TopologyInv
<1>2. turn \in Nat /\ turn <= Len(teams) + 1
  BY DEF TopologyInv, TypeInv
<1>3. teams' = teams
  BY DEF Next, CheckTeam, TeamsChecked, ClaimGates, Conclude, Reject, teams
<1>. QED
  BY <1>1, <1>2, <1>3 DEF Next, CheckTeam, TeamsChecked, ClaimGates, Conclude, Reject, TurnsLeft

=============================================================================
