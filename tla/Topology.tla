------------------------------ MODULE Topology ------------------------------
(***************************************************************************)
(* Topology.validate of src/orchestrator/topology.py: which manifests of   *)
(* teams are accepted, given the gate registry of gates.py.  One action is *)
(* one turn of a loop over the teams.                                      *)
(*                                                                         *)
(* A team is its name, its lead, the gates it claims, its sub-agents, and  *)
(* whether its charter is long enough.                                     *)
(***************************************************************************)
EXTENDS Naturals, Sequences

CONSTANTS
  Team,      \* team names
  Agent,     \* names of leads and sub-agents
  Gate,      \* the names in the gate registry
  OtherGate, \* a name that is not in it
  OwnerTeam, \* GATES_BY_NAME: the team the registry gives a gate to
  NoLead,    \* the empty lead
  Manifests  \* the manifests validate is called with

TeamEntry ==
  [name : Team, lead : Agent \cup {NoLead}, charter : BOOLEAN,
   gatesOwned : Seq(Gate \cup {OtherGate}), subagents : Seq(Agent)]

Manifest == [version : Nat, teams : Seq(TeamEntry)]

VARIABLES
  manifest,  \* version and teams
  phase,     \* the loop validate is in, or its outcome
  turn,      \* the team the loop is at
  names,     \* the names seen
  leads,     \* the leads seen
  roster,    \* the sub-agents seen
  claimed    \* _validate_gate_coverage: the gates claimed so far

vars == <<manifest, phase, turn, names, leads, roster, claimed>>

teams == manifest.teams
Members(s) == {s[i] : i \in DOMAIN s}

\* A loop over s that refuses what is in S and adds the rest to it gets through
NewIn(s, S) ==
  /\ Members(s) \cap S = {}
  /\ \A i, j \in DOMAIN s : s[i] = s[j] => i = j

Begin ==
  /\ phase = IF manifest.version = 1 /\ teams # <<>> THEN "teams" ELSE "rejected"
  /\ turn = 1
  /\ names = {} /\ leads = {} /\ roster = {} /\ claimed = {}

Init == manifest \in Manifests /\ Begin

ValidTeamAnyOwner(m) ==
  /\ m.charter /\ m.lead # NoLead /\ m.subagents # <<>>
  /\ Members(m.gatesOwned) \subseteq Gate

\* Team.validate
ValidTeam(m) ==
  /\ m.charter /\ m.lead # NoLead /\ m.subagents # <<>>
  /\ \A g \in Members(m.gatesOwned) : g \in Gate /\ OwnerTeam[g] = m.name

Reject ==
  /\ phase' = "rejected"
  /\ UNCHANGED <<manifest, turn, names, leads, roster, claimed>>

\* The loop over the teams goes past this one
Admissible(m) ==
  /\ ValidTeam(m)
  /\ m.name \notin names /\ m.lead \notin leads
  /\ NewIn(m.subagents, roster)

CheckTeamSameRoster ==
  /\ phase = "teams" /\ turn \in DOMAIN teams
  /\ IF ValidTeam(teams[turn]) /\ teams[turn].name \notin names /\ teams[turn].lead \notin leads
       THEN /\ turn' = turn + 1
            /\ names' = names \cup {teams[turn].name}
            /\ leads' = leads \cup {teams[turn].lead}
            /\ roster' = roster \cup Members(teams[turn].subagents)
            /\ UNCHANGED <<manifest, phase, claimed>>
       ELSE Reject

CheckTeamLeadInRoster ==
  /\ phase = "teams" /\ turn \in DOMAIN teams
  /\ IF Admissible(teams[turn])
       THEN /\ turn' = turn + 1
            /\ names' = names \cup {teams[turn].name}
            /\ leads' = leads \cup {teams[turn].lead} \cup Members(teams[turn].subagents)
            /\ roster' = roster \cup Members(teams[turn].subagents)
            /\ UNCHANGED <<manifest, phase, claimed>>
       ELSE Reject

CheckTeam ==
  /\ phase = "teams" /\ turn \in DOMAIN teams
  /\ IF Admissible(teams[turn])
       THEN /\ turn' = turn + 1
            /\ names' = names \cup {teams[turn].name}
            /\ leads' = leads \cup {teams[turn].lead}
            /\ roster' = roster \cup Members(teams[turn].subagents)
            /\ UNCHANGED <<manifest, phase, claimed>>
       ELSE Reject

TeamsChecked ==
  /\ phase = "teams" /\ turn \notin DOMAIN teams
  /\ phase' = "coverage" /\ turn' = 1
  /\ UNCHANGED <<manifest, names, leads, roster, claimed>>

\* "gate is claimed by both"
ClaimGates ==
  /\ phase = "coverage" /\ turn \in DOMAIN teams
  /\ IF NewIn(teams[turn].gatesOwned, claimed)
       THEN /\ turn' = turn + 1
            /\ claimed' = claimed \cup Members(teams[turn].gatesOwned)
            /\ UNCHANGED <<manifest, phase, names, leads, roster>>
       ELSE Reject

\* "no team owns these gates"
Conclude ==
  /\ phase = "coverage" /\ turn \notin DOMAIN teams
  /\ phase' = IF Gate \subseteq claimed THEN "accepted" ELSE "rejected"
  /\ UNCHANGED <<manifest, turn, names, leads, roster, claimed>>

Next == CheckTeam \/ TeamsChecked \/ ClaimGates \/ Conclude

Spec == Init /\ [][Next]_vars

-----------------------------------------------------------------------------
(* Look-ups of the dispatcher in an accepted topology.                     *)

\* team: the name is declared
Declares(n) == \E i \in DOMAIN teams : teams[i].name = n

\* team_for_gate: the first team that claims the gate
TeamForGate(g) ==
  teams[CHOOSE i \in DOMAIN teams :
          /\ g \in Members(teams[i].gatesOwned)
          /\ \A j \in 1..(i - 1) : g \notin Members(teams[j].gatesOwned)].name

-----------------------------------------------------------------------------
(* Properties.                                                             *)

\* What a manifest should be, in terms of the manifest alone
OneNameOneLead ==
  \A i, j \in DOMAIN teams :
    teams[i].name = teams[j].name \/ teams[i].lead = teams[j].lead => i = j

OneLeadPerSubagent ==
  \A i, j \in DOMAIN teams : \A x \in DOMAIN teams[i].subagents, y \in DOMAIN teams[j].subagents :
    teams[i].subagents[x] = teams[j].subagents[y] => i = j /\ x = y

OneClaimPerGate ==
  \A i, j \in DOMAIN teams : \A x \in DOMAIN teams[i].gatesOwned, y \in DOMAIN teams[j].gatesOwned :
    teams[i].gatesOwned[x] = teams[j].gatesOwned[y] => i = j /\ x = y

EveryGateOwned == \A g \in Gate : \E i \in DOMAIN teams : g \in Members(teams[i].gatesOwned)

Governed ==
  /\ manifest.version = 1 /\ teams # <<>>
  /\ \A i \in DOMAIN teams : ValidTeam(teams[i])
  /\ OneNameOneLead /\ OneLeadPerSubagent /\ OneClaimPerGate /\ EveryGateOwned

\* "a sub-agent has exactly one lead" and "every gate has exactly one owning
\* team present in the topology": what validate accepts has unique names and
\* leads, and gives each gate to the one team the registry names.
AcceptedIsGoverned == phase = "accepted" => Governed

\* validate refuses no manifest without a reason: what it rejects lacks one of these.
RejectedIsUngoverned == phase = "rejected" => ~Governed

=============================================================================
