--------------------------- MODULE MCControlPlane ---------------------------
(* Small instances of ControlPlane for TLC.                                *)
EXTENDS ControlPlane, TLC, FiniteSets

CONSTANTS p1, p2, t1, t2, survey, build, research, policy

\* survey is of the team that owns no gate, and build depends on it
TwoTeamOf    == (survey :> research) @@ (build :> policy)
TwoDependsOn == (survey :> {}) @@ (build :> {survey})

Symmetry == Permutations(Process) \cup Permutations(Task)

-----------------------------------------------------------------------------
(* A bound.  Every log of up to four entries is explored, with all that may *)
(* happen besides.  Longer ones are when they are about pauses or about     *)
(* gates and not about both, and have                                       *)

Holds(entries) == \E e \in entries : Logged(log, e)
Pauses == {TeamEntry("team_paused", m) : m \in Team}
Gates == {GateEntry(t, passed) : t \in Task, passed \in BOOLEAN}
OneTopic == ~Holds(Pauses) \/ ~Holds(Gates)

\* at most two cold starts, two pauses of a team, and nothing else twice, and a
\* resumption only of a team that was paused twice;
Times(e) == Cardinality({i \in DOMAIN log : log[i] = e})
FewEntries ==
  /\ \A i \in DOMAIN log :
       Times(log[i]) <= IF log[i].event \in {"cold_start", "team_paused"} THEN 2 ELSE 1
  /\ \A m \in Team :
       Logged(log, TeamEntry("team_resumed", m)) => Times(TeamEntry("team_paused", m)) = 2

\* no third process on its way;
Starting == {p \in Process : pc[p] \in {"replayed", "boot"}}
TwoStarts == Times(PlainEntry("cold_start")) + Cardinality(Starting) <= 2

\* no pause of policy, no line lost to the mirror, and no team out of the manifest
Owing == {p \in Process : owes[p] # None}
Calm ==
  /\ \A e \in {"team_paused", "team_resumed"} : ~Logged(log, TeamEntry(e, policy))
  /\ Len(mirror) + Cardinality(Owing) = Len(log)
  /\ manifest = Team /\ \A p \in Process : pc[p] # "off" => teams[p] = Team

Scope == Len(log) <= 4 \/ (OneTopic /\ Calm /\ TwoStarts /\ FewEntries)
=============================================================================
