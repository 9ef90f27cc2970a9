-------------------------------- MODULE Replay --------------------------------
(***************************************************************************)
(* The entries of the audit log as src/orchestrator/state.py reads them:   *)
(* replay projects the log on the dispatches, gate results, reclaims and   *)
(* pauses in it, and Dispatcher.restore_from rebuilds the records and the  *)
(* index from nodes to owners.  All of it is functions of a log, for the   *)
(* modules whose processes replay one.                                     *)
(***************************************************************************)
EXTENDS Naturals, Sequences

CONSTANTS
  Task,  \* task ids; new_task_id draws one that was never used
  Node,  \* (graph_id, node_id) pairs
  Team,  \* team names
  None   \* Python's None

-----------------------------------------------------------------------------
(* The entries the dispatcher appends.                                     *)

DispatchEntry(t, k) == [event |-> "dispatch", task |-> t, node |-> k]
GateEntry(t, p)     == [event |-> "gate_result", task |-> t, passed |-> p]
TaskEntry(e, t)     == [event |-> e, task |-> t]
TeamEntry(e, m)     == [event |-> e, team |-> m]
PlainEntry(e)       == [event |-> e]

Entry ==
  {DispatchEntry(t, k) : t \in Task, k \in Node}
    \cup {GateEntry(t, p) : t \in Task, p \in BOOLEAN}
    \cup {TaskEntry(e, t) : e \in {"reclaim", "status", "ingress_accepted"},
                            t \in Task}
    \cup {TeamEntry(e, m) : e \in {"team_paused", "team_resumed"}, m \in Team}
    \cup {PlainEntry(e) : e \in {"decision_memo", "cold_start"}}

ReclaimEntry(t) == TaskEntry("reclaim", t)

-----------------------------------------------------------------------------
(* ReplayState: what a replay of the log l says.                           *)

Logged(l, e) == \E i \in DOMAIN l : l[i] = e

\* e is in l and f does not follow it: the last of the two was e
LastIs(l, e, f) ==
  \E i \in DOMAIN l : l[i] = e /\ \A j \in DOMAIN l : j > i => l[j] # f

DispatchedTo(l, k) == {t \in Task : Logged(l, DispatchEntry(t, k))}
Dispatched(l) == UNION {DispatchedTo(l, k) : k \in Node}
Reclaimed(l)  == {t \in Task : Logged(l, ReclaimEntry(t))}
Passed(l)     == {t \in Task : LastIs(l, GateEntry(t, TRUE), GateEntry(t, FALSE))}
Failed(l)     == {t \in Task : LastIs(l, GateEntry(t, FALSE), GateEntry(t, TRUE))}

PausedTeams(l) ==
  {m \in Team : LastIs(l, TeamEntry("team_paused", m), TeamEntry("team_resumed", m))}

\* The dispatches of a node that no reclaim has withdrawn
Claims(l, k) == DispatchedTo(l, k) \ Reclaimed(l)

\* restore_from walks the dispatches in log order, so the last claim stands
LastClaim(l, k, t) ==
  \E i \in DOMAIN l :
    /\ l[i] = DispatchEntry(t, k)
    /\ t \notin Reclaimed(l)
    /\ \A j \in DOMAIN l : \A u \in Task :
         j > i /\ l[j] = DispatchEntry(u, k) => u \in Reclaimed(l)

RestoredStateAnyPass(l, t) ==
  CASE t \notin Dispatched(l) -> "unknown"
    [] t \in Dispatched(l) \cap Reclaimed(l) -> "abandoned"
    [] t \in Dispatched(l) \ Reclaimed(l) /\ Logged(l, GateEntry(t, TRUE)) -> "gate_pass"
    [] OTHER -> "dispatched"

RestoredState(l, t) ==
  CASE t \notin Dispatched(l) -> "unknown"
    [] t \in Dispatched(l) \cap Reclaimed(l) -> "abandoned"
    [] t \in (Dispatched(l) \cap Passed(l)) \ Reclaimed(l) -> "gate_pass"
    [] t \in (Dispatched(l) \cap Failed(l)) \ (Reclaimed(l) \cup Passed(l)) -> "gate_fail"
    [] OTHER -> "dispatched"

RestoredNode(l, t) ==
  IF t \in Dispatched(l) THEN CHOOSE k \in Node : t \in DispatchedTo(l, k) ELSE None

RestoredOwnerAbandoned(l, k) ==
  IF DispatchedTo(l, k) # {}
    THEN CHOOSE t \in DispatchedTo(l, k) :
           \A u \in DispatchedTo(l, k) : LastIs(l, DispatchEntry(t, k), DispatchEntry(u, k)) \/ u = t
    ELSE None

RestoredOwner(l, k) ==
  IF \E t \in Task : LastClaim(l, k, t)
    THEN CHOOSE t \in Task : LastClaim(l, k, t)
    ELSE None

=============================================================================
