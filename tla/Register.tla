------------------------------ MODULE Register ------------------------------
(***************************************************************************)
(* What the dispatcher of src/orchestrator promises whoever works from it: *)
(* a register of who owns which node.  A grant hands a node without an     *)
(* owner to a task id that was never used, of a team that is not frozen,   *)
(* once everything the node depends on has passed a gate; only an owner    *)
(* that has not passed loses its node, and only by being withdrawn.  The   *)
(* register has no restart: a process that dies and starts again must      *)
(* leave the owners and the finished nodes as they were.                   *)
(***************************************************************************)
CONSTANTS
  Task, Node, Team, None,
  TeamOf,     \* the team of a node
  DependsOn   \* the nodes a node depends on

VARIABLES
  owner,      \* the task each node belongs to, or None
  done,       \* the nodes that count as finished when a graph is to ship
  granted,    \* the tasks each node was ever granted to
  withdrawn,  \* the tasks that lost their node
  frozen,     \* the teams nothing is granted to
  passed,     \* the tasks whose last gate result is a pass
  gated,      \* the nodes some task of theirs has ever passed a gate for
  disputed    \* a task was withdrawn twice: nothing is promised any more

grants == <<owner, granted, withdrawn>>
gates  == <<passed, gated>>
vars   == <<grants, done, frozen, gates, disputed>>

Init ==
  /\ owner = [k \in Node |-> None] /\ done = {}
  /\ granted = [k \in Node |-> {}] /\ withdrawn = {}
  /\ frozen = {}
  /\ passed = {} /\ gated = {}
  /\ disputed = FALSE

Grant(k, t) ==
  /\ owner[k] = None /\ \A j \in Node : t \notin granted[j]
  /\ TeamOf[k] \notin frozen
  /\ DependsOn[k] \subseteq gated
  /\ owner' = [owner EXCEPT ![k] = t]
  /\ granted' = [granted EXCEPT ![k] = @ \cup {t}]
  /\ UNCHANGED <<withdrawn, frozen, gates>>

Withdraw(k) ==
  /\ owner[k] # None /\ owner[k] \notin passed \cup withdrawn
  /\ owner' = [owner EXCEPT ![k] = None]
  /\ withdrawn' = withdrawn \cup {owner[k]}
  /\ UNCHANGED <<granted, frozen, gates>>

Freeze(m) == frozen' = frozen \cup {m} /\ UNCHANGED <<grants, gates>>
Thaw(m)   == frozen' = frozen \ {m} /\ UNCHANGED <<grants, gates>>

\* A gate result, early or late: the task may have lost its node
Pass(k, t) ==
  /\ t \in granted[k]
  /\ passed' = passed \cup {t} /\ gated' = gated \cup {k}
  /\ UNCHANGED <<grants, frozen>>

Fail(k, t) ==
  /\ t \in granted[k]
  /\ passed' = passed \ {t}
  /\ UNCHANGED <<grants, frozen, gated>>

Undisputed ==
  \/ \E k \in Node : Withdraw(k)
  \/ \E k \in Node, t \in Task : Grant(k, t) \/ Pass(k, t) \/ Fail(k, t)
  \/ \E m \in Team : Freeze(m) \/ Thaw(m)

\* A node is finished exactly while its owner stands passed
Next ==
  \/ Undisputed /\ UNCHANGED disputed /\ done' = {k \in Node : owner'[k] \in passed'}
  \/ disputed'

Spec == Init /\ [][Next]_vars
=============================================================================
