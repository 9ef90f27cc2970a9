------------------------------ MODULE Dispatcher ------------------------------
(***************************************************************************)
(* src/orchestrator/dispatch.py and the cold start of state.py: the        *)
(* orchestrator's task records, the index from nodes to their owners, the  *)
(* set of paused teams, the replay ledger, and the audit log they are      *)
(* rebuilt from when the process restarts.                                 *)
(*                                                                         *)
(* One process is modelled.  Its calls are synchronous, so a call is one   *)
(* action unless it appends twice; the calls that do (dispatch_graph,      *)
(* reclaim, cold_start) are split at each append, with pc saying where the *)
(* call stands, because an append may fail and the process may die there.  *)
(***************************************************************************)
EXTENDS Replay

CONSTANTS
  Graph,      \* graph ids
  GraphOf,    \* the graph of a node
  TeamOf,     \* the team of a node
  DependsOn,  \* the nodes of the same graph a node depends on
  Report,     \* the states a lead reports through ingest_status
  Env,        \* what the surroundings may do, see Surroundings
  MaxLog      \* bound: the audit log never grows past this length

(* "restart"    the process may die at any step and be started again        *)
(* "io_error"   an append may raise OSError, before or after the primary    *)
(* "pause"      an operator pauses and resumes teams                        *)
(* "replan"     reclaim is given a graph that no longer yields the node     *)
(* "clock"      acknowledgement deadlines and promised updates pass         *)
(* "keep_keys"  cold_start is handed the key ring of the previous process   *)
(* "direct"     callers use dispatch on a node, and not only dispatch_graph *)
(* "lead"       leads take deliveries and report status                     *)
(* "memo"       the orchestrator logs decision memos                        *)
Surroundings ==
  {"restart", "io_error", "pause", "replan", "clock", "keep_keys",
   "direct", "lead", "memo"}

Status == {"dispatched", "accepted", "running", "blocked", "gate_pending",
           "gate_pass", "gate_fail", "abandoned"}

ASSUME ConstantsAssumption ==
  /\ GraphOf \in [Node -> Graph]
  /\ TeamOf \in [Node -> Team]
  /\ DependsOn \in [Node -> SUBSET Node]
  /\ Report \subseteq Status \ {"dispatched", "gate_pass"}
  /\ None \notin Task \cup Node
  /\ Env \subseteq Surroundings
  /\ MaxLog \in Nat

VARIABLES
  log,           \* the primary audit sink, oldest entry first
  mirrored,      \* the mirror holds the same lines as the primary
  pc,            \* what the process is doing: see Phase
  wave,          \* dispatch_graph: the nodes still to be dispatched
  redo,          \* reclaim: the task whose replacement is due
  repause,       \* cold_start: the teams still to be paused again
  state,         \* TaskRecord.state, or "unknown" for no record
  nodeOf,        \* the node of the record's envelope
  supersededBy,  \* TaskRecord.superseded_by
  ackDeadline,   \* TaskRecord.ack_deadline is set
  nextUpdateBy,  \* TaskRecord.next_update_by against the clock
  byNode,        \* Dispatcher._by_node
  paused,        \* Dispatcher._paused
  consumed,      \* ReplayLedger._seen
  signed,        \* the tasks whose token the current key ring verifies
  late           \* the tasks dispatched longer ago than the ack SLO

Phase == {"idle", "wave", "reclaim", "boot", "down"}

disk     == <<log, mirrored>>
call     == <<pc, wave, redo, repause>>
deadlines == <<ackDeadline, nextUpdateBy>>
records  == <<state, nodeOf, supersededBy, ackDeadline, nextUpdateBy>>
tokens   == <<consumed, signed>>
vars == <<disk, call, records, byNode, paused, tokens, late>>

-----------------------------------------------------------------------------
(* AuditLog.append as its callers see it: the entry reaches both sinks, or *)
(* the write raises with the entry lost, or with only the mirror missing   *)
(* it.  AuditLog.tla models the append itself.                             *)

Room == Len(log) < MaxLog

Write(e) == Room /\ log' = Append(log, e) /\ UNCHANGED mirrored

WriteFails(e) ==
  /\ "io_error" \in Env
  /\ Room
  /\ \/ UNCHANGED disk
     \/ log' = Append(log, e) /\ mirrored' = FALSE

Attempt(e) == Write(e) \/ WriteFails(e)

-----------------------------------------------------------------------------
(* Pausing.  The set changes first and the log second.                     *)

PauseTeam(m) ==
  /\ pc = "idle" /\ "pause" \in Env
  /\ paused' = paused \cup {m}
  /\ Attempt(TeamEntry("team_paused", m))
  /\ UNCHANGED <<call, records, byNode, tokens, late>>

ResumeTeam(m) ==
  /\ pc = "idle" /\ "pause" \in Env
  /\ paused' = paused \ {m}
  /\ Attempt(TeamEntry("team_resumed", m))
  /\ UNCHANGED <<call, records, byNode, tokens, late>>

-----------------------------------------------------------------------------
(* Dispatch.                                                               *)

Fresh(t) == state[t] = "unknown" /\ t \notin Dispatched(log)

DispatchableTwice(k) == TeamOf[k] \notin paused

\* dispatch goes past its idempotence check and its pause check
Dispatchable(k) == byNode[k] = None /\ TeamOf[k] \notin paused

\* The tail of dispatch: append first, then the record and the index
Enqueue(k, t) ==
  /\ Fresh(t)
  /\ Write(DispatchEntry(t, k))
  /\ state' = [state EXCEPT ![t] = "dispatched"]
  /\ nodeOf' = [nodeOf EXCEPT ![t] = k]
  /\ ackDeadline' = [ackDeadline EXCEPT ![t] = TRUE]
  /\ byNode' = [byNode EXCEPT ![k] = t]
  /\ signed' = signed \cup {t}

EnqueueFailsIndexed(k, t) ==
  /\ Fresh(t)
  /\ WriteFails(DispatchEntry(t, k))
  /\ byNode' = [byNode EXCEPT ![k] = t]
  /\ UNCHANGED <<records, tokens>>

EnqueueFailsRecorded(k, t) ==
  /\ Fresh(t)
  /\ WriteFails(DispatchEntry(t, k))
  /\ state' = [state EXCEPT ![t] = "dispatched"]
  /\ nodeOf' = [nodeOf EXCEPT ![t] = k]
  /\ UNCHANGED <<supersededBy, deadlines, byNode, tokens>>

EnqueueFails(k, t) ==
  /\ Fresh(t)
  /\ WriteFails(DispatchEntry(t, k))
  /\ UNCHANGED <<records, byNode, tokens>>

Dispatch(k) ==
  /\ pc = "idle" /\ "direct" \in Env
  /\ Dispatchable(k)
  /\ \E t \in Task :
       \/ Enqueue(k, t) /\ UNCHANGED <<supersededBy, nextUpdateBy, consumed>>
       \/ EnqueueFails(k, t)
  /\ UNCHANGED <<call, paused, late>>

SatisfiedByAbandoned(k) ==
  \E t \in Task : state[t] \in {"gate_pass", "abandoned"} /\ nodeOf[t] = k

\* Any record of the node counts here, the superseded ones included
Satisfied(k) == \E t \in Task : state[t] = "gate_pass" /\ nodeOf[t] = k

Ready(k) == \A d \in DependsOn[k] : Satisfied(d)

\* dispatch_graph computes readiness once, before its first dispatch
DispatchGraph(g) ==
  /\ pc = "idle"
  /\ pc' = "wave"
  /\ wave' = {k \in Node : GraphOf[k] = g /\ Ready(k)}
  /\ UNCHANGED <<disk, redo, repause, records, byNode, paused, tokens, late>>

\* The node has an owner: dispatch returns that owner's envelope
WaveSkip(k) ==
  /\ byNode[k] # None
  /\ wave' = wave \ {k}
  /\ UNCHANGED <<disk, pc, records, byNode, tokens>>

WaveEnqueue(k) ==
  /\ Dispatchable(k)
  /\ \E t \in Task : Enqueue(k, t)
  /\ wave' = wave \ {k}
  /\ UNCHANGED <<pc, supersededBy, nextUpdateBy, consumed>>

\* A paused team or a failed append raises out of the whole loop
WaveAbort(k) ==
  /\ byNode[k] = None
  /\ \/ TeamOf[k] \in paused /\ UNCHANGED <<disk, records, byNode, tokens>>
     \/ TeamOf[k] \notin paused /\ \E t \in Task : EnqueueFails(k, t)
  /\ pc' = "idle"
  /\ wave' = {}

WaveStep(k) ==
  /\ pc = "wave" /\ k \in wave
  /\ WaveSkip(k) \/ WaveEnqueue(k) \/ WaveAbort(k)
  /\ UNCHANGED <<redo, repause, paused, late>>

WaveEnd ==
  /\ pc = "wave" /\ wave = {}
  /\ pc' = "idle"
  /\ UNCHANGED <<disk, wave, redo, repause, records, byNode, paused, tokens, late>>

-----------------------------------------------------------------------------
(* Reclaim.                                                                *)

ReclaimablePassed(t) == state[t] # "unknown" /\ supersededBy[t] = None

Reclaimable(t) ==
  /\ state[t] \notin {"unknown", "gate_pass"}
  /\ supersededBy[t] = None

\* del self._by_node raises KeyError when the node has no owner, and
\* graph.node raises when the graph handed in has no such node
ReclaimRaises(k) == byNode[k] = None \/ "replan" \in Env

Release(k) == byNode' = [byNode EXCEPT ![k] = None]

Reclaim(t) ==
  /\ pc = "idle"
  /\ Reclaimable(t)
  /\ state' = [state EXCEPT ![t] = "abandoned"]
  /\ \/ WriteFails(ReclaimEntry(t)) /\ UNCHANGED <<byNode, pc, redo>>
     \/ Write(ReclaimEntry(t)) /\ ReclaimRaises(nodeOf[t]) /\ UNCHANGED <<byNode, pc, redo>>
     \/ /\ Write(ReclaimEntry(t))
        /\ byNode[nodeOf[t]] # None
        /\ Release(nodeOf[t])
        /\ pc' = "reclaim"
        /\ redo' = t
  /\ UNCHANGED <<wave, repause, nodeOf, supersededBy, deadlines, paused, tokens, late>>

SupersedeBackwards(t, u) == supersededBy' = [supersededBy EXCEPT ![u] = t]

Supersede(t, u) == supersededBy' = [supersededBy EXCEPT ![t] = u]

\* The dispatch inside reclaim, and the link to the replacement
ReclaimDispatch ==
  /\ pc = "reclaim"
  /\ LET k == nodeOf[redo] IN
       \/ /\ Dispatchable(k)
          /\ \E t \in Task :
               /\ Enqueue(k, t)
               /\ Supersede(redo, t)
          /\ UNCHANGED <<nextUpdateBy, consumed>>
       \/ /\ Dispatchable(k)
          /\ \E t \in Task : EnqueueFails(k, t)
       \/ /\ TeamOf[k] \in paused \/ "replan" \in Env
          /\ UNCHANGED <<disk, records, byNode, tokens>>
  /\ pc' = "idle"
  /\ redo' = None
  /\ UNCHANGED <<wave, repause, paused, late>>

-----------------------------------------------------------------------------
(* Ingress: the lead's delivery, status reports, gate results, memos.      *)

DeliverLate(t) ==
  /\ pc = "idle" /\ "lead" \in Env
  /\ t \in signed \ consumed
  /\ \/ Write(TaskEntry("ingress_accepted", t)) /\ consumed' = consumed \cup {t}
     \/ WriteFails(TaskEntry("ingress_accepted", t)) /\ UNCHANGED consumed
  /\ UNCHANGED <<call, records, byNode, paused, signed, late>>

\* The token is consumed before the log learns of the delivery
Deliver(t) ==
  /\ pc = "idle" /\ "lead" \in Env
  /\ t \in signed \ consumed
  /\ consumed' = consumed \cup {t}
  /\ Attempt(TaskEntry("ingress_accepted", t))
  /\ UNCHANGED <<call, records, byNode, paused, signed, late>>

IngestStatus(t, s) ==
  /\ pc = "idle" /\ "lead" \in Env
  /\ state[t] # "unknown"
  /\ state' = [state EXCEPT ![t] = s]
  /\ ackDeadline' = [ackDeadline EXCEPT ![t] = FALSE]
  /\ nextUpdateBy' = [nextUpdateBy EXCEPT ![t] = "ahead"]
  /\ Attempt(TaskEntry("status", t))
  /\ UNCHANGED <<call, nodeOf, supersededBy, byNode, paused, tokens, late>>

AcceptGate(t, p) ==
  /\ pc = "idle"
  /\ state[t] # "unknown"
  /\ state' = [state EXCEPT ![t] = IF p THEN "gate_pass" ELSE "gate_fail"]
  /\ Attempt(GateEntry(t, p))
  /\ UNCHANGED <<call, nodeOf, supersededBy, deadlines, byNode, paused, tokens, late>>

RecordDecision ==
  /\ pc = "idle" /\ "memo" \in Env
  /\ Attempt(PlainEntry("decision_memo"))
  /\ UNCHANGED <<call, records, byNode, paused, tokens, late>>

-----------------------------------------------------------------------------
(* Death and cold start.                                                   *)

\* A new process holds nothing; its key ring and its ledger are new too
Forget ==
  /\ wave' = {} /\ redo' = None
  /\ paused' = {}
  /\ consumed' = {}
  /\ signed' = IF "keep_keys" \in Env THEN signed ELSE {}

\* What restore_from gives back, and what it leaves at its default
RestoreFrom(l) ==
  /\ state' = [t \in Task |-> RestoredState(l, t)]
  /\ nodeOf' = [t \in Task |-> RestoredNode(l, t)]
  /\ supersededBy' = [t \in Task |-> None]
  /\ ackDeadline' = [t \in Task |-> FALSE]
  /\ nextUpdateBy' = [t \in Task |-> "none"]
  /\ byNode' = [k \in Node |-> RestoredOwner(l, k)]

ColdStart ==
  /\ "restart" \in Env
  /\ mirrored
  /\ RestoreFrom(log)
  /\ Forget
  /\ repause' = PausedTeams(log)
  /\ pc' = "boot"
  /\ UNCHANGED <<disk, late>>

\* check_mirror fails, and no dispatcher is returned
ColdStartRefused ==
  /\ "restart" \in Env
  /\ ~mirrored
  /\ RestoreFrom(<<>>)
  /\ Forget
  /\ repause' = {}
  /\ pc' = "down"
  /\ UNCHANGED <<disk, late>>

BootPauseForgets(m) ==
  /\ pc = "boot" /\ m \in repause
  /\ Write(TeamEntry("team_paused", m))
  /\ repause' = repause \ {m}
  /\ UNCHANGED <<pc, wave, redo, records, byNode, paused, tokens, late>>

BootPause(m) ==
  /\ pc = "boot" /\ m \in repause
  /\ \/ Write(TeamEntry("team_paused", m)) /\ UNCHANGED pc
     \/ WriteFails(TeamEntry("team_paused", m)) /\ pc' = "down"
  /\ paused' = paused \cup {m}
  /\ repause' = repause \ {m}
  /\ UNCHANGED <<wave, redo, records, byNode, tokens, late>>

\* open_for_dispatch, and the entry that records the cold start
BootOpen ==
  /\ pc = "boot" /\ repause = {}
  /\ \/ Write(PlainEntry("cold_start")) /\ pc' = "idle"
     \/ WriteFails(PlainEntry("cold_start")) /\ pc' = "down"
  /\ UNCHANGED <<wave, redo, repause, records, byNode, paused, tokens, late>>

-----------------------------------------------------------------------------
(* Time, as far as stuck_tasks looks at it.                                *)

AckSloElapses(t) ==
  /\ "clock" \in Env
  /\ t \in Dispatched(log) \ late
  /\ late' = late \cup {t}
  /\ UNCHANGED <<disk, call, records, byNode, paused, tokens>>

PromisePasses(t) ==
  /\ "clock" \in Env
  /\ nextUpdateBy[t] = "ahead"
  /\ nextUpdateBy' = [nextUpdateBy EXCEPT ![t] = "past"]
  /\ UNCHANGED <<disk, call, state, nodeOf, supersededBy, ackDeadline,
                 byNode, paused, tokens, late>>

-----------------------------------------------------------------------------

\* A first cold start, on an empty log
Init ==
  /\ log = <<>> /\ mirrored = TRUE
  /\ pc = "boot" /\ wave = {} /\ redo = None /\ repause = {}
  /\ state = [t \in Task |-> "unknown"]
  /\ nodeOf = [t \in Task |-> None]
  /\ supersededBy = [t \in Task |-> None]
  /\ ackDeadline = [t \in Task |-> FALSE]
  /\ nextUpdateBy = [t \in Task |-> "none"]
  /\ byNode = [k \in Node |-> None]
  /\ paused = {} /\ consumed = {} /\ signed = {} /\ late = {}

Next ==
  \/ \E m \in Team : PauseTeam(m) \/ ResumeTeam(m) \/ BootPause(m)
  \/ \E k \in Node : Dispatch(k) \/ WaveStep(k)
  \/ \E g \in Graph : DispatchGraph(g)
  \/ WaveEnd \/ ReclaimDispatch \/ RecordDecision
  \/ \E t \in Task :
       \/ Reclaim(t) \/ Deliver(t) \/ AckSloElapses(t) \/ PromisePasses(t)
       \/ \E s \in Report : IngestStatus(t, s)
       \/ \E p \in BOOLEAN : AcceptGate(t, p)
  \/ ColdStart \/ ColdStartRefused \/ BootOpen

Spec == Init /\ [][Next]_vars

-----------------------------------------------------------------------------
(* Questions the code answers from its records.                            *)

MayShipByAnyRecord(g) ==
  \A k \in Node : GraphOf[k] = g => \E t \in Task : nodeOf[t] = k /\ state[t] = "gate_pass"

\* may_ship: every node of the graph has a live record that passed its gate
MayShip(g) ==
  \A k \in Node : GraphOf[k] = g => byNode[k] # None /\ state[byNode[k]] = "gate_pass"

StuckUnlessGated(t) ==
  /\ state[t] \notin {"unknown", "gate_pass", "gate_fail", "abandoned"}
  /\ supersededBy[t] = None
  /\ (ackDeadline[t] /\ t \in late) \/ nextUpdateBy[t] = "past"

\* stuck_tasks: past the ack SLO, or past the promised next update
Stuck(t) ==
  /\ state[t] \notin {"unknown", "gate_pass", "abandoned"}
  /\ supersededBy[t] = None
  /\ (ackDeadline[t] /\ t \in late) \/ nextUpdateBy[t] = "past"

-----------------------------------------------------------------------------
(* Properties.                                                             *)

Before(i) == SubSeq(log, 1, i - 1)

\* The variables hold what the program keeps in them.
TypeOK ==
  /\ log \in Seq(Entry) /\ mirrored \in BOOLEAN
  /\ pc \in Phase /\ wave \subseteq Node
  /\ redo \in Task \cup {None} /\ repause \subseteq Team
  /\ state \in [Task -> Status \cup {"unknown"}]
  /\ nodeOf \in [Task -> Node \cup {None}]
  /\ supersededBy \in [Task -> Task \cup {None}]
  /\ ackDeadline \in [Task -> BOOLEAN]
  /\ nextUpdateBy \in [Task -> {"none", "ahead", "past"}]
  /\ byNode \in [Node -> Task \cup {None}]
  /\ paused \subseteq Team
  /\ consumed \subseteq Task /\ signed \subseteq Task /\ late \subseteq Task

\* _by_node never points at a task the dispatcher has no record of, at a
\* task of another node, or at one that was superseded, whatever fails and
\* wherever a call is cut short.
OwnershipWellFormed ==
  \A k \in Node : byNode[k] # None =>
    /\ state[byNode[k]] # "unknown"
    /\ nodeOf[byNode[k]] = k
    /\ supersededBy[byNode[k]] = None

\* Invariant I6: a task in memory was logged for the same node, and as long
\* as no append has failed halfway a logged task is in memory, restarts and
\* calls cut short included.
RecordsMatchLog ==
  pc # "down" =>
    /\ \A t \in Task : state[t] # "unknown" => t \in DispatchedTo(log, nodeOf[t])
    /\ mirrored => \A t \in Dispatched(log) : state[t] # "unknown"

\* superseded_by names a task of the same node, and the log shows the old
\* task reclaimed before the new one was dispatched.
SupersessionSound ==
  \A t \in Task : supersededBy[t] # None =>
    \E i, j \in DOMAIN log :
      /\ i < j
      /\ log[i] = ReclaimEntry(t)
      /\ log[j] = DispatchEntry(supersededBy[t], nodeOf[t])

\* reclaim, "replay shows one owner at a time rather than two live claims":
\* no node is claimed by two tasks neither of which was reclaimed.
ReplayShowsOneOwner ==
  \A k \in Node : \A t, u \in Claims(log, k) : t = u

\* The one way to two claims on a node while both sinks agree is to reclaim
\* the same task twice.
ReclaimedTwice ==
  \E i, j \in DOMAIN log : \E t \in Task :
    i < j /\ log[i] = ReclaimEntry(t) /\ log[j] = ReclaimEntry(t)

OneOwnerUnlessReclaimedTwice ==
  mirrored /\ ~ReclaimedTwice => ReplayShowsOneOwner

\* A restart hands every owned node back to the task that owned it: the owner
\* in memory is always the one restore_from would compute from the log.
OwnerRestorable ==
  mirrored => \A k \in Node : byNode[k] # None => LastClaim(log, k, byNode[k])

\* ReplayLedger: no task is accepted at ingress twice, restarts included.
DeliveredOnce ==
  \A i, j \in DOMAIN log : \A t \in Task :
    log[i] = TaskEntry("ingress_accepted", t) /\ log[j] = log[i] => i = j

\* pause_team, "freeze dispatch to a team": in the log, no dispatch to a team
\* stands between its team_paused and its team_resumed, restarts included.
NoDispatchWhilePaused ==
  \A i \in DOMAIN log : \A t \in Task, k \in Node :
    log[i] = DispatchEntry(t, k) => TeamOf[k] \notin PausedTeams(Before(i))

\* dispatch_graph: whenever a node is dispatched, first or again, each node it
\* depends on had a passing gate in the log before.
DependenciesGatedFirst ==
  \A i \in DOMAIN log : \A t \in Task, k \in Node :
    log[i] = DispatchEntry(t, k) =>
      \A d \in DependsOn[k] : \E u \in DispatchedTo(Before(i), d) :
        Logged(Before(i), GateEntry(u, TRUE))

\* Invariant I3 on top of I6: a task counts as passed in memory only if the
\* last gate result the log has for it is a pass.
PassIsLogged ==
  \A t \in Task : state[t] = "gate_pass" => t \in Passed(log)

\* Invariant I3 across a restart: a graph that may ship is one a replay of the
\* log would also ship, so no ship decision rests on memory alone.
ShippableOnReplay(g) ==
  \A k \in Node : GraphOf[k] = g =>
    \E t \in Passed(log) : LastClaim(log, k, t)

ShipFollowsLog ==
  \A g \in Graph : MayShip(g) => ShippableOnReplay(g)

\* reclaim, "already passed its gate; nothing to reclaim": the log never shows a
\* reclaim of the task that owned its node and whose last gate result was a
\* pass, whichever process appended the two.
PassedOwnerKept ==
  \A i \in DOMAIN log : \A t \in Passed(Before(i)), k \in Node :
    log[i] = ReclaimEntry(t) => ~LastClaim(Before(i), k, t)

\* stuck_tasks: a task this process dispatched, and whose lead has said nothing
\* since, is reported once the ack SLO has passed, whatever append failed
\* meanwhile.  What an earlier process dispatched has no deadline any more.
UnacknowledgedIsStuck ==
  \A t \in late \cap signed :
    /\ state[t] \notin {"unknown", "gate_pass", "abandoned"}
    /\ supersededBy[t] = None
    /\ nextUpdateBy[t] = "none"
    => Stuck(t)

-----------------------------------------------------------------------------
(* The register of owners that the dispatcher implements.                  *)

\* The nodes whose owner in memory has passed
DoneNodes == {k \in Node : byNode[k] # None /\ state[byNode[k]] = "gate_pass"}

\* The nodes with a pass in the log
GatedNodes ==
  {k \in Node : \E t \in DispatchedTo(log, k) : Logged(log, GateEntry(t, TRUE))}

Register == INSTANCE Register WITH
  owner <- byNode, done <- DoneNodes,
  granted <- [k \in Node |-> DispatchedTo(log, k)], withdrawn <- Reclaimed(log),
  frozen <- PausedTeams(log), passed <- Passed(log), gated <- GatedNodes,
  disputed <- ReclaimedTwice

\* The dispatcher as a whole, Invariant I6 as an implementation: whatever it
\* does, over any number of deaths and cold starts, looks like a register of
\* owners that never restarts.  A cold start gives back exactly the owners, the
\* passes and the frozen teams there were, wherever it cut the last process short.
RegisterRefined == Register!Spec

=============================================================================
