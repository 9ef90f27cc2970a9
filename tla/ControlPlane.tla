---------------------------- MODULE ControlPlane ----------------------------
(***************************************************************************)
(* Several processes of src/orchestrator/cli.py over one audit log.  Each  *)
(* cold starts (state.py), then works from what it replayed: the dispatch  *)
(* command dispatches the ready nodes of a graph and exits, coldstart      *)
(* exits at once, and a session of the library also accepts gates, pauses  *)
(* and resumes.  The processes share the two sinks and the manifest, and   *)
(* no lock spans a replay and the appends that rest on it.                 *)
(*                                                                         *)
(* A process knows the entries it replayed and those it appended: view.    *)
(* Its records, owners and paused teams are what Replay makes of them.     *)
(* Reclaims, reports and failing appends are Dispatcher's, the lock and    *)
(* the lines AuditLog's.                                                   *)
(***************************************************************************)
EXTENDS Replay

CONSTANTS
  Process,    \* the processes that may run at once
  TeamOf,     \* the team of a node
  DependsOn,  \* the nodes a node depends on
  Retirable,  \* the teams that own no gate: only they can leave the manifest
  Env,        \* what may happen besides: "pause", "retire", "crash"
  MaxLog      \* bound: the audit log never grows past this length

ASSUME PlaneAssumption ==
  /\ TeamOf \in [Node -> Team]
  /\ DependsOn \in [Node -> SUBSET Node]
  /\ Retirable \subseteq Team
  /\ None \notin Task
  /\ MaxLog \in Nat

VARIABLES
  log,       \* the primary sink
  mirror,    \* the mirror sink
  manifest,  \* the teams the topology manifest declares
  pc,        \* what each process is doing: see Phase
  view,      \* the entries it replayed or appended
  teams,     \* the teams of the manifest it loaded
  checked,   \* how many lines its mirror check compared
  owes,      \* the entry it appended and has not mirrored yet
  todo,      \* the teams still to be paused again, or the nodes of its wave
  behind     \* history: an append was made by a process that had missed entries

sinks == <<log, mirror>>
vars == <<sinks, manifest, pc, view, teams, checked, owes, todo, behind>>

Phase == {"off", "replayed", "boot", "idle", "wave"}
Open(p) == pc[p] \in {"idle", "wave"}

Goes(p, q) == pc' = [pc EXCEPT ![p] = q]

\* append returns once both sinks are written: until then the process waits
AppendEntry(p, e) ==
  /\ Len(log) < MaxLog
  /\ log' = Append(log, e)
  /\ view' = [view EXCEPT ![p] = Append(@, e)]
  /\ owes' = [owes EXCEPT ![p] = e]
  /\ behind' = (behind \/ view[p] # log)
  /\ UNCHANGED mirror

NoAppend == UNCHANGED <<sinks, view, owes, behind>>

WriteMirror(p) ==
  /\ owes[p] # None
  /\ mirror' = Append(mirror, owes[p])
  /\ owes' = [owes EXCEPT ![p] = None]
  /\ UNCHANGED <<log, manifest, pc, view, teams, checked, todo, behind>>

-----------------------------------------------------------------------------
(* The cold start of a process.                                            *)

\* Topology.load, and replay
Start(p) ==
  /\ pc[p] = "off"
  /\ Goes(p, "replayed")
  /\ teams' = [teams EXCEPT ![p] = manifest]
  /\ view' = [view EXCEPT ![p] = log]
  /\ UNCHANGED <<sinks, manifest, checked, owes, todo, behind>>

\* open_tasks, and the teams they name
OpenTasks(l) == {t \in Dispatched(l) : t \notin Reclaimed(l) \cup Passed(l)}
TeamsOf(l, S) == {TeamOf[RestoredNode(l, t)] : t \in S}

SameLength == Len(mirror) = Len(log)

\* check_mirror, whose two reads AuditLog tells apart
SinksAgree == mirror = log

ReconciledUnlessGated(p) ==
  TeamsOf(view[p], {t \in OpenTasks(view[p]) : t \notin Failed(view[p])}) \subseteq teams[p]

Reconciled(p) == TeamsOf(view[p], OpenTasks(view[p])) \subseteq teams[p]

\* The process is gone, with all it knew
Forgets(p) ==
  /\ Goes(p, "off")
  /\ view' = [view EXCEPT ![p] = <<>>]
  /\ teams' = [teams EXCEPT ![p] = {}]
  /\ checked' = [checked EXCEPT ![p] = 0]
  /\ owes' = [owes EXCEPT ![p] = None]
  /\ todo' = [todo EXCEPT ![p] = {}]
  /\ UNCHANGED <<sinks, behind>>

\* A cold start that fails a check ends its command, with nothing written
CheckAndReconcile(p) ==
  /\ pc[p] = "replayed"
  /\ IF SinksAgree /\ Reconciled(p)
       THEN /\ Goes(p, "boot")
            /\ checked' = [checked EXCEPT ![p] = Len(log)]
            /\ todo' = [todo EXCEPT ![p] = PausedTeams(view[p])]
            /\ NoAppend /\ UNCHANGED teams
       ELSE Forgets(p)
  /\ UNCHANGED manifest

\* The loop that pauses the teams again raises at one the topology lacks
PauseAgain(p, m) ==
  /\ pc[p] = "boot" /\ owes[p] = None /\ m \in todo[p]
  /\ IF m \in teams[p]
       THEN /\ AppendEntry(p, TeamEntry("team_paused", m))
            /\ todo' = [todo EXCEPT ![p] = @ \ {m}]
            /\ UNCHANGED <<pc, teams, checked>>
       ELSE Forgets(p)
  /\ UNCHANGED manifest

OpenForDispatch(p) ==
  /\ pc[p] = "boot" /\ owes[p] = None /\ todo[p] = {}
  /\ Goes(p, "idle")
  /\ AppendEntry(p, PlainEntry("cold_start"))
  /\ UNCHANGED <<manifest, teams, checked, todo>>

-----------------------------------------------------------------------------
(* An open process: its memory is the replay of its view.                  *)

Free(p) == pc[p] = "idle" /\ owes[p] = None

SatisfiedByDispatch(p, d) == \E t \in Task : t \in DispatchedTo(view[p], d)

Satisfied(p, d) ==
  \E t \in Task : RestoredState(view[p], t) = "gate_pass" /\ RestoredNode(view[p], t) = d

DispatchGraph(p) ==
  /\ Free(p)
  /\ Goes(p, "wave")
  /\ todo' = [todo EXCEPT ![p] = {k \in Node : \A d \in DependsOn[k] : Satisfied(p, d)}]
  /\ NoAppend
  /\ UNCHANGED <<manifest, teams, checked>>

OwnedIfOpen(p, k) == \E t \in OpenTasks(view[p]) : RestoredOwner(view[p], k) = t

Owned(p, k) == RestoredOwner(view[p], k) # None

AcceptsUnlessReplayed(p, m) == m \in teams[p]

\* dispatch: the team is declared and not paused
Accepts(p, m) == m \in teams[p] /\ m \notin PausedTeams(view[p])

Fresh(t) == t \notin Dispatched(log)

\* One node of the wave has an owner, or is dispatched
WaveStep(p, k) ==
  /\ pc[p] = "wave" /\ owes[p] = None /\ k \in todo[p]
  /\ \/ Owned(p, k) /\ NoAppend
     \/ /\ ~Owned(p, k) /\ Accepts(p, TeamOf[k])
        /\ \E t \in Task : Fresh(t) /\ AppendEntry(p, DispatchEntry(t, k))
  /\ todo' = [todo EXCEPT ![p] = @ \ {k}]
  /\ UNCHANGED <<manifest, pc, teams, checked>>

\* A refused node raises out of the loop, which ends the command
WaveRaises(p, k) ==
  /\ pc[p] = "wave" /\ owes[p] = None /\ k \in todo[p]
  /\ ~Owned(p, k) /\ ~Accepts(p, TeamOf[k])
  /\ Forgets(p)
  /\ UNCHANGED manifest

WaveEnd(p) ==
  /\ pc[p] = "wave" /\ owes[p] = None /\ todo[p] = {}
  /\ Goes(p, "idle")
  /\ NoAppend
  /\ UNCHANGED <<manifest, teams, checked, todo>>

AcceptGate(p, t, passed) ==
  /\ Free(p)
  /\ t \in Dispatched(view[p])
  /\ AppendEntry(p, GateEntry(t, passed))
  /\ UNCHANGED <<manifest, pc, teams, checked, todo>>

\* pause_team and resume_team
SetPause(p, e, m) ==
  /\ Free(p) /\ "pause" \in Env
  /\ m \in teams[p]
  /\ AppendEntry(p, TeamEntry(e, m))
  /\ UNCHANGED <<manifest, pc, teams, checked, todo>>

\* The command ends, or is killed: it is written, or it is not
Exit(p) == pc[p] # "off" /\ owes[p] = None /\ Forgets(p) /\ UNCHANGED manifest

\* Killed between the two sinks, it leaves the mirror without the line
Crash(p) == "crash" \in Env /\ owes[p] # None /\ Forgets(p) /\ UNCHANGED manifest

\* An operator edits the manifest: validate refuses to lose a gate's owner
EditManifest(m) ==
  /\ "retire" \in Env /\ m \in Retirable
  /\ manifest' = IF m \in manifest THEN manifest \ {m} ELSE manifest \cup {m}
  /\ UNCHANGED <<sinks, pc, view, teams, checked, owes, todo, behind>>

-----------------------------------------------------------------------------

Init ==
  /\ log = <<>> /\ mirror = <<>> /\ manifest = Team
  /\ pc = [p \in Process |-> "off"]
  /\ view = [p \in Process |-> <<>>]
  /\ teams = [p \in Process |-> {}]
  /\ checked = [p \in Process |-> 0]
  /\ owes = [p \in Process |-> None]
  /\ todo = [p \in Process |-> {}]
  /\ behind = FALSE

Next ==
  \/ \E p \in Process :
       \/ WriteMirror(p) \/ Start(p) \/ CheckAndReconcile(p)
       \/ OpenForDispatch(p) \/ DispatchGraph(p) \/ WaveEnd(p) \/ Exit(p) \/ Crash(p)
       \/ \E m \in Team : PauseAgain(p, m) \/ \E e \in {"team_paused", "team_resumed"} : SetPause(p, e, m)
       \/ \E k \in Node : WaveStep(p, k) \/ WaveRaises(p, k)
       \/ \E t \in Task, passed \in BOOLEAN : AcceptGate(p, t, passed)
  \/ \E m \in Team : EditManifest(m)

Spec == Init /\ [][Next]_vars

-----------------------------------------------------------------------------
(* Properties.                                                             *)

\* The variables hold what the program keeps in them.
TypeOK ==
  /\ log \in Seq(Entry) /\ mirror \in Seq(Entry) /\ manifest \subseteq Team
  /\ pc \in [Process -> Phase]
  /\ view \in [Process -> Seq(Entry)]
  /\ teams \in [Process -> SUBSET Team]
  /\ checked \in [Process -> 0..MaxLog]
  /\ owes \in [Process -> Entry \cup {None}]
  /\ todo \in [Process -> SUBSET (Team \cup Node)]
  /\ behind \in BOOLEAN

\* dispatch, "so the same node cannot be dispatched to two owners": the log
\* never holds two claims on one node, whichever processes made them.
OneOwner == \A k \in Node : \A t, u \in Claims(log, k) : t = u

\* Crashes, exits and cold starts alone never give a node two owners: it takes
\* a process that appends after entries it had not replayed.
OneOwnerUnlessBehind == ~behind => OneOwner

Before(i) == SubSeq(log, 1, i - 1)

\* pause_team, "freeze dispatch to a team", across processes and crashes: no
\* dispatch follows a pause unless some process had missed entries.
NoDispatchWhilePaused ==
  ~behind =>
    \A i \in DOMAIN log : \A t \in Task, k \in Node :
      log[i] = DispatchEntry(t, k) => TeamOf[k] \notin PausedTeams(Before(i))

\* dispatch_graph: a dispatch follows a passing gate of each node it depends
\* on.  This holds even for processes that work from an old replay.
DependenciesGatedFirst ==
  \A i \in DOMAIN log : \A t \in Task, k \in Node :
    log[i] = DispatchEntry(t, k) =>
      \A d \in DependsOn[k] : \E u \in DispatchedTo(Before(i), d) :
        Logged(Before(i), GateEntry(u, TRUE))

\* cold_start, "the only trustworthy way to know what is in flight": what an
\* open process has checked is on both sinks, and stays there: a mirror that lost
\* a line in a crash opens no process again.
OpenedOnBothSinks ==
  \A p \in Process : Open(p) =>
    /\ Len(mirror) >= checked[p]
    /\ SubSeq(mirror, 1, checked[p]) = SubSeq(log, 1, checked[p])

\* queue_depth and pause_team look teams up without asking: the topology of an
\* open process declares the team of every task it counts as open and of every
\* pause, unless a gate result reopened a task that had passed.
OpenedFitsTopology ==
  \A p \in Process : Open(p) =>
    /\ PausedTeams(view[p]) \subseteq teams[p]
    /\ \A t \in OpenTasks(view[p]) :
         \/ TeamOf[RestoredNode(view[p], t)] \in teams[p]
         \/ Logged(view[p], GateEntry(t, TRUE))

=============================================================================
