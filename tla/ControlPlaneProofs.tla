------------------------- MODULE ControlPlaneProofs -------------------------
(***************************************************************************)
(* Theorems about ControlPlane, for any number of processes, tasks, nodes  *)
(* and teams, any graph of dependencies and any environment.               *)
(***************************************************************************)
EXTENDS ControlPlane, TLAPS

-----------------------------------------------------------------------------
(* The log and one more entry.                                             *)

LEMMA EntryKinds ==
  /\ \A t \in Task, k \in Node : DispatchEntry(t, k) \in Entry
  /\ \A t \in Task, b \in BOOLEAN : GateEntry(t, b) \in Entry
  /\ \A m \in Team, e \in {"team_paused", "team_resumed"} : TeamEntry(e, m) \in Entry
  /\ PlainEntry("cold_start") \in Entry
BY DEF Entry

LEMMA AppendFacts ==
  ASSUME NEW l \in Seq(Entry), NEW e \in Entry
  PROVE  /\ Append(l, e) \in Seq(Entry)
         /\ Len(l) \in Nat /\ Len(Append(l, e)) = Len(l) + 1
         /\ DOMAIN l = 1..Len(l) /\ DOMAIN Append(l, e) = DOMAIN l \cup {Len(l) + 1}
         /\ Len(l) + 1 \notin DOMAIN l
         /\ \A i \in DOMAIN l : Append(l, e)[i] = l[i]
         /\ Append(l, e)[Len(l) + 1] = e
         /\ \A i \in DOMAIN l : SubSeq(Append(l, e), 1, i - 1) = SubSeq(l, 1, i - 1)
         /\ SubSeq(Append(l, e), 1, Len(l)) = l
<1>1. /\ Append(l, e) \in Seq(Entry)
      /\ Len(l) \in Nat /\ Len(Append(l, e)) = Len(l) + 1
      /\ DOMAIN l = 1..Len(l) /\ DOMAIN Append(l, e) = DOMAIN l \cup {Len(l) + 1}
      /\ Len(l) + 1 \notin DOMAIN l
      /\ \A i \in DOMAIN l : Append(l, e)[i] = l[i]
      /\ Append(l, e)[Len(l) + 1] = e
  OBVIOUS
<1>2. ASSUME NEW i \in DOMAIN l
      PROVE  SubSeq(Append(l, e), 1, i - 1) = SubSeq(l, 1, i - 1)
  BY <1>1
<1>3. SubSeq(Append(l, e), 1, Len(l)) = l
  BY <1>1
<1>. QED
  BY <1>1, <1>2, <1>3

LEMMA AppendLogged ==
  ASSUME NEW l \in Seq(Entry), NEW e \in Entry, NEW f
  PROVE  Logged(Append(l, e), f) <=> Logged(l, f) \/ f = e
BY AppendFacts DEF Logged

-----------------------------------------------------------------------------
(* Types.                                                                  *)

LEMMA AppendTypes ==
  ASSUME TypeOK, NEW p \in Process, NEW e \in Entry, AppendEntry(p, e)
  PROVE  /\ log' \in Seq(Entry) /\ mirror' \in Seq(Entry)
         /\ view' \in [Process -> Seq(Entry)]
         /\ owes' \in [Process -> Entry \cup {None}] /\ behind' \in BOOLEAN
<1>1. log \in Seq(Entry) /\ view[p] \in Seq(Entry) /\ view \in [Process -> Seq(Entry)]
  BY DEF TypeOK
<1>2. Append(log, e) \in Seq(Entry) /\ Append(view[p], e) \in Seq(Entry)
  BY <1>1, AppendFacts
<1>. QED
  BY <1>1, <1>2 DEF AppendEntry, TypeOK

LEMMA ForgetsTypes ==
  ASSUME TypeOK, NEW p \in Process, Forgets(p), UNCHANGED manifest
  PROVE  TypeOK'
<1>1. <<>> \in Seq(Entry)
  OBVIOUS
<1>. QED
  BY <1>1, PlaneAssumption DEF Forgets, Goes, Phase, sinks, TypeOK

LEMMA LogBounded ==
  ASSUME TypeOK, Len(log) <= MaxLog
  PROVE  [Next]_vars => (Len(log) <= MaxLog)'
<1> SUFFICES ASSUME [Next]_vars PROVE Len(log') <= MaxLog
  OBVIOUS
<1>1. ASSUME NEW p \in Process, NEW e, AppendEntry(p, e) PROVE Len(log') <= MaxLog
  BY <1>1, PlaneAssumption DEF AppendEntry, TypeOK
<1>2. log' = log => Len(log') <= MaxLog
  OBVIOUS
<1>. QED
  BY <1>1, <1>2 DEF Next, WriteMirror, Start, CheckAndReconcile, OpenForDispatch, DispatchGraph,
     WaveEnd, Exit, Crash, PauseAgain, SetPause, WaveStep, WaveRaises, AcceptGate, EditManifest,
     NoAppend, Forgets, sinks, vars

LEMMA TypeStep == TypeOK /\ Len(log) <= MaxLog /\ [Next]_vars => TypeOK'
<1> SUFFICES ASSUME TypeOK, Len(log) <= MaxLog, [Next]_vars PROVE TypeOK'
  OBVIOUS
<1> USE PlaneAssumption
<1>1. ASSUME NEW p \in Process, WriteMirror(p) PROVE TypeOK'
  BY <1>1 DEF WriteMirror, TypeOK
<1>2. ASSUME NEW p \in Process, Start(p) PROVE TypeOK'
  BY <1>2 DEF Start, Goes, Phase, sinks, TypeOK
<1>3. ASSUME NEW p \in Process, CheckAndReconcile(p) PROVE TypeOK'
  <2>1. CASE Forgets(p)
    BY <1>3, <2>1, ForgetsTypes DEF CheckAndReconcile
  <2>2. Len(log) \in 0..MaxLog /\ PausedTeams(view[p]) \subseteq Team
    BY DEF TypeOK, PausedTeams
  <2>. QED
    BY <1>3, <2>1, <2>2 DEF CheckAndReconcile, Goes, Phase, NoAppend, sinks, TypeOK
<1>4. ASSUME NEW p \in Process, OpenForDispatch(p) PROVE TypeOK'
  BY <1>4, AppendTypes, EntryKinds DEF OpenForDispatch, Goes, Phase, TypeOK
<1>5. ASSUME NEW p \in Process, DispatchGraph(p) PROVE TypeOK'
  BY <1>5 DEF DispatchGraph, Goes, Phase, NoAppend, sinks, TypeOK
<1>6. ASSUME NEW p \in Process, WaveEnd(p) PROVE TypeOK'
  BY <1>6 DEF WaveEnd, Goes, Phase, NoAppend, sinks, TypeOK
<1>7. ASSUME NEW p \in Process, Exit(p) \/ Crash(p) PROVE TypeOK'
  BY <1>7, ForgetsTypes DEF Exit, Crash
<1>8. ASSUME NEW p \in Process, NEW m \in Team, PauseAgain(p, m) PROVE TypeOK'
  <2>1. CASE m \notin teams[p]
    BY <1>8, <2>1, ForgetsTypes DEF PauseAgain
  <2>2. CASE m \in teams[p]
    <3>1. TeamEntry("team_paused", m) \in Entry /\ AppendEntry(p, TeamEntry("team_paused", m))
      BY <1>8, <2>2, EntryKinds DEF PauseAgain
    <3>2. /\ log' \in Seq(Entry) /\ mirror' \in Seq(Entry) /\ view' \in [Process -> Seq(Entry)]
          /\ owes' \in [Process -> Entry \cup {None}] /\ behind' \in BOOLEAN
      BY <3>1, AppendTypes
    <3>3. todo' \in [Process -> SUBSET (Team \cup Node)]
      BY <1>8, <2>2 DEF PauseAgain, TypeOK
    <3>4. UNCHANGED <<manifest, pc, teams, checked>>
      BY <1>8, <2>2 DEF PauseAgain
    <3>. QED
      BY <3>2, <3>3, <3>4 DEF TypeOK
  <2>. QED
    BY <1>8, <2>1, <2>2 DEF PauseAgain
<1>9. ASSUME NEW p \in Process, NEW m \in Team, NEW e \in {"team_paused", "team_resumed"},
             SetPause(p, e, m)
      PROVE TypeOK'
  BY <1>9, AppendTypes, EntryKinds DEF SetPause, TypeOK
<1>10. ASSUME NEW p \in Process, NEW k \in Node, WaveStep(p, k) PROVE TypeOK'
  <2>1. CASE NoAppend
    BY <1>10, <2>1 DEF WaveStep, NoAppend, sinks, TypeOK
  <2>2. ASSUME NEW t \in Task, AppendEntry(p, DispatchEntry(t, k)) PROVE TypeOK'
    BY <1>10, <2>2, AppendTypes, EntryKinds DEF WaveStep, TypeOK
  <2>. QED
    BY <1>10, <2>1, <2>2 DEF WaveStep
<1>11. ASSUME NEW p \in Process, NEW k \in Node, WaveRaises(p, k) PROVE TypeOK'
  BY <1>11, ForgetsTypes DEF WaveRaises
<1>12. ASSUME NEW p \in Process, NEW t \in Task, NEW b \in BOOLEAN, AcceptGate(p, t, b)
       PROVE TypeOK'
  BY <1>12, AppendTypes, EntryKinds DEF AcceptGate, TypeOK
<1>13. ASSUME NEW m \in Team, EditManifest(m) PROVE TypeOK'
  BY <1>13 DEF EditManifest, sinks, TypeOK
<1>14. CASE UNCHANGED vars
  BY <1>14 DEF vars, sinks, TypeOK
<1>. QED
  BY <1>1, <1>2, <1>3, <1>4, <1>5, <1>6, <1>7, <1>8, <1>9, <1>10, <1>11, <1>12, <1>13, <1>14
  DEF Next

LEMMA PlaneInit == Init => TypeOK /\ Len(log) <= MaxLog
<1>1. <<>> \in Seq(Entry) /\ Len(<<>>) = 0
  OBVIOUS
<1> SUFFICES ASSUME Init PROVE TypeOK /\ Len(log) <= MaxLog
  OBVIOUS
<1>2. Len(log) <= MaxLog
  BY <1>1, PlaneAssumption DEF Init
<1>3. /\ log \in Seq(Entry) /\ mirror \in Seq(Entry)
      /\ view \in [Process -> Seq(Entry)]
  BY <1>1 DEF Init
<1>4. checked \in [Process -> 0..MaxLog] /\ owes \in [Process -> Entry \cup {None}]
  BY PlaneAssumption DEF Init
<1>. QED
  BY <1>2, <1>3, <1>4 DEF Init, Phase, TypeOK

TypeInv == TypeOK /\ Len(log) <= MaxLog

LEMMA TypeInvariant == Spec => []TypeInv
<1>1. TypeInv /\ [Next]_vars => TypeInv'
  BY TypeStep, LogBounded DEF TypeInv
<1>. QED
  BY <1>1, PlaneInit, PTL DEF Spec, TypeInv

\* The variables keep their types, whatever processes run, crash and restart.
THEOREM PlaneTypesHold == Spec => []TypeOK
BY TypeInvariant, PTL DEF TypeInv

-----------------------------------------------------------------------------
(* What one step may append, and what it may do to a view.                 *)

\* Only a wave dispatches, a node it holds ready, that nobody owns and whose
\* team accepts work; a gate result is for a task in view; nothing here reclaims.
Allowed(p, e) ==
  /\ \A t \in Task, k \in Node : e = DispatchEntry(t, k) =>
       /\ pc[p] = "wave" /\ k \in todo[p]
       /\ ~Owned(p, k) /\ Accepts(p, TeamOf[k]) /\ Fresh(t)
  /\ \A t \in Task, b \in BOOLEAN : e = GateEntry(t, b) => t \in Dispatched(view[p])
  /\ \A t \in Task : e # ReclaimEntry(t)

LEMMA KindsDiffer ==
  /\ \A t, u, k, b : GateEntry(t, b) # DispatchEntry(u, k)
  /\ \A m, u, k, e : e # "dispatch" => TeamEntry(e, m) # DispatchEntry(u, k)
  /\ \A u, k, e : e # "dispatch" => PlainEntry(e) # DispatchEntry(u, k)
  /\ \A t, u, k : DispatchEntry(t, k) # ReclaimEntry(u)
  /\ \A t, u, b : GateEntry(t, b) # ReclaimEntry(u)
  /\ \A m, u, e : e # "reclaim" => TeamEntry(e, m) # ReclaimEntry(u)
  /\ \A u, e : e # "reclaim" => PlainEntry(e) # ReclaimEntry(u)
  /\ \A m, u, b, e : TeamEntry(e, m) # GateEntry(u, b)
  /\ \A u, b, e : PlainEntry(e) # GateEntry(u, b)
  /\ \A m, u, k, e : DispatchEntry(u, k) # TeamEntry(e, m)
  /\ \A m, e, f : PlainEntry(e) # TeamEntry(f, m)
  /\ \A t, u, b, c : GateEntry(t, b) = GateEntry(u, c) => t = u /\ b = c
  /\ \A t, u, k, n : DispatchEntry(t, k) = DispatchEntry(u, n) => t = u /\ k = n
BY DEF GateEntry, DispatchEntry, TeamEntry, PlainEntry, ReclaimEntry, TaskEntry

LEMMA StepKinds ==
  ASSUME TypeOK, [Next]_vars
  PROVE  \/ /\ UNCHANGED <<log, behind>>
            /\ \A q \in Process : view'[q] \in {view[q], <<>>, log}
         \/ \E p \in Process, e \in Entry : AppendEntry(p, e) /\ Allowed(p, e)
<1> DEFINE Quiet == /\ UNCHANGED <<log, behind>>
                    /\ \A q \in Process : view'[q] \in {view[q], <<>>, log}
           Appends == \E p \in Process, e \in Entry : AppendEntry(p, e) /\ Allowed(p, e)
<1>1. ASSUME NEW p \in Process, Forgets(p) PROVE Quiet
  BY <1>1 DEF Forgets, sinks, TypeOK
<1>2. NoAppend => Quiet
  BY DEF NoAppend, sinks
<1>3. ASSUME NEW p \in Process,
             WriteMirror(p) \/ Start(p) \/ DispatchGraph(p) \/ WaveEnd(p) \/ Exit(p) \/ Crash(p)
      PROVE Quiet
  BY <1>3, <1>1, <1>2 DEF WriteMirror, Start, DispatchGraph, WaveEnd, Exit, Crash, sinks, TypeOK
<1>4. ASSUME NEW p \in Process, CheckAndReconcile(p) PROVE Quiet
  BY <1>4, <1>1, <1>2 DEF CheckAndReconcile
<1>5. ASSUME NEW p \in Process, OpenForDispatch(p) PROVE Appends
  BY <1>5, EntryKinds, KindsDiffer DEF OpenForDispatch, Allowed
<1>6. ASSUME NEW p \in Process, NEW m \in Team, PauseAgain(p, m) PROVE Quiet \/ Appends
  <2>1. CASE Forgets(p)
    BY <2>1, <1>1
  <2>2. CASE AppendEntry(p, TeamEntry("team_paused", m))
    BY <2>2, EntryKinds, KindsDiffer DEF Allowed
  <2>. QED
    BY <1>6, <2>1, <2>2 DEF PauseAgain
<1>7. ASSUME NEW p \in Process, NEW m \in Team, NEW e \in {"team_paused", "team_resumed"},
             SetPause(p, e, m)
      PROVE Appends
  BY <1>7, EntryKinds, KindsDiffer DEF SetPause, Allowed
<1>8. ASSUME NEW p \in Process, NEW k \in Node, WaveStep(p, k) PROVE Quiet \/ Appends
  <2>1. ASSUME NEW t \in Task, AppendEntry(p, DispatchEntry(t, k)), Fresh(t), ~Owned(p, k),
               Accepts(p, TeamOf[k])
        PROVE Appends
    <3>1. Allowed(p, DispatchEntry(t, k))
      BY <1>8, <2>1, KindsDiffer DEF Allowed, WaveStep
    <3>. QED
      BY <2>1, <3>1, EntryKinds
  <2>. QED
    BY <1>8, <1>2, <2>1 DEF WaveStep
<1>9. ASSUME NEW p \in Process, NEW k \in Node, WaveRaises(p, k) PROVE Quiet
  BY <1>9, <1>1 DEF WaveRaises
<1>10. ASSUME NEW p \in Process, NEW t \in Task, NEW b \in BOOLEAN, AcceptGate(p, t, b)
       PROVE Appends
  BY <1>10, EntryKinds, KindsDiffer DEF AcceptGate, Allowed
<1>11. ASSUME NEW m \in Team, EditManifest(m) PROVE Quiet
  BY <1>11 DEF EditManifest, sinks
<1>12. CASE UNCHANGED vars
  BY <1>12 DEF vars, sinks
<1>. QED
  BY <1>3, <1>4, <1>5, <1>6, <1>7, <1>8, <1>9, <1>10, <1>11, <1>12 DEF Next

\* A step keeps what is logged, and adds at most one entry at the end.
LEMMA LogGrows ==
  ASSUME TypeOK, [Next]_vars
  PROVE  \A f : Logged(log, f) => Logged(log', f)
<1>1. ASSUME NEW p \in Process, NEW e \in Entry, AppendEntry(p, e)
      PROVE \A f : Logged(log, f) => Logged(log', f)
  BY <1>1, AppendLogged DEF AppendEntry, TypeOK
<1>. QED
  BY <1>1, StepKinds

-----------------------------------------------------------------------------
(* A view holds only what the log holds.                                   *)

ViewsLogged == \A p \in Process : \A f : Logged(view[p], f) => Logged(log, f)

LEMMA ViewsStep == TypeOK /\ ViewsLogged /\ [Next]_vars => ViewsLogged'
<1> SUFFICES ASSUME TypeOK, ViewsLogged, [Next]_vars, NEW q \in Process, NEW f,
                    Logged(view'[q], f)
             PROVE  Logged(log', f)
  BY DEF ViewsLogged
<1>1. CASE log' = log /\ view'[q] \in {view[q], <<>>, log}
  BY <1>1 DEF ViewsLogged, Logged
<1>2. ASSUME NEW p \in Process, NEW e \in Entry, AppendEntry(p, e) PROVE Logged(log', f)
  <2>1. log' = Append(log, e) /\ log \in Seq(Entry) /\ view[q] \in Seq(Entry)
        /\ view'[q] \in {view[q], Append(view[q], e)}
    BY <1>2 DEF AppendEntry, TypeOK
  <2>2. Logged(view[q], f) \/ f = e
    BY <2>1, AppendLogged
  <2>. QED
    BY <2>1, <2>2, AppendLogged DEF ViewsLogged
<1>. QED
  BY <1>1, <1>2, StepKinds

-----------------------------------------------------------------------------
(* Dependencies.                                                           *)

\* A passing gate of each node k depends on is in l
DependenciesPassed(l, k) ==
  \A d \in DependsOn[k] : \E u \in DispatchedTo(l, d) : Logged(l, GateEntry(u, TRUE))

WavesReady ==
  \A p \in Process : pc[p] = "wave" => \A k \in todo[p] : k \in Node /\ DependenciesPassed(log, k)

LEMMA SatisfiedMeansPassed ==
  ASSUME NEW p \in Process, NEW d \in Node, Satisfied(p, d)
  PROVE  \E u \in DispatchedTo(view[p], d) : Logged(view[p], GateEntry(u, TRUE))
<1>1. PICK t \in Task : RestoredState(view[p], t) = "gate_pass" /\ RestoredNode(view[p], t) = d
  BY DEF Satisfied
<1>2. t \in Dispatched(view[p]) \cap Passed(view[p])
  BY <1>1 DEF RestoredState
<1>3. t \in DispatchedTo(view[p], d)
  BY <1>1, <1>2 DEF RestoredNode, Dispatched
<1>4. Logged(view[p], GateEntry(t, TRUE))
  BY <1>2 DEF Passed, LastIs, Logged
<1>. QED
  BY <1>3, <1>4

\* Only dispatch_graph puts a node in a wave
LEMMA WaveSteps ==
  ASSUME TypeOK, [Next]_vars, NEW q \in Process, pc'[q] = "wave"
  PROVE  \/ pc[q] = "wave" /\ todo'[q] \subseteq todo[q]
         \/ DispatchGraph(q)
<1> USE DEF TypeOK
<1>1. ASSUME NEW p \in Process, Forgets(p) PROVE pc[q] = "wave" /\ todo'[q] \subseteq todo[q]
  BY <1>1 DEF Forgets, Goes
<1>2. ASSUME NEW p \in Process,
             WriteMirror(p) \/ Start(p) \/ OpenForDispatch(p) \/ WaveEnd(p)
      PROVE pc[q] = "wave" /\ todo'[q] \subseteq todo[q]
  BY <1>2 DEF WriteMirror, Start, OpenForDispatch, WaveEnd, Goes
<1>3. ASSUME NEW p \in Process, CheckAndReconcile(p)
      PROVE pc[q] = "wave" /\ todo'[q] \subseteq todo[q]
  BY <1>3, <1>1 DEF CheckAndReconcile, Goes
<1>4. ASSUME NEW p \in Process, DispatchGraph(p)
      PROVE DispatchGraph(q) \/ (pc[q] = "wave" /\ todo'[q] \subseteq todo[q])
  BY <1>4 DEF DispatchGraph, Goes
<1>5. ASSUME NEW p \in Process, Exit(p) \/ Crash(p)
      PROVE pc[q] = "wave" /\ todo'[q] \subseteq todo[q]
  BY <1>5, <1>1 DEF Exit, Crash
<1>6. ASSUME NEW p \in Process, NEW m \in Team, PauseAgain(p, m)
      PROVE pc[q] = "wave" /\ todo'[q] \subseteq todo[q]
  BY <1>6, <1>1 DEF PauseAgain
<1>7. ASSUME NEW p \in Process, NEW m, NEW e, SetPause(p, e, m)
      PROVE pc[q] = "wave" /\ todo'[q] \subseteq todo[q]
  BY <1>7 DEF SetPause
<1>8. ASSUME NEW p \in Process, NEW k \in Node, WaveStep(p, k) \/ WaveRaises(p, k)
      PROVE pc[q] = "wave" /\ todo'[q] \subseteq todo[q]
  BY <1>8, <1>1 DEF WaveStep, WaveRaises
<1>9. ASSUME NEW p \in Process, NEW t, NEW b, AcceptGate(p, t, b)
      PROVE pc[q] = "wave" /\ todo'[q] \subseteq todo[q]
  BY <1>9 DEF AcceptGate
<1>10. ASSUME NEW m, EditManifest(m) PROVE pc[q] = "wave" /\ todo'[q] \subseteq todo[q]
  BY <1>10 DEF EditManifest
<1>11. CASE UNCHANGED vars
  BY <1>11 DEF vars
<1>. QED
  BY <1>2, <1>3, <1>4, <1>5, <1>6, <1>7, <1>8, <1>9, <1>10, <1>11 DEF Next

LEMMA WavesStep ==
  TypeOK /\ ViewsLogged /\ WavesReady /\ [Next]_vars => WavesReady'
<1> SUFFICES ASSUME TypeOK, ViewsLogged, WavesReady, [Next]_vars,
                    NEW q \in Process, pc'[q] = "wave", NEW k \in todo'[q]
             PROVE  k \in Node /\ DependenciesPassed(log, k)'
  BY DEF WavesReady
<1>1. \A f : Logged(log, f) => Logged(log', f)
  BY LogGrows
<1>2. CASE DispatchGraph(q)
  <2>1. k \in Node /\ \A d \in DependsOn[k] : Satisfied(q, d)
    BY <1>2 DEF DispatchGraph, TypeOK
  <2>2. \A d \in DependsOn[k] : d \in Node
    BY <2>1, PlaneAssumption
  <2>3. \A d \in DependsOn[k] : \E u \in DispatchedTo(view[q], d) : Logged(view[q], GateEntry(u, TRUE))
    BY <2>1, <2>2, SatisfiedMeansPassed
  <2>. QED
    BY <1>1, <2>1, <2>3 DEF DependenciesPassed, DispatchedTo, ViewsLogged
<1>3. CASE pc[q] = "wave" /\ todo'[q] \subseteq todo[q]
  BY <1>1, <1>3 DEF WavesReady, DependenciesPassed, DispatchedTo
<1>. QED
  BY <1>2, <1>3, WaveSteps

LEMMA DependenciesStep ==
  TypeOK /\ WavesReady /\ DependenciesGatedFirst /\ [Next]_vars => DependenciesGatedFirst'
<1> SUFFICES ASSUME TypeOK, WavesReady, DependenciesGatedFirst, [Next]_vars
             PROVE  DependenciesGatedFirst'
  OBVIOUS
<1>1. CASE log' = log
  BY <1>1 DEF DependenciesGatedFirst, Before
<1>2. ASSUME NEW p \in Process, NEW e \in Entry, AppendEntry(p, e), Allowed(p, e)
      PROVE  DependenciesGatedFirst'
  <2>1. log' = Append(log, e) /\ log \in Seq(Entry)
    BY <1>2 DEF AppendEntry, TypeOK
  <2> SUFFICES ASSUME NEW i \in DOMAIN log', NEW t \in Task, NEW k \in Node,
                      log'[i] = DispatchEntry(t, k)
               PROVE  DependenciesPassed(SubSeq(log', 1, i - 1), k)
    BY DEF DependenciesGatedFirst, Before, DependenciesPassed
  <2>2. CASE i \in DOMAIN log
    <3>1. log[i] = DispatchEntry(t, k) /\ SubSeq(log', 1, i - 1) = Before(i)
      BY <2>1, <2>2, AppendFacts DEF Before
    <3>. QED
      BY <2>2, <3>1 DEF DependenciesGatedFirst, DependenciesPassed
  <2>3. CASE i = Len(log) + 1
    <3>1. e = DispatchEntry(t, k) /\ SubSeq(log', 1, i - 1) = log
      BY <2>1, <2>3, AppendFacts
    <3>. QED
      BY <1>2, <3>1 DEF Allowed, WavesReady
  <2>. QED
    BY <2>1, <2>2, <2>3, AppendFacts
<1>. QED
  BY <1>1, <1>2, StepKinds

\* dispatch_graph: whatever the processes have missed, a dispatch follows a
\* passing gate of each node it depends on.
THEOREM DependenciesFirst == Spec => []DependenciesGatedFirst
<1>1. Init => ViewsLogged /\ WavesReady /\ DependenciesGatedFirst
  BY DEF Init, ViewsLogged, Logged, WavesReady, DependenciesGatedFirst
<1>. QED
  BY <1>1, TypeInvariant, ViewsStep, WavesStep, DependenciesStep, PTL DEF Spec, TypeInv

-----------------------------------------------------------------------------
(* Pauses and owners, as long as no process appends what it has missed.    *)

\* An append by a process that has missed entries shows in the history
LEMMA NothingMissed ==
  ASSUME NEW p \in Process, NEW e, AppendEntry(p, e), ~behind'
  PROVE  ~behind /\ view[p] = log
BY DEF AppendEntry

LEMMA PauseStep ==
  TypeOK /\ NoDispatchWhilePaused /\ [Next]_vars => NoDispatchWhilePaused'
<1> SUFFICES ASSUME TypeOK, NoDispatchWhilePaused, [Next]_vars, ~behind'
             PROVE  NoDispatchWhilePaused'
  BY DEF NoDispatchWhilePaused
<1>1. CASE log' = log /\ behind' = behind
  BY <1>1 DEF NoDispatchWhilePaused, Before
<1>2. ASSUME NEW p \in Process, NEW e \in Entry, AppendEntry(p, e), Allowed(p, e)
      PROVE  NoDispatchWhilePaused'
  <2>1. log' = Append(log, e) /\ log \in Seq(Entry) /\ ~behind /\ view[p] = log
    BY <1>2, NothingMissed DEF AppendEntry, TypeOK
  <2> SUFFICES ASSUME NEW i \in DOMAIN log', NEW t \in Task, NEW k \in Node,
                      log'[i] = DispatchEntry(t, k)
               PROVE  TeamOf[k] \notin PausedTeams(SubSeq(log', 1, i - 1))
    BY DEF NoDispatchWhilePaused, Before
  <2>2. CASE i \in DOMAIN log
    <3>1. log[i] = DispatchEntry(t, k) /\ SubSeq(log', 1, i - 1) = Before(i)
      BY <2>1, <2>2, AppendFacts DEF Before
    <3>. QED
      BY <2>1, <2>2, <3>1 DEF NoDispatchWhilePaused
  <2>3. CASE i = Len(log) + 1
    <3>1. e = DispatchEntry(t, k) /\ SubSeq(log', 1, i - 1) = log
      BY <2>1, <2>3, AppendFacts
    <3>. QED
      BY <1>2, <2>1, <3>1 DEF Allowed, Accepts
  <2>. QED
    BY <2>1, <2>2, <2>3, AppendFacts
<1>. QED
  BY <1>1, <1>2, StepKinds

\* pause_team: a pause holds across processes and crashes, unless some process
\* had missed entries.
THEOREM PausesHold == Spec => []NoDispatchWhilePaused
<1>1. Init => NoDispatchWhilePaused
  BY DEF Init, NoDispatchWhilePaused
<1>. QED
  BY <1>1, TypeInvariant, PauseStep, PTL DEF Spec, TypeInv

\* Nothing in the log is reclaimed, and no task is dispatched twice
LogInv ==
  /\ \A i \in DOMAIN log : \A t \in Task : log[i] # ReclaimEntry(t)
  /\ \A i, j \in DOMAIN log : \A t \in Task, k, n \in Node :
       log[i] = DispatchEntry(t, k) /\ log[j] = DispatchEntry(t, n) => i = j

LEMMA LogInvStep == TypeOK /\ LogInv /\ [Next]_vars => LogInv'
<1> SUFFICES ASSUME TypeOK, LogInv, [Next]_vars PROVE LogInv'
  OBVIOUS
<1>1. CASE log' = log
  BY <1>1 DEF LogInv
<1>2. ASSUME NEW p \in Process, NEW e \in Entry, AppendEntry(p, e), Allowed(p, e)
      PROVE  LogInv'
  <2>1. log' = Append(log, e) /\ log \in Seq(Entry)
    BY <1>2 DEF AppendEntry, TypeOK
  <2>2. \A t \in Task, k, n \in Node : e = DispatchEntry(t, k) =>
          \A i \in DOMAIN log : log[i] # DispatchEntry(t, n)
    BY <1>2 DEF Allowed, Fresh, Dispatched, DispatchedTo, Logged
  <2>3. \A t \in Task : e # ReclaimEntry(t)
    BY <1>2 DEF Allowed
  <2>4. /\ DOMAIN log' = DOMAIN log \cup {Len(log) + 1} /\ log'[Len(log) + 1] = e
        /\ \A i \in DOMAIN log : log'[i] = log[i]
    BY <2>1, AppendFacts
  <2>. QED
    BY <2>2, <2>3, <2>4 DEF LogInv
<1>. QED
  BY <1>1, <1>2, StepKinds

\* A node with one claim has an owner after a replay
LEMMA ClaimIsOwner ==
  ASSUME TypeOK, LogInv, OneOwner, NEW k \in Node, RestoredOwner(log, k) = None
  PROVE  Claims(log, k) = {}
<1> SUFFICES ASSUME NEW t \in Claims(log, k) PROVE FALSE
  OBVIOUS
<1>1. t \in Task /\ t \notin Reclaimed(log) /\ Logged(log, DispatchEntry(t, k))
  BY DEF Claims, DispatchedTo
<1>2. PICK i \in DOMAIN log : log[i] = DispatchEntry(t, k)
  BY <1>1 DEF Logged
<1>3. ASSUME NEW j \in DOMAIN log, NEW u \in Task, log[j] = DispatchEntry(u, k),
             u \notin Reclaimed(log)
      PROVE  j = i
  <2>1. u \in Claims(log, k)
    BY <1>3 DEF Claims, DispatchedTo, Logged
  <2>2. u = t
    BY <2>1 DEF OneOwner
  <2>. QED
    BY <1>1, <1>2, <1>3, <2>2 DEF LogInv
<1>4. DOMAIN log \subseteq Nat
  BY DEF TypeOK
<1>5. \A j \in DOMAIN log : \A u \in Task :
        j > i /\ log[j] = DispatchEntry(u, k) => u \in Reclaimed(log)
  BY <1>3, <1>4
<1>6. LastClaim(log, k, t)
  BY <1>1, <1>2, <1>5 DEF LastClaim
<1>. QED
  BY <1>1, <1>6, PlaneAssumption DEF RestoredOwner

LEMMA OwnerStep ==
  TypeOK /\ LogInv /\ OneOwnerUnlessBehind /\ [Next]_vars => OneOwnerUnlessBehind'
<1> SUFFICES ASSUME TypeOK, LogInv, OneOwnerUnlessBehind, [Next]_vars, ~behind'
             PROVE  OneOwner'
  BY DEF OneOwnerUnlessBehind
<1>1. CASE log' = log /\ behind' = behind
  BY <1>1 DEF OneOwnerUnlessBehind, OneOwner
<1>2. ASSUME NEW p \in Process, NEW e \in Entry, AppendEntry(p, e), Allowed(p, e)
      PROVE  OneOwner'
  <2>1. log' = Append(log, e) /\ log \in Seq(Entry) /\ ~behind /\ view[p] = log
    BY <1>2, NothingMissed DEF AppendEntry, TypeOK
  <2>2. OneOwner
    BY <2>1 DEF OneOwnerUnlessBehind
  <2>3. \A k \in Node, t \in Task : Logged(log', DispatchEntry(t, k))
          => Logged(log, DispatchEntry(t, k)) \/ e = DispatchEntry(t, k)
    BY <2>1, AppendLogged
  <2>4. \A t \in Task : t \in Reclaimed(log) => t \in Reclaimed(log')
    BY <2>1, AppendLogged DEF Reclaimed
  <2>5. ASSUME NEW k \in Node, NEW t \in Claims(log', k)
        PROVE  t \in Claims(log, k) \/ (t \in Task /\ e = DispatchEntry(t, k))
    BY <2>3, <2>4, <2>5 DEF Claims, DispatchedTo
  <2>6. \A k \in Node, t \in Task : e = DispatchEntry(t, k) => Claims(log, k) = {}
    BY <1>2, <2>1, <2>2, ClaimIsOwner DEF Allowed, Owned
  <2>. QED
    BY <2>2, <2>5, <2>6, KindsDiffer DEF OneOwner
<1>. QED
  BY <1>1, <1>2, StepKinds

\* dispatch, "so the same node cannot be dispatched to two owners": true of any
\* number of processes until one appends after entries it has not replayed.
THEOREM OneOwnerAtATime == Spec => []OneOwnerUnlessBehind
<1>1. Init => LogInv /\ OneOwnerUnlessBehind
  BY DEF Init, LogInv, OneOwnerUnlessBehind, OneOwner, Claims, DispatchedTo, Logged
<1>. QED
  BY <1>1, TypeInvariant, LogInvStep, OwnerStep, PTL DEF Spec, TypeInv

-----------------------------------------------------------------------------
(* The mirror check of a cold start.                                       *)

CheckedStands ==
  \A p \in Process :
    /\ checked[p] <= Len(mirror) /\ checked[p] <= Len(log)
    /\ \A i \in 1..checked[p] : mirror[i] = log[i]

LEMMA SinkSteps ==
  ASSUME TypeOK, [Next]_vars
  PROVE  /\ log' = log \/ \E e \in Entry : log' = Append(log, e)
         /\ mirror' = mirror \/ \E e \in Entry : mirror' = Append(mirror, e)
         /\ \A q \in Process :
              \/ checked'[q] \in {checked[q], 0}
              \/ checked'[q] = Len(log) /\ mirror = log /\ UNCHANGED sinks
<1>1. log' = log \/ \E e \in Entry : log' = Append(log, e)
  BY StepKinds DEF AppendEntry
<1>2. ASSUME NEW p \in Process, Forgets(p)
      PROVE  mirror' = mirror /\ \A q \in Process : checked'[q] \in {checked[q], 0}
  BY <1>2 DEF Forgets, sinks, TypeOK
<1>3. ASSUME NEW p \in Process, NEW e, AppendEntry(p, e)
      PROVE  mirror' = mirror
  BY <1>3 DEF AppendEntry
<1>4. ASSUME NEW p \in Process, WriteMirror(p)
      PROVE  checked' = checked /\ \E e \in Entry : mirror' = Append(mirror, e)
  BY <1>4 DEF WriteMirror, TypeOK
<1>5. ASSUME NEW p \in Process, CheckAndReconcile(p)
      PROVE  /\ mirror' = mirror
             /\ \A q \in Process :
                  \/ checked'[q] \in {checked[q], 0}
                  \/ checked'[q] = Len(log) /\ mirror = log /\ UNCHANGED sinks
  <2>1. CASE Forgets(p)
    BY <2>1, <1>2
  <2>2. CASE NoAppend /\ mirror = log /\ checked' = [checked EXCEPT ![p] = Len(log)]
    BY <2>2 DEF NoAppend, sinks, TypeOK
  <2>. QED
    BY <1>5, <2>1, <2>2 DEF CheckAndReconcile, SinksAgree
<1>6. ASSUME NEW p \in Process,
             Start(p) \/ OpenForDispatch(p) \/ DispatchGraph(p) \/ WaveEnd(p) \/ Exit(p) \/ Crash(p)
      PROVE  mirror' = mirror /\ \A q \in Process : checked'[q] \in {checked[q], 0}
  BY <1>6, <1>2, <1>3
  DEF Start, OpenForDispatch, DispatchGraph, WaveEnd, Exit, Crash, NoAppend, sinks
<1>7. ASSUME NEW p \in Process, NEW m \in Team, PauseAgain(p, m)
      PROVE  mirror' = mirror /\ \A q \in Process : checked'[q] \in {checked[q], 0}
  BY <1>7, <1>2, <1>3 DEF PauseAgain
<1>8. ASSUME NEW p \in Process, NEW m, NEW e, SetPause(p, e, m)
      PROVE  mirror' = mirror /\ \A q \in Process : checked'[q] \in {checked[q], 0}
  BY <1>8, <1>3 DEF SetPause
<1>9. ASSUME NEW p \in Process, NEW k \in Node, WaveStep(p, k) \/ WaveRaises(p, k)
      PROVE  mirror' = mirror /\ \A q \in Process : checked'[q] \in {checked[q], 0}
  BY <1>9, <1>2, <1>3 DEF WaveStep, WaveRaises, NoAppend, sinks
<1>10. ASSUME NEW p \in Process, NEW t, NEW b, AcceptGate(p, t, b)
      PROVE  mirror' = mirror /\ \A q \in Process : checked'[q] \in {checked[q], 0}
  BY <1>10, <1>3 DEF AcceptGate
<1>11. ASSUME NEW m, EditManifest(m) PROVE mirror' = mirror /\ checked' = checked
  BY <1>11 DEF EditManifest, sinks
<1>12. CASE UNCHANGED vars
  BY <1>12 DEF vars, sinks
<1>. QED
  BY <1>1, <1>4, <1>5, <1>6, <1>7, <1>8, <1>9, <1>10, <1>11, <1>12 DEF Next

LEMMA CheckedStep == TypeOK /\ CheckedStands /\ [Next]_vars => CheckedStands'
<1> SUFFICES ASSUME TypeOK, CheckedStands, [Next]_vars, NEW q \in Process
             PROVE  /\ checked'[q] <= Len(mirror') /\ checked'[q] <= Len(log')
                    /\ \A i \in 1..checked'[q] : mirror'[i] = log'[i]
  BY DEF CheckedStands
<1>1. /\ Len(log) \in Nat /\ Len(mirror) \in Nat /\ checked[q] \in Nat
      /\ DOMAIN log = 1..Len(log) /\ DOMAIN mirror = 1..Len(mirror)
  BY DEF TypeOK
<1>2. Len(log') \in Nat /\ Len(log') >= Len(log) /\ \A i \in 1..Len(log) : log'[i] = log[i]
  BY <1>1, SinkSteps, AppendFacts DEF TypeOK
<1>3. Len(mirror') \in Nat /\ Len(mirror') >= Len(mirror)
      /\ \A i \in 1..Len(mirror) : mirror'[i] = mirror[i]
  <2>1. ASSUME NEW e \in Entry, mirror' = Append(mirror, e)
        PROVE  Len(mirror') = Len(mirror) + 1 /\ \A i \in 1..Len(mirror) : mirror'[i] = mirror[i]
    BY <1>1, <2>1, AppendFacts DEF TypeOK
  <2>2. mirror' = mirror \/ \E e \in Entry : mirror' = Append(mirror, e)
    BY SinkSteps
  <2>. QED
    BY <1>1, <2>1, <2>2
<1>4. CASE checked'[q] \in {checked[q], 0}
  <2>1. checked[q] <= Len(mirror) /\ checked[q] <= Len(log)
        /\ \A i \in 1..checked[q] : mirror[i] = log[i]
    BY DEF CheckedStands
  <2>. QED
    BY <1>1, <1>2, <1>3, <1>4, <2>1
<1>5. CASE checked'[q] = Len(log) /\ mirror = log /\ UNCHANGED sinks
  BY <1>1, <1>5 DEF sinks
<1>. QED
  BY <1>4, <1>5, SinkSteps

\* cold_start: what an open process has checked is on both sinks and stays
\* there, whatever crashes between them.
THEOREM OpenedOverBothSinks == Spec => []OpenedOnBothSinks
<1>1. Init => CheckedStands
  BY DEF Init, CheckedStands
<1>2. TypeOK /\ CheckedStands => OpenedOnBothSinks
  <2> SUFFICES ASSUME TypeOK, CheckedStands, NEW p \in Process
               PROVE  /\ Len(mirror) >= checked[p]
                      /\ SubSeq(mirror, 1, checked[p]) = SubSeq(log, 1, checked[p])
    BY DEF OpenedOnBothSinks
  <2>1. /\ checked[p] \in Nat /\ Len(mirror) \in Nat /\ Len(log) \in Nat
        /\ log \in Seq(Entry) /\ mirror \in Seq(Entry)
        /\ checked[p] <= Len(mirror) /\ checked[p] <= Len(log)
        /\ \A i \in 1..checked[p] : mirror[i] = log[i]
    BY DEF TypeOK, CheckedStands
  <2>. QED
    BY <2>1
<1>. QED
  BY <1>1, <1>2, TypeInvariant, CheckedStep, PTL DEF Spec, TypeInv

-----------------------------------------------------------------------------
(* The topology of an open process.                                        *)

\* One more entry pauses at most the team it names
LEMMA AppendPaused ==
  ASSUME NEW l \in Seq(Entry), NEW e \in Entry, NEW m \in PausedTeams(Append(l, e))
  PROVE  m \in PausedTeams(l) \/ e = TeamEntry("team_paused", m)
<1> DEFINE a == TeamEntry("team_paused", m)
           r == TeamEntry("team_resumed", m)
           L == Append(l, e)
<1>1. m \in Team /\ LastIs(L, a, r)
  BY DEF PausedTeams
<1> HIDE DEF a, r
<1>2. PICK i \in DOMAIN L : L[i] = a /\ \A j \in DOMAIN L : j > i => L[j] # r
  BY <1>1 DEF LastIs
<1>3. CASE i \in DOMAIN l
  <2>1. l[i] = a /\ \A j \in DOMAIN l : j > i => l[j] # r
    BY <1>2, <1>3, AppendFacts
  <2>. QED
    BY <1>1, <1>3, <2>1 DEF PausedTeams, LastIs, a, r
<1>4. CASE i = Len(l) + 1
  BY <1>2, <1>4, AppendFacts DEF a
<1>. QED
  BY <1>3, <1>4, AppendFacts

\* A task that is open after an entry was open before, or was dispatched by it,
\* or had passed a gate
LEMMA AppendOpen ==
  ASSUME NEW l \in Seq(Entry), NEW e \in Entry, NEW t \in OpenTasks(Append(l, e))
  PROVE  /\ t \in Task
         /\ \/ t \in OpenTasks(l)
            \/ t \notin Dispatched(l) /\ \E k \in Node : e = DispatchEntry(t, k)
            \/ Logged(Append(l, e), GateEntry(t, TRUE))
<1>1. t \in Dispatched(Append(l, e)) /\ t \notin Reclaimed(Append(l, e))
  BY DEF OpenTasks
<1>2. t \in Task /\ t \notin Reclaimed(l)
  BY <1>1, AppendLogged DEF Dispatched, DispatchedTo, Reclaimed
<1>3. t \in Dispatched(l) \/ \E k \in Node : e = DispatchEntry(t, k)
  BY <1>1, AppendLogged DEF Dispatched, DispatchedTo
<1>4. t \in Passed(l) => Logged(Append(l, e), GateEntry(t, TRUE))
  <2>1. t \in Passed(l) => Logged(l, GateEntry(t, TRUE))
    BY DEF Passed, LastIs, Logged
  <2>. QED
    BY <2>1, AppendLogged
<1>. QED
  BY <1>2, <1>3, <1>4 DEF OpenTasks

\* Where a task was dispatched to does not change
LEMMA AppendNode ==
  ASSUME NEW l \in Seq(Entry), NEW e \in Entry, NEW t \in Dispatched(l),
         \A k \in Node : e # DispatchEntry(t, k)
  PROVE  RestoredNode(Append(l, e), t) = RestoredNode(l, t)
<1>1. \A k \in Node : t \in DispatchedTo(Append(l, e), k) <=> t \in DispatchedTo(l, k)
  BY AppendLogged DEF DispatchedTo
<1>2. t \in Dispatched(Append(l, e))
  BY <1>1 DEF Dispatched
<1>3. (CHOOSE k \in Node : t \in DispatchedTo(Append(l, e), k))
        = (CHOOSE k \in Node : t \in DispatchedTo(l, k))
  BY <1>1
<1>. QED
  BY <1>2, <1>3 DEF RestoredNode

LEMMA NewNode ==
  ASSUME NEW l \in Seq(Entry), NEW t \in Task, NEW k \in Node, t \notin Dispatched(l)
  PROVE  RestoredNode(Append(l, DispatchEntry(t, k)), t) = k
<1>1. \A n \in Node : t \in DispatchedTo(Append(l, DispatchEntry(t, k)), n) <=> n = k
  BY AppendLogged, EntryKinds, KindsDiffer DEF DispatchedTo, Dispatched
<1>. QED
  BY <1>1 DEF RestoredNode, Dispatched

\* Every task that is open in l is of a team in S, or had passed a gate
OpenFit(l, S) ==
  \A t \in OpenTasks(l) :
    TeamOf[RestoredNode(l, t)] \in S \/ Logged(l, GateEntry(t, TRUE))

LEMMA AppendFits ==
  ASSUME NEW l \in Seq(Entry), NEW e \in Entry, NEW S, OpenFit(l, S),
         \A t \in Task, k \in Node :
           e = DispatchEntry(t, k) => t \notin Dispatched(l) /\ TeamOf[k] \in S
  PROVE  OpenFit(Append(l, e), S)
<1> SUFFICES ASSUME NEW t \in OpenTasks(Append(l, e)), ~Logged(Append(l, e), GateEntry(t, TRUE))
             PROVE  TeamOf[RestoredNode(Append(l, e), t)] \in S
  BY DEF OpenFit
<1>1. CASE t \in OpenTasks(l)
  <2>1. TeamOf[RestoredNode(l, t)] \in S
    BY <1>1, AppendLogged DEF OpenFit
  <2>2. t \in Dispatched(l) /\ t \in Task
    BY <1>1 DEF OpenTasks, Dispatched, DispatchedTo
  <2>3. RestoredNode(Append(l, e), t) = RestoredNode(l, t)
    BY <2>2, AppendNode
  <2>. QED
    BY <2>1, <2>3
<1>2. ASSUME t \in Task, t \notin Dispatched(l), NEW k \in Node, e = DispatchEntry(t, k)
      PROVE  TeamOf[RestoredNode(Append(l, e), t)] \in S
  BY <1>2, NewNode
<1>. QED
  BY <1>1, <1>2, AppendOpen

\* Past reconciliation the open tasks fit the topology, and so do the paused
\* teams the boot loop is through with
FitsTopology(p) ==
  /\ pc[p] \in {"boot", "idle", "wave"} => OpenFit(view[p], teams[p])
  /\ pc[p] = "boot" => PausedTeams(view[p]) \subseteq teams[p] \cup todo[p]
  /\ pc[p] \in {"idle", "wave"} => PausedTeams(view[p]) \subseteq teams[p]

AllFit == \A p \in Process : FitsTopology(p)

\* An append by p that only pauses or dispatches to teams p knows
LEMMA AppendKeepsFit ==
  ASSUME TypeOK, ViewsLogged, NEW p \in Process, NEW e \in Entry, AppendEntry(p, e),
         OpenFit(view[p], teams[p]), UNCHANGED teams,
         \A m \in Team : e = TeamEntry("team_paused", m) => m \in teams[p],
         \A t \in Task, k \in Node : e = DispatchEntry(t, k) => Fresh(t) /\ TeamOf[k] \in teams[p]
  PROVE  /\ OpenFit(view'[p], teams'[p])
         /\ \A S : PausedTeams(view[p]) \subseteq teams[p] \cup S
                 => PausedTeams(view'[p]) \subseteq teams[p] \cup S
<1>1. view'[p] = Append(view[p], e) /\ view[p] \in Seq(Entry)
  BY DEF AppendEntry, TypeOK
<1>2. \A t \in Task : Fresh(t) => t \notin Dispatched(view[p])
  BY DEF Fresh, Dispatched, DispatchedTo, ViewsLogged
<1>3. OpenFit(view'[p], teams[p])
  BY <1>1, <1>2, AppendFits
<1>4. ASSUME NEW m \in PausedTeams(view'[p]) PROVE m \in PausedTeams(view[p]) \/ m \in teams[p]
  BY <1>1, <1>4, AppendPaused DEF PausedTeams
<1>. QED
  BY <1>3, <1>4

LEMMA ForgetsFits ==
  ASSUME TypeOK, NEW p \in Process, Forgets(p), \A q \in Process : FitsTopology(q)
  PROVE  \A q \in Process : FitsTopology(q)'
<1>1. pc'[p] = "off"
  BY DEF Forgets, Goes, TypeOK
<1>2. ASSUME NEW q \in Process, q # p
      PROVE pc'[q] = pc[q] /\ view'[q] = view[q] /\ teams'[q] = teams[q] /\ todo'[q] = todo[q]
  BY <1>2 DEF Forgets, Goes, TypeOK
<1>3. ASSUME NEW q \in Process PROVE FitsTopology(q)'
  <2>1. CASE q = p
    BY <1>1, <2>1 DEF FitsTopology
  <2>2. CASE q # p
    BY <1>2, <2>2 DEF FitsTopology, OpenFit
  <2>. QED
    BY <2>1, <2>2
<1>. QED
  BY <1>3

\* A step of p leaves the other processes alone
LEMMA OthersFit ==
  ASSUME NEW p \in Process, \A q \in Process : FitsTopology(q), FitsTopology(p)',
         \A q \in Process \ {p} : /\ pc'[q] = pc[q] /\ view'[q] = view[q]
                                  /\ teams'[q] = teams[q] /\ todo'[q] = todo[q]
  PROVE  \A q \in Process : FitsTopology(q)'
<1>1. ASSUME NEW q \in Process, q # p PROVE FitsTopology(q)'
  BY <1>1 DEF FitsTopology, OpenFit
<1>. QED
  BY <1>1

LEMMA FitsStep ==
  TypeOK /\ ViewsLogged /\ (\A q \in Process : FitsTopology(q)) /\ [Next]_vars
    => \A q \in Process : FitsTopology(q)'
<1> SUFFICES ASSUME TypeOK, ViewsLogged, \A q \in Process : FitsTopology(q), [Next]_vars
             PROVE  \A q \in Process : FitsTopology(q)'
  OBVIOUS
<1>1. ASSUME NEW p \in Process, WriteMirror(p) \/ Start(p) \/ DispatchGraph(p) \/ WaveEnd(p)
      PROVE  \A q \in Process : FitsTopology(q)'
  <2>1. \A q \in Process \ {p} : /\ pc'[q] = pc[q] /\ view'[q] = view[q]
                                 /\ teams'[q] = teams[q] /\ todo'[q] = todo[q]
    BY <1>1 DEF WriteMirror, Start, DispatchGraph, WaveEnd, NoAppend, Goes, TypeOK
  <2>2. CASE Start(p)
    <3>1. pc'[p] = "replayed"
      BY <2>2 DEF Start, Goes, TypeOK
    <3>. QED
      BY <2>1, <3>1, OthersFit DEF FitsTopology
  <2>3. CASE WriteMirror(p)
    <3>1. UNCHANGED <<pc, view, teams, todo>>
      BY <2>3 DEF WriteMirror
    <3>. QED
      BY <3>1 DEF FitsTopology, OpenFit
  <2>4. CASE DispatchGraph(p) \/ WaveEnd(p)
    <3>1. /\ pc'[p] \in {"idle", "wave"} /\ pc[p] \in {"idle", "wave"}
          /\ view'[p] = view[p] /\ teams'[p] = teams[p]
      BY <2>4 DEF DispatchGraph, WaveEnd, Free, NoAppend, Goes, TypeOK
    <3>2. FitsTopology(p)'
      BY <3>1 DEF FitsTopology, OpenFit
    <3>. QED
      BY <2>1, <3>2, OthersFit
  <2>. QED
    BY <1>1, <2>2, <2>3, <2>4
<1>2. ASSUME NEW p \in Process, CheckAndReconcile(p) PROVE \A q \in Process : FitsTopology(q)'
  <2>1. CASE Forgets(p)
    BY <2>1, ForgetsFits
  <2>2. CASE ~Forgets(p)
    <3>1. /\ Reconciled(p) /\ pc'[p] = "boot" /\ view'[p] = view[p] /\ teams'[p] = teams[p]
          /\ todo'[p] = PausedTeams(view[p])
      BY <1>2, <2>2 DEF CheckAndReconcile, Goes, NoAppend, TypeOK
    <3>2. \A q \in Process \ {p} : /\ pc'[q] = pc[q] /\ view'[q] = view[q]
                                   /\ teams'[q] = teams[q] /\ todo'[q] = todo[q]
      BY <1>2, <2>2 DEF CheckAndReconcile, Goes, NoAppend, TypeOK
    <3>3. OpenFit(view[p], teams[p])
      BY <3>1 DEF Reconciled, TeamsOf, OpenFit
    <3>4. FitsTopology(p)'
      BY <3>1, <3>3 DEF FitsTopology, OpenFit
    <3>. QED
      BY <3>2, <3>4, OthersFit
  <2>. QED
    BY <2>1, <2>2
<1>3. ASSUME NEW p \in Process, OpenForDispatch(p) PROVE \A q \in Process : FitsTopology(q)'
  <2>1. /\ AppendEntry(p, PlainEntry("cold_start")) /\ pc[p] = "boot" /\ todo[p] = {}
        /\ pc'[p] = "idle" /\ UNCHANGED teams
    BY <1>3 DEF OpenForDispatch, Goes, TypeOK
  <2>2. \A q \in Process \ {p} : /\ pc'[q] = pc[q] /\ view'[q] = view[q]
                                 /\ teams'[q] = teams[q] /\ todo'[q] = todo[q]
    BY <1>3 DEF OpenForDispatch, AppendEntry, Goes, TypeOK
  <2>3. /\ \A m : PlainEntry("cold_start") # TeamEntry("team_paused", m)
        /\ \A t, k : PlainEntry("cold_start") # DispatchEntry(t, k)
    BY DEF PlainEntry, TeamEntry, DispatchEntry
  <2>4. OpenFit(view[p], teams[p]) /\ PausedTeams(view[p]) \subseteq teams[p] \cup {}
    BY <2>1 DEF FitsTopology
  <2>5. OpenFit(view'[p], teams'[p]) /\ PausedTeams(view'[p]) \subseteq teams[p] \cup {}
    BY <2>1, <2>3, <2>4, EntryKinds, AppendKeepsFit
  <2>6. FitsTopology(p)'
    BY <2>1, <2>5 DEF FitsTopology
  <2>. QED
    BY <2>2, <2>6, OthersFit
<1>4. ASSUME NEW p \in Process, NEW m \in Team, PauseAgain(p, m)
      PROVE  \A q \in Process : FitsTopology(q)'
  <2>1. CASE m \notin teams[p]
    BY <1>4, <2>1, ForgetsFits DEF PauseAgain
  <2>2. CASE m \in teams[p]
    <3>1. /\ AppendEntry(p, TeamEntry("team_paused", m)) /\ pc[p] = "boot"
          /\ pc'[p] = "boot" /\ UNCHANGED teams /\ todo'[p] = todo[p] \ {m}
      BY <1>4, <2>2 DEF PauseAgain, TypeOK
    <3>2. \A q \in Process \ {p} : /\ pc'[q] = pc[q] /\ view'[q] = view[q]
                                   /\ teams'[q] = teams[q] /\ todo'[q] = todo[q]
      BY <1>4, <2>2 DEF PauseAgain, AppendEntry, TypeOK
    <3>3. /\ \A n : TeamEntry("team_paused", m) = TeamEntry("team_paused", n) => n = m
          /\ \A t, k : TeamEntry("team_paused", m) # DispatchEntry(t, k)
      BY DEF TeamEntry, DispatchEntry
    <3>4. OpenFit(view[p], teams[p]) /\ PausedTeams(view[p]) \subseteq teams[p] \cup todo[p]
      BY <3>1 DEF FitsTopology
    <3>5. OpenFit(view'[p], teams'[p]) /\ PausedTeams(view'[p]) \subseteq teams[p] \cup todo[p]
      BY <2>2, <3>1, <3>3, <3>4, EntryKinds, AppendKeepsFit
    <3>6. FitsTopology(p)'
      BY <2>2, <3>1, <3>5 DEF FitsTopology
    <3>. QED
      BY <3>2, <3>6, OthersFit
  <2>. QED
    BY <2>1, <2>2
<1>5. ASSUME NEW p \in Process, NEW e \in Entry, AppendEntry(p, e),
             pc[p] \in {"idle", "wave"}, UNCHANGED <<pc, teams>>,
             \A q \in Process \ {p} : todo'[q] = todo[q],
             \A m \in Team : e = TeamEntry("team_paused", m) => m \in teams[p],
             \A t \in Task, k \in Node :
               e = DispatchEntry(t, k) => Fresh(t) /\ TeamOf[k] \in teams[p]
      PROVE  \A q \in Process : FitsTopology(q)'
  <2>1. \A q \in Process \ {p} : /\ pc'[q] = pc[q] /\ view'[q] = view[q]
                                 /\ teams'[q] = teams[q] /\ todo'[q] = todo[q]
    BY <1>5 DEF AppendEntry, TypeOK
  <2>2. OpenFit(view[p], teams[p]) /\ PausedTeams(view[p]) \subseteq teams[p] \cup {}
    BY <1>5 DEF FitsTopology
  <2>3. OpenFit(view'[p], teams'[p]) /\ PausedTeams(view'[p]) \subseteq teams[p] \cup {}
    BY <1>5, <2>2, AppendKeepsFit
  <2>4. FitsTopology(p)'
    BY <1>5, <2>3 DEF FitsTopology
  <2>. QED
    BY <2>1, <2>4, OthersFit
<1>6. ASSUME NEW p \in Process, NEW m \in Team, NEW e \in {"team_paused", "team_resumed"},
             SetPause(p, e, m)
      PROVE  \A q \in Process : FitsTopology(q)'
  <2>1. /\ \A n : TeamEntry(e, m) = TeamEntry("team_paused", n) => n = m
        /\ \A t, k : TeamEntry(e, m) # DispatchEntry(t, k)
    BY DEF TeamEntry, DispatchEntry
  <2>. QED
    BY <1>5, <1>6, <2>1, EntryKinds DEF SetPause, Free
<1>7. ASSUME NEW p \in Process, NEW k \in Node, WaveStep(p, k)
      PROVE  \A q \in Process : FitsTopology(q)'
  <2>1. \A q \in Process \ {p} : todo'[q] = todo[q]
    BY <1>7 DEF WaveStep, TypeOK
  <2>2. CASE NoAppend
    <3>1. /\ UNCHANGED <<pc, view, teams>> /\ pc[p] = "wave"
      BY <1>7, <2>2 DEF WaveStep, NoAppend
    <3>. QED
      BY <2>1, <3>1 DEF FitsTopology, OpenFit
  <2>3. ASSUME NEW t \in Task, AppendEntry(p, DispatchEntry(t, k)), Fresh(t), Accepts(p, TeamOf[k])
        PROVE  \A q \in Process : FitsTopology(q)'
    <3>1. /\ \A n : DispatchEntry(t, k) # TeamEntry("team_paused", n)
          /\ TeamOf[k] \in teams[p]
      BY <2>3 DEF TeamEntry, DispatchEntry, Accepts
    <3>. QED
      BY <1>5, <1>7, <2>1, <2>3, <3>1, EntryKinds, KindsDiffer DEF WaveStep
  <2>. QED
    BY <1>7, <2>2, <2>3 DEF WaveStep
<1>8. ASSUME NEW p \in Process, NEW t \in Task, NEW b \in BOOLEAN, AcceptGate(p, t, b)
      PROVE  \A q \in Process : FitsTopology(q)'
  <2>1. \A n : GateEntry(t, b) # TeamEntry("team_paused", n)
    BY DEF GateEntry, TeamEntry
  <2>. QED
    BY <1>5, <1>8, <2>1, EntryKinds, KindsDiffer DEF AcceptGate, Free
<1>9. ASSUME NEW p \in Process,
             Exit(p) \/ Crash(p) \/ \E k \in Node : WaveRaises(p, k)
      PROVE  \A q \in Process : FitsTopology(q)'
  BY <1>9, ForgetsFits DEF Exit, Crash, WaveRaises
<1>10. CASE \E m \in Team : EditManifest(m)
  BY <1>10 DEF EditManifest, FitsTopology, OpenFit
<1>11. CASE UNCHANGED vars
  BY <1>11 DEF vars, FitsTopology, OpenFit
<1>. QED
  BY <1>1, <1>2, <1>3, <1>4, <1>6, <1>7, <1>8, <1>9, <1>10, <1>11 DEF Next

\* cold_start: the topology of an open process declares every team it will look
\* up, but for a task that had passed its gate and was reopened.
THEOREM OpenedTopologyFits == Spec => []OpenedFitsTopology
<1>1. Init => ViewsLogged /\ AllFit
  BY DEF Init, ViewsLogged, Logged, AllFit, FitsTopology
<1>2. TypeOK /\ ViewsLogged /\ AllFit /\ [Next]_vars => AllFit'
  BY FitsStep DEF AllFit
<1>3. AllFit => OpenedFitsTopology
  BY DEF AllFit, FitsTopology, OpenFit, OpenedFitsTopology, Open
<1>. QED
  BY <1>1, <1>2, <1>3, TypeInvariant, ViewsStep, PTL DEF Spec, TypeInv

-----------------------------------------------------------------------------
(* The register of owners that the processes share.                        *)

\* The nodes a process that replays the log finds done
DoneNodes ==
  {k \in Node : \E t \in Task :
     RestoredOwner(log, k) = t /\ RestoredState(log, t) = "gate_pass"}

GatedNodes ==
  {k \in Node : \E t \in DispatchedTo(log, k) : Logged(log, GateEntry(t, TRUE))}

Register == INSTANCE Register WITH
  owner <- [k \in Node |-> RestoredOwner(log, k)], done <- DoneNodes,
  granted <- [k \in Node |-> DispatchedTo(log, k)], withdrawn <- Reclaimed(log),
  frozen <- PausedTeams(log), passed <- Passed(log), gated <- GatedNodes,
  disputed <- behind

\* Until some process appends after entries it had missed, all of them together
\* look like one register of owners, whatever they replay, exit and crash.
RegisterShared == Register!Spec

\* A gate result is only ever logged for a task that is logged
GatesDispatched ==
  \A t \in Task, b \in BOOLEAN : Logged(log, GateEntry(t, b)) => t \in Dispatched(log)

LEMMA GatesStep == TypeOK /\ ViewsLogged /\ GatesDispatched /\ [Next]_vars => GatesDispatched'
<1> SUFFICES ASSUME TypeOK, ViewsLogged, GatesDispatched, [Next]_vars PROVE GatesDispatched'
  OBVIOUS
<1>1. CASE log' = log
  BY <1>1 DEF GatesDispatched
<1>2. ASSUME NEW p \in Process, NEW e \in Entry, AppendEntry(p, e), Allowed(p, e)
      PROVE  GatesDispatched'
  <2>1. \A f : Logged(log', f) <=> Logged(log, f) \/ f = e
    BY <1>2, AppendLogged DEF AppendEntry, TypeOK
  <2>2. \A t : t \in Dispatched(log) => t \in Dispatched(log')
    BY <2>1 DEF Dispatched, DispatchedTo
  <2>3. \A t : t \in Dispatched(view[p]) => t \in Dispatched(log)
    BY DEF Dispatched, DispatchedTo, ViewsLogged
  <2>. QED
    BY <1>2, <2>1, <2>2, <2>3 DEF GatesDispatched, Allowed
<1>. QED
  BY <1>1, <1>2, StepKinds

\* A later entry decides which of two was last
LEMMA AppendLast ==
  ASSUME NEW l \in Seq(Entry), NEW e \in Entry, NEW a, NEW b
  PROVE  LastIs(Append(l, e), a, b) <=> (e = a \/ (LastIs(l, a, b) /\ e # b))
<1> DEFINE L == Append(l, e)
           n == Len(l) + 1
<1>1. /\ DOMAIN L = DOMAIN l \cup {n} /\ n \notin DOMAIN l
      /\ \A i \in DOMAIN l : n > i /\ ~(i > n) /\ L[i] = l[i]
      /\ ~(n > n) /\ L[n] = e
  BY AppendFacts
<1> HIDE DEF L, n
<1>2. ASSUME e = a PROVE LastIs(L, a, b)
  BY <1>1, <1>2 DEF LastIs
<1>3. ASSUME LastIs(l, a, b), e # b PROVE LastIs(L, a, b)
  <2>1. PICK i \in DOMAIN l : l[i] = a /\ \A j \in DOMAIN l : j > i => l[j] # b
    BY <1>3 DEF LastIs
  <2>. QED
    BY <1>1, <1>3, <2>1 DEF LastIs
<1>4. ASSUME LastIs(L, a, b), e # a PROVE LastIs(l, a, b) /\ e # b
  <2>1. PICK i \in DOMAIN L : L[i] = a /\ \A j \in DOMAIN L : j > i => L[j] # b
    BY <1>4 DEF LastIs
  <2>2. i \in DOMAIN l /\ n \in DOMAIN L /\ n > i
    BY <1>1, <1>4, <2>1
  <2>3. e # b /\ l[i] = a /\ \A j \in DOMAIN l : j > i => l[j] # b
    BY <1>1, <2>1, <2>2
  <2>. QED
    BY <2>2, <2>3 DEF LastIs
<1>. QED
  BY <1>2, <1>3, <1>4 DEF L

\* With one claim on each node, a replay gives the node to it.
LEMMA OwnerIsClaim ==
  ASSUME TypeOK, LogInv, OneOwner, NEW k \in Node
  PROVE  /\ Reclaimed(log) = {}
         /\ RestoredOwner(log, k) \in Task \cup {None}
         /\ \A t \in Task : RestoredOwner(log, k) = t <=> t \in DispatchedTo(log, k)
<1>1. Reclaimed(log) = {}
  BY DEF LogInv, Reclaimed, Logged
<1>2. Claims(log, k) = DispatchedTo(log, k)
  BY <1>1 DEF Claims
<1>3. CASE RestoredOwner(log, k) = None
  BY <1>1, <1>2, <1>3, ClaimIsOwner, PlaneAssumption
<1>4. CASE RestoredOwner(log, k) # None
  <2>1. /\ RestoredOwner(log, k) \in Task
        /\ LastClaim(log, k, RestoredOwner(log, k))
    BY <1>4 DEF RestoredOwner
  <2>2. RestoredOwner(log, k) \in DispatchedTo(log, k)
    BY <2>1 DEF LastClaim, DispatchedTo, Logged
  <2>. QED
    BY <1>1, <1>2, <2>1, <2>2 DEF OneOwner
<1>. QED
  BY <1>3, <1>4

\* What is done is what an owner that stands passed has.
LEMMA DoneIsPassed ==
  ASSUME TypeOK, LogInv, OneOwner
  PROVE  DoneNodes = {k \in Node : RestoredOwner(log, k) \in Passed(log)}
<1> SUFFICES ASSUME NEW k \in Node
             PROVE  (\E t \in Task : RestoredOwner(log, k) = t /\ RestoredState(log, t) = "gate_pass")
                      <=> RestoredOwner(log, k) \in Passed(log)
  BY DEF DoneNodes
<1>1. ASSUME NEW t \in Task, RestoredOwner(log, k) = t
      PROVE  RestoredState(log, t) = "gate_pass" <=> t \in Passed(log)
  <2>1. t \in Dispatched(log) /\ Reclaimed(log) = {}
    BY <1>1, OwnerIsClaim DEF Dispatched
  <2>. QED
    BY <2>1 DEF RestoredState
<1>2. \A t \in Passed(log) : t \in Task
  BY DEF Passed
<1>. QED
  BY <1>1, <1>2

\* The owners and the finished nodes as the log gives them
OwnersFollow ==
  ~behind =>
    /\ Reclaimed(log) = {}
    /\ \A k \in Node :
         /\ RestoredOwner(log, k) \in Task \cup {None}
         /\ \A t \in Task : RestoredOwner(log, k) = t <=> t \in DispatchedTo(log, k)

DoneFollows == ~behind => DoneNodes = {k \in Node : RestoredOwner(log, k) \in Passed(log)}

SharedInv ==
  /\ TypeOK /\ LogInv /\ GatesDispatched
  /\ OwnersFollow /\ DoneFollows /\ DependenciesGatedFirst

LEMMA SharedInvHolds == Spec => []SharedInv
<1>1. Init => ViewsLogged /\ GatesDispatched /\ LogInv
  BY DEF Init, ViewsLogged, Logged, LogInv, GatesDispatched
<1>2. TypeOK /\ LogInv /\ OneOwnerUnlessBehind => OwnersFollow /\ DoneFollows
  <2> SUFFICES ASSUME TypeOK, LogInv, OneOwnerUnlessBehind, ~behind
               PROVE  OwnersFollow /\ DoneFollows
    BY DEF OwnersFollow, DoneFollows
  <2>1. OneOwner
    BY DEF OneOwnerUnlessBehind
  <2>2. Reclaimed(log) = {}
    BY DEF LogInv, Reclaimed, Logged
  <2>3. ASSUME NEW k \in Node
        PROVE  /\ RestoredOwner(log, k) \in Task \cup {None}
               /\ \A t \in Task : RestoredOwner(log, k) = t <=> t \in DispatchedTo(log, k)
    BY <2>1, OwnerIsClaim
  <2>4. DoneNodes = {k \in Node : RestoredOwner(log, k) \in Passed(log)}
    BY <2>1, DoneIsPassed
  <2>. QED
    BY <2>2, <2>3, <2>4 DEF OwnersFollow, DoneFollows
<1>. QED
  BY <1>1, <1>2, TypeInvariant, ViewsStep, LogInvStep, GatesStep, OneOwnerAtATime,
     DependenciesFirst, PTL DEF Spec, TypeInv, SharedInv

\* What one more entry does to the register.
LEMMA SharedAfter ==
  ASSUME SharedInv, NEW e \in Entry, log' = Append(log, e)
  PROVE  /\ \A k : DispatchedTo(log', k) = DispatchedTo(log, k) \cup {t \in Task : e = DispatchEntry(t, k)}
         /\ \A t \in Task : t \in Passed(log') <=>
              (e = GateEntry(t, TRUE) \/ (t \in Passed(log) /\ e # GateEntry(t, FALSE)))
         /\ \A m \in Team : m \in PausedTeams(log') <=>
              \/ e = TeamEntry("team_paused", m)
              \/ (m \in PausedTeams(log) /\ e # TeamEntry("team_resumed", m))
         /\ \A t \in Task : Logged(log', GateEntry(t, TRUE)) <=>
              Logged(log, GateEntry(t, TRUE)) \/ e = GateEntry(t, TRUE)
<1>1. log \in Seq(Entry)
  BY DEF SharedInv, TypeOK
<1>2. \A f : Logged(log', f) <=> Logged(log, f) \/ f = e
  BY <1>1, AppendLogged
<1>3. \A k : DispatchedTo(log', k) = DispatchedTo(log, k) \cup {t \in Task : e = DispatchEntry(t, k)}
  BY <1>2 DEF DispatchedTo
<1>4. \A t \in Task : t \in Passed(log') <=>
        (e = GateEntry(t, TRUE) \/ (t \in Passed(log) /\ e # GateEntry(t, FALSE)))
  BY <1>1, AppendLast DEF Passed
<1>5. \A m \in Team : m \in PausedTeams(log') <=>
        \/ e = TeamEntry("team_paused", m)
        \/ (m \in PausedTeams(log) /\ e # TeamEntry("team_resumed", m))
  BY <1>1, AppendLast DEF PausedTeams
<1>. QED
  BY <1>2, <1>3, <1>4, <1>5

\* The owner of a node changes only with its dispatches.
LEMMA SameOwners ==
  ASSUME SharedInv, SharedInv', ~behind, ~behind',
         \A k \in Node : DispatchedTo(log', k) = DispatchedTo(log, k)
  PROVE  /\ \A k \in Node : RestoredOwner(log', k) = RestoredOwner(log, k)
         /\ Reclaimed(log) = {} /\ Reclaimed(log') = {}
<1> SUFFICES ASSUME NEW k \in Node PROVE RestoredOwner(log', k) = RestoredOwner(log, k)
  BY DEF SharedInv, OwnersFollow
<1>1. /\ RestoredOwner(log, k) \in Task \cup {None} /\ RestoredOwner(log', k) \in Task \cup {None}
      /\ \A t \in Task : RestoredOwner(log, k) = t <=> RestoredOwner(log', k) = t
  BY DEF SharedInv, OwnersFollow
<1>. QED
  BY <1>1

\* A dispatch by a process that missed nothing is a grant.
LEMMA SharedGrant ==
  ASSUME SharedInv, SharedInv', ~behind, ~behind', NEW p \in Process,
         NEW t \in Task, NEW k \in Node,
         AppendEntry(p, DispatchEntry(t, k)), Allowed(p, DispatchEntry(t, k))
  PROVE  Register!Grant(k, t)
<1> DEFINE e == DispatchEntry(t, k)
<1>1. /\ log' = Append(log, e) /\ e \in Entry /\ view[p] = log /\ log \in Seq(Entry)
      /\ None \notin Task
  BY EntryKinds, PlaneAssumption DEF AppendEntry, SharedInv, TypeOK
<1>2. Fresh(t) /\ ~Owned(p, k) /\ Accepts(p, TeamOf[k])
  BY DEF Allowed
<1>3. /\ \A j : DispatchedTo(log', j) = DispatchedTo(log, j) \cup {u \in Task : e = DispatchEntry(u, j)}
      /\ \A u \in Task : u \in Passed(log') <=>
           (e = GateEntry(u, TRUE) \/ (u \in Passed(log) /\ e # GateEntry(u, FALSE)))
      /\ \A m \in Team : m \in PausedTeams(log') <=>
           \/ e = TeamEntry("team_paused", m)
           \/ (m \in PausedTeams(log) /\ e # TeamEntry("team_resumed", m))
      /\ \A u \in Task : Logged(log', GateEntry(u, TRUE)) <=>
           Logged(log, GateEntry(u, TRUE)) \/ e = GateEntry(u, TRUE)
  BY <1>1, SharedAfter
<1>4. /\ \A u, b : e # GateEntry(u, b)
      /\ \A f, m : e # TeamEntry(f, m)
      /\ \A u, j : e = DispatchEntry(u, j) <=> u = t /\ j = k
  BY KindsDiffer
<1>5. PICK n \in DOMAIN log' : log'[n] = e /\ Before(n)' = log
  <2>1. PICK n : n = Len(log) + 1
    OBVIOUS
  <2>2. n - 1 = Len(log) /\ Before(n)' = SubSeq(Append(log, e), 1, n - 1)
    BY <1>1, <2>1 DEF Before
  <2>. QED
    BY <1>1, <2>1, <2>2, AppendFacts
<1> HIDE DEF e
<1>6. /\ DispatchedTo(log', k) = DispatchedTo(log, k) \cup {t}
      /\ \A j \in Node \ {k} : DispatchedTo(log', j) = DispatchedTo(log, j)
  BY <1>3, <1>4
<1>7. Passed(log') = Passed(log)
  BY <1>3, <1>4 DEF Passed
<1>8. PausedTeams(log') = PausedTeams(log)
  BY <1>3, <1>4 DEF PausedTeams
<1>9. \A j \in Node : t \notin DispatchedTo(log, j)
  BY <1>2 DEF Fresh, Dispatched
<1>10. RestoredOwner(log, k) = None /\ RestoredOwner(log', k) = t
  BY <1>1, <1>2, <1>6 DEF Owned, SharedInv, OwnersFollow
<1>11. Reclaimed(log) = {} /\ Reclaimed(log') = {}
  BY DEF SharedInv, OwnersFollow
<1>12. ASSUME NEW j \in Node \ {k} PROVE RestoredOwner(log', j) = RestoredOwner(log, j)
  <2>1. /\ RestoredOwner(log, j) \in Task \cup {None} /\ RestoredOwner(log', j) \in Task \cup {None}
        /\ \A u \in Task : RestoredOwner(log, j) = u <=> RestoredOwner(log', j) = u
    BY <1>6 DEF SharedInv, OwnersFollow
  <2>. QED
    BY <2>1
<1>13. TeamOf[k] \notin PausedTeams(log)
  BY <1>1, <1>2 DEF Accepts
<1>14. DependsOn[k] \subseteq GatedNodes
  <2>1. log'[n] = DispatchEntry(t, k)
    BY <1>5 DEF e
  <2>2. \A d \in DependsOn[k] : \E u \in DispatchedTo(log, d) : Logged(log, GateEntry(u, TRUE))
    BY <1>5, <2>1 DEF SharedInv, DependenciesGatedFirst
  <2>. QED
    BY <2>2, PlaneAssumption DEF GatedNodes
\* no gate result was logged for the task before its dispatch
<1>15. GatedNodes' = GatedNodes
  <2>1. ~Logged(log, GateEntry(t, TRUE))
    BY <1>2 DEF SharedInv, GatesDispatched, Fresh
  <2>2. \A j \in Node : \A u : u \in DispatchedTo(log', j) <=>
          u \in DispatchedTo(log, j) \/ (j = k /\ u = t)
    BY <1>6
  <2>3. \A u \in Task : Logged(log', GateEntry(u, TRUE)) <=> Logged(log, GateEntry(u, TRUE))
    BY <1>3, <1>4
  <2>. QED
    BY <2>1, <2>2, <2>3 DEF GatedNodes, DispatchedTo
<1>16. [j \in Node |-> DispatchedTo(log', j)]
         = [[j \in Node |-> DispatchedTo(log, j)] EXCEPT ![k] = @ \cup {t}]
  BY <1>6
<1>17. [j \in Node |-> RestoredOwner(log', j)]
         = [[j \in Node |-> RestoredOwner(log, j)] EXCEPT ![k] = t]
  BY <1>10, <1>12
<1>. QED
  BY <1>7, <1>8, <1>9, <1>10, <1>11, <1>13, <1>14, <1>15, <1>16, <1>17
  DEF Register!Grant, Register!gates

\* A gate result by a process that missed nothing is one in the register.
LEMMA SharedGate ==
  ASSUME SharedInv, SharedInv', ~behind, ~behind', NEW p \in Process,
         NEW t \in Task, NEW b \in BOOLEAN,
         AppendEntry(p, GateEntry(t, b)), Allowed(p, GateEntry(t, b))
  PROVE  \E k \in Node : Register!Pass(k, t) \/ Register!Fail(k, t)
<1> DEFINE e == GateEntry(t, b)
<1>1. log' = Append(log, e) /\ e \in Entry /\ view[p] = log
  BY EntryKinds DEF AppendEntry
<1>2. t \in Dispatched(log)
  BY <1>1 DEF Allowed
<1>3. PICK k \in Node : t \in DispatchedTo(log, k)
  BY <1>2 DEF Dispatched
<1>4. /\ \A j : DispatchedTo(log', j) = DispatchedTo(log, j) \cup {u \in Task : e = DispatchEntry(u, j)}
      /\ \A u \in Task : u \in Passed(log') <=>
           (e = GateEntry(u, TRUE) \/ (u \in Passed(log) /\ e # GateEntry(u, FALSE)))
      /\ \A m \in Team : m \in PausedTeams(log') <=>
           \/ e = TeamEntry("team_paused", m)
           \/ (m \in PausedTeams(log) /\ e # TeamEntry("team_resumed", m))
      /\ \A u \in Task : Logged(log', GateEntry(u, TRUE)) <=>
           Logged(log, GateEntry(u, TRUE)) \/ e = GateEntry(u, TRUE)
  BY <1>1, SharedAfter
<1>5. /\ \A u, j : e # DispatchEntry(u, j)
      /\ \A f, m : e # TeamEntry(f, m)
      /\ \A u, c : e = GateEntry(u, c) <=> u = t /\ c = b
  BY KindsDiffer
<1> HIDE DEF e
<1>6. \A j \in Node : DispatchedTo(log', j) = DispatchedTo(log, j)
  BY <1>4, <1>5
<1>7. PausedTeams(log') = PausedTeams(log)
  BY <1>4, <1>5 DEF PausedTeams
<1>8. /\ \A j \in Node : RestoredOwner(log', j) = RestoredOwner(log, j)
      /\ Reclaimed(log) = {} /\ Reclaimed(log') = {}
  BY <1>6, SameOwners
<1>9. /\ [j \in Node |-> DispatchedTo(log', j)] = [j \in Node |-> DispatchedTo(log, j)]
      /\ [j \in Node |-> RestoredOwner(log', j)] = [j \in Node |-> RestoredOwner(log, j)]
  BY <1>6, <1>8
<1>10. CASE b = TRUE
  <2>1. Passed(log') = Passed(log) \cup {t}
    BY <1>4, <1>5, <1>10 DEF Passed
  <2>2. \A j \in Node : t \in DispatchedTo(log, j) => j = k
    <3> SUFFICES ASSUME NEW j \in Node, t \in DispatchedTo(log, j) PROVE j = k
      OBVIOUS
    <3>1. PICK i \in DOMAIN log : log[i] = DispatchEntry(t, j)
      BY DEF DispatchedTo, Logged
    <3>2. PICK h \in DOMAIN log : log[h] = DispatchEntry(t, k)
      BY <1>3 DEF DispatchedTo, Logged
    <3>3. i = h
      BY <3>1, <3>2 DEF SharedInv, LogInv
    <3>. QED
      BY <3>1, <3>2, <3>3 DEF DispatchEntry
  <2>3. \A u \in Task : Logged(log', GateEntry(u, TRUE)) <=> Logged(log, GateEntry(u, TRUE)) \/ u = t
    BY <1>4, <1>5, <1>10
  <2>4. ASSUME NEW j \in Node PROVE j \in GatedNodes' <=> j \in GatedNodes \/ j = k
    BY <1>3, <1>6, <2>2, <2>3 DEF GatedNodes, DispatchedTo
  <2>5. GatedNodes' = GatedNodes \cup {k}
    BY <2>4 DEF GatedNodes
  <2>. QED
    BY <1>3, <1>7, <1>8, <1>9, <2>1, <2>5 DEF Register!Pass, Register!grants
<1>11. CASE b = FALSE
  <2>1. Passed(log') = Passed(log) \ {t}
    BY <1>4, <1>5, <1>11 DEF Passed
  <2>2. \A u \in Task : Logged(log', GateEntry(u, TRUE)) <=> Logged(log, GateEntry(u, TRUE))
    BY <1>4, <1>5, <1>11
  <2>3. GatedNodes' = GatedNodes
    BY <1>6, <2>2 DEF GatedNodes, DispatchedTo
  <2>. QED
    BY <1>3, <1>7, <1>8, <1>9, <2>1, <2>3 DEF Register!Fail, Register!grants
<1>. QED
  BY <1>10, <1>11

\* Any other entry of such a process freezes or thaws a team, or says nothing
\* of the register.
LEMMA SharedOther ==
  ASSUME SharedInv, SharedInv', ~behind, ~behind', NEW e \in Entry, log' = Append(log, e),
         \A t \in Task, k \in Node : e # DispatchEntry(t, k),
         \A t \in Task, b \in BOOLEAN : e # GateEntry(t, b)
  PROVE  /\ [j \in Node |-> DispatchedTo(log', j)] = [j \in Node |-> DispatchedTo(log, j)]
         /\ [j \in Node |-> RestoredOwner(log', j)] = [j \in Node |-> RestoredOwner(log, j)]
         /\ UNCHANGED <<Reclaimed(log), Passed(log), GatedNodes>>
         /\ \/ UNCHANGED PausedTeams(log)
            \/ \E m \in Team : \/ PausedTeams(log') = PausedTeams(log) \cup {m}
                               \/ PausedTeams(log') = PausedTeams(log) \ {m}
<1>1. /\ \A j : DispatchedTo(log', j) = DispatchedTo(log, j) \cup {u \in Task : e = DispatchEntry(u, j)}
      /\ \A u \in Task : u \in Passed(log') <=>
           (e = GateEntry(u, TRUE) \/ (u \in Passed(log) /\ e # GateEntry(u, FALSE)))
      /\ \A m \in Team : m \in PausedTeams(log') <=>
           \/ e = TeamEntry("team_paused", m)
           \/ (m \in PausedTeams(log) /\ e # TeamEntry("team_resumed", m))
      /\ \A u \in Task : Logged(log', GateEntry(u, TRUE)) <=>
           Logged(log, GateEntry(u, TRUE)) \/ e = GateEntry(u, TRUE)
  BY SharedAfter
<1>2. \A j \in Node : DispatchedTo(log', j) = DispatchedTo(log, j)
  <2> TAKE j \in Node
  <2>1. DispatchedTo(log', j) = DispatchedTo(log, j) \cup {u \in Task : e = DispatchEntry(u, j)}
    BY <1>1
  <2>2. \A u \in Task : e # DispatchEntry(u, j)
    OBVIOUS
  <2>3. {u \in Task : e = DispatchEntry(u, j)} = {}
    BY ONLY <2>2
  <2>. QED
    BY ONLY <2>1, <2>3
<1>3. /\ \A j \in Node : RestoredOwner(log', j) = RestoredOwner(log, j)
      /\ Reclaimed(log) = {} /\ Reclaimed(log') = {}
  BY <1>2, SameOwners
<1>4. Passed(log') = Passed(log)
  BY <1>1 DEF Passed
<1>5. GatedNodes' = GatedNodes
  <2>1. \A u \in Task : Logged(log', GateEntry(u, TRUE)) <=> Logged(log, GateEntry(u, TRUE))
    BY <1>1
  <2>. QED
    BY <1>2, <2>1 DEF GatedNodes, DispatchedTo
<1>6. \/ PausedTeams(log') = PausedTeams(log)
      \/ \E m \in Team : \/ PausedTeams(log') = PausedTeams(log) \cup {m}
                         \/ PausedTeams(log') = PausedTeams(log) \ {m}
  <2>1. \A m, n, f, g : e = TeamEntry(f, m) /\ e = TeamEntry(g, n) => f = g /\ m = n
    BY DEF TeamEntry
  <2>2. ASSUME NEW m \in Team, e = TeamEntry("team_paused", m)
        PROVE  PausedTeams(log') = PausedTeams(log) \cup {m}
    BY <1>1, <2>1, <2>2 DEF PausedTeams
  <2>3. ASSUME NEW m \in Team, e = TeamEntry("team_resumed", m)
        PROVE  PausedTeams(log') = PausedTeams(log) \ {m}
    BY <1>1, <2>1, <2>3 DEF PausedTeams
  <2>4. CASE \A m \in Team : e # TeamEntry("team_paused", m) /\ e # TeamEntry("team_resumed", m)
    BY <1>1, <2>4 DEF PausedTeams
  <2>. QED
    BY <2>2, <2>3, <2>4
<1>. QED
  BY <1>2, <1>3, <1>4, <1>5, <1>6

LEMMA SharedStep ==
  ASSUME SharedInv, SharedInv', [Next]_vars
  PROVE  [Register!Next]_(Register!vars)
<1>1. CASE behind'
  BY <1>1 DEF Register!Next
<1>2. CASE ~behind' /\ log' = log /\ behind' = behind
  BY <1>2 DEF Register!vars, Register!grants, Register!gates, DoneNodes, GatedNodes
<1>3. ASSUME ~behind', NEW p \in Process, NEW e \in Entry, AppendEntry(p, e), Allowed(p, e)
      PROVE  [Register!Next]_(Register!vars)
  <2>1. ~behind /\ behind' = behind /\ log' = Append(log, e)
    BY <1>3 DEF AppendEntry, SharedInv, TypeOK
  <2>2. /\ DoneNodes = {k \in Node : RestoredOwner(log, k) \in Passed(log)}
        /\ DoneNodes' = {k \in Node : RestoredOwner(log', k) \in Passed(log')}
    BY <1>3, <2>1 DEF SharedInv, DoneFollows
  <2>3. DoneNodes' = {k \in Node : [j \in Node |-> RestoredOwner(log', j)][k] \in Passed(log')}
    BY <2>2
  <2>4. Register!Undisputed => Register!Next
    BY <2>1, <2>3 DEF Register!Next
  <2>5. CASE \E t \in Task, k \in Node : e = DispatchEntry(t, k)
    BY <1>3, <2>1, <2>4, <2>5, SharedGrant DEF Register!Undisputed
  <2>6. CASE \E t \in Task, b \in BOOLEAN : e = GateEntry(t, b)
    BY <1>3, <2>1, <2>4, <2>6, SharedGate DEF Register!Undisputed
  <2>7. CASE /\ \A t \in Task, k \in Node : e # DispatchEntry(t, k)
             /\ \A t \in Task, b \in BOOLEAN : e # GateEntry(t, b)
    <3>1. /\ [j \in Node |-> DispatchedTo(log', j)] = [j \in Node |-> DispatchedTo(log, j)]
          /\ [j \in Node |-> RestoredOwner(log', j)] = [j \in Node |-> RestoredOwner(log, j)]
          /\ UNCHANGED <<Reclaimed(log), Passed(log), GatedNodes>>
          /\ \/ UNCHANGED PausedTeams(log)
             \/ \E m \in Team : \/ PausedTeams(log') = PausedTeams(log) \cup {m}
                                \/ PausedTeams(log') = PausedTeams(log) \ {m}
      BY <1>3, <2>1, <2>7, SharedOther
    <3>2. CASE UNCHANGED PausedTeams(log)
      <4>1. \A k \in Node : RestoredOwner(log', k) = RestoredOwner(log, k)
        BY <3>1
      <4>2. DoneNodes' = DoneNodes
        BY <2>2, <3>1, <4>1
      <4>. QED
        BY <2>1, <3>1, <3>2, <4>2 DEF Register!vars, Register!grants, Register!gates
    <3>3. CASE \E m \in Team : \/ PausedTeams(log') = PausedTeams(log) \cup {m}
                               \/ PausedTeams(log') = PausedTeams(log) \ {m}
      <4>1. \E m \in Team : Register!Freeze(m) \/ Register!Thaw(m)
        BY <3>1, <3>3 DEF Register!Freeze, Register!Thaw, Register!grants, Register!gates
      <4>. QED
        BY <2>4, <4>1 DEF Register!Undisputed
    <3>. QED
      BY <3>1, <3>2, <3>3
  <2>. QED
    BY <2>5, <2>6, <2>7
<1>4. TypeOK
  BY DEF SharedInv
<1>. QED
  BY <1>1, <1>2, <1>3, <1>4, StepKinds

\* The processes together implement the register of owners that Dispatcher
\* implements alone: one task per node, granted when the team is not frozen and
\* all it depends on has passed, through any exits, crashes and cold starts, up
\* to the first append by a process that had missed entries.
THEOREM ProcessesShareRegister == Spec => RegisterShared
<1>1. Init => Register!Init
  <2> SUFFICES ASSUME Init PROVE Register!Init
    OBVIOUS
  <2>1. log = <<>> /\ behind = FALSE /\ \A f : ~Logged(log, f)
    BY DEF Init, Logged
  <2>2. /\ \A k \in Node : DispatchedTo(log, k) = {}
        /\ Reclaimed(log) = {} /\ PausedTeams(log) = {} /\ Passed(log) = {}
    BY <2>1 DEF DispatchedTo, Reclaimed, PausedTeams, Passed, LastIs, Logged
  <2>3. \A k \in Node : RestoredOwner(log, k) = None
    BY <2>1 DEF RestoredOwner, LastClaim
  <2>4. DoneNodes = {} /\ GatedNodes = {}
    BY <2>2, <2>3, PlaneAssumption DEF DoneNodes, GatedNodes
  <2>. QED
    BY <2>1, <2>2, <2>3, <2>4 DEF Register!Init
<1>2. SharedInv /\ SharedInv' /\ [Next]_vars => [Register!Next]_(Register!vars)
  BY SharedStep
<1>. QED
  BY <1>1, <1>2, SharedInvHolds, PTL DEF Spec, RegisterShared, Register!Spec

=============================================================================
