-------------------------- MODULE DispatcherProofs --------------------------
(* What holds of the dispatcher for every set of tasks, nodes, teams and   *)
(* graphs, every environment and every bound on the log.                   *)
EXTENDS Dispatcher, TLAPS

-----------------------------------------------------------------------------
(* The log: what the operators of the replay say of one more entry.        *)

\* Every entry the dispatcher builds is one of the log's entries.
LEMMA EntryTypes ==
  /\ \A t \in Task, k \in Node : DispatchEntry(t, k) \in Entry
  /\ \A t \in Task, p \in BOOLEAN : GateEntry(t, p) \in Entry
  /\ \A t \in Task, e \in {"reclaim", "status", "ingress_accepted"} : TaskEntry(e, t) \in Entry
  /\ \A m \in Team, e \in {"team_paused", "team_resumed"} : TeamEntry(e, m) \in Entry
  /\ \A e \in {"decision_memo", "cold_start"} : PlainEntry(e) \in Entry
  BY DEF Entry

\* An append adds its entry and keeps the others.
LEMMA AppendLogged ==
  ASSUME NEW S, NEW l \in Seq(S), NEW e \in S, NEW f
  PROVE  Logged(Append(l, e), f) <=> Logged(l, f) \/ f = e
<1> DEFINE n == Len(l) + 1
<1>1. /\ Append(l, e) \in Seq(S) /\ DOMAIN Append(l, e) = 1 .. n
      /\ DOMAIN l = 1 .. Len(l) /\ Len(l) \in Nat
      /\ Append(l, e)[n] = e
      /\ \A i \in 1 .. Len(l) : Append(l, e)[i] = l[i]
  OBVIOUS
<1>2. 1 .. n = (1 .. Len(l)) \cup {n}
  BY <1>1
<1> QED
  BY <1>1, <1>2 DEF Logged

\* The tasks dispatched to a node after an append.
LEMMA AppendDispatchedTo ==
  ASSUME NEW l \in Seq(Entry), NEW e \in Entry, NEW k
  PROVE  DispatchedTo(Append(l, e), k)
           = DispatchedTo(l, k) \cup {t \in Task : e = DispatchEntry(t, k)}
<1>1. \A t \in Task : Logged(Append(l, e), DispatchEntry(t, k))
                        <=> Logged(l, DispatchEntry(t, k)) \/ DispatchEntry(t, k) = e
  BY AppendLogged
<1> QED
  BY <1>1 DEF DispatchedTo

-----------------------------------------------------------------------------
(* Types.                                                                  *)

\* What an append does to the two disk variables, whether it fails or not.
LEMMA AttemptType ==
  ASSUME TypeOK, NEW e \in Entry, Attempt(e)
  PROVE  log' \in Seq(Entry) /\ mirrored' \in BOOLEAN
<1>1. log \in Seq(Entry) /\ mirrored \in BOOLEAN
  BY DEF TypeOK
<1>2. Append(log, e) \in Seq(Entry)
  BY <1>1
<1> QED
  BY <1>1, <1>2 DEF Attempt, Write, WriteFails, disk

\* What restore_from computes has the type of what the program computes.
LEMMA RestoredTypes ==
  ASSUME NEW l
  PROVE  /\ \A t \in Task : RestoredState(l, t) \in Status \cup {"unknown"}
         /\ \A t \in Task : RestoredNode(l, t) \in Node \cup {None}
         /\ \A k \in Node : RestoredOwner(l, k) \in Task \cup {None}
<1>1. \A t \in Task : RestoredState(l, t) \in Status \cup {"unknown"}
  BY DEF RestoredState, Status
<1>2. ASSUME NEW t \in Task
      PROVE  RestoredNode(l, t) \in Node \cup {None}
  <2>1. t \in Dispatched(l) => \E k \in Node : t \in DispatchedTo(l, k)
    BY DEF Dispatched
  <2> QED
    BY <2>1 DEF RestoredNode
<1>3. \A k \in Node : RestoredOwner(l, k) \in Task \cup {None}
  BY DEF RestoredOwner
<1> QED
  BY <1>1, <1>2, <1>3

LEMMA EnqueueType ==
  ASSUME TypeOK, NEW k \in Node, NEW t \in Task, Enqueue(k, t)
  PROVE  /\ log' \in Seq(Entry) /\ mirrored' \in BOOLEAN
         /\ state' \in [Task -> Status \cup {"unknown"}]
         /\ nodeOf' \in [Task -> Node \cup {None}]
         /\ ackDeadline' \in [Task -> BOOLEAN]
         /\ byNode' \in [Node -> Task \cup {None}]
         /\ signed' \subseteq Task
<1>1. log' \in Seq(Entry) /\ mirrored' \in BOOLEAN
  BY AttemptType, EntryTypes DEF Enqueue, Attempt
<1> QED
  BY <1>1 DEF TypeOK, Enqueue, Status

LEMMA EnqueueFailsType ==
  ASSUME TypeOK, NEW k \in Node, NEW t \in Task, EnqueueFails(k, t)
  PROVE  log' \in Seq(Entry) /\ mirrored' \in BOOLEAN
  BY AttemptType, EntryTypes DEF EnqueueFails, Attempt

\* What a call cut in two relies on when it goes on: a record has a node, and
\* the task being reclaimed has a record.
CallSound ==
  /\ \A t \in Task : state[t] # "unknown" => nodeOf[t] \in Node
  /\ pc = "reclaim" => redo \in Task /\ state[redo] # "unknown"

TypeInv == TypeOK /\ CallSound

LEMMA ReclaimPending ==
  ASSUME TypeInv, pc = "reclaim"
  PROVE  redo \in Task /\ nodeOf[redo] \in Node
  BY DEF TypeInv, CallSound

\* The steps keep the types, one step per handler.
LEMMA TypeStep == TypeInv /\ [Next]_vars => TypeOK'
<1> SUFFICES ASSUME TypeInv, [Next]_vars PROVE TypeOK'
  OBVIOUS
<1> USE DEF call, records, tokens, deadlines
<1>t. TypeOK
  BY DEF TypeInv
<1>1. ASSUME NEW m \in Team, PauseTeam(m) \/ ResumeTeam(m) PROVE TypeOK'
  <2>1. log' \in Seq(Entry) /\ mirrored' \in BOOLEAN
    BY <1>1, <1>t, AttemptType, EntryTypes DEF PauseTeam, ResumeTeam
  <2> QED
    BY <1>1, <1>t, <2>1 DEF TypeOK, PauseTeam, ResumeTeam
<1>2. ASSUME NEW m \in Team, BootPause(m) PROVE TypeOK'
  <2>1. log' \in Seq(Entry) /\ mirrored' \in BOOLEAN
    BY <1>2, <1>t, AttemptType, EntryTypes DEF BootPause, Attempt
  <2> QED
    BY <1>2, <1>t, <2>1 DEF TypeOK, BootPause, Phase
<1>3. ASSUME NEW k \in Node, Dispatch(k) PROVE TypeOK'
  <2>1. PICK t \in Task :
          \/ Enqueue(k, t) /\ UNCHANGED <<supersededBy, nextUpdateBy, consumed>>
          \/ EnqueueFails(k, t)
    BY <1>3 DEF Dispatch
  <2>2. CASE Enqueue(k, t) /\ UNCHANGED <<supersededBy, nextUpdateBy, consumed>>
    BY <1>3, <1>t, <2>2, EnqueueType DEF TypeOK, Dispatch
  <2>3. CASE EnqueueFails(k, t)
    <3>1. log' \in Seq(Entry) /\ mirrored' \in BOOLEAN
      BY <1>t, <2>3, EnqueueFailsType
    <3> QED
      BY <1>3, <1>t, <2>3, <3>1 DEF TypeOK, Dispatch, EnqueueFails
  <2> QED
    BY <2>1, <2>2, <2>3
<1>4. ASSUME NEW k \in Node, WaveStep(k) PROVE TypeOK'
  <2>1. CASE WaveSkip(k)
    BY <1>4, <1>t, <2>1 DEF TypeOK, WaveStep, WaveSkip, disk
  <2>2. CASE WaveEnqueue(k)
    <3>1. PICK t \in Task : Enqueue(k, t)
      BY <2>2 DEF WaveEnqueue
    <3> QED
      BY <1>4, <1>t, <2>2, <3>1, EnqueueType DEF TypeOK, WaveStep, WaveEnqueue
  <2>3. CASE WaveAbort(k)
    <3>1. CASE UNCHANGED <<disk, records, byNode, tokens>>
      BY <1>4, <1>t, <2>3, <3>1 DEF TypeOK, WaveStep, WaveAbort, disk, Phase
    <3>2. ASSUME NEW t \in Task, EnqueueFails(k, t) PROVE TypeOK'
      <4>1. log' \in Seq(Entry) /\ mirrored' \in BOOLEAN
        BY <1>t, <3>2, EnqueueFailsType
      <4> QED
        BY <1>4, <1>t, <2>3, <3>2, <4>1 DEF TypeOK, WaveStep, WaveAbort, EnqueueFails, Phase
    <3> QED
      BY <2>3, <3>1, <3>2 DEF WaveAbort
  <2> QED
    BY <1>4, <2>1, <2>2, <2>3 DEF WaveStep
<1>5. ASSUME NEW g \in Graph, DispatchGraph(g) PROVE TypeOK'
  BY <1>5, <1>t DEF TypeOK, DispatchGraph, disk, Phase
<1>6. CASE WaveEnd
  BY <1>6, <1>t DEF TypeOK, WaveEnd, disk, Phase
<1>7. CASE ReclaimDispatch
  <2> DEFINE k == nodeOf[redo]
  <2>0. redo \in Task /\ k \in Node
    BY <1>7, ReclaimPending DEF ReclaimDispatch
  <2>1. CASE UNCHANGED <<disk, records, byNode, tokens>>
    BY <1>7, <1>t, <2>1 DEF TypeOK, ReclaimDispatch, disk, Phase
  <2>2. ASSUME NEW t \in Task, Enqueue(k, t), Supersede(redo, t),
               UNCHANGED <<nextUpdateBy, consumed>>
        PROVE  TypeOK'
    <3>1. supersededBy' \in [Task -> Task \cup {None}]
      BY <1>t, <2>0, <2>2 DEF TypeOK, Supersede
    <3> QED
      BY <1>7, <1>t, <2>0, <2>2, <3>1, EnqueueType DEF TypeOK, ReclaimDispatch, Phase
  <2>3. ASSUME NEW t \in Task, EnqueueFails(k, t) PROVE TypeOK'
    <3>1. log' \in Seq(Entry) /\ mirrored' \in BOOLEAN
      BY <1>t, <2>0, <2>3, EnqueueFailsType
    <3> QED
      BY <1>7, <1>t, <2>3, <3>1 DEF TypeOK, ReclaimDispatch, EnqueueFails, Phase
  <2> QED
    BY <1>7, <2>1, <2>2, <2>3 DEF ReclaimDispatch
<1>8. CASE RecordDecision
  <2>1. log' \in Seq(Entry) /\ mirrored' \in BOOLEAN
    BY <1>8, <1>t, AttemptType, EntryTypes DEF RecordDecision
  <2> QED
    BY <1>8, <1>t, <2>1 DEF TypeOK, RecordDecision
<1>9. ASSUME NEW t \in Task, Reclaim(t) PROVE TypeOK'
  <2>1. log' \in Seq(Entry) /\ mirrored' \in BOOLEAN
    BY <1>9, <1>t, AttemptType, EntryTypes DEF Reclaim, Attempt, ReclaimEntry
  <2>2. nodeOf[t] \in Node
    BY <1>9 DEF TypeInv, CallSound, Reclaim, Reclaimable
  <2> QED
    BY <1>9, <1>t, <2>1, <2>2 DEF TypeOK, Reclaim, Release, Phase, Status
<1>10. ASSUME NEW t \in Task, Deliver(t) PROVE TypeOK'
  <2>1. log' \in Seq(Entry) /\ mirrored' \in BOOLEAN
    BY <1>10, <1>t, AttemptType, EntryTypes DEF Deliver
  <2> QED
    BY <1>10, <1>t, <2>1 DEF TypeOK, Deliver
<1>11. ASSUME NEW t \in Task, NEW r \in Report, IngestStatus(t, r) PROVE TypeOK'
  <2>1. log' \in Seq(Entry) /\ mirrored' \in BOOLEAN
    BY <1>11, <1>t, AttemptType, EntryTypes DEF IngestStatus
  <2>2. r \in Status
    BY ConstantsAssumption
  <2> QED
    BY <1>11, <1>t, <2>1, <2>2 DEF TypeOK, IngestStatus
<1>12. ASSUME NEW t \in Task, NEW p \in BOOLEAN, AcceptGate(t, p) PROVE TypeOK'
  <2>1. log' \in Seq(Entry) /\ mirrored' \in BOOLEAN
    BY <1>12, <1>t, AttemptType, EntryTypes DEF AcceptGate
  <2> QED
    BY <1>12, <1>t, <2>1 DEF TypeOK, AcceptGate, Status
<1>13. ASSUME NEW t \in Task, AckSloElapses(t) \/ PromisePasses(t) PROVE TypeOK'
  BY <1>13, <1>t DEF TypeOK, AckSloElapses, PromisePasses, disk
<1>14. ASSUME ColdStart \/ ColdStartRefused PROVE TypeOK'
  <2>1. PICK l : RestoreFrom(l)
    BY <1>14 DEF ColdStart, ColdStartRefused
  <2>2. /\ state' \in [Task -> Status \cup {"unknown"}]
        /\ nodeOf' \in [Task -> Node \cup {None}]
        /\ byNode' \in [Node -> Task \cup {None}]
    BY <2>1, RestoredTypes DEF RestoreFrom
  <2>3. /\ supersededBy' \in [Task -> Task \cup {None}]
        /\ ackDeadline' \in [Task -> BOOLEAN]
        /\ nextUpdateBy' \in [Task -> {"none", "ahead", "past"}]
    BY <2>1 DEF RestoreFrom
  <2>4. repause' \subseteq Team /\ pc' \in Phase
    BY <1>14 DEF ColdStart, ColdStartRefused, PausedTeams, Phase
  <2>5. /\ wave' \subseteq Node /\ redo' \in Task \cup {None} /\ paused' \subseteq Team
        /\ consumed' \subseteq Task /\ signed' \subseteq Task
    BY <1>14, <1>t DEF ColdStart, ColdStartRefused, Forget, TypeOK
  <2>6. /\ log' \in Seq(Entry) /\ mirrored' \in BOOLEAN /\ late' \subseteq Task
    BY <1>14, <1>t DEF ColdStart, ColdStartRefused, TypeOK, disk
  <2> QED
    BY <2>2, <2>3, <2>4, <2>5, <2>6 DEF TypeOK
<1>15. CASE BootOpen
  <2>1. log' \in Seq(Entry) /\ mirrored' \in BOOLEAN
    BY <1>15, <1>t, AttemptType, EntryTypes DEF BootOpen, Attempt
  <2> QED
    BY <1>15, <1>t, <2>1 DEF TypeOK, BootOpen, Phase
<1>16. CASE UNCHANGED vars
  BY <1>16, <1>t DEF TypeOK, vars, disk
<1> QED
  BY <1>1, <1>2, <1>3, <1>4, <1>5, <1>6, <1>7, <1>8, <1>9, <1>10, <1>11, <1>12,
     <1>13, <1>14, <1>15, <1>16 DEF Next

-----------------------------------------------------------------------------
(* Every step is of one of five kinds, as far as tasks, nodes and the      *)
(* entries that name them go.                                              *)

IsDispatch(e) == \E t \in Task, k \in Node : e = DispatchEntry(t, k)

\* Nothing is dispatched, released or restored
Quiet ==
  /\ UNCHANGED <<nodeOf, supersededBy, byNode>>
  /\ \A t \in Task : state'[t] = "unknown" <=> state[t] = "unknown"
  /\ \/ UNCHANGED log
     \/ \E e \in Entry : log' = Append(log, e) /\ ~IsDispatch(e)
  /\ pc' = "reclaim" => pc = "reclaim" /\ redo' = redo
  /\ mirrored' => mirrored
  /\ pc' # "down" => pc # "down"

\* A task becomes the owner of a node, perhaps as a replacement
Claimed ==
  \E t \in Task, k \in Node :
    /\ Enqueue(k, t) /\ byNode[k] = None
    /\ pc' = pc \/ pc' = "idle"
    /\ pc \notin {"down"} /\ pc' # "reclaim"
    /\ \/ UNCHANGED supersededBy
       \/ pc = "reclaim" /\ k = nodeOf[redo] /\ Supersede(redo, t)

\* The append of a dispatch fails
Lost ==
  \E t \in Task, k \in Node :
    /\ Fresh(t)
    /\ \/ UNCHANGED disk
       \/ log' = Append(log, DispatchEntry(t, k)) /\ mirrored' = FALSE
    /\ UNCHANGED <<state, nodeOf, supersededBy, byNode>>
    /\ pc \notin {"down"} /\ pc' # "reclaim"

\* A reclaim frees the node of its task
Released ==
  \E t \in Task :
    /\ Reclaimable(t)
    /\ state' = [state EXCEPT ![t] = "abandoned"]
    /\ Write(ReclaimEntry(t))
    /\ Release(nodeOf[t])
    /\ UNCHANGED <<nodeOf, supersededBy>>
    /\ pc = "idle" /\ pc' = "reclaim" /\ redo' = t

\* The records are rebuilt from the log, or dropped
Rebuilt ==
  /\ UNCHANGED disk
  /\ pc' # "reclaim"
  /\ \/ RestoreFrom(log)
     \/ RestoreFrom(<<>>) /\ pc' = "down" /\ ~mirrored

\* Every step of the dispatcher is of one of the five kinds.
LEMMA StepKinds ==
  TypeInv /\ [Next]_vars => Quiet \/ Claimed \/ Lost \/ Released \/ Rebuilt
<1> SUFFICES ASSUME TypeInv, [Next]_vars
             PROVE  Quiet \/ Claimed \/ Lost \/ Released \/ Rebuilt
  OBVIOUS
<1> USE DEF call, records, tokens, deadlines, disk
<1>t. TypeOK
  BY DEF TypeInv
<1>a. ASSUME NEW e \in Entry, Attempt(e), ~IsDispatch(e)
      PROVE  /\ UNCHANGED log \/ \E f \in Entry : log' = Append(log, f) /\ ~IsDispatch(f)
             /\ mirrored' => mirrored
  BY <1>a DEF Attempt, Write, WriteFails
<1>b. /\ \A t \in Task, p \in BOOLEAN : ~IsDispatch(GateEntry(t, p))
      /\ \A t, e : e \in {"reclaim", "status", "ingress_accepted"} => ~IsDispatch(TaskEntry(e, t))
      /\ \A m, e : e \in {"team_paused", "team_resumed"} => ~IsDispatch(TeamEntry(e, m))
      /\ \A e \in {"decision_memo", "cold_start"} : ~IsDispatch(PlainEntry(e))
  BY DEF IsDispatch, DispatchEntry, GateEntry, TaskEntry, TeamEntry, PlainEntry
<1>1. ASSUME NEW m \in Team, PauseTeam(m) \/ ResumeTeam(m) PROVE Quiet
  BY <1>1, <1>a, <1>b, EntryTypes DEF PauseTeam, ResumeTeam, Quiet
<1>2. ASSUME NEW m \in Team, BootPause(m) PROVE Quiet
  BY <1>2, <1>a, <1>b, EntryTypes DEF BootPause, Attempt, Quiet
<1>3. ASSUME NEW k \in Node, Dispatch(k) PROVE Claimed \/ Lost
  BY <1>3 DEF Dispatch, Dispatchable, Claimed, Lost, EnqueueFails, WriteFails
<1>4. ASSUME NEW k \in Node, WaveStep(k) PROVE Quiet \/ Claimed \/ Lost
  <2>1. CASE WaveSkip(k)
    BY <1>4, <2>1 DEF WaveStep, WaveSkip, Quiet
  <2>2. CASE WaveEnqueue(k)
    BY <1>4, <2>2 DEF WaveStep, WaveEnqueue, Dispatchable, Claimed
  <2>3. CASE WaveAbort(k)
    BY <1>4, <2>3 DEF WaveStep, WaveAbort, EnqueueFails, WriteFails, Quiet, Lost
  <2> QED
    BY <1>4, <2>1, <2>2, <2>3 DEF WaveStep
<1>5. ASSUME NEW g \in Graph, DispatchGraph(g) PROVE Quiet
  BY <1>5 DEF DispatchGraph, Quiet
<1>6. CASE WaveEnd
  BY <1>6 DEF WaveEnd, Quiet
<1>7. CASE ReclaimDispatch
  <2>1. redo \in Task /\ nodeOf[redo] \in Node
    BY <1>7, ReclaimPending DEF ReclaimDispatch
  <2> QED
    BY <1>7, <2>1 DEF ReclaimDispatch, Dispatchable, EnqueueFails, WriteFails, Quiet, Claimed, Lost
<1>8. CASE RecordDecision
  BY <1>8, <1>a, <1>b, EntryTypes DEF RecordDecision, Quiet
<1>9. ASSUME NEW t \in Task, Reclaim(t) PROVE Quiet \/ Released
  <2>1. ASSUME Attempt(ReclaimEntry(t)), UNCHANGED <<byNode, pc, redo>> PROVE Quiet
    <3>1. \A u \in Task : state'[u] = "unknown" <=> state[u] = "unknown"
      BY <1>9, <1>t DEF Reclaim, Reclaimable, TypeOK
    <3>2. ReclaimEntry(t) \in Entry /\ ~IsDispatch(ReclaimEntry(t))
      BY <1>b, EntryTypes DEF ReclaimEntry
    <3>3. /\ UNCHANGED log \/ \E f \in Entry : log' = Append(log, f) /\ ~IsDispatch(f)
          /\ mirrored' => mirrored
      BY <2>1, <3>2, <1>a
    <3> QED
      BY <1>9, <2>1, <3>1, <3>3 DEF Reclaim, Quiet
  <2> QED
    BY <1>9, <2>1 DEF Reclaim, Released, Attempt
<1>10. ASSUME NEW t \in Task, Deliver(t) PROVE Quiet
  BY <1>10, <1>a, <1>b, EntryTypes DEF Deliver, Quiet
<1>11. ASSUME NEW t \in Task, NEW r \in Report, IngestStatus(t, r) PROVE Quiet
  <2>1. r # "unknown"
    BY ConstantsAssumption DEF Status
  <2>2. \A u \in Task : state'[u] = "unknown" <=> state[u] = "unknown"
    BY <1>11, <1>t, <2>1 DEF IngestStatus, TypeOK
  <2> QED
    BY <1>11, <2>2, <1>a, <1>b, EntryTypes DEF IngestStatus, Quiet
<1>12. ASSUME NEW t \in Task, NEW p \in BOOLEAN, AcceptGate(t, p) PROVE Quiet
  <2>1. \A u \in Task : state'[u] = "unknown" <=> state[u] = "unknown"
    BY <1>12, <1>t DEF AcceptGate, TypeOK
  <2> QED
    BY <1>12, <2>1, <1>a, <1>b, EntryTypes DEF AcceptGate, Quiet
<1>13. ASSUME NEW t \in Task, AckSloElapses(t) \/ PromisePasses(t) PROVE Quiet
  BY <1>13 DEF AckSloElapses, PromisePasses, Quiet
<1>14. ASSUME ColdStart \/ ColdStartRefused PROVE Rebuilt
  BY <1>14 DEF ColdStart, ColdStartRefused, Rebuilt
<1>15. CASE BootOpen
  BY <1>15, <1>a, <1>b, EntryTypes DEF BootOpen, Attempt, Quiet
<1>16. CASE UNCHANGED vars
  BY <1>16 DEF vars, Quiet
<1> QED
  BY <1>1, <1>2, <1>3, <1>4, <1>5, <1>6, <1>7, <1>8, <1>9, <1>10, <1>11, <1>12,
     <1>13, <1>14, <1>15, <1>16 DEF Next

\* A record always has a node, and so has the task being reclaimed.
LEMMA CallStep == TypeInv /\ [Next]_vars => CallSound'
<1> SUFFICES ASSUME TypeInv, [Next]_vars PROVE CallSound'
  OBVIOUS
<1>t. TypeOK /\ CallSound
  BY DEF TypeInv
<1>1. CASE Quiet
  BY <1>1, <1>t DEF Quiet, CallSound
<1>2. CASE Claimed
  BY <1>2, <1>t DEF Claimed, Enqueue, CallSound, TypeOK
<1>3. CASE Lost
  BY <1>3, <1>t DEF Lost, CallSound
<1>4. CASE Released
  BY <1>4, <1>t DEF Released, Reclaimable, CallSound, TypeOK
<1>5. CASE Rebuilt
  <2>1. PICK l : RestoreFrom(l)
    BY <1>5 DEF Rebuilt
  <2>2. ASSUME NEW t \in Task, RestoredState(l, t) # "unknown"
        PROVE  RestoredNode(l, t) \in Node
    <3>1. t \in Dispatched(l)
      BY <2>2 DEF RestoredState
    <3>2. \E k \in Node : t \in DispatchedTo(l, k)
      BY <3>1 DEF Dispatched
    <3> QED
      BY <3>1, <3>2 DEF RestoredNode
  <2> QED
    BY <1>5, <2>1, <2>2 DEF Rebuilt, RestoreFrom, CallSound
<1> QED
  BY <1>1, <1>2, <1>3, <1>4, <1>5, StepKinds

\* The type invariant, with what a call cut in two relies on, always holds.
THEOREM TypeCorrect == Spec => []TypeInv
<1>1. Init => TypeInv
  <2>1. Init => TypeOK
    BY DEF Init, TypeOK, Phase
  <2>2. Init => CallSound
    BY DEF Init, CallSound
  <2> QED
    BY <2>1, <2>2 DEF TypeInv
<1>2. TypeInv /\ [Next]_vars => TypeInv'
  BY TypeStep, CallStep DEF TypeInv
<1> QED
  BY <1>1, <1>2, PTL DEF Spec

\* The variables always hold what the program keeps in them.
THEOREM TypesHold == Spec => []TypeOK
<1>1. TypeInv => TypeOK
  BY DEF TypeInv
<1> QED
  BY <1>1, TypeCorrect, PTL

-----------------------------------------------------------------------------
(* Owners and records.                                                     *)

\* A task is dispatched to one node only
OneNodeEach ==
  \A t \in Task : \A j, k \in Node :
    t \in DispatchedTo(log, j) /\ t \in DispatchedTo(log, k) => j = k

RecordsLogged ==
  \A t \in Task : state[t] # "unknown" => t \in DispatchedTo(log, nodeOf[t])

LoggedRecorded ==
  pc # "down" /\ mirrored => \A t \in Dispatched(log) : state[t] # "unknown"

NoRecordNoLink ==
  \A t \in Task : state[t] = "unknown" => supersededBy[t] = None

\* Between its two appends, reclaim has freed the node and logged the reclaim
ReclaimUnderWay ==
  pc = "reclaim" => byNode[nodeOf[redo]] = None /\ Logged(log, ReclaimEntry(redo))

OwnerInv ==
  /\ TypeInv
  /\ OneNodeEach
  /\ RecordsLogged
  /\ LoggedRecorded
  /\ NoRecordNoLink
  /\ ReclaimUnderWay
  /\ OwnershipWellFormed
  /\ SupersessionSound

\* The log only grows: a step keeps every entry at its place.
\* What a step does to the log: nothing, or one more entry.
LEMMA LogStep ==
  ASSUME TypeInv, [Next]_vars
  PROVE  UNCHANGED log \/ \E e \in Entry : log' = Append(log, e)
<1>1. CASE Quiet
  BY <1>1 DEF Quiet
<1>2. CASE Claimed
  BY <1>2, EntryTypes DEF Claimed, Enqueue, Write
<1>3. CASE Lost
  BY <1>3, EntryTypes DEF Lost, disk
<1>4. CASE Released
  BY <1>4, EntryTypes DEF Released, Write, ReclaimEntry
<1>5. CASE Rebuilt
  BY <1>5 DEF Rebuilt, disk
<1> QED
  BY <1>1, <1>2, <1>3, <1>4, <1>5, StepKinds

\* The log only grows.
LEMMA LogGrows ==
  ASSUME TypeInv, [Next]_vars
  PROVE  /\ \A i \in DOMAIN log : i \in DOMAIN log' /\ log'[i] = log[i]
         /\ DOMAIN log = 1 .. Len(log) /\ Len(log) \in Nat
<1>1. log \in Seq(Entry) /\ log' \in Seq(Entry)
  BY TypeStep DEF TypeInv, TypeOK
<1> QED
  BY <1>1, LogStep

\* Which tasks are dispatched to which node, after each kind of step.
LEMMA DispatchedAfter ==
  ASSUME TypeInv, NEW t \in Task, NEW k \in Node
  PROVE  /\ log' = Append(log, DispatchEntry(t, k)) =>
              \A j \in Node : DispatchedTo(log', j)
                             = DispatchedTo(log, j) \cup (IF j = k THEN {t} ELSE {})
         /\ \A e \in Entry : log' = Append(log, e) /\ ~IsDispatch(e) =>
              \A j \in Node : DispatchedTo(log', j) = DispatchedTo(log, j)
         /\ UNCHANGED log => \A j \in Node : DispatchedTo(log', j) = DispatchedTo(log, j)
<1>1. log \in Seq(Entry)
  BY DEF TypeInv, TypeOK
<1>2. ASSUME log' = Append(log, DispatchEntry(t, k)), NEW j \in Node
      PROVE  DispatchedTo(log', j) = DispatchedTo(log, j) \cup (IF j = k THEN {t} ELSE {})
  <2>1. DispatchedTo(log', j)
          = DispatchedTo(log, j) \cup {u \in Task : DispatchEntry(t, k) = DispatchEntry(u, j)}
    BY <1>1, <1>2, AppendDispatchedTo, EntryTypes
  <2>2. \A u \in Task : DispatchEntry(t, k) = DispatchEntry(u, j) <=> u = t /\ j = k
    BY DEF DispatchEntry
  <2> QED
    BY <2>1, <2>2
<1>3. ASSUME NEW e \in Entry, log' = Append(log, e), ~IsDispatch(e), NEW j \in Node
      PROVE  DispatchedTo(log', j) = DispatchedTo(log, j)
  <2>1. DispatchedTo(log', j) = DispatchedTo(log, j) \cup {u \in Task : e = DispatchEntry(u, j)}
    BY <1>1, <1>3, AppendDispatchedTo
  <2> QED
    BY <1>3, <2>1 DEF IsDispatch
<1>4. UNCHANGED log => \A j \in Node : DispatchedTo(log', j) = DispatchedTo(log, j)
  BY DEF DispatchedTo, Logged
<1> QED
  BY <1>2, <1>3, <1>4

\* What restore_from gives back for a log in which each task has one node.
LEMMA RestoredFacts ==
  ASSUME NEW l,
         \A t \in Task : \A j, k \in Node :
           t \in DispatchedTo(l, j) /\ t \in DispatchedTo(l, k) => j = k
  PROVE  /\ \A t \in Task : RestoredState(l, t) # "unknown" <=> t \in Dispatched(l)
         /\ \A t \in Task : \A k \in Node : t \in DispatchedTo(l, k) => RestoredNode(l, t) = k
         /\ \A k \in Node : RestoredOwner(l, k) # None =>
              RestoredOwner(l, k) \in Task /\ RestoredOwner(l, k) \in DispatchedTo(l, k)
<1>1. \A t \in Task : RestoredState(l, t) # "unknown" <=> t \in Dispatched(l)
  BY DEF RestoredState
<1>2. ASSUME NEW t \in Task, NEW k \in Node, t \in DispatchedTo(l, k)
      PROVE  RestoredNode(l, t) = k
  <2>1. t \in Dispatched(l)
    BY <1>2 DEF Dispatched
  <2> QED
    BY <1>2, <2>1 DEF RestoredNode
<1>3. ASSUME NEW k \in Node, RestoredOwner(l, k) # None
      PROVE  RestoredOwner(l, k) \in Task /\ RestoredOwner(l, k) \in DispatchedTo(l, k)
  <2>1. \E t \in Task : LastClaim(l, k, t)
    BY <1>3 DEF RestoredOwner
  <2>2. RestoredOwner(l, k) \in Task /\ LastClaim(l, k, RestoredOwner(l, k))
    BY <2>1 DEF RestoredOwner
  <2> QED
    BY <2>2 DEF LastClaim, DispatchedTo, Logged
<1> QED
  BY <1>1, <1>2, <1>3

\* Nothing is in the empty log.
LEMMA EmptyLog ==
  /\ \A k \in Node : DispatchedTo(<<>>, k) = {}
  /\ Dispatched(<<>>) = {}
  BY DEF DispatchedTo, Dispatched, Logged

\* Only a claim, or a dispatch whose append fails halfway, dispatches a task.
LEMMA SameDispatched ==
  ASSUME TypeInv, Quiet \/ Released \/ Rebuilt
  PROVE  \A k \in Node : DispatchedTo(log', k) = DispatchedTo(log, k)
<1>1. ASSUME NEW e \in Entry, log' = Append(log, e), ~IsDispatch(e), NEW k \in Node
      PROVE  DispatchedTo(log', k) = DispatchedTo(log, k)
  <2>1. DispatchedTo(log', k) = DispatchedTo(log, k) \cup {u \in Task : e = DispatchEntry(u, k)}
    BY <1>1, AppendDispatchedTo DEF TypeInv, TypeOK
  <2> QED
    BY <1>1, <2>1 DEF IsDispatch
<1>2. CASE Quiet
  BY <1>1, <1>2 DEF Quiet
<1>3. CASE Released
  <2>1. PICK t \in Task : Write(ReclaimEntry(t))
    BY <1>3 DEF Released
  <2>2. ReclaimEntry(t) \in Entry /\ ~IsDispatch(ReclaimEntry(t))
    BY EntryTypes DEF ReclaimEntry, IsDispatch, TaskEntry, DispatchEntry
  <2> QED
    BY <1>1, <2>1, <2>2 DEF Write
<1>4. CASE Rebuilt
  BY <1>4 DEF Rebuilt, disk
<1> QED
  BY <1>2, <1>3, <1>4

LEMMA OneNodeStep == OwnerInv /\ [Next]_vars => OneNodeEach'
<1> SUFFICES ASSUME OwnerInv, [Next]_vars PROVE OneNodeEach'
  OBVIOUS
<1>i. TypeInv /\ OneNodeEach
  BY DEF OwnerInv
<1>1. ASSUME NEW t \in Task, NEW k \in Node, Fresh(t), log' = Append(log, DispatchEntry(t, k))
      PROVE  OneNodeEach'
  <2>1. \A j \in Node : t \notin DispatchedTo(log, j)
    BY <1>1 DEF Fresh, Dispatched
  <2>2. \A j \in Node : DispatchedTo(log', j)
                        = DispatchedTo(log, j) \cup (IF j = k THEN {t} ELSE {})
    BY <1>i, <1>1, DispatchedAfter
  <2> QED
    BY <1>i, <2>1, <2>2 DEF OneNodeEach
<1>2. CASE Quiet \/ Released \/ Rebuilt
  BY <1>i, <1>2, SameDispatched DEF OneNodeEach
<1>3. CASE Claimed
  BY <1>1, <1>3 DEF Claimed, Enqueue, Write
<1>4. CASE Lost
  BY <1>i, <1>1, <1>4 DEF Lost, disk, OneNodeEach
<1> QED
  BY <1>i, <1>2, <1>3, <1>4, StepKinds

\* Records and the log after a claim: the new task, and nothing else, joins both.
LEMMA ClaimFacts ==
  ASSUME OwnerInv, NEW t \in Task, NEW k \in Node, Enqueue(k, t)
  PROVE  /\ \A j \in Node : DispatchedTo(log', j)
                             = DispatchedTo(log, j) \cup (IF j = k THEN {t} ELSE {})
         /\ state[t] = "unknown" /\ state'[t] # "unknown" /\ nodeOf'[t] = k
         /\ \A u \in Task : u # t => state'[u] = state[u] /\ nodeOf'[u] = nodeOf[u]
         /\ byNode'[k] = t
         /\ \A j \in Node : j # k => byNode'[j] = byNode[j]
  BY DispatchedAfter DEF OwnerInv, TypeInv, TypeOK, Enqueue, Write, Fresh

LEMMA RecordsLoggedStep == OwnerInv /\ [Next]_vars => RecordsLogged'
<1> SUFFICES ASSUME OwnerInv, [Next]_vars, NEW t \in Task, state'[t] # "unknown"
             PROVE  t \in DispatchedTo(log', nodeOf'[t])
  BY DEF RecordsLogged
<1>i. TypeInv /\ TypeOK /\ CallSound /\ RecordsLogged /\ OneNodeEach
  BY DEF OwnerInv, TypeInv
<1>1. CASE Quiet
  <2>1. state[t] # "unknown" /\ nodeOf'[t] = nodeOf[t] /\ nodeOf[t] \in Node
    BY <1>i, <1>1 DEF Quiet, CallSound
  <2> QED
    BY <1>i, <1>1, <2>1, SameDispatched DEF RecordsLogged
<1>2. CASE Claimed
  <2>1. PICK u \in Task, k \in Node : Enqueue(k, u)
    BY <1>2 DEF Claimed
  <2>2. CASE t = u
    BY <2>1, <2>2, ClaimFacts
  <2>3. CASE t # u
    BY <1>i, <2>1, <2>3, ClaimFacts DEF RecordsLogged, CallSound
  <2> QED
    BY <2>2, <2>3
<1>3. CASE Lost
  <2>1. state[t] # "unknown" /\ nodeOf'[t] = nodeOf[t] /\ nodeOf[t] \in Node
    BY <1>i, <1>3 DEF Lost, CallSound
  <2> QED
    BY <1>i, <1>3, <2>1, DispatchedAfter DEF Lost, disk, RecordsLogged
<1>4. CASE Released
  <2>1. state[t] # "unknown" /\ nodeOf'[t] = nodeOf[t]
    BY <1>i, <1>4 DEF Released, Reclaimable, TypeOK
  <2>2. nodeOf[t] \in Node
    BY <1>i, <2>1 DEF CallSound
  <2> QED
    BY <1>i, <1>4, <2>1, <2>2, SameDispatched DEF RecordsLogged
<1>5. CASE Rebuilt
  <2>1. CASE RestoreFrom(log)
    <3>1. t \in Dispatched(log) /\ nodeOf'[t] = RestoredNode(log, t)
      BY <1>i, <2>1, RestoredFacts DEF RestoreFrom, OneNodeEach
    <3>2. PICK k \in Node : t \in DispatchedTo(log, k)
      BY <3>1 DEF Dispatched
    <3>3. nodeOf'[t] = k
      BY <1>i, <3>1, <3>2, RestoredFacts DEF OneNodeEach
    <3> QED
      BY <1>i, <1>5, <3>2, <3>3, SameDispatched
  <2>2. CASE RestoreFrom(<<>>)
    <3>1. t \in Dispatched(<<>>)
      BY <2>2, RestoredFacts, EmptyLog DEF RestoreFrom
    <3> QED
      BY <3>1, EmptyLog
  <2> QED
    BY <1>5, <2>1, <2>2 DEF Rebuilt
<1> QED
  BY <1>i, <1>1, <1>2, <1>3, <1>4, <1>5, StepKinds

LEMMA LoggedRecordedStep == OwnerInv /\ [Next]_vars => LoggedRecorded'
<1> SUFFICES ASSUME OwnerInv, [Next]_vars, pc' # "down", mirrored',
                    NEW t \in Task, NEW k \in Node, t \in DispatchedTo(log', k)
             PROVE  state'[t] # "unknown"
  BY DEF LoggedRecorded, Dispatched, DispatchedTo
<1>i. TypeInv /\ TypeOK /\ LoggedRecorded /\ OneNodeEach
  BY DEF OwnerInv, TypeInv
<1>k. pc # "down" /\ mirrored /\ t \in DispatchedTo(log, k) => state[t] # "unknown"
  BY <1>i DEF LoggedRecorded, Dispatched
<1>1. CASE Quiet
  BY <1>i, <1>k, <1>1, SameDispatched DEF Quiet
<1>2. CASE Claimed
  <2>1. PICK u \in Task, j \in Node : Enqueue(j, u) /\ pc # "down"
    BY <1>2 DEF Claimed
  <2>2. mirrored
    BY <2>1 DEF Enqueue, Write
  <2> QED
    BY <1>k, <2>1, <2>2, ClaimFacts
<1>3. CASE Lost
  <2>1. UNCHANGED disk /\ UNCHANGED state /\ pc # "down"
    BY <1>3 DEF Lost
  <2> QED
    BY <1>k, <2>1 DEF disk
<1>4. CASE Released
  BY <1>i, <1>k, <1>4, SameDispatched DEF Released, Write, TypeOK
<1>5. CASE Rebuilt
  <2>1. RestoreFrom(log) /\ t \in DispatchedTo(log, k)
    BY <1>5 DEF Rebuilt, disk
  <2>2. t \in Dispatched(log)
    BY <2>1 DEF Dispatched
  <2> QED
    BY <1>i, <2>1, <2>2, RestoredFacts DEF RestoreFrom, OneNodeEach
<1> QED
  BY <1>i, <1>1, <1>2, <1>3, <1>4, <1>5, StepKinds

LEMMA NoLinkStep == OwnerInv /\ [Next]_vars => NoRecordNoLink'
<1> SUFFICES ASSUME OwnerInv, [Next]_vars PROVE NoRecordNoLink'
  OBVIOUS
<1>i. TypeInv /\ TypeOK /\ CallSound /\ NoRecordNoLink
  BY DEF OwnerInv, TypeInv
<1>1. CASE Quiet
  BY <1>i, <1>1 DEF Quiet, NoRecordNoLink
<1>2. CASE Claimed
  <2>1. PICK t \in Task, k \in Node :
          /\ Enqueue(k, t)
          /\ \/ UNCHANGED supersededBy
             \/ pc = "reclaim" /\ Supersede(redo, t)
    BY <1>2 DEF Claimed
  <2>2. CASE UNCHANGED supersededBy
    BY <1>i, <2>1, <2>2, ClaimFacts DEF NoRecordNoLink
  <2>3. CASE pc = "reclaim" /\ Supersede(redo, t)
    <3>1. redo \in Task /\ state[redo] # "unknown" /\ redo # t
      BY <1>i, <2>1, <2>3, ClaimFacts DEF CallSound
    <3>2. \A u \in Task : u # redo => supersededBy'[u] = supersededBy[u]
      BY <1>i, <2>3 DEF Supersede, TypeOK
    <3>3. \A u \in Task : u # t => state'[u] = state[u]
      BY <2>1, ClaimFacts
    <3>4. state'[t] # "unknown"
      BY <2>1, ClaimFacts
    <3> QED
      BY <1>i, <3>1, <3>2, <3>3, <3>4 DEF NoRecordNoLink
  <2> QED
    BY <2>1, <2>2, <2>3
<1>3. CASE Lost
  BY <1>i, <1>3 DEF Lost, NoRecordNoLink
<1>4. CASE Released
  BY <1>i, <1>4 DEF Released, Reclaimable, NoRecordNoLink, TypeOK
<1>5. CASE Rebuilt
  BY <1>5 DEF Rebuilt, RestoreFrom, NoRecordNoLink
<1> QED
  BY <1>i, <1>1, <1>2, <1>3, <1>4, <1>5, StepKinds

LEMMA LoggedStays ==
  ASSUME TypeInv, [Next]_vars, NEW e, Logged(log, e)
  PROVE  Logged(log', e)
  BY LogGrows DEF Logged

LEMMA ReclaimUnderWayStep == OwnerInv /\ [Next]_vars => ReclaimUnderWay'
<1> SUFFICES ASSUME OwnerInv, [Next]_vars, pc' = "reclaim"
             PROVE  byNode'[nodeOf'[redo']] = None /\ Logged(log', ReclaimEntry(redo'))
  BY DEF ReclaimUnderWay
<1>i. TypeInv /\ TypeOK /\ CallSound /\ ReclaimUnderWay
  BY DEF OwnerInv, TypeInv
<1>1. CASE Quiet
  BY <1>i, <1>1, LoggedStays DEF Quiet, ReclaimUnderWay
<1>2. CASE Released
  <2>1. redo' \in Task /\ nodeOf[redo'] \in Node
    BY <1>i, <1>2 DEF Released, Reclaimable, CallSound
  <2>2. byNode'[nodeOf'[redo']] = None
    BY <1>i, <1>2, <2>1 DEF Released, Release, TypeOK
  <2>3. log \in Seq(Entry) /\ ReclaimEntry(redo') \in Entry
    BY <1>i, <2>1, EntryTypes DEF TypeOK, ReclaimEntry
  <2>4. log' = Append(log, ReclaimEntry(redo'))
    BY <1>2 DEF Released, Write
  <2> QED
    BY <2>2, <2>3, <2>4, AppendLogged
<1>3. ~Claimed /\ ~Lost /\ ~Rebuilt
  BY DEF Claimed, Lost, Rebuilt
<1> QED
  BY <1>i, <1>1, <1>2, <1>3, StepKinds

LEMMA WellFormedStep == OwnerInv /\ [Next]_vars => OwnershipWellFormed'
<1> SUFFICES ASSUME OwnerInv, [Next]_vars, NEW k \in Node, byNode'[k] # None
             PROVE  /\ state'[byNode'[k]] # "unknown"
                    /\ nodeOf'[byNode'[k]] = k
                    /\ supersededBy'[byNode'[k]] = None
  BY DEF OwnershipWellFormed
<1>i. /\ TypeInv /\ TypeOK /\ CallSound /\ OneNodeEach /\ NoRecordNoLink
      /\ ReclaimUnderWay /\ OwnershipWellFormed
  BY DEF OwnerInv, TypeInv
<1>o. byNode[k] # None => byNode[k] \in Task
  BY <1>i DEF TypeOK
<1>1. CASE Quiet
  BY <1>i, <1>o, <1>1 DEF Quiet, OwnershipWellFormed
<1>2. CASE Claimed
  <2>1. PICK t \in Task, j \in Node :
          /\ Enqueue(j, t)
          /\ \/ UNCHANGED supersededBy
             \/ pc = "reclaim" /\ j = nodeOf[redo] /\ Supersede(redo, t)
    BY <1>2 DEF Claimed
  <2>2. supersededBy[t] = None
    BY <1>i, <2>1, ClaimFacts DEF NoRecordNoLink
  \* the task being replaced owns nothing: its node was freed
  <2>3. pc = "reclaim" => redo # t /\ byNode[k] # redo
    <3> SUFFICES ASSUME pc = "reclaim" PROVE redo # t /\ byNode[k] # redo
      OBVIOUS
    <3>1. redo \in Task /\ redo # None /\ state[redo] # "unknown"
      BY <1>i, ConstantsAssumption DEF CallSound
    <3>2. redo # t
      BY <2>1, <3>1, ClaimFacts
    <3>3. byNode[nodeOf[redo]] = None
      BY <1>i DEF ReclaimUnderWay
    <3>4. byNode[k] = redo => nodeOf[redo] = k
      BY <1>i, <3>1 DEF OwnershipWellFormed
    <3> QED
      BY <3>1, <3>2, <3>3, <3>4
  <2>4. \A u \in Task : u = t \/ u = byNode[k] => supersededBy'[u] = supersededBy[u]
    BY <1>i, <2>1, <2>3 DEF Supersede, TypeOK, CallSound
  <2>5. CASE k = j
    BY <2>1, <2>2, <2>4, <2>5, ClaimFacts
  <2>6. CASE k # j
    <3>1. byNode'[k] = byNode[k]
      BY <2>1, <2>6, ClaimFacts
    <3>2. byNode[k] # t
      BY <1>i, <3>1, <2>1, ClaimFacts DEF OwnershipWellFormed
    <3> QED
      BY <1>i, <1>o, <2>1, <2>4, <3>1, <3>2, ClaimFacts DEF OwnershipWellFormed
  <2> QED
    BY <2>5, <2>6
<1>3. CASE Lost
  BY <1>i, <1>3 DEF Lost, OwnershipWellFormed
<1>4. CASE Released
  <2>1. byNode'[k] = byNode[k]
    BY <1>i, <1>4 DEF Released, Release, TypeOK
  <2>2. state'[byNode[k]] # "unknown"
    BY <1>i, <1>o, <1>4, <2>1 DEF Released, OwnershipWellFormed, TypeOK
  <2> QED
    BY <1>i, <1>4, <2>1, <2>2 DEF Released, OwnershipWellFormed
<1>5. CASE Rebuilt
  <2>1. CASE RestoreFrom(log)
    <3>1. byNode'[k] \in Task /\ byNode'[k] \in DispatchedTo(log, k)
      BY <1>i, <2>1, RestoredFacts DEF RestoreFrom, OneNodeEach
    <3>2. byNode'[k] \in Dispatched(log)
      BY <3>1 DEF Dispatched
    <3> QED
      BY <1>i, <2>1, <3>1, <3>2, RestoredFacts DEF RestoreFrom, OneNodeEach
  <2>2. CASE RestoreFrom(<<>>)
    BY <2>2, RestoredFacts, EmptyLog DEF RestoreFrom
  <2> QED
    BY <1>5, <2>1, <2>2 DEF Rebuilt
<1> QED
  BY <1>i, <1>1, <1>2, <1>3, <1>4, <1>5, StepKinds

LEMMA SupersessionStep == OwnerInv /\ [Next]_vars => SupersessionSound'
<1> SUFFICES ASSUME OwnerInv, [Next]_vars, NEW t \in Task, supersededBy'[t] # None
             PROVE  \E i, j \in DOMAIN log' :
                      /\ i < j
                      /\ log'[i] = ReclaimEntry(t)
                      /\ log'[j] = DispatchEntry(supersededBy'[t], nodeOf'[t])
  BY DEF SupersessionSound
<1>i. /\ TypeInv /\ TypeOK /\ CallSound /\ NoRecordNoLink
      /\ ReclaimUnderWay /\ SupersessionSound
  BY DEF OwnerInv, TypeInv
<1>1. ASSUME supersededBy'[t] = supersededBy[t], nodeOf'[t] = nodeOf[t]
      PROVE  \E i, j \in DOMAIN log' :
               /\ i < j
               /\ log'[i] = ReclaimEntry(t)
               /\ log'[j] = DispatchEntry(supersededBy'[t], nodeOf'[t])
  <2>1. PICK i, j \in DOMAIN log :
          /\ i < j
          /\ log[i] = ReclaimEntry(t)
          /\ log[j] = DispatchEntry(supersededBy[t], nodeOf[t])
    BY <1>i, <1>1 DEF SupersessionSound
  <2>2. i \in DOMAIN log' /\ log'[i] = log[i] /\ j \in DOMAIN log' /\ log'[j] = log[j]
    BY <1>i, LogGrows
  <2> QED
    BY <1>1, <2>1, <2>2
<1>2. CASE Quiet \/ Lost \/ Released
  BY <1>1, <1>2 DEF Quiet, Lost, Released
<1>3. CASE Claimed
  <2>1. PICK u \in Task, k \in Node :
          /\ Enqueue(k, u)
          /\ \/ UNCHANGED supersededBy
             \/ pc = "reclaim" /\ k = nodeOf[redo] /\ Supersede(redo, u)
    BY <1>3 DEF Claimed
  <2>2. CASE UNCHANGED supersededBy
    <3>1. t # u
      BY <1>i, <2>1, <2>2, ClaimFacts DEF NoRecordNoLink
    <3> QED
      BY <1>1, <2>1, <2>2, <3>1, ClaimFacts
  <2>3. CASE pc = "reclaim" /\ k = nodeOf[redo] /\ Supersede(redo, u)
    <3>1. redo \in Task /\ redo # u
      BY <1>i, <2>1, <2>3, ClaimFacts DEF CallSound
    <3>2. CASE t = redo
      <4>1. supersededBy'[t] = u /\ nodeOf'[t] = k
        BY <1>i, <2>1, <2>3, <3>1, <3>2, ClaimFacts DEF Supersede, TypeOK
      <4>2. PICK i \in DOMAIN log : log[i] = ReclaimEntry(t)
        BY <1>i, <2>3, <3>2 DEF ReclaimUnderWay, Logged
      <4>3. log' = Append(log, DispatchEntry(u, k)) /\ log \in Seq(Entry)
        BY <1>i, <2>1 DEF Enqueue, Write, TypeOK
      <4>4. i < Len(log) + 1 /\ i \in DOMAIN log' /\ log'[i] = ReclaimEntry(t)
        BY <1>i, <4>2, LogGrows
      <4>5. Len(log) + 1 \in DOMAIN log' /\ log'[Len(log) + 1] = DispatchEntry(u, k)
        BY <4>3
      <4> QED
        BY <4>1, <4>4, <4>5
    <3>3. CASE t # redo
      <4>1. supersededBy'[t] = supersededBy[t]
        BY <1>i, <2>3, <3>3 DEF Supersede, TypeOK
      <4>2. t # u
        BY <1>i, <2>1, <4>1, ClaimFacts DEF NoRecordNoLink
      <4> QED
        BY <1>1, <2>1, <4>1, <4>2, ClaimFacts
    <3> QED
      BY <3>2, <3>3
  <2> QED
    BY <2>1, <2>2, <2>3
<1>4. ~Rebuilt
  BY DEF Rebuilt, RestoreFrom
<1> QED
  BY <1>i, <1>2, <1>3, <1>4, StepKinds

\* The inductive invariant behind the three theorems that follow.
THEOREM OwnerInvHolds == Spec => []OwnerInv
<1>1. Init => OwnerInv
  <2> SUFFICES ASSUME Init PROVE OwnerInv
    OBVIOUS
  <2>1. TypeInv
    <3>1. TypeOK
      BY DEF Init, TypeOK, Phase
    <3>2. CallSound
      BY DEF Init, CallSound
    <3> QED
      BY <3>1, <3>2 DEF TypeInv
  <2>2. OneNodeEach /\ LoggedRecorded
    BY EmptyLog DEF Init, OneNodeEach, LoggedRecorded
  <2>3. RecordsLogged /\ NoRecordNoLink /\ ReclaimUnderWay
    BY DEF Init, RecordsLogged, NoRecordNoLink, ReclaimUnderWay
  <2>4. OwnershipWellFormed /\ SupersessionSound
    BY DEF Init, OwnershipWellFormed, SupersessionSound
  <2> QED
    BY <2>1, <2>2, <2>3, <2>4 DEF OwnerInv
<1>2. OwnerInv /\ [Next]_vars => OwnerInv'
  <2> SUFFICES ASSUME OwnerInv, [Next]_vars PROVE OwnerInv'
    OBVIOUS
  <2>1. TypeInv'
    BY TypeStep, CallStep DEF OwnerInv, TypeInv
  <2> QED
    BY <2>1, OneNodeStep, RecordsLoggedStep, LoggedRecordedStep, NoLinkStep,
       ReclaimUnderWayStep, WellFormedStep, SupersessionStep DEF OwnerInv
<1> QED
  BY <1>1, <1>2, PTL DEF Spec

\* _by_node always points at a recorded task of that node that no reclaim has
\* replaced, whatever appends fail and wherever the process dies.
THEOREM OwnersWellFormed == Spec => []OwnershipWellFormed
<1>1. OwnerInv => OwnershipWellFormed
  BY DEF OwnerInv
<1> QED
  BY <1>1, OwnerInvHolds, PTL

\* Invariant I6 for identities: the records and the log name the same tasks,
\* as long as the two sinks agree.
THEOREM RecordsFollowLog == Spec => []RecordsMatchLog
<1>1. OwnerInv => RecordsMatchLog
  BY DEF OwnerInv, RecordsLogged, LoggedRecorded, RecordsMatchLog
<1> QED
  BY <1>1, OwnerInvHolds, PTL

\* superseded_by is backed by the log: a reclaim, and later the replacement's
\* dispatch to the same node.
THEOREM SupersessionIsLogged == Spec => []SupersessionSound
<1>1. OwnerInv => SupersessionSound
  BY DEF OwnerInv
<1> QED
  BY <1>1, OwnerInvHolds, PTL

-----------------------------------------------------------------------------
(* Deliveries.                                                             *)

IsIngress(e) == \E t \in Task : e = TaskEntry("ingress_accepted", t)

\* A token stands for a logged dispatch, and one that was accepted is spent
IngressInv ==
  /\ TypeInv
  /\ signed \subseteq Dispatched(log)
  /\ \A t \in Task : Logged(log, TaskEntry("ingress_accepted", t)) =>
       t \in Dispatched(log) /\ (t \in consumed \/ t \notin signed)
  /\ DeliveredOnce

\* Every step, as far as deliveries and tokens go.
LEMMA TokenKinds ==
  ASSUME "keep_keys" \notin Env, TypeInv, [Next]_vars
  PROVE  \/ /\ UNCHANGED log \/ \E e \in Entry : log' = Append(log, e) /\ ~IsIngress(e)
            /\ UNCHANGED tokens
         \/ \E t \in Task, k \in Node : Enqueue(k, t) /\ UNCHANGED consumed
         \/ \E t \in Task : Deliver(t)
         \/ UNCHANGED log /\ signed' = {}
<1> USE DEF call, records, tokens, deadlines, disk
<1> DEFINE Silent == /\ UNCHANGED log \/ \E e \in Entry : log' = Append(log, e) /\ ~IsIngress(e)
                     /\ UNCHANGED tokens
<1> HIDE DEF Silent
<1>a. ASSUME NEW e \in Entry, Attempt(e), ~IsIngress(e), UNCHANGED <<consumed, signed>>
      PROVE  Silent
  BY <1>a DEF Attempt, Write, WriteFails, Silent
<1>b. /\ \A t \in Task, k \in Node : ~IsIngress(DispatchEntry(t, k))
      /\ \A t \in Task, p \in BOOLEAN : ~IsIngress(GateEntry(t, p))
      /\ \A t \in Task, e \in {"reclaim", "status"} : ~IsIngress(TaskEntry(e, t))
      /\ \A m \in Team, e \in {"team_paused", "team_resumed"} : ~IsIngress(TeamEntry(e, m))
      /\ \A e \in {"decision_memo", "cold_start"} : ~IsIngress(PlainEntry(e))
  BY DEF IsIngress, DispatchEntry, GateEntry, TaskEntry, TeamEntry, PlainEntry
<1>1. ASSUME NEW m \in Team, PauseTeam(m) \/ ResumeTeam(m) \/ BootPause(m) PROVE Silent
  BY <1>1, <1>a, <1>b, EntryTypes DEF PauseTeam, ResumeTeam, BootPause, Attempt
<1>f. ASSUME NEW k \in Node, NEW t \in Task, EnqueueFails(k, t) PROVE Silent
  BY <1>f, <1>a, <1>b, EntryTypes DEF EnqueueFails, Attempt
<1>2. ASSUME NEW k \in Node, Dispatch(k)
      PROVE  Silent \/ \E t \in Task : Enqueue(k, t) /\ UNCHANGED consumed
  BY <1>2, <1>f DEF Dispatch
<1>3. ASSUME NEW k \in Node, WaveStep(k)
      PROVE  Silent \/ \E t \in Task : Enqueue(k, t) /\ UNCHANGED consumed
  BY <1>3, <1>f DEF WaveStep, WaveSkip, WaveEnqueue, WaveAbort, Silent
<1>4. ASSUME NEW g \in Graph, DispatchGraph(g) PROVE Silent
  BY <1>4 DEF DispatchGraph, Silent
<1>5. ASSUME WaveEnd PROVE Silent
  BY <1>5 DEF WaveEnd, Silent
<1>6. ASSUME ReclaimDispatch
      PROVE  Silent \/ \E t \in Task : Enqueue(nodeOf[redo], t) /\ UNCHANGED consumed
  <2> DEFINE k == nodeOf[redo]
  <2>1. k \in Node
    BY <1>6, ReclaimPending DEF ReclaimDispatch
  <2>2. CASE UNCHANGED <<disk, records, byNode, tokens>>
    BY <2>2 DEF Silent
  <2> QED
    BY <1>6, <1>f, <2>1, <2>2 DEF ReclaimDispatch
<1>7. ASSUME RecordDecision PROVE Silent
  <2>1. PlainEntry("decision_memo") \in Entry /\ ~IsIngress(PlainEntry("decision_memo"))
    BY <1>b, EntryTypes
  <2> QED
    BY <1>7, <1>a, <2>1 DEF RecordDecision
<1>8. ASSUME NEW t \in Task, Reclaim(t) PROVE Silent
  BY <1>8, <1>a, <1>b, EntryTypes DEF Reclaim, Attempt, ReclaimEntry
<1>9. ASSUME NEW t \in Task, NEW r \in Report, IngestStatus(t, r) PROVE Silent
  BY <1>9, <1>a, <1>b, EntryTypes DEF IngestStatus
<1>10. ASSUME NEW t \in Task, NEW p \in BOOLEAN, AcceptGate(t, p) PROVE Silent
  BY <1>10, <1>a, <1>b, EntryTypes DEF AcceptGate
<1>11. ASSUME NEW t \in Task, AckSloElapses(t) \/ PromisePasses(t) PROVE Silent
  BY <1>11 DEF AckSloElapses, PromisePasses, Silent
<1>12. ASSUME ColdStart \/ ColdStartRefused PROVE UNCHANGED log /\ signed' = {}
  BY <1>12 DEF ColdStart, ColdStartRefused, Forget
<1>13. ASSUME BootOpen PROVE Silent
  <2>1. PlainEntry("cold_start") \in Entry /\ ~IsIngress(PlainEntry("cold_start"))
    BY <1>b, EntryTypes
  <2> QED
    BY <1>13, <1>a, <2>1 DEF BootOpen, Attempt
<1>14. ASSUME UNCHANGED vars PROVE Silent
  BY <1>14 DEF vars, Silent
<1> DEFINE Claiming == \E t \in Task, k \in Node : Enqueue(k, t) /\ UNCHANGED consumed
<1> DEFINE Delivering == \E t \in Task : Deliver(t)
<1> DEFINE Emptied == UNCHANGED log /\ signed' = {}
<1>15. /\ \A k \in Node : Dispatch(k) \/ WaveStep(k) => Silent \/ Claiming
       /\ \A t \in Task : Deliver(t) => Delivering
       /\ ColdStart \/ ColdStartRefused => Emptied
  BY <1>2, <1>3, <1>12
<1>16. ReclaimDispatch => Silent \/ Claiming
  <2> SUFFICES ASSUME ReclaimDispatch PROVE Silent \/ Claiming
    OBVIOUS
  <2>1. nodeOf[redo] \in Node
    BY ReclaimPending DEF ReclaimDispatch
  <2> QED
    BY <1>6, <2>1
<1>17. Silent \/ Claiming \/ Delivering \/ Emptied
  <2> HIDE DEF Claiming, Delivering, Emptied
  <2>1. CASE \E t \in Task :
             \/ Reclaim(t) \/ Deliver(t) \/ AckSloElapses(t) \/ PromisePasses(t)
             \/ \E r \in Report : IngestStatus(t, r)
             \/ \E p \in BOOLEAN : AcceptGate(t, p)
    BY <1>8, <1>9, <1>10, <1>11, <1>15, <2>1
  <2>2. CASE \E k \in Node : Dispatch(k) \/ WaveStep(k)
    BY <1>15, <2>2
  <2>3. CASE \/ WaveEnd \/ RecordDecision \/ ColdStart \/ ColdStartRefused
             \/ BootOpen \/ UNCHANGED vars
    BY <1>5, <1>7, <1>13, <1>14, <1>15, <2>3
  <2> QED
    BY <1>1, <1>4, <1>16, <2>1, <2>2, <2>3 DEF Next
<1> QED
  BY <1>17 DEF Silent

\* The steps keep deliveries single, if no restart is handed the old key ring.
LEMMA IngressStep ==
  ASSUME "keep_keys" \notin Env, IngressInv, [Next]_vars
  PROVE  IngressInv'
<1> DEFINE Ingress(t) == TaskEntry("ingress_accepted", t)
<1>i. /\ TypeInv /\ TypeOK /\ signed \subseteq Dispatched(log) /\ DeliveredOnce
      /\ \A t \in Task : Logged(log, Ingress(t)) =>
           t \in Dispatched(log) /\ (t \in consumed \/ t \notin signed)
  BY DEF IngressInv, TypeInv
<1>n. log \in Seq(Entry) /\ DOMAIN log = 1 .. Len(log) /\ Len(log) \in Nat
  BY <1>i DEF TypeOK
<1>t. TypeInv'
  BY <1>i, TypeStep, CallStep DEF TypeInv
<1>d. Dispatched(log) \subseteq Dispatched(log')
  BY <1>i, LoggedStays DEF Dispatched, DispatchedTo
\* an append of something else leaves the accepted deliveries as they were
<1>e. ASSUME NEW e \in Entry, log' = Append(log, e), ~IsIngress(e)
      PROVE  DeliveredOnce' /\ \A t \in Task : Logged(log', Ingress(t)) => Logged(log, Ingress(t))
  <2>1. \A t \in Task : Logged(log', Ingress(t)) => Logged(log, Ingress(t))
    BY <1>n, <1>e, AppendLogged DEF IsIngress
  <2>2. \A i \in DOMAIN log' : (i \in DOMAIN log /\ log'[i] = log[i]) \/ log'[i] = e
    BY <1>n, <1>e
  <2>3. \A t \in Task : e # Ingress(t)
    BY <1>e DEF IsIngress
  <2> QED
    BY <1>i, <2>1, <2>2, <2>3 DEF DeliveredOnce
<1>1. ASSUME UNCHANGED tokens,
             UNCHANGED log \/ \E e \in Entry : log' = Append(log, e) /\ ~IsIngress(e)
      PROVE  IngressInv'
  <2>1. DeliveredOnce' /\ \A t \in Task : Logged(log', Ingress(t)) => Logged(log, Ingress(t))
    BY <1>i, <1>e, <1>1 DEF DeliveredOnce
  <2> QED
    BY <1>i, <1>t, <1>d, <1>1, <2>1 DEF IngressInv, tokens
<1>2. ASSUME NEW t \in Task, NEW k \in Node, Enqueue(k, t), UNCHANGED consumed
      PROVE  IngressInv'
  <2>1. log' = Append(log, DispatchEntry(t, k)) /\ signed' = signed \cup {t} /\ t \notin Dispatched(log)
    BY <1>2 DEF Enqueue, Write, Fresh
  <2>2. DispatchEntry(t, k) \in Entry /\ ~IsIngress(DispatchEntry(t, k))
    BY EntryTypes DEF IsIngress, DispatchEntry, TaskEntry
  <2>3. DeliveredOnce' /\ \A u \in Task : Logged(log', Ingress(u)) => Logged(log, Ingress(u))
    BY <1>e, <2>1, <2>2
  <2>4. t \in Dispatched(log')
    BY <1>i, <2>1, DispatchedAfter DEF Dispatched
  <2>5. \A u \in Task : Logged(log', Ingress(u)) =>
          u \in Dispatched(log') /\ (u \in consumed' \/ u \notin signed')
    BY <1>i, <1>d, <1>2, <2>1, <2>3
  <2> QED
    BY <1>i, <1>t, <1>d, <2>1, <2>3, <2>4, <2>5 DEF IngressInv
<1>3. ASSUME NEW t \in Task, Deliver(t) PROVE IngressInv'
  <2>1. /\ t \in signed /\ t \notin consumed
        /\ consumed' = consumed \cup {t} /\ signed' = signed
        /\ log' = log \/ log' = Append(log, Ingress(t))
    BY <1>3 DEF Deliver, Attempt, Write, WriteFails, disk
  <2>2. ~Logged(log, Ingress(t)) /\ t \in Dispatched(log)
    BY <1>i, <2>1
  <2>3. CASE log' = log
    BY <1>i, <1>t, <2>1, <2>3 DEF IngressInv, DeliveredOnce
  <2>4. CASE log' = Append(log, Ingress(t))
    <3>1. Ingress(t) \in Entry
      BY EntryTypes
    <3>2. \A u \in Task : Logged(log', Ingress(u)) <=> Logged(log, Ingress(u)) \/ Ingress(u) = Ingress(t)
      BY <1>n, <2>4, <3>1, AppendLogged
    <3>3. \A u \in Task : Ingress(u) = Ingress(t) => u = t
      BY DEF TaskEntry
    <3>4. \A u \in Task : Logged(log', Ingress(u)) =>
            u \in Dispatched(log') /\ (u \in consumed' \/ u \notin signed')
      BY <1>i, <1>d, <2>1, <2>2, <3>2, <3>3
    <3>5. \A i \in DOMAIN log' :
            \/ i \in DOMAIN log /\ log'[i] = log[i] /\ log[i] # Ingress(t)
            \/ i = Len(log) + 1 /\ log'[i] = Ingress(t)
      BY <1>n, <2>2, <2>4, <3>1 DEF Logged
    <3>6. DeliveredOnce'
      BY <1>i, <3>5 DEF DeliveredOnce
    <3> QED
      BY <1>i, <1>t, <1>d, <2>1, <3>4, <3>6 DEF IngressInv
  <2> QED
    BY <2>1, <2>3, <2>4
<1>4. ASSUME UNCHANGED log, signed' = {} PROVE IngressInv'
  BY <1>i, <1>t, <1>4 DEF IngressInv, DeliveredOnce
<1> QED
  BY <1>i, <1>1, <1>2, <1>3, <1>4, TokenKinds

\* ReplayLedger and the key ring die together, so no task is accepted at ingress
\* twice, by one process or by several in turn, unless a cold start is handed
\* the key ring of the process before it.
THEOREM NoSecondDelivery == "keep_keys" \notin Env => (Spec => []DeliveredOnce)
<1> SUFFICES ASSUME "keep_keys" \notin Env PROVE Spec => []DeliveredOnce
  OBVIOUS
<1>1. Init => IngressInv
  <2> SUFFICES ASSUME Init PROVE IngressInv
    OBVIOUS
  <2>1. TypeOK
    BY DEF Init, TypeOK, Phase
  <2>2. CallSound
    BY DEF Init, CallSound
  <2>3. log = <<>> /\ signed = {}
    BY DEF Init
  <2> QED
    BY <2>1, <2>2, <2>3 DEF IngressInv, TypeInv, DeliveredOnce, Logged
<1>2. IngressInv /\ [Next]_vars => IngressInv'
  BY IngressStep
<1>3. IngressInv => DeliveredOnce
  BY DEF IngressInv
<1> QED
  BY <1>1, <1>2, <1>3, PTL DEF Spec

-----------------------------------------------------------------------------
(* Gates, pauses and dependencies, over sinks whose appends never fail.    *)

\* One more entry leaves the log before it, and what came before each entry.
LEMMA AppendFacts ==
  ASSUME NEW l \in Seq(Entry), NEW e \in Entry
  PROVE  /\ Append(l, e) \in Seq(Entry)
         /\ Len(l) + 1 \notin DOMAIN l
         /\ DOMAIN Append(l, e) = DOMAIN l \cup {Len(l) + 1}
         /\ \A i \in DOMAIN l : Len(l) + 1 > i /\ ~(i > Len(l) + 1)
         /\ \A i \in DOMAIN l : Append(l, e)[i] = l[i]
         /\ Append(l, e)[Len(l) + 1] = e
         /\ \A i \in DOMAIN l : SubSeq(Append(l, e), 1, i - 1) = SubSeq(l, 1, i - 1)
         /\ SubSeq(Append(l, e), 1, Len(l)) = l
<1>1. /\ Append(l, e) \in Seq(Entry)
      /\ Len(l) \in Nat /\ Len(Append(l, e)) = Len(l) + 1
      /\ DOMAIN l = 1 .. Len(l) /\ DOMAIN Append(l, e) = DOMAIN l \cup {Len(l) + 1}
      /\ Len(l) + 1 \notin DOMAIN l
      /\ \A i \in DOMAIN l : Append(l, e)[i] = l[i]
      /\ Append(l, e)[Len(l) + 1] = e
  OBVIOUS
<1>2. ASSUME NEW i \in DOMAIN l
      PROVE  SubSeq(Append(l, e), 1, i - 1) = SubSeq(l, 1, i - 1)
  BY <1>1
<1>3. SubSeq(Append(l, e), 1, Len(l)) = l
  BY <1>1
<1> QED
  BY <1>1, <1>2, <1>3

\* The last of two entries, after one more.
LEMMA AppendLast ==
  ASSUME NEW l \in Seq(Entry), NEW e \in Entry, NEW a, NEW b
  PROVE  LastIs(Append(l, e), a, b) <=> e = a \/ (LastIs(l, a, b) /\ e # b)
<1> DEFINE L == Append(l, e)
           n == Len(l) + 1
<1>1. /\ DOMAIN L = DOMAIN l \cup {n} /\ n \notin DOMAIN l
      /\ \A i \in DOMAIN l : n > i /\ ~(i > n) /\ L[i] = l[i]
      /\ L[n] = e /\ n \in Nat
  BY AppendFacts
<1> HIDE DEF L, n
<1>2. ASSUME e = a PROVE LastIs(L, a, b)
  BY <1>1, <1>2 DEF LastIs
<1>3. ASSUME LastIs(l, a, b), e # b PROVE LastIs(L, a, b)
  <2>1. PICK i \in DOMAIN l : l[i] = a /\ \A j \in DOMAIN l : j > i => l[j] # b
    BY <1>3 DEF LastIs
  <2> QED
    BY <1>1, <1>3, <2>1 DEF LastIs
<1>4. ASSUME LastIs(L, a, b), e # a PROVE LastIs(l, a, b) /\ e # b
  <2>1. PICK i \in DOMAIN L : L[i] = a /\ \A j \in DOMAIN L : j > i => L[j] # b
    BY <1>4 DEF LastIs
  <2>2. i \in DOMAIN l /\ l[i] = a /\ n \in DOMAIN L /\ n > i
    BY <1>1, <1>4, <2>1
  <2>3. e # b
    BY <1>1, <2>1, <2>2
  <2>4. \A j \in DOMAIN l : j > i => l[j] # b
    BY <1>1, <2>1
  <2> QED
    BY <2>2, <2>3, <2>4 DEF LastIs
<1>5. LastIs(L, a, b) <=> e = a \/ (LastIs(l, a, b) /\ e # b)
  BY <1>2, <1>3, <1>4, Zenon
<1> QED
  BY <1>5, Zenon DEF L

IsGate(e)   == \E t \in Task, p \in BOOLEAN : e = GateEntry(t, p)
IsResume(e) == \E m \in Team : e = TeamEntry("team_resumed", m)

\* The teams paused are those in the set, and those a cold start still has to
\* put there
PausesKnown ==
  /\ PausedTeams(log) \subseteq paused \cup repause
  /\ pc # "boot" => repause = {}

\* A step that appends neither a dispatch, nor a gate result, nor a resumption
Plain ==
  /\ UNCHANGED nodeOf
  /\ \A t \in Task : state'[t] = "gate_pass" => state[t] = "gate_pass"
  /\ "lead" \in Env \/ \A t \in Task : state[t] = "gate_pass" => state'[t] = "gate_pass"
  /\ \/ UNCHANGED log
     \/ \E e \in Entry :
          /\ log' = Append(log, e) /\ ~IsDispatch(e) /\ ~IsGate(e) /\ ~IsResume(e)
          /\ \A t \in Task : e = ReclaimEntry(t) => state[t] # "gate_pass"
          /\ \A m \in Team : e = TeamEntry("team_paused", m) => m \in paused'
  /\ paused \cup repause \subseteq paused' \cup repause'
  /\ (pc # "boot" => repause = {}) => (pc' # "boot" => repause' = {})
  /\ \/ wave' \subseteq wave
     \/ pc # "down" /\ wave' \subseteq {k \in Node : Ready(k)}

\* A resumption
Resumed ==
  \E m \in Team :
    /\ log' = Append(log, TeamEntry("team_resumed", m))
    /\ paused' = paused \ {m}
    /\ UNCHANGED <<pc, repause, state, nodeOf, wave>>

\* A gate result
Gated ==
  \E t \in Task, p \in BOOLEAN :
    /\ log' = Append(log, GateEntry(t, p)) /\ state[t] # "unknown"
    /\ state' = [state EXCEPT ![t] = IF p THEN "gate_pass" ELSE "gate_fail"]
    /\ UNCHANGED <<pc, repause, paused, nodeOf, wave>>

\* A dispatch: to a node of a wave, again to the node of a reclaim, or as a
\* caller asks
Sent ==
  \E t \in Task, k \in Node :
    /\ log' = Append(log, DispatchEntry(t, k))
    /\ Fresh(t) /\ state' = [state EXCEPT ![t] = "dispatched"]
    /\ TeamOf[k] \notin paused
    /\ pc \notin {"boot", "down"} /\ pc' # "boot" /\ UNCHANGED <<paused, repause>>
    /\ wave' \subseteq wave
    /\ \/ "direct" \in Env
       \/ k \in wave
       \/ pc = "reclaim" /\ k = nodeOf[redo]

\* A cold start
Restored ==
  /\ UNCHANGED log
  /\ \E l \in {log, <<>>} : state' = [t \in Task |-> RestoredState(l, t)]
  /\ wave' = {}
  /\ \/ /\ pc' = "boot" /\ repause' = PausedTeams(log)
        /\ state' = [t \in Task |-> RestoredState(log, t)]
     \/ ~mirrored

\* Every step is of one of these kinds when no append fails.
LEMMA SoundKinds ==
  ASSUME "io_error" \notin Env, TypeInv, [Next]_vars
  PROVE  (Plain \/ Resumed \/ Gated \/ Sent \/ Restored) /\ (mirrored => mirrored')
<1> USE DEF call, records, tokens, deadlines, disk
<1>t. TypeOK
  BY DEF TypeInv
<1>w. \A e : ~WriteFails(e)
  BY DEF WriteFails
<1>f. \A k, t : ~EnqueueFails(k, t)
  BY <1>w DEF EnqueueFails
<1>b. /\ \A t, e : /\ ~IsDispatch(TaskEntry(e, t)) /\ ~IsGate(TaskEntry(e, t))
                   /\ ~IsResume(TaskEntry(e, t))
                   /\ \A m \in Team : TaskEntry(e, t) # TeamEntry("team_paused", m)
      /\ \A m : LET e == TeamEntry("team_paused", m)
                IN  ~IsDispatch(e) /\ ~IsGate(e) /\ ~IsResume(e)
      /\ \A e : /\ ~IsDispatch(PlainEntry(e)) /\ ~IsGate(PlainEntry(e))
                /\ ~IsResume(PlainEntry(e))
                /\ \A m \in Team : PlainEntry(e) # TeamEntry("team_paused", m)
      /\ \A m, n : TeamEntry("team_paused", m) = TeamEntry("team_paused", n) => m = n
  BY EntryTypes
  DEF IsDispatch, IsGate, IsResume, DispatchEntry, GateEntry, TaskEntry, TeamEntry, PlainEntry
<1>c. /\ \A m, t : TeamEntry("team_paused", m) # ReclaimEntry(t)
      /\ \A e, t : PlainEntry(e) # ReclaimEntry(t)
      /\ \A e, t, u : TaskEntry(e, u) = ReclaimEntry(t) => e = "reclaim" /\ u = t
  BY DEF ReclaimEntry, TaskEntry, TeamEntry, PlainEntry
<1>1. ASSUME NEW m \in Team, PauseTeam(m) PROVE Plain /\ mirrored' = mirrored
  BY <1>1, <1>w, <1>b, <1>c, EntryTypes DEF PauseTeam, Attempt, Write, Plain
<1>2. ASSUME NEW m \in Team, ResumeTeam(m) PROVE Resumed /\ mirrored' = mirrored
  BY <1>2, <1>w DEF ResumeTeam, Attempt, Write, Resumed
<1>3. ASSUME NEW m \in Team, BootPause(m) PROVE Plain /\ mirrored' = mirrored
  BY <1>3, <1>w, <1>b, <1>c, EntryTypes DEF BootPause, Write, Plain
<1>4. ASSUME NEW k \in Node, Dispatch(k) PROVE Sent /\ mirrored' = mirrored
  BY <1>4, <1>f DEF Dispatch, Dispatchable, Enqueue, Write, Sent
<1>5. ASSUME NEW k \in Node, WaveStep(k) PROVE (Plain \/ Sent) /\ mirrored' = mirrored
  <2>1. CASE WaveSkip(k)
    BY <1>5, <2>1 DEF WaveStep, WaveSkip, Plain
  <2>2. CASE WaveEnqueue(k)
    BY <1>5, <2>2 DEF WaveStep, WaveEnqueue, Dispatchable, Enqueue, Write, Sent
  <2>3. CASE WaveAbort(k)
    BY <1>5, <1>f, <2>3 DEF WaveStep, WaveAbort, Plain
  <2> QED
    BY <1>5, <2>1, <2>2, <2>3 DEF WaveStep
<1>6. ASSUME NEW g \in Graph, DispatchGraph(g) PROVE Plain /\ mirrored' = mirrored
  BY <1>6 DEF DispatchGraph, Plain
<1>7. ASSUME WaveEnd PROVE Plain /\ mirrored' = mirrored
  BY <1>7 DEF WaveEnd, Plain
<1>8. ASSUME ReclaimDispatch PROVE (Plain \/ Sent) /\ mirrored' = mirrored
  <2>1. redo \in Task /\ nodeOf[redo] \in Node
    BY <1>8, ReclaimPending DEF ReclaimDispatch
  <2>2. ASSUME NEW t \in Task, Dispatchable(nodeOf[redo]), Enqueue(nodeOf[redo], t)
        PROVE  Sent /\ mirrored' = mirrored
    BY <1>8, <2>1, <2>2 DEF ReclaimDispatch, Dispatchable, Enqueue, Write, Sent
  <2>3. CASE UNCHANGED <<disk, records, byNode, tokens>>
    BY <1>8, <2>3 DEF ReclaimDispatch, Plain
  <2> QED
    BY <1>8, <1>f, <2>2, <2>3 DEF ReclaimDispatch
<1>9. ASSUME RecordDecision PROVE Plain /\ mirrored' = mirrored
  BY <1>9, <1>w, <1>b, <1>c, EntryTypes DEF RecordDecision, Attempt, Write, Plain
<1>10. ASSUME NEW t \in Task, Reclaim(t) PROVE Plain /\ mirrored' = mirrored
  <2>1. /\ log' = Append(log, ReclaimEntry(t)) /\ mirrored' = mirrored /\ ReclaimEntry(t) \in Entry
        /\ UNCHANGED <<nodeOf, paused, repause, wave>>
        /\ pc = "idle" /\ pc' # "boot"
    BY <1>10, <1>w, EntryTypes DEF Reclaim, Write, ReclaimEntry
  <2>2. \A u \in Task : state'[u] = "gate_pass" => state[u] = "gate_pass"
    BY <1>10, <1>t DEF Reclaim, TypeOK
  <2>3. state[t] # "gate_pass" /\ \A u \in Task : state[u] = "gate_pass" => state'[u] = "gate_pass"
    BY <1>10, <1>t DEF Reclaim, Reclaimable, TypeOK
  <2>4. /\ \A u : ReclaimEntry(t) = ReclaimEntry(u) => u = t
        /\ ~IsDispatch(ReclaimEntry(t)) /\ ~IsGate(ReclaimEntry(t)) /\ ~IsResume(ReclaimEntry(t))
        /\ \A m \in Team : ReclaimEntry(t) # TeamEntry("team_paused", m)
    BY <1>b, <1>c DEF ReclaimEntry
  <2> QED
    BY <2>1, <2>2, <2>3, <2>4 DEF Plain
<1>11. ASSUME NEW t \in Task, Deliver(t) PROVE Plain /\ mirrored' = mirrored
  BY <1>11, <1>w, <1>b, <1>c, EntryTypes DEF Deliver, Attempt, Write, Plain
<1>12. ASSUME NEW t \in Task, NEW r \in Report, IngestStatus(t, r) PROVE Plain /\ mirrored' = mirrored
  <2>1. \A u \in Task : state'[u] = "gate_pass" => state[u] = "gate_pass"
    BY <1>12, <1>t, ConstantsAssumption DEF IngestStatus, TypeOK
  <2> QED
    BY <1>12, <2>1, <1>w, <1>b, <1>c, EntryTypes DEF IngestStatus, Attempt, Write, Plain
<1>13. ASSUME NEW t \in Task, NEW p \in BOOLEAN, AcceptGate(t, p) PROVE Gated /\ mirrored' = mirrored
  BY <1>13, <1>w DEF AcceptGate, Attempt, Write, Gated
<1>14. ASSUME NEW t \in Task, AckSloElapses(t) \/ PromisePasses(t) PROVE Plain /\ mirrored' = mirrored
  BY <1>14 DEF AckSloElapses, PromisePasses, Plain
<1>15. ASSUME ColdStart \/ ColdStartRefused PROVE Restored /\ mirrored' = mirrored
  BY <1>15 DEF ColdStart, ColdStartRefused, RestoreFrom, Forget, Restored
<1>16. ASSUME BootOpen PROVE Plain /\ mirrored' = mirrored
  BY <1>16, <1>w, <1>b, <1>c, EntryTypes DEF BootOpen, Write, Plain
<1>17. ASSUME UNCHANGED vars PROVE Plain /\ mirrored' = mirrored
  BY <1>17 DEF vars, Plain
<1> QED
  BY <1>1, <1>2, <1>3, <1>4, <1>5, <1>6, <1>7, <1>8, <1>9, <1>10, <1>11, <1>12,
     <1>13, <1>14, <1>15, <1>16, <1>17 DEF Next

\* One more entry takes a pass away only when it is a failure of the same task.
LEMMA PassesAfter ==
  ASSUME NEW l \in Seq(Entry), NEW e \in Entry, NEW t \in Task
  PROVE  /\ t \in Passed(l) /\ e # GateEntry(t, FALSE) => t \in Passed(Append(l, e))
         /\ e = GateEntry(t, TRUE) => t \in Passed(Append(l, e))
<1>1. LastIs(Append(l, e), GateEntry(t, TRUE), GateEntry(t, FALSE)) <=>
        \/ e = GateEntry(t, TRUE)
        \/ LastIs(l, GateEntry(t, TRUE), GateEntry(t, FALSE)) /\ e # GateEntry(t, FALSE)
  BY AppendLast
<1> QED
  BY <1>1 DEF Passed

\* One more entry pauses at most the team it names, and a resumption ends the
\* pause of its team.
LEMMA PausedAfter ==
  ASSUME NEW l \in Seq(Entry), NEW e \in Entry, NEW m \in PausedTeams(Append(l, e))
  PROVE  m \in Team /\ (m \in PausedTeams(l) \/ e = TeamEntry("team_paused", m))
         /\ e # TeamEntry("team_resumed", m)
<1>1. m \in Team /\ LastIs(Append(l, e), TeamEntry("team_paused", m), TeamEntry("team_resumed", m))
  BY DEF PausedTeams
<1>2. TeamEntry("team_paused", m) # TeamEntry("team_resumed", m)
  BY DEF TeamEntry
<1> QED
  BY <1>1, <1>2, AppendLast DEF PausedTeams

\* What a restart takes for a pass has one in the log.
LEMMA RestoredPass ==
  ASSUME NEW l, NEW t \in Task, RestoredState(l, t) = "gate_pass"
  PROVE  t \in Passed(l)
BY DEF RestoredState

LEMMA EmptyPasses == \A t \in Task : RestoredState(<<>>, t) = "unknown"
BY EmptyLog DEF RestoredState

LEMMA PassStep ==
  ASSUME "io_error" \notin Env, TypeInv, PassIsLogged, [Next]_vars
  PROVE  PassIsLogged'
<1>1. log \in Seq(Entry) /\ state \in [Task -> Status \cup {"unknown"}]
  BY DEF TypeInv, TypeOK
<1> SUFFICES ASSUME NEW t \in Task, state'[t] = "gate_pass" PROVE t \in Passed(log')
  BY DEF PassIsLogged
<1>2. CASE Plain
  <2>1. t \in Passed(log)
    BY <1>2 DEF Plain, PassIsLogged
  <2>2. ASSUME NEW e \in Entry, log' = Append(log, e), ~IsGate(e) PROVE t \in Passed(log')
    BY <1>1, <2>1, <2>2, PassesAfter DEF IsGate
  <2> QED
    BY <1>2, <2>1, <2>2 DEF Plain
<1>3. CASE Resumed
  <2>1. PICK m \in Team : log' = Append(log, TeamEntry("team_resumed", m)) /\ state' = state
    BY <1>3 DEF Resumed
  <2>2. TeamEntry("team_resumed", m) \in Entry /\ TeamEntry("team_resumed", m) # GateEntry(t, FALSE)
    BY EntryTypes DEF TeamEntry, GateEntry
  <2> QED
    BY <1>1, <2>1, <2>2, PassesAfter DEF PassIsLogged
<1>4. CASE Gated
  <2>1. PICK u \in Task, p \in BOOLEAN :
          /\ log' = Append(log, GateEntry(u, p))
          /\ state' = [state EXCEPT ![u] = IF p THEN "gate_pass" ELSE "gate_fail"]
    BY <1>4 DEF Gated
  <2>2. GateEntry(u, p) \in Entry /\ (GateEntry(u, p) = GateEntry(t, FALSE) => u = t /\ p = FALSE)
    BY EntryTypes DEF GateEntry
  <2>3. CASE u = t
    <3>1. p = TRUE
      BY <1>1, <2>1, <2>3
    <3> QED
      BY <1>1, <2>1, <2>2, <2>3, <3>1, PassesAfter
  <2>4. CASE u # t
    <3>1. state[t] = "gate_pass"
      BY <1>1, <2>1, <2>4
    <3> QED
      BY <1>1, <2>1, <2>2, <2>4, <3>1, PassesAfter DEF PassIsLogged
  <2> QED
    BY <2>3, <2>4
<1>5. CASE Sent
  <2>1. PICK u \in Task, k \in Node :
          log' = Append(log, DispatchEntry(u, k)) /\ state' = [state EXCEPT ![u] = "dispatched"]
    BY <1>5 DEF Sent
  <2>2. DispatchEntry(u, k) \in Entry /\ DispatchEntry(u, k) # GateEntry(t, FALSE)
    BY EntryTypes DEF DispatchEntry, GateEntry
  <2>3. state[t] = "gate_pass"
    BY <1>1, <2>1
  <2> QED
    BY <1>1, <2>1, <2>2, <2>3, PassesAfter DEF PassIsLogged
<1>6. CASE Restored
  BY <1>6, RestoredPass, EmptyPasses DEF Restored
<1> QED
  BY <1>2, <1>3, <1>4, <1>5, <1>6, SoundKinds

\* Invariant I3 on top of I6: while no append fails, a task passed in memory has
\* a pass as its last gate result in the log, restarts and late reports included.
THEOREM PassesAreLogged == "io_error" \notin Env => (Spec => []PassIsLogged)
<1> SUFFICES ASSUME "io_error" \notin Env PROVE Spec => []PassIsLogged
  OBVIOUS
<1>1. Init => PassIsLogged
  BY DEF Init, PassIsLogged
<1>2. TypeInv /\ PassIsLogged /\ [Next]_vars => PassIsLogged'
  BY PassStep
<1> QED
  BY <1>1, <1>2, TypeCorrect, PTL DEF Spec

\* The dispatches of the log after one more: each old one stands behind what it
\* stood behind, and the new one behind the whole log.
LEMMA DispatchesAfter ==
  ASSUME TypeInv, NEW e \in Entry, log' = Append(log, e),
         NEW i \in DOMAIN log', NEW f, log'[i] = f
  PROVE  \/ i \in DOMAIN log /\ log[i] = f /\ Before(i)' = Before(i)
         \/ e = f /\ Before(i)' = log
<1>1. log \in Seq(Entry)
  BY DEF TypeInv, TypeOK
<1>2. Before(i)' = SubSeq(Append(log, e), 1, i - 1)
  BY DEF Before
<1>3. CASE i \in DOMAIN log
  BY <1>1, <1>2, <1>3, AppendFacts DEF Before
<1>4. CASE i = Len(log) + 1
  <2>1. i - 1 = Len(log)
    BY <1>1, <1>4
  <2> QED
    BY <1>1, <1>2, <1>4, <2>1, AppendFacts
<1> QED
  BY <1>1, <1>3, <1>4, AppendFacts

PauseInv == TypeInv /\ mirrored /\ PausesKnown /\ NoDispatchWhilePaused

LEMMA KnownStep ==
  ASSUME "io_error" \notin Env, PauseInv, [Next]_vars
  PROVE  PausesKnown'
<1>1. /\ log \in Seq(Entry) /\ mirrored
      /\ PausedTeams(log) \subseteq paused \cup repause /\ (pc # "boot" => repause = {})
      /\ TypeInv
  BY DEF PauseInv, TypeInv, TypeOK, PausesKnown
<1>2. CASE Plain
  <2>1. pc' # "boot" => repause' = {}
    BY <1>1, <1>2 DEF Plain
  <2>2. PausedTeams(log) \subseteq paused' \cup repause'
    BY <1>1, <1>2 DEF Plain
  <2>3. ASSUME NEW e \in Entry, log' = Append(log, e),
               \A m \in Team : e = TeamEntry("team_paused", m) => m \in paused'
        PROVE  PausedTeams(log') \subseteq paused' \cup repause'
    BY <1>1, <2>2, <2>3, PausedAfter
  <2> QED
    BY <1>2, <2>1, <2>2, <2>3 DEF Plain, PausesKnown
<1>3. CASE Resumed
  <2>1. PICK m \in Team :
          /\ log' = Append(log, TeamEntry("team_resumed", m))
          /\ paused' = paused \ {m} /\ pc' = pc /\ repause' = repause
    BY <1>3 DEF Resumed
  <2>2. TeamEntry("team_resumed", m) \in Entry
        /\ \A n : TeamEntry("team_resumed", m) # TeamEntry("team_paused", n)
    BY EntryTypes DEF TeamEntry
  <2>3. \A n \in PausedTeams(log') : n \in PausedTeams(log) /\ n # m
    BY <1>1, <2>1, <2>2, PausedAfter
  <2> QED
    BY <1>1, <2>1, <2>3 DEF PausesKnown
<1>4. ASSUME NEW e \in Entry, log' = Append(log, e), IsGate(e) \/ IsDispatch(e),
             UNCHANGED <<paused, repause>>, pc' # "boot" => pc # "boot"
      PROVE  PausesKnown'
  <2>1. \A m : e # TeamEntry("team_paused", m)
    BY <1>4 DEF IsGate, IsDispatch, GateEntry, DispatchEntry, TeamEntry
  <2>2. PausedTeams(log') \subseteq PausedTeams(log)
    BY <1>1, <1>4, <2>1, PausedAfter
  <2> QED
    BY <1>1, <1>4, <2>2 DEF PausesKnown
<1>5. CASE Gated
  BY <1>4, <1>5, EntryTypes DEF Gated, IsGate
<1>6. CASE Sent
  BY <1>4, <1>6, EntryTypes DEF Sent, IsDispatch
<1>7. CASE Restored
  BY <1>1, <1>7 DEF Restored, PausesKnown
<1> QED
  BY <1>1, <1>2, <1>3, <1>5, <1>6, <1>7, SoundKinds

LEMMA PauseStep ==
  ASSUME "io_error" \notin Env, PauseInv, [Next]_vars
  PROVE  NoDispatchWhilePaused'
<1>1. TypeInv /\ NoDispatchWhilePaused /\ PausesKnown
  BY DEF PauseInv
<1>2. CASE UNCHANGED log
  BY <1>1, <1>2 DEF NoDispatchWhilePaused, Before
<1>3. ASSUME NEW e \in Entry, log' = Append(log, e),
             \A t \in Task, k \in Node :
               e = DispatchEntry(t, k) => TeamOf[k] \notin PausedTeams(log)
      PROVE  NoDispatchWhilePaused'
  <2> SUFFICES ASSUME NEW i \in DOMAIN log', NEW t \in Task, NEW k \in Node,
                      log'[i] = DispatchEntry(t, k)
               PROVE  TeamOf[k] \notin PausedTeams(Before(i)')
    BY DEF NoDispatchWhilePaused, Before
  <2> QED
    BY <1>1, <1>3, DispatchesAfter DEF NoDispatchWhilePaused
<1>4. CASE Plain
  BY <1>2, <1>3, <1>4 DEF Plain, IsDispatch
<1>5. CASE Resumed \/ Gated
  BY <1>3, <1>5, EntryTypes
  DEF Resumed, Gated, TeamEntry, GateEntry, DispatchEntry
<1>6. CASE Sent
  <2>1. PICK t \in Task, k \in Node :
          log' = Append(log, DispatchEntry(t, k)) /\ TeamOf[k] \notin paused /\ pc # "boot"
    BY <1>6 DEF Sent
  <2>2. TeamOf[k] \notin PausedTeams(log)
    BY <1>1, <2>1 DEF PausesKnown
  <2>3. \A u \in Task, j \in Node : DispatchEntry(t, k) = DispatchEntry(u, j) => j = k
    BY DEF DispatchEntry
  <2> QED
    BY <1>3, <2>1, <2>2, <2>3, EntryTypes
<1>7. CASE Restored
  BY <1>2, <1>7 DEF Restored
<1> QED
  BY <1>1, <1>4, <1>5, <1>6, <1>7, SoundKinds

\* pause_team: while no append fails, a pause in the log holds until the
\* resumption, through dispatches, waves, reclaims and restarts.
THEOREM PausesHold == "io_error" \notin Env => (Spec => []NoDispatchWhilePaused)
<1> SUFFICES ASSUME "io_error" \notin Env PROVE Spec => []NoDispatchWhilePaused
  OBVIOUS
<1>1. Init => mirrored /\ PausesKnown /\ NoDispatchWhilePaused
  BY DEF Init, PausesKnown, NoDispatchWhilePaused, PausedTeams, LastIs
<1>2. PauseInv /\ [Next]_vars => mirrored' /\ PausesKnown' /\ NoDispatchWhilePaused'
  BY KnownStep, PauseStep, SoundKinds DEF PauseInv
<1> QED
  BY <1>1, <1>2, TypeCorrect, PTL DEF Spec, PauseInv

\* A node whose dependencies all have a pass in the log l
GatedIn(l, k) ==
  \A d \in DependsOn[k] : \E u \in DispatchedTo(l, d) : Logged(l, GateEntry(u, TRUE))

WaveGated == \A k \in wave : GatedIn(log, k)

\* What a shorter log gates, the log does.
LEMMA GatedStays ==
  /\ \A k : \A i \in DOMAIN log : log \in Seq(Entry) /\ GatedIn(Before(i), k) => GatedIn(log, k)
  /\ TypeInv /\ [Next]_vars => \A k : GatedIn(log, k) => GatedIn(log', k)
<1>1. ASSUME log \in Seq(Entry), NEW i \in DOMAIN log, NEW k, GatedIn(Before(i), k)
      PROVE  GatedIn(log, k)
  <2>1. \A j \in DOMAIN Before(i) : j \in DOMAIN log /\ Before(i)[j] = log[j]
    BY <1>1 DEF Before
  <2>2. \A f : Logged(Before(i), f) => Logged(log, f)
    BY <2>1 DEF Logged
  <2> QED
    BY <1>1, <2>2 DEF GatedIn, DispatchedTo
<1>2. ASSUME TypeInv, [Next]_vars, NEW k, GatedIn(log, k) PROVE GatedIn(log', k)
  <2>1. \A f : Logged(log, f) => Logged(log', f)
    BY <1>2, LoggedStays
  <2> QED
    BY <1>2, <2>1 DEF GatedIn, DispatchedTo
<1> QED
  BY <1>1, <1>2

\* A ready node is gated: the records that satisfy its dependencies are logged.
LEMMA ReadyGated ==
  ASSUME OwnerInv, PassIsLogged, NEW k \in Node, Ready(k)
  PROVE  GatedIn(log, k)
<1> SUFFICES ASSUME NEW d \in DependsOn[k]
             PROVE  \E u \in DispatchedTo(log, d) : Logged(log, GateEntry(u, TRUE))
  BY DEF GatedIn
<1>1. PICK t \in Task : state[t] = "gate_pass" /\ nodeOf[t] = d
  BY DEF Ready, Satisfied
<1>2. t \in DispatchedTo(log, d)
  BY <1>1 DEF OwnerInv, RecordsLogged
<1>3. Logged(log, GateEntry(t, TRUE))
  BY <1>1 DEF PassIsLogged, Passed, LastIs, Logged
<1> QED
  BY <1>2, <1>3

LEMMA WaveStepGated ==
  ASSUME "io_error" \notin Env, OwnerInv, PassIsLogged, WaveGated, [Next]_vars
  PROVE  WaveGated'
<1>1. TypeInv /\ wave \subseteq Node
  BY DEF OwnerInv, TypeInv, TypeOK
<1>2. \/ wave' \subseteq wave
      \/ wave' \subseteq {k \in Node : Ready(k)}
  BY <1>1, SoundKinds DEF Plain, Resumed, Gated, Sent, Restored
<1>3. \A k \in wave' : GatedIn(log, k)
  BY <1>2, ReadyGated DEF WaveGated
<1> QED
  BY <1>1, <1>3, GatedStays DEF WaveGated

LEMMA DependenciesStep ==
  ASSUME "io_error" \notin Env, "direct" \notin Env,
         OwnerInv, WaveGated, DependenciesGatedFirst, [Next]_vars
  PROVE  DependenciesGatedFirst'
<1>1. TypeInv /\ log \in Seq(Entry)
  BY DEF OwnerInv, TypeInv, TypeOK
<1>2. CASE UNCHANGED log
  BY <1>2 DEF DependenciesGatedFirst, Before
<1>3. ASSUME NEW e \in Entry, log' = Append(log, e),
             \A t \in Task, k \in Node : e = DispatchEntry(t, k) => GatedIn(log, k)
      PROVE  DependenciesGatedFirst'
  <2> SUFFICES ASSUME NEW i \in DOMAIN log', NEW t \in Task, NEW k \in Node,
                      log'[i] = DispatchEntry(t, k)
               PROVE  GatedIn(Before(i)', k)
    BY DEF DependenciesGatedFirst, Before, GatedIn
  <2>1. CASE i \in DOMAIN log /\ log[i] = DispatchEntry(t, k) /\ Before(i)' = Before(i)
    BY <2>1 DEF DependenciesGatedFirst, GatedIn
  <2>2. CASE e = DispatchEntry(t, k) /\ Before(i)' = log
    BY <1>3, <2>2
  <2> QED
    BY <1>1, <1>3, <2>1, <2>2, DispatchesAfter
<1>4. CASE Plain
  BY <1>2, <1>3, <1>4 DEF Plain, IsDispatch
<1>5. CASE Resumed \/ Gated
  BY <1>3, <1>5, EntryTypes
  DEF Resumed, Gated, TeamEntry, GateEntry, DispatchEntry
<1>6. CASE Sent
  <2>1. PICK t \in Task, k \in Node :
          /\ log' = Append(log, DispatchEntry(t, k))
          /\ "direct" \in Env \/ k \in wave \/ (pc = "reclaim" /\ k = nodeOf[redo])
    BY <1>6 DEF Sent
  <2>2. ASSUME pc = "reclaim", k = nodeOf[redo] PROVE GatedIn(log, k)
    <3>1. redo \in Task /\ redo \in DispatchedTo(log, k)
      BY <2>2 DEF OwnerInv, TypeInv, CallSound, RecordsLogged
    <3>2. PICK i \in DOMAIN log : log[i] = DispatchEntry(redo, k)
      BY <3>1 DEF DispatchedTo, Logged
    <3>3. GatedIn(Before(i), k)
      BY <3>1, <3>2 DEF DependenciesGatedFirst, GatedIn
    <3> QED
      BY <1>1, <3>3, GatedStays
  <2>3. GatedIn(log, k)
    BY <2>1, <2>2 DEF WaveGated
  <2>4. \A u \in Task, j \in Node : DispatchEntry(t, k) = DispatchEntry(u, j) => j = k
    BY DEF DispatchEntry
  <2> QED
    BY <1>3, <2>1, <2>3, <2>4, EntryTypes
<1>7. CASE Restored
  BY <1>2, <1>7 DEF Restored
<1> QED
  BY <1>1, <1>4, <1>5, <1>6, <1>7, SoundKinds

\* dispatch_graph: while no append fails and nodes are dispatched by graphs only,
\* every dispatch, and every dispatch again by a reclaim, follows a pass of each
\* node it depends on.
THEOREM DependenciesFirst ==
  "io_error" \notin Env /\ "direct" \notin Env => (Spec => []DependenciesGatedFirst)
<1> SUFFICES ASSUME "io_error" \notin Env, "direct" \notin Env
             PROVE  Spec => []DependenciesGatedFirst
  OBVIOUS
<1>1. Init => WaveGated /\ DependenciesGatedFirst
  BY DEF Init, WaveGated, DependenciesGatedFirst
<1>2. OwnerInv /\ PassIsLogged /\ WaveGated /\ DependenciesGatedFirst /\ [Next]_vars =>
        WaveGated' /\ DependenciesGatedFirst'
  BY WaveStepGated, DependenciesStep
<1>3. Spec => []PassIsLogged
  BY PassesAreLogged
<1> QED
  BY <1>1, <1>2, <1>3, OwnerInvHolds, PTL DEF Spec

-----------------------------------------------------------------------------
(* Passed owners.                                                          *)

\* Gate results are logged for logged tasks only
GatesDispatched ==
  \A t \in Task, p \in BOOLEAN : Logged(log, GateEntry(t, p)) => t \in Dispatched(log)

\* A task that the log shows passed and not reclaimed is passed in memory
PassesRemembered ==
  \A t \in Dispatched(log) \cap Passed(log) : t \in Reclaimed(log) \/ state[t] = "gate_pass"

KeptInv ==
  /\ OwnerInv /\ mirrored
  /\ GatesDispatched /\ PassesRemembered /\ PassedOwnerKept

LEMMA PassedIsLogged ==
  ASSUME NEW l, NEW t \in Passed(l)
  PROVE  t \in Task /\ Logged(l, GateEntry(t, TRUE))
BY DEF Passed, LastIs, Logged

LEMMA GatesStep ==
  ASSUME "io_error" \notin Env, OwnerInv, GatesDispatched, [Next]_vars
  PROVE  GatesDispatched'
<1>1. TypeInv /\ log \in Seq(Entry)
  BY DEF OwnerInv, TypeInv, TypeOK
<1>2. Dispatched(log) \subseteq Dispatched(log')
  BY <1>1, LoggedStays DEF Dispatched, DispatchedTo
<1>3. CASE UNCHANGED log
  BY <1>3 DEF GatesDispatched, Logged, Dispatched, DispatchedTo
<1>4. ASSUME NEW e \in Entry, log' = Append(log, e),
             \A t \in Task, p \in BOOLEAN : e = GateEntry(t, p) => t \in Dispatched(log)
      PROVE  GatesDispatched'
  <2>1. \A t \in Task, p \in BOOLEAN :
          Logged(log', GateEntry(t, p)) => Logged(log, GateEntry(t, p)) \/ GateEntry(t, p) = e
    BY <1>1, <1>4, AppendLogged
  <2> QED
    BY <1>2, <1>4, <2>1 DEF GatesDispatched
<1>5. CASE Plain
  BY <1>3, <1>4, <1>5 DEF Plain, IsGate
<1>6. CASE Resumed
  BY <1>4, <1>6, EntryTypes DEF Resumed, TeamEntry, GateEntry
<1>7. CASE Gated
  <2>1. PICK t \in Task, p \in BOOLEAN : log' = Append(log, GateEntry(t, p)) /\ state[t] # "unknown"
    BY <1>7 DEF Gated
  <2>2. t \in Dispatched(log)
    BY <1>1, <2>1 DEF OwnerInv, RecordsLogged, TypeInv, CallSound, Dispatched
  <2>3. \A u, q : GateEntry(t, p) = GateEntry(u, q) => u = t
    BY DEF GateEntry
  <2> QED
    BY <1>4, <2>1, <2>2, <2>3, EntryTypes
<1>8. CASE Sent
  BY <1>4, <1>8, EntryTypes DEF Sent, DispatchEntry, GateEntry
<1>9. CASE Restored
  BY <1>3, <1>9 DEF Restored
<1> QED
  BY <1>1, <1>5, <1>6, <1>7, <1>8, <1>9, SoundKinds

\* An entry that is no gate result leaves the passes as they were.
LEMMA SamePasses ==
  ASSUME NEW l \in Seq(Entry), NEW e \in Entry, ~IsGate(e)
  PROVE  Passed(Append(l, e)) = Passed(l)
<1>1. ASSUME NEW t \in Task
      PROVE  t \in Passed(Append(l, e)) <=> t \in Passed(l)
  <2>1. LastIs(Append(l, e), GateEntry(t, TRUE), GateEntry(t, FALSE)) <=>
          \/ e = GateEntry(t, TRUE)
          \/ LastIs(l, GateEntry(t, TRUE), GateEntry(t, FALSE)) /\ e # GateEntry(t, FALSE)
    BY AppendLast
  <2> QED
    BY <2>1 DEF Passed, IsGate
<1> QED
  BY <1>1 DEF Passed

LEMMA RememberedStep ==
  ASSUME "io_error" \notin Env, "lead" \notin Env, KeptInv, [Next]_vars
  PROVE  PassesRemembered'
<1>1. /\ TypeInv /\ log \in Seq(Entry) /\ mirrored
      /\ state \in [Task -> Status \cup {"unknown"}]
      /\ OwnerInv /\ GatesDispatched /\ PassesRemembered
  BY DEF KeptInv, OwnerInv, TypeInv, TypeOK
<1>2. Reclaimed(log) \subseteq Reclaimed(log')
  BY <1>1, LoggedStays DEF Reclaimed
<1> SUFFICES ASSUME NEW t \in Task, t \in Dispatched(log'), t \in Passed(log'),
                    t \notin Reclaimed(log')
             PROVE  state'[t] = "gate_pass"
  BY DEF PassesRemembered, Passed
<1>3. ASSUME t \in Passed(log) PROVE state[t] = "gate_pass"
  <2>1. t \in Dispatched(log)
    BY <1>1, <1>3, PassedIsLogged DEF GatesDispatched
  <2> QED
    BY <1>1, <1>2, <1>3, <2>1 DEF PassesRemembered
<1>4. ASSUME UNCHANGED log \/ \E e \in Entry : log' = Append(log, e) /\ ~IsGate(e)
      PROVE  state[t] = "gate_pass"
  BY <1>1, <1>3, <1>4, SamePasses
<1>5. CASE Plain
  BY <1>4, <1>5 DEF Plain
<1>6. CASE Resumed
  <2>1. \A m : ~IsGate(TeamEntry("team_resumed", m))
    BY DEF IsGate, GateEntry, TeamEntry
  <2> QED
    BY <1>4, <1>6, <2>1, EntryTypes DEF Resumed
<1>7. CASE Gated
  <2>1. PICK u \in Task, p \in BOOLEAN :
          /\ log' = Append(log, GateEntry(u, p))
          /\ state' = [state EXCEPT ![u] = IF p THEN "gate_pass" ELSE "gate_fail"]
    BY <1>7 DEF Gated
  <2>2. /\ GateEntry(u, p) \in Entry
        /\ GateEntry(u, p) = GateEntry(t, TRUE) <=> u = t /\ p = TRUE
        /\ GateEntry(u, p) = GateEntry(t, FALSE) <=> u = t /\ p = FALSE
    BY EntryTypes DEF GateEntry
  <2>3. LastIs(log', GateEntry(t, TRUE), GateEntry(t, FALSE))
    BY DEF Passed
  <2>4. \/ GateEntry(u, p) = GateEntry(t, TRUE)
        \/ /\ LastIs(log, GateEntry(t, TRUE), GateEntry(t, FALSE))
           /\ GateEntry(u, p) # GateEntry(t, FALSE)
    <3>1. LastIs(Append(log, GateEntry(u, p)), GateEntry(t, TRUE), GateEntry(t, FALSE)) <=>
            \/ GateEntry(u, p) = GateEntry(t, TRUE)
            \/ /\ LastIs(log, GateEntry(t, TRUE), GateEntry(t, FALSE))
               /\ GateEntry(u, p) # GateEntry(t, FALSE)
      BY <1>1, <2>2, AppendLast
    <3> QED
      BY <2>1, <2>3, <3>1
  <2>5. CASE u = t /\ p = TRUE
    BY <1>1, <2>1, <2>5
  <2>6. CASE t \in Passed(log) /\ u # t
    BY <1>1, <1>3, <2>1, <2>6
  <2> QED
    BY <2>2, <2>4, <2>5, <2>6 DEF Passed
<1>8. CASE Sent
  <2>1. PICK u \in Task, k \in Node :
          log' = Append(log, DispatchEntry(u, k)) /\ Fresh(u)
          /\ state' = [state EXCEPT ![u] = "dispatched"]
    BY <1>8 DEF Sent
  <2>2. DispatchEntry(u, k) \in Entry /\ ~IsGate(DispatchEntry(u, k))
    BY EntryTypes DEF IsGate, DispatchEntry, GateEntry
  <2>3. state[t] = "gate_pass" /\ state[u] = "unknown"
    BY <1>4, <2>1, <2>2 DEF Fresh
  <2> QED
    BY <1>1, <2>1, <2>3
<1>9. CASE Restored
  <2>1. log' = log /\ state' = [u \in Task |-> RestoredState(log, u)]
    BY <1>1, <1>9 DEF Restored
  <2> QED
    BY <2>1 DEF RestoredState
<1> QED
  BY <1>1, <1>5, <1>6, <1>7, <1>8, <1>9, SoundKinds

LEMMA KeptStep ==
  ASSUME "io_error" \notin Env, KeptInv, [Next]_vars
  PROVE  PassedOwnerKept'
<1>1. /\ TypeInv /\ log \in Seq(Entry)
      /\ PassesRemembered /\ PassedOwnerKept
  BY DEF KeptInv, OwnerInv, TypeInv, TypeOK
<1>2. CASE UNCHANGED log
  <2>1. \A i : Before(i)' = Before(i)
    BY <1>2 DEF Before
  <2> SUFFICES ASSUME NEW i \in DOMAIN log', NEW t \in Passed(Before(i)'), NEW k \in Node,
                      log'[i] = ReclaimEntry(t)
               PROVE  ~LastClaim(Before(i)', k, t)
    BY DEF PassedOwnerKept, Before
  <2> QED
    BY <1>1, <1>2, <2>1 DEF PassedOwnerKept
<1>3. ASSUME NEW e \in Entry, log' = Append(log, e),
             \A t \in Task : e = ReclaimEntry(t) => state[t] # "gate_pass"
      PROVE  PassedOwnerKept'
  <2> SUFFICES ASSUME NEW i \in DOMAIN log', NEW t \in Task, NEW k \in Node,
                      log'[i] = ReclaimEntry(t),
                      t \in Passed(Before(i)'), LastClaim(Before(i)', k, t)
               PROVE  FALSE
    BY DEF PassedOwnerKept, Before, Passed
  <2>1. CASE i \in DOMAIN log /\ log[i] = ReclaimEntry(t) /\ Before(i)' = Before(i)
    BY <1>1, <2>1 DEF PassedOwnerKept
  <2>2. CASE e = ReclaimEntry(t) /\ Before(i)' = log
    <3>1. t \in Dispatched(log) /\ t \notin Reclaimed(log)
      BY <2>2 DEF LastClaim, Dispatched, DispatchedTo, Logged
    <3> QED
      BY <1>1, <1>3, <2>2, <3>1 DEF PassesRemembered
  <2> QED
    BY <1>1, <1>3, <2>1, <2>2, DispatchesAfter
<1>4. CASE Plain
  BY <1>2, <1>3, <1>4 DEF Plain
<1>5. CASE Resumed \/ Gated \/ Sent
  <2>1. /\ \A m, t : TeamEntry("team_resumed", m) # ReclaimEntry(t)
        /\ \A u, p, t : GateEntry(u, p) # ReclaimEntry(t)
        /\ \A u, k, t : DispatchEntry(u, k) # ReclaimEntry(t)
    BY DEF ReclaimEntry, TaskEntry, TeamEntry, GateEntry, DispatchEntry
  <2> QED
    BY <1>3, <1>5, <2>1, EntryTypes DEF Resumed, Gated, Sent
<1>6. CASE Restored
  BY <1>2, <1>6 DEF Restored
<1> QED
  BY <1>1, <1>4, <1>5, <1>6, SoundKinds

\* reclaim, "already passed its gate; nothing to reclaim": while no append fails
\* and leads do not report over a result, the log never shows a reclaim of an
\* owner whose last gate result is a pass, whichever process logged it.
THEOREM PassedOwnersKept ==
  "io_error" \notin Env /\ "lead" \notin Env => (Spec => []PassedOwnerKept)
<1> SUFFICES ASSUME "io_error" \notin Env, "lead" \notin Env
             PROVE  Spec => []PassedOwnerKept
  OBVIOUS
<1>1. Init => mirrored /\ GatesDispatched /\ PassesRemembered /\ PassedOwnerKept
  BY EmptyLog DEF Init, GatesDispatched, PassesRemembered, PassedOwnerKept, Logged
<1>2. KeptInv /\ [Next]_vars => mirrored' /\ GatesDispatched' /\ PassesRemembered' /\ PassedOwnerKept'
  BY GatesStep, RememberedStep, KeptStep, SoundKinds DEF KeptInv, OwnerInv
<1> QED
  BY <1>1, <1>2, OwnerInvHolds, PTL DEF Spec, KeptInv

-----------------------------------------------------------------------------
(* Deadlines.                                                              *)

\* A task this process dispatched and has heard nothing of has a deadline
Waiting == \A t \in signed : nextUpdateBy[t] = "none" => ackDeadline[t]

LEMMA WaitingStep ==
  ASSUME "keep_keys" \notin Env, TypeInv, Waiting, [Next]_vars
  PROVE  Waiting'
<1> USE DEF call, records, tokens, deadlines, disk
<1>t. TypeOK
  BY DEF TypeInv
<1>1. ASSUME UNCHANGED <<signed, ackDeadline, nextUpdateBy>> PROVE Waiting'
  BY <1>1 DEF Waiting
<1>2. ASSUME NEW k, NEW t \in Task, Enqueue(k, t), UNCHANGED nextUpdateBy PROVE Waiting'
  BY <1>t, <1>2 DEF Enqueue, Waiting, TypeOK
<1>3. ASSUME NEW k, NEW t, EnqueueFails(k, t) PROVE UNCHANGED <<signed, ackDeadline, nextUpdateBy>>
  BY <1>3 DEF EnqueueFails
<1>4. ASSUME NEW m \in Team, PauseTeam(m) \/ ResumeTeam(m) \/ BootPause(m) PROVE Waiting'
  BY <1>1, <1>4 DEF PauseTeam, ResumeTeam, BootPause
<1>5. ASSUME NEW k \in Node, Dispatch(k) PROVE Waiting'
  BY <1>1, <1>2, <1>3, <1>5 DEF Dispatch
<1>6. ASSUME NEW k \in Node, WaveStep(k) PROVE Waiting'
  BY <1>1, <1>2, <1>3, <1>6 DEF WaveStep, WaveSkip, WaveEnqueue, WaveAbort
<1>7. ASSUME NEW g \in Graph, DispatchGraph(g) PROVE Waiting'
  BY <1>1, <1>7 DEF DispatchGraph
<1>8. ASSUME WaveEnd \/ RecordDecision \/ BootOpen \/ UNCHANGED vars PROVE Waiting'
  BY <1>1, <1>8 DEF WaveEnd, RecordDecision, BootOpen, vars
<1>9. ASSUME ReclaimDispatch PROVE Waiting'
  BY <1>1, <1>2, <1>3, <1>9 DEF ReclaimDispatch
<1>10. ASSUME NEW t \in Task, Reclaim(t) \/ Deliver(t) \/ AckSloElapses(t) PROVE Waiting'
  BY <1>1, <1>10 DEF Reclaim, Deliver, AckSloElapses
<1>11. ASSUME NEW t \in Task, PromisePasses(t) PROVE Waiting'
  BY <1>t, <1>11 DEF PromisePasses, Waiting, TypeOK
<1>12. ASSUME NEW t \in Task, NEW r \in Report, IngestStatus(t, r) PROVE Waiting'
  BY <1>t, <1>12 DEF IngestStatus, Waiting, TypeOK
<1>13. ASSUME NEW t \in Task, NEW p \in BOOLEAN, AcceptGate(t, p) PROVE Waiting'
  BY <1>1, <1>13 DEF AcceptGate
<1>14. ASSUME ColdStart \/ ColdStartRefused PROVE Waiting'
  BY <1>14 DEF ColdStart, ColdStartRefused, Forget, Waiting
<1> QED
  BY <1>4, <1>5, <1>6, <1>7, <1>8, <1>9, <1>10, <1>11, <1>12, <1>13, <1>14 DEF Next

\* stuck_tasks: unless a cold start is handed old keys, a task this process
\* dispatched and has heard nothing of is reported once the ack SLO has passed,
\* whatever appends fail.
THEOREM SilenceIsStuck == "keep_keys" \notin Env => (Spec => []UnacknowledgedIsStuck)
<1> SUFFICES ASSUME "keep_keys" \notin Env PROVE Spec => []UnacknowledgedIsStuck
  OBVIOUS
<1>1. Init => Waiting
  BY DEF Init, Waiting
<1>2. TypeInv /\ Waiting /\ [Next]_vars => Waiting'
  BY WaitingStep
<1>3. Waiting => UnacknowledgedIsStuck
  BY DEF Waiting, UnacknowledgedIsStuck, Stuck
<1> QED
  BY <1>1, <1>2, <1>3, TypeCorrect, PTL DEF Spec

-----------------------------------------------------------------------------
(* Claims: the owner in memory, and the only one in the log.               *)

\* Each task is dispatched once
DispatchedOnce ==
  \A i, j \in DOMAIN log : \A t \in Task : \A k \in Node :
    log[i] = DispatchEntry(t, k) /\ log[j] = DispatchEntry(t, k) => i = j

ReclaimsDispatched == Reclaimed(log) \subseteq Dispatched(log)

ClaimInv == OwnerInv /\ DispatchedOnce /\ ReclaimsDispatched

\* A node without an owner in memory has no claim in the log, and no node has two
OneClaim ==
  mirrored /\ ~ReclaimedTwice =>
    /\ \A k \in Node : byNode[k] = None => Claims(log, k) = {}
    /\ ReplayShowsOneOwner

\* Only reclaim logs a reclaim; with the mirror intact its task has a record, and
\* its node has lost its owner unless the graph given had no such node.
LEMMA ReclaimAppends ==
  ASSUME TypeInv, [Next]_vars, NEW t \in Task, log' = Append(log, ReclaimEntry(t))
  PROVE  /\ state[t] # "unknown"
         /\ mirrored' => byNode'[nodeOf[t]] = None \/ "replan" \in Env
<1> USE DEF call, records, tokens, deadlines, disk
<1>t. /\ TypeOK /\ CallSound /\ log \in Seq(Entry) /\ byNode \in [Node -> Task \cup {None}]
      /\ ReclaimEntry(t) \in Entry
  BY EntryTypes DEF TypeInv, TypeOK, ReclaimEntry
<1>a. log' # log /\ \A e \in Entry : log' = Append(log, e) => e = ReclaimEntry(t)
  <2>1. /\ Len(Append(log, ReclaimEntry(t))) # Len(log)
        /\ \A e \in Entry : Append(log, e)[Len(log) + 1] = e
    BY <1>t
  <2> QED
    BY <1>t, <2>1
<1>b. /\ \A m, e : TeamEntry(e, m) # ReclaimEntry(t)
      /\ \A u, p : GateEntry(u, p) # ReclaimEntry(t)
      /\ \A u, k : DispatchEntry(u, k) # ReclaimEntry(t)
      /\ \A e : PlainEntry(e) # ReclaimEntry(t)
      /\ \A e, u : TaskEntry(e, u) = ReclaimEntry(t) => e = "reclaim" /\ u = t
  BY DEF ReclaimEntry, TaskEntry, TeamEntry, GateEntry, DispatchEntry, PlainEntry
<1>c. ASSUME NEW e \in Entry, Attempt(e) \/ Write(e) \/ WriteFails(e) PROVE e = ReclaimEntry(t)
  BY <1>a, <1>c DEF Attempt, Write, WriteFails
<1>1. \A m \in Team : ~PauseTeam(m) /\ ~ResumeTeam(m) /\ ~BootPause(m)
  BY <1>b, <1>c, EntryTypes DEF PauseTeam, ResumeTeam, BootPause
<1>2. \A k \in Node, u \in Task : ~Enqueue(k, u) /\ ~EnqueueFails(k, u)
  BY <1>b, <1>c, EntryTypes DEF Enqueue, EnqueueFails
<1>3. \A k \in Node : ~Dispatch(k) /\ ~WaveStep(k)
  BY <1>a, <1>2 DEF Dispatch, WaveStep, WaveSkip, WaveEnqueue, WaveAbort
<1>4. \A g \in Graph : ~DispatchGraph(g)
  BY <1>a DEF DispatchGraph
<1>5. ~WaveEnd /\ ~ColdStart /\ ~ColdStartRefused /\ ~(UNCHANGED vars)
  BY <1>a DEF WaveEnd, ColdStart, ColdStartRefused, vars
<1>6. ~RecordDecision /\ ~BootOpen
  BY <1>b, <1>c, EntryTypes DEF RecordDecision, BootOpen
<1>7. ~ReclaimDispatch
  <2> SUFFICES ASSUME ReclaimDispatch PROVE FALSE
    OBVIOUS
  <2>1. nodeOf[redo] \in Node
    BY ReclaimPending DEF ReclaimDispatch
  <2> QED
    BY <1>a, <1>2, <2>1 DEF ReclaimDispatch
<1>8. \A u \in Task : ~Deliver(u) /\ ~AckSloElapses(u) /\ ~PromisePasses(u)
  BY <1>a, <1>b, <1>c, EntryTypes DEF Deliver, AckSloElapses, PromisePasses
<1>9. \A u \in Task : \A r \in Report : ~IngestStatus(u, r)
  BY <1>b, <1>c, EntryTypes DEF IngestStatus
<1>10. \A u \in Task : \A p \in BOOLEAN : ~AcceptGate(u, p)
  BY <1>b, <1>c, EntryTypes DEF AcceptGate
<1>11. PICK u \in Task : Reclaim(u)
  BY <1>1, <1>3, <1>4, <1>5, <1>6, <1>7, <1>8, <1>9, <1>10 DEF Next
<1>12. Write(ReclaimEntry(u)) \/ WriteFails(ReclaimEntry(u))
  BY <1>11 DEF Reclaim
<1>13. u = t
  BY <1>b, <1>c, <1>12, EntryTypes DEF ReclaimEntry
<1>14. state[t] # "unknown" /\ nodeOf[t] \in Node
  BY <1>t, <1>11, <1>13 DEF Reclaim, Reclaimable, CallSound
<1>15. mirrored' => byNode'[nodeOf[t]] = None \/ "replan" \in Env
  <2>1. CASE WriteFails(ReclaimEntry(t))
    BY <1>a, <2>1 DEF WriteFails
  <2>2. CASE ReclaimRaises(nodeOf[t]) /\ UNCHANGED byNode
    BY <2>2 DEF ReclaimRaises
  <2>3. CASE Release(nodeOf[t])
    BY <1>t, <1>14, <2>3 DEF Release
  <2> QED
    BY <1>11, <1>13, <2>1, <2>2, <2>3 DEF Reclaim
<1> QED
  BY <1>14, <1>15

LEMMA DispatchedOnceStep ==
  ASSUME ClaimInv, [Next]_vars
  PROVE  DispatchedOnce'
<1>1. TypeInv /\ log \in Seq(Entry) /\ DispatchedOnce
  BY DEF ClaimInv, OwnerInv, TypeInv, TypeOK
<1>2. CASE UNCHANGED log
  BY <1>1, <1>2 DEF DispatchedOnce
<1>3. ASSUME NEW e \in Entry, log' = Append(log, e),
             \A t \in Task, k \in Node : e = DispatchEntry(t, k) => t \notin Dispatched(log)
      PROVE  DispatchedOnce'
  <2> SUFFICES ASSUME NEW i \in DOMAIN log', NEW j \in DOMAIN log', NEW t \in Task, NEW k \in Node,
                      log'[i] = DispatchEntry(t, k), log'[j] = DispatchEntry(t, k)
               PROVE  i = j
    BY DEF DispatchedOnce
  <2>1. \A n \in DOMAIN log' : log'[n] = DispatchEntry(t, k) =>
          \/ n \in DOMAIN log /\ log[n] = DispatchEntry(t, k)
          \/ n = Len(log) + 1 /\ e = DispatchEntry(t, k)
    BY <1>1, <1>3, AppendFacts
  <2>2. CASE e = DispatchEntry(t, k)
    <3>1. \A n \in DOMAIN log : log[n] # DispatchEntry(t, k)
      BY <1>3, <2>2 DEF Dispatched, DispatchedTo, Logged
    <3> QED
      BY <2>1, <3>1
  <2>3. CASE e # DispatchEntry(t, k)
    BY <1>1, <2>1, <2>3 DEF DispatchedOnce
  <2> QED
    BY <2>2, <2>3
<1>4. CASE Quiet
  BY <1>2, <1>3, <1>4 DEF Quiet, IsDispatch
<1>5. ASSUME NEW t \in Task, NEW k \in Node, Fresh(t), log' = Append(log, DispatchEntry(t, k))
      PROVE  DispatchedOnce'
  <2>1. \A u, j : DispatchEntry(t, k) = DispatchEntry(u, j) => u = t
    BY DEF DispatchEntry
  <2> QED
    BY <1>3, <1>5, <2>1, EntryTypes DEF Fresh
<1>6. CASE Claimed
  BY <1>5, <1>6 DEF Claimed, Enqueue, Write
<1>7. CASE Lost
  BY <1>2, <1>5, <1>7 DEF Lost, disk
<1>8. CASE Released
  BY <1>3, <1>8, EntryTypes DEF Released, Write, ReclaimEntry, TaskEntry, DispatchEntry
<1>9. CASE Rebuilt
  BY <1>2, <1>9 DEF Rebuilt, disk
<1> QED
  BY <1>1, <1>4, <1>6, <1>7, <1>8, <1>9, StepKinds

LEMMA ReclaimsStep ==
  ASSUME ClaimInv, [Next]_vars
  PROVE  ReclaimsDispatched'
<1>1. TypeInv /\ log \in Seq(Entry) /\ ReclaimsDispatched
  BY DEF ClaimInv, OwnerInv, TypeInv, TypeOK
<1>2. Dispatched(log) \subseteq Dispatched(log')
  BY <1>1, LoggedStays DEF Dispatched, DispatchedTo
<1>3. CASE UNCHANGED log
  BY <1>1, <1>2, <1>3 DEF ReclaimsDispatched
<1>4. ASSUME NEW e \in Entry, log' = Append(log, e) PROVE ReclaimsDispatched'
  <2> SUFFICES ASSUME NEW t \in Task, Logged(log', ReclaimEntry(t)) PROVE t \in Dispatched(log')
    BY DEF ReclaimsDispatched, Reclaimed
  <2>1. Logged(log, ReclaimEntry(t)) \/ ReclaimEntry(t) = e
    BY <1>1, <1>4, AppendLogged
  <2>2. CASE Logged(log, ReclaimEntry(t))
    BY <1>1, <1>2, <2>2 DEF ReclaimsDispatched, Reclaimed
  <2>3. CASE ReclaimEntry(t) = e
    <3>1. state[t] # "unknown"
      BY <1>1, <1>4, <2>3, ReclaimAppends
    <3>2. t \in Dispatched(log)
      BY <1>1, <3>1 DEF ClaimInv, OwnerInv, RecordsLogged, TypeInv, CallSound, Dispatched
    <3> QED
      BY <1>2, <3>2
  <2> QED
    BY <2>1, <2>2, <2>3
<1> QED
  BY <1>1, <1>3, <1>4, LogStep

\* Each task is dispatched once, and reclaimed only after its dispatch.
LEMMA ClaimInvHolds == Spec => []ClaimInv
<1>1. Init => DispatchedOnce /\ ReclaimsDispatched
  BY DEF Init, DispatchedOnce, ReclaimsDispatched, Reclaimed, Logged
<1>2. ClaimInv /\ [Next]_vars => DispatchedOnce' /\ ReclaimsDispatched'
  BY DispatchedOnceStep, ReclaimsStep
<1> QED
  BY <1>1, <1>2, OwnerInvHolds, PTL DEF Spec, ClaimInv

\* The last claim of a node stays the last until its task is reclaimed or the
\* node dispatched again, and a new dispatch becomes the last.
LEMMA LastClaimAfter ==
  ASSUME NEW l \in Seq(Entry), NEW e \in Entry, NEW k \in Node, NEW t \in Task
  PROVE  /\ LastClaim(l, k, t) /\ e # ReclaimEntry(t) /\ (\A u \in Task : e # DispatchEntry(u, k))
              => LastClaim(Append(l, e), k, t)
         /\ e = DispatchEntry(t, k) /\ t \notin Reclaimed(l) => LastClaim(Append(l, e), k, t)
<1> DEFINE L == Append(l, e)
           n == Len(l) + 1
<1>1. /\ DOMAIN L = DOMAIN l \cup {n} /\ n \notin DOMAIN l
      /\ \A i \in DOMAIN l : n > i /\ ~(i > n) /\ L[i] = l[i]
      /\ L[n] = e /\ ~(n > n)
  BY AppendFacts
<1>2. \A u \in Task : u \in Reclaimed(L) <=> u \in Reclaimed(l) \/ ReclaimEntry(u) = e
  BY AppendLogged DEF Reclaimed
<1> HIDE DEF L, n
<1>3. ASSUME LastClaim(l, k, t), e # ReclaimEntry(t), \A u \in Task : e # DispatchEntry(u, k)
      PROVE  LastClaim(L, k, t)
  <2>1. PICK i \in DOMAIN l :
          /\ l[i] = DispatchEntry(t, k) /\ t \notin Reclaimed(l)
          /\ \A j \in DOMAIN l : \A u \in Task :
               j > i /\ l[j] = DispatchEntry(u, k) => u \in Reclaimed(l)
    BY <1>3 DEF LastClaim
  <2>2. i \in DOMAIN L /\ L[i] = DispatchEntry(t, k) /\ t \notin Reclaimed(L)
    BY <1>1, <1>2, <1>3, <2>1
  <2>3. \A j \in DOMAIN L : \A u \in Task :
          j > i /\ L[j] = DispatchEntry(u, k) => u \in Reclaimed(L)
    BY <1>1, <1>2, <1>3, <2>1
  <2> QED
    BY <2>2, <2>3 DEF LastClaim
<1>4. ASSUME e = DispatchEntry(t, k), t \notin Reclaimed(l) PROVE LastClaim(L, k, t)
  <2>1. t \notin Reclaimed(L)
    BY <1>2, <1>4 DEF ReclaimEntry, TaskEntry, DispatchEntry
  <2>2. \A j \in DOMAIN L : ~(j > n)
    BY <1>1
  <2> QED
    BY <1>1, <1>4, <2>1, <2>2 DEF LastClaim
<1> QED
  BY <1>3, <1>4 DEF L

LEMMA RestorableStep ==
  ASSUME "replan" \notin Env, ClaimInv, OwnerRestorable, [Next]_vars
  PROVE  OwnerRestorable'
<1>1. /\ OwnerInv /\ TypeInv /\ log \in Seq(Entry) /\ byNode \in [Node -> Task \cup {None}]
      /\ OwnershipWellFormed
  BY DEF ClaimInv, OwnerInv, TypeInv, TypeOK
<1> SUFFICES ASSUME mirrored', NEW k \in Node, byNode'[k] # None
             PROVE  LastClaim(log', k, byNode'[k])
  BY DEF OwnerRestorable
\* an owner that stays keeps its claim when the log grows by something else
<1>2. ASSUME mirrored, byNode'[k] = byNode[k],
             \/ UNCHANGED log
             \/ \E e \in Entry :
                  /\ log' = Append(log, e) /\ \A u \in Task : e # DispatchEntry(u, k)
                  /\ e # ReclaimEntry(byNode[k])
      PROVE  LastClaim(log', k, byNode'[k])
  <2>1. byNode[k] \in Task /\ LastClaim(log, k, byNode[k])
    BY <1>1, <1>2 DEF OwnerRestorable
  <2> QED
    BY <1>1, <1>2, <2>1, LastClaimAfter
<1>3. ASSUME NEW t \in Task, log' = Append(log, ReclaimEntry(t)), byNode'[k] = byNode[k], mirrored
      PROVE  LastClaim(log', k, byNode'[k])
  <2>1. byNode'[nodeOf[t]] = None
    BY <1>1, <1>3, ReclaimAppends
  <2>2. nodeOf[byNode[k]] = k
    BY <1>1, <1>3 DEF OwnershipWellFormed
  <2>3. t # byNode[k]
    BY <2>1, <2>2
  <2>4. /\ ReclaimEntry(t) \in Entry /\ \A u \in Task : ReclaimEntry(t) # DispatchEntry(u, k)
        /\ ReclaimEntry(t) # ReclaimEntry(byNode[k])
    BY <2>3, EntryTypes DEF ReclaimEntry, TaskEntry, DispatchEntry
  <2> QED
    BY <1>2, <1>3, <2>4
<1>4. CASE Quiet
  <2>1. byNode'[k] = byNode[k] /\ mirrored
    BY <1>4 DEF Quiet
  <2>2. CASE UNCHANGED log
    BY <1>2, <2>1, <2>2
  <2>3. ASSUME NEW e \in Entry, log' = Append(log, e), ~IsDispatch(e)
        PROVE  LastClaim(log', k, byNode'[k])
    <3>1. byNode[k] \in Task
      BY <1>1, <2>1
    <3>2. CASE e = ReclaimEntry(byNode[k])
      BY <1>3, <2>1, <2>3, <3>1, <3>2
    <3>3. CASE e # ReclaimEntry(byNode[k])
      BY <1>2, <2>1, <2>3, <3>3 DEF IsDispatch
    <3> QED
      BY <3>2, <3>3
  <2> QED
    BY <1>4, <2>2, <2>3 DEF Quiet
<1>5. CASE Claimed
  <2>1. PICK t \in Task, j \in Node : Enqueue(j, t)
    BY <1>5 DEF Claimed
  <2>2. /\ log' = Append(log, DispatchEntry(t, j)) /\ mirrored
        /\ byNode' = [byNode EXCEPT ![j] = t] /\ t \notin Dispatched(log)
        /\ DispatchEntry(t, j) \in Entry
    BY <2>1, EntryTypes DEF Enqueue, Write, Fresh
  <2>3. CASE k = j
    <3>1. byNode'[k] = t /\ t \notin Reclaimed(log)
      BY <1>1, <2>2, <2>3 DEF ClaimInv, ReclaimsDispatched
    <3> QED
      BY <1>1, <2>2, <2>3, <3>1, LastClaimAfter
  <2>4. CASE k # j
    <3>1. \A u : DispatchEntry(t, j) # DispatchEntry(u, k) /\ DispatchEntry(t, j) # ReclaimEntry(u)
      BY <2>4 DEF DispatchEntry, ReclaimEntry, TaskEntry
    <3>2. byNode'[k] = byNode[k]
      BY <1>1, <2>2, <2>4
    <3> QED
      BY <1>2, <2>2, <3>1, <3>2
  <2> QED
    BY <2>3, <2>4
<1>6. CASE Lost
  BY <1>2, <1>6 DEF Lost, disk
<1>7. CASE Released
  <2>1. PICK t \in Task :
          /\ log' = Append(log, ReclaimEntry(t)) /\ mirrored' = mirrored
          /\ byNode' = [byNode EXCEPT ![nodeOf[t]] = None]
    BY <1>7 DEF Released, Write, Release
  <2>2. byNode'[k] = byNode[k]
    BY <1>1, <2>1
  <2> QED
    BY <1>3, <2>1, <2>2
<1>8. CASE Rebuilt
  <2>1. PICK l \in {log, <<>>} : byNode'[k] = RestoredOwner(l, k)
    BY <1>8 DEF Rebuilt, RestoreFrom
  <2>2. \E t \in Task : LastClaim(l, k, t)
    BY <2>1 DEF RestoredOwner
  <2>3. LastClaim(l, k, byNode'[k])
    BY <2>1, <2>2 DEF RestoredOwner
  <2>4. l = log
    BY <2>1, <2>2 DEF LastClaim
  <2> QED
    BY <1>8, <2>3, <2>4 DEF Rebuilt, disk
<1> QED
  BY <1>1, <1>4, <1>5, <1>6, <1>7, <1>8, StepKinds

\* restore_from: as long as the sinks agree and reclaim is given graphs that have
\* the node, the owner in memory is the one a restart would restore.
THEOREM OwnersRestorable == "replan" \notin Env => (Spec => []OwnerRestorable)
<1> SUFFICES ASSUME "replan" \notin Env PROVE Spec => []OwnerRestorable
  OBVIOUS
<1>1. Init => OwnerRestorable
  BY DEF Init, OwnerRestorable
<1>2. ClaimInv /\ OwnerRestorable /\ [Next]_vars => OwnerRestorable'
  BY RestorableStep
<1> QED
  BY <1>1, <1>2, ClaimInvHolds, PTL DEF Spec

\* Invariant I3 across a restart: while no append fails and reclaim is given
\* graphs that have the node, a graph that may ship would ship after a replay.
THEOREM ShipsFromLog ==
  "io_error" \notin Env /\ "replan" \notin Env => (Spec => []ShipFollowsLog)
<1> SUFFICES ASSUME "io_error" \notin Env, "replan" \notin Env PROVE Spec => []ShipFollowsLog
  OBVIOUS
<1>1. Init => mirrored
  BY DEF Init
<1>2. TypeInv /\ mirrored /\ [Next]_vars => mirrored'
  BY SoundKinds
<1>3. mirrored /\ TypeInv /\ OwnerRestorable /\ PassIsLogged => ShipFollowsLog
  <2> SUFFICES ASSUME mirrored, TypeInv, OwnerRestorable, PassIsLogged,
                      NEW g \in Graph, MayShip(g), NEW k \in Node, GraphOf[k] = g
               PROVE  \E t \in Passed(log) : LastClaim(log, k, t)
    BY DEF ShipFollowsLog, ShippableOnReplay
  <2>1. byNode[k] \in Task /\ byNode[k] # None /\ state[byNode[k]] = "gate_pass"
    BY DEF MayShip, TypeInv, TypeOK
  <2> QED
    BY <2>1 DEF OwnerRestorable, PassIsLogged
<1>4. (Spec => []OwnerRestorable) /\ (Spec => []PassIsLogged)
  BY OwnersRestorable, PassesAreLogged
<1> QED
  BY <1>1, <1>2, <1>3, <1>4, TypeCorrect, PTL DEF Spec

LEMMA OneClaimStep ==
  ASSUME ClaimInv, ClaimInv', OneClaim, [Next]_vars
  PROVE  OneClaim'
<1>1. /\ OwnerInv /\ TypeInv /\ log \in Seq(Entry) /\ byNode \in [Node -> Task \cup {None}]
      /\ DispatchedOnce /\ ReclaimsDispatched
  BY DEF ClaimInv, OwnerInv, TypeInv, TypeOK
<1> SUFFICES ASSUME mirrored', ~ReclaimedTwice'
             PROVE  \A k \in Node :
                      /\ byNode'[k] = None => Claims(log', k) = {}
                      /\ \A t, u \in Claims(log', k) : t = u
  BY DEF OneClaim, ReplayShowsOneOwner
<1>2. ~ReclaimedTwice
  BY <1>1, LogGrows DEF ReclaimedTwice
<1>3. ASSUME mirrored, NEW k \in Node
      PROVE  /\ byNode[k] = None => Claims(log, k) = {}
             /\ \A t, u \in Claims(log, k) : t = u
  BY <1>2, <1>3 DEF OneClaim, ReplayShowsOneOwner
<1>4. Reclaimed(log) \subseteq Reclaimed(log')
  BY <1>1, LoggedStays DEF Reclaimed
<1>d. ASSUME NEW e \in Entry, log' = Append(log, e), ~IsDispatch(e), NEW k \in Node
      PROVE  DispatchedTo(log', k) = DispatchedTo(log, k)
  <2>1. DispatchedTo(log', k) = DispatchedTo(log, k) \cup {t \in Task : e = DispatchEntry(t, k)}
    BY <1>1, <1>d, AppendDispatchedTo
  <2> QED
    BY <1>d, <2>1 DEF IsDispatch
<1>5. ASSUME NEW k \in Node, mirrored, DispatchedTo(log', k) = DispatchedTo(log, k)
      PROVE  /\ byNode[k] = None => Claims(log', k) = {}
             /\ \A t, u \in Claims(log', k) : t = u
  <2>1. Claims(log', k) \subseteq Claims(log, k)
    BY <1>4, <1>5 DEF Claims
  <2> QED
    BY <1>3, <1>5, <2>1
<1>6. CASE Quiet
  <2>1. mirrored /\ byNode' = byNode /\ \A k \in Node : DispatchedTo(log', k) = DispatchedTo(log, k)
    BY <1>d, <1>6 DEF Quiet
  <2> QED
    BY <1>5, <2>1
<1>7. CASE Claimed
  <2>1. PICK t \in Task, j \in Node : Enqueue(j, t) /\ byNode[j] = None
    BY <1>7 DEF Claimed
  <2>2. /\ log' = Append(log, DispatchEntry(t, j)) /\ mirrored
        /\ byNode' = [byNode EXCEPT ![j] = t]
    BY <2>1 DEF Enqueue, Write
  <2>3. \A k \in Node : DispatchedTo(log', k) = DispatchedTo(log, k) \cup (IF k = j THEN {t} ELSE {})
    BY <1>1, <2>2, DispatchedAfter
  <2>4. byNode'[j] = t /\ t # None /\ Claims(log, j) = {}
    BY <1>1, <1>3, <2>1, <2>2, ConstantsAssumption
  <2>5. Claims(log', j) \subseteq {t}
    BY <1>4, <2>3, <2>4 DEF Claims
  <2>6. ASSUME NEW k \in Node, k # j
        PROVE  byNode'[k] = byNode[k] /\ DispatchedTo(log', k) = DispatchedTo(log, k)
    BY <1>1, <2>2, <2>3, <2>6
  <2> QED
    BY <1>5, <2>2, <2>4, <2>5, <2>6
<1>8. CASE Lost
  <2>1. mirrored /\ byNode' = byNode /\ log' = log
    BY <1>8 DEF Lost, disk
  <2> QED
    BY <1>5, <2>1
<1>9. CASE Released
  <2>1. PICK t \in Task :
          /\ Reclaimable(t) /\ log' = Append(log, ReclaimEntry(t)) /\ mirrored' = mirrored
          /\ byNode' = [byNode EXCEPT ![nodeOf[t]] = None]
    BY <1>9 DEF Released, Write, Release
  <2>2. ReclaimEntry(t) \in Entry /\ ~IsDispatch(ReclaimEntry(t))
    BY EntryTypes DEF ReclaimEntry, TaskEntry, IsDispatch, DispatchEntry
  <2>3. \A k \in Node : DispatchedTo(log', k) = DispatchedTo(log, k)
    BY <1>d, <2>1, <2>2
  <2>4. nodeOf[t] \in Node /\ t \in DispatchedTo(log, nodeOf[t])
    BY <1>1, <2>1 DEF OwnerInv, RecordsLogged, TypeInv, CallSound, Reclaimable
  <2>5. t \notin Reclaimed(log)
    <3>1. \A i \in DOMAIN log : /\ i \in DOMAIN log' /\ log'[i] = log[i]
                                /\ Len(log) + 1 > i
          /\ Len(log) + 1 \in DOMAIN log' /\ log'[Len(log) + 1] = ReclaimEntry(t)
      BY <1>1, <2>1, <2>2, AppendFacts
    <3>2. \A i \in DOMAIN log : Len(log) + 1 > i => i < Len(log) + 1
      BY <1>1
    <3>3. \A i \in DOMAIN log : log[i] # ReclaimEntry(t)
      BY <3>1, <3>2 DEF ReclaimedTwice
    <3> QED
      BY <3>3 DEF Reclaimed, Logged
  <2>6. t \in Reclaimed(log')
    BY <1>1, <2>1, <2>2, AppendLogged DEF Reclaimed
  <2>7. Claims(log', nodeOf[t]) = {}
    <3>1. Claims(log, nodeOf[t]) \subseteq {t}
      BY <1>3, <2>1, <2>4, <2>5 DEF Claims
    <3> QED
      BY <1>4, <2>3, <2>4, <2>6, <3>1 DEF Claims
  <2>8. ASSUME NEW k \in Node, k # nodeOf[t] PROVE byNode'[k] = byNode[k]
    BY <1>1, <2>1, <2>8
  <2> QED
    BY <1>5, <2>1, <2>3, <2>7, <2>8
<1>10. CASE Rebuilt
  <2>1. mirrored /\ log' = log /\ \A k \in Node : byNode'[k] = RestoredOwner(log, k)
    BY <1>10 DEF Rebuilt, RestoreFrom, disk
  <2>2. ASSUME NEW k \in Node, NEW t \in Claims(log, k) PROVE LastClaim(log, k, t)
    <3>1. t \in Task /\ t \notin Reclaimed(log) /\ \E i \in DOMAIN log : log[i] = DispatchEntry(t, k)
      BY <2>2 DEF Claims, DispatchedTo, Logged
    <3>2. PICK i \in DOMAIN log : log[i] = DispatchEntry(t, k)
      BY <3>1
    <3>3. ASSUME NEW j \in DOMAIN log, NEW u \in Task, j > i, log[j] = DispatchEntry(u, k)
          PROVE  u \in Reclaimed(log)
      <4>1. u # t
        BY <1>1, <3>1, <3>2, <3>3 DEF DispatchedOnce
      <4>2. u \in DispatchedTo(log, k)
        BY <3>3 DEF DispatchedTo, Logged
      <4> QED
        BY <1>3, <2>1, <2>2, <4>1, <4>2 DEF Claims
    <3> QED
      BY <3>1, <3>2, <3>3 DEF LastClaim
  <2>3. ASSUME NEW k \in Node, Claims(log, k) # {} PROVE RestoredOwner(log, k) # None
    <3>1. \E t \in Task : LastClaim(log, k, t)
      BY <2>2, <2>3 DEF Claims, DispatchedTo
    <3> QED
      BY <3>1, ConstantsAssumption DEF RestoredOwner
  <2> QED
    BY <1>3, <2>1, <2>3
<1> QED
  BY <1>1, <1>6, <1>7, <1>8, <1>9, <1>10, StepKinds

\* reclaim, "replay shows one owner at a time": as long as the sinks agree, a node
\* with two claims in the log takes a task that was reclaimed twice.
THEOREM OneOwnerInLog == Spec => []OneOwnerUnlessReclaimedTwice
<1>1. Init => OneClaim
  BY EmptyLog DEF Init, OneClaim, ReplayShowsOneOwner, Claims
<1>2. ClaimInv /\ ClaimInv' /\ OneClaim /\ [Next]_vars => OneClaim'
  BY OneClaimStep
<1>3. OneClaim => OneOwnerUnlessReclaimedTwice
  BY DEF OneClaim, OneOwnerUnlessReclaimedTwice
<1> QED
  BY <1>1, <1>2, <1>3, ClaimInvHolds, PTL DEF Spec

-----------------------------------------------------------------------------
(* The register.  While no append fails, a step appends one entry or none, *)
(* the log determines owners and finished nodes, and the invariants above  *)
(* say after which entries each entry may come: they are the guards of the *)
(* register's actions.                                                     *)

\* The owner in memory is the one claim of its node in the log
OwnersFollow ==
  ~ReclaimedTwice =>
    \A k \in Node : /\ byNode[k] \in Task \cup {None}
                    /\ \A t \in Task : byNode[k] = t <=> t \in Claims(log, k)

\* The nodes finished in memory are those whose owner has passed in the log
DoneFollows == DoneNodes = {k \in Node : byNode[k] \in Passed(log)}

MemoryInv ==
  /\ ClaimInv /\ mirrored /\ OneClaim /\ OwnerRestorable
  /\ PassIsLogged /\ PassesRemembered

RegisterInv ==
  /\ ClaimInv /\ mirrored /\ OwnerRestorable /\ GatesDispatched
  /\ OwnersFollow /\ DoneFollows
  /\ NoDispatchWhilePaused /\ DependenciesGatedFirst /\ PassedOwnerKept

LEMMA MemoryFollows == MemoryInv => OwnersFollow /\ DoneFollows
<1> SUFFICES ASSUME MemoryInv PROVE OwnersFollow /\ DoneFollows
  OBVIOUS
<1>1. /\ log \in Seq(Entry) /\ byNode \in [Node -> Task \cup {None}]
      /\ mirrored /\ OneClaim /\ OwnerRestorable /\ None \notin Task
  BY ConstantsAssumption DEF MemoryInv, ClaimInv, OwnerInv, TypeInv, TypeOK
<1>2. ASSUME NEW k \in Node, byNode[k] # None
      PROVE  /\ byNode[k] \in Task /\ byNode[k] \in Claims(log, k)
             /\ byNode[k] \in Dispatched(log) \ Reclaimed(log)
  BY <1>1, <1>2 DEF OwnerRestorable, LastClaim, Claims, DispatchedTo, Dispatched, Logged
<1>3. OwnersFollow
  <2> SUFFICES ASSUME ~ReclaimedTwice, NEW k \in Node
               PROVE  \A t \in Task : byNode[k] = t <=> t \in Claims(log, k)
    BY <1>1 DEF OwnersFollow
  <2>1. /\ byNode[k] = None => Claims(log, k) = {}
        /\ \A t, u \in Claims(log, k) : t = u
    BY <1>1 DEF OneClaim, ReplayShowsOneOwner
  <2> QED
    BY <1>1, <1>2, <2>1
<1>4. DoneFollows
  <2>1. ASSUME NEW k \in Node, byNode[k] # None
        PROVE  state[byNode[k]] = "gate_pass" <=> byNode[k] \in Passed(log)
    BY <1>2, <2>1 DEF MemoryInv, PassIsLogged, PassesRemembered
  <2>2. None \notin Passed(log)
    BY <1>1 DEF Passed
  <2> QED
    BY <2>1, <2>2 DEF DoneFollows, DoneNodes
<1> QED
  BY <1>3, <1>4

LEMMA RegisterInvHolds ==
  /\ "io_error" \notin Env /\ "replan" \notin Env
  /\ "lead" \notin Env /\ "direct" \notin Env
  => (Spec => []RegisterInv)
<1> SUFFICES ASSUME "io_error" \notin Env, "replan" \notin Env,
                    "lead" \notin Env, "direct" \notin Env
             PROVE  Spec => []RegisterInv
  OBVIOUS
<1>1. Init => /\ mirrored /\ GatesDispatched /\ PassesRemembered /\ PassedOwnerKept
              /\ OneClaim
  BY EmptyLog
  DEF Init, GatesDispatched, PassesRemembered, PassedOwnerKept, Logged, OneClaim,
      ReplayShowsOneOwner, Claims
<1>2. KeptInv /\ [Next]_vars =>
        mirrored' /\ GatesDispatched' /\ PassesRemembered' /\ PassedOwnerKept'
  BY GatesStep, RememberedStep, KeptStep, SoundKinds DEF KeptInv, OwnerInv
<1>3. ClaimInv /\ ClaimInv' /\ OneClaim /\ [Next]_vars => OneClaim'
  BY OneClaimStep
<1>4. ClaimInv => OwnerInv
  BY DEF ClaimInv
<1>5. Spec => [](mirrored /\ GatesDispatched /\ PassesRemembered /\ PassedOwnerKept)
  BY <1>1, <1>2, OwnerInvHolds, PTL DEF Spec, KeptInv
<1>6. Spec => []OneClaim
  BY <1>1, <1>3, ClaimInvHolds, PTL DEF Spec
<1>7. /\ Spec => []OwnerRestorable
      /\ Spec => []PassIsLogged
      /\ Spec => []NoDispatchWhilePaused
      /\ Spec => []DependenciesGatedFirst
  BY OwnersRestorable, PassesAreLogged, PausesHold, DependenciesFirst
<1>8. MemoryInv => OwnersFollow /\ DoneFollows
  BY MemoryFollows
<1> QED
  BY <1>5, <1>6, <1>7, <1>8, ClaimInvHolds, PTL DEF MemoryInv, RegisterInv

\* What a new last entry tells about the log it was appended to.
LEMMA NewestEntry ==
  ASSUME TypeInv, NEW e \in Entry, log' = Append(log, e)
  PROVE  /\ \E n \in DOMAIN log' : n \notin DOMAIN log /\ Before(n)' = log /\ log'[n] = e
         /\ \A f : Logged(log', f) <=> Logged(log, f) \/ f = e
<1>1. log \in Seq(Entry) /\ Len(log) \in Nat
  BY DEF TypeInv, TypeOK
<1>2. PICK n : n = Len(log) + 1
  OBVIOUS
<1>3. n - 1 = Len(log) /\ Before(n)' = SubSeq(Append(log, e), 1, n - 1)
  BY <1>1, <1>2 DEF Before
<1>4. n \in DOMAIN log' /\ n \notin DOMAIN log /\ Before(n)' = log /\ log'[n] = e
  BY <1>1, <1>2, <1>3, AppendFacts
<1>5. \A f : Logged(Append(log, e), f) <=> Logged(log, f) \/ f = e
  BY <1>1, AppendLogged
<1> QED
  BY <1>4, <1>5

\* What a new last entry does to the register's view of the log.
LEMMA RegisterAfter ==
  ASSUME TypeInv, NEW e \in Entry, log' = Append(log, e)
  PROVE  /\ \A k : DispatchedTo(log', k) = DispatchedTo(log, k) \cup {t \in Task : e = DispatchEntry(t, k)}
         /\ Reclaimed(log') = Reclaimed(log) \cup {t \in Task : e = ReclaimEntry(t)}
         /\ Passed(log') = (Passed(log) \cup {t \in Task : e = GateEntry(t, TRUE)})
                             \ {t \in Task : e = GateEntry(t, FALSE)}
         /\ PausedTeams(log') = (PausedTeams(log) \cup {m \in Team : e = TeamEntry("team_paused", m)})
                                  \ {m \in Team : e = TeamEntry("team_resumed", m)}
         /\ \A t \in Task : Logged(log', GateEntry(t, TRUE)) <=>
              Logged(log, GateEntry(t, TRUE)) \/ e = GateEntry(t, TRUE)
<1>1. log \in Seq(Entry)
  BY DEF TypeInv, TypeOK
<1>2. \A f : Logged(log', f) <=> Logged(log, f) \/ f = e
  BY NewestEntry
<1>3. \A k : DispatchedTo(log', k) = DispatchedTo(log, k) \cup {t \in Task : e = DispatchEntry(t, k)}
  BY <1>2 DEF DispatchedTo
<1>4. Reclaimed(log') = Reclaimed(log) \cup {t \in Task : e = ReclaimEntry(t)}
  BY <1>2 DEF Reclaimed
<1>5. ASSUME NEW t \in Task
      PROVE  t \in Passed(log') <=>
               (t \in Passed(log) \/ e = GateEntry(t, TRUE)) /\ e # GateEntry(t, FALSE)
  <2>1. LastIs(Append(log, e), GateEntry(t, TRUE), GateEntry(t, FALSE)) <=>
          \/ e = GateEntry(t, TRUE)
          \/ LastIs(log, GateEntry(t, TRUE), GateEntry(t, FALSE)) /\ e # GateEntry(t, FALSE)
    BY <1>1, AppendLast
  <2>2. GateEntry(t, TRUE) # GateEntry(t, FALSE)
    BY DEF GateEntry
  <2> QED
    BY <2>1, <2>2 DEF Passed
<1>6. ASSUME NEW m \in Team
      PROVE  m \in PausedTeams(log') <=>
               /\ m \in PausedTeams(log) \/ e = TeamEntry("team_paused", m)
               /\ e # TeamEntry("team_resumed", m)
  <2>1. LastIs(Append(log, e), TeamEntry("team_paused", m), TeamEntry("team_resumed", m)) <=>
          \/ e = TeamEntry("team_paused", m)
          \/ /\ LastIs(log, TeamEntry("team_paused", m), TeamEntry("team_resumed", m))
             /\ e # TeamEntry("team_resumed", m)
    BY <1>1, AppendLast
  <2>2. TeamEntry("team_paused", m) # TeamEntry("team_resumed", m)
    BY DEF TeamEntry
  <2> QED
    BY <2>1, <2>2 DEF PausedTeams
<1>7. Passed(log') = (Passed(log) \cup {t \in Task : e = GateEntry(t, TRUE)})
                       \ {t \in Task : e = GateEntry(t, FALSE)}
  BY <1>5 DEF Passed
<1>8. PausedTeams(log') = (PausedTeams(log) \cup {m \in Team : e = TeamEntry("team_paused", m)})
                            \ {m \in Team : e = TeamEntry("team_resumed", m)}
  BY <1>6 DEF PausedTeams
<1> QED
  BY <1>2, <1>3, <1>4, <1>7, <1>8

\* The kinds of entries are told apart by what they say.
LEMMA EntriesDiffer ==
  /\ \A t, k, u, p : DispatchEntry(t, k) # GateEntry(u, p)
  /\ \A t, k, u : DispatchEntry(t, k) # ReclaimEntry(u)
  /\ \A t, k, s, m : DispatchEntry(t, k) # TeamEntry(s, m)
  /\ \A t, p, u : GateEntry(t, p) # ReclaimEntry(u)
  /\ \A t, p, s, m : GateEntry(t, p) # TeamEntry(s, m)
  /\ \A t, s, m : ReclaimEntry(t) # TeamEntry(s, m)
  /\ \A t, k, u, j : DispatchEntry(t, k) = DispatchEntry(u, j) => u = t /\ j = k
  /\ \A t, p, u, q : GateEntry(t, p) = GateEntry(u, q) => u = t /\ q = p
  /\ \A t, u : ReclaimEntry(t) = ReclaimEntry(u) => u = t
  /\ \A r, m, s, n : TeamEntry(r, m) = TeamEntry(s, n) => s = r /\ n = m
BY DEF DispatchEntry, GateEntry, ReclaimEntry, TaskEntry, TeamEntry

\* The owner of a node changes only with the claims on it.
LEMMA SameOwner ==
  ASSUME OwnersFollow, OwnersFollow', ~ReclaimedTwice, ~ReclaimedTwice',
         NEW k \in Node, Claims(log', k) = Claims(log, k)
  PROVE  byNode'[k] = byNode[k]
<1>1. /\ byNode[k] \in Task \cup {None} /\ byNode'[k] \in Task \cup {None}
      /\ \A t \in Task : byNode[k] = t <=> byNode'[k] = t
  BY DEF OwnersFollow
<1> QED
  BY <1>1

\* A dispatch in the log is a grant.
LEMMA DispatchGrants ==
  ASSUME RegisterInv, RegisterInv', ~ReclaimedTwice, ~ReclaimedTwice',
         NEW t \in Task, NEW k \in Node, log' = Append(log, DispatchEntry(t, k))
  PROVE  Register!Grant(k, t)
<1> DEFINE e == DispatchEntry(t, k)
<1>1. /\ TypeInv /\ log \in Seq(Entry) /\ e \in Entry
      /\ byNode \in [Node -> Task \cup {None}] /\ byNode' \in [Node -> Task \cup {None}]
      /\ OwnersFollow /\ OwnersFollow'
      /\ ReclaimsDispatched /\ None \notin Task
  BY EntryTypes, ConstantsAssumption DEF RegisterInv, ClaimInv, OwnerInv, TypeInv, TypeOK
<1>2. PICK n \in DOMAIN log' : n \notin DOMAIN log /\ Before(n)' = log /\ log'[n] = e
  BY <1>1, NewestEntry
<1>3. /\ DispatchedTo(log', k) = DispatchedTo(log, k) \cup {t}
      /\ \A j \in Node \ {k} : DispatchedTo(log', j) = DispatchedTo(log, j)
      /\ Reclaimed(log') = Reclaimed(log) /\ Passed(log') = Passed(log)
      /\ PausedTeams(log') = PausedTeams(log)
      /\ \A u \in Task : Logged(log', GateEntry(u, TRUE)) <=> Logged(log, GateEntry(u, TRUE))
  <2>1. /\ \A j : DispatchedTo(log', j) = DispatchedTo(log, j) \cup {u \in Task : e = DispatchEntry(u, j)}
        /\ Reclaimed(log') = Reclaimed(log) \cup {u \in Task : e = ReclaimEntry(u)}
        /\ Passed(log') = (Passed(log) \cup {u \in Task : e = GateEntry(u, TRUE)})
                            \ {u \in Task : e = GateEntry(u, FALSE)}
        /\ PausedTeams(log') = (PausedTeams(log) \cup {m \in Team : e = TeamEntry("team_paused", m)})
                                 \ {m \in Team : e = TeamEntry("team_resumed", m)}
        /\ \A u \in Task : Logged(log', GateEntry(u, TRUE)) <=>
             Logged(log, GateEntry(u, TRUE)) \/ e = GateEntry(u, TRUE)
    BY <1>1, RegisterAfter
  <2>2. /\ \A u, p : e # GateEntry(u, p) /\ e # ReclaimEntry(u)
        /\ \A r, m : e # TeamEntry(r, m)
        /\ \A u, j : e = DispatchEntry(u, j) <=> u = t /\ j = k
    BY EntriesDiffer
  <2> HIDE DEF e
  <2> QED
    BY <2>1, <2>2
\* a task dispatched before would be dispatched twice
<1>4. \A j \in Node : t \notin DispatchedTo(log, j)
  <2> SUFFICES ASSUME NEW j \in Node, t \in DispatchedTo(log, j) PROVE FALSE
    OBVIOUS
  <2>1. j = k
    <3>1. t \in DispatchedTo(log', k) /\ t \in DispatchedTo(log', j)
      BY <1>3
    <3>2. OneNodeEach'
      BY DEF RegisterInv, ClaimInv, OwnerInv
    <3> QED
      BY <3>1, <3>2 DEF OneNodeEach
  <2>2. PICK i \in DOMAIN log : log[i] = e
    BY <2>1 DEF DispatchedTo, Logged
  <2>3. i \in DOMAIN log' /\ log'[i] = e /\ i # n
    BY <1>1, <1>2, <2>2, AppendFacts
  <2>4. DispatchedOnce'
    BY DEF RegisterInv, ClaimInv
  <2> QED
    BY <1>2, <2>3, <2>4 DEF DispatchedOnce
<1>5. t \notin Reclaimed(log)
  BY <1>1, <1>4 DEF ReclaimsDispatched, Dispatched
<1>6. /\ Claims(log', k) = Claims(log, k) \cup {t}
      /\ \A j \in Node \ {k} : Claims(log', j) = Claims(log, j)
  BY <1>3, <1>5 DEF Claims
<1>7. byNode'[k] = t
  BY <1>1, <1>6 DEF OwnersFollow
<1>8. byNode[k] = None
  <2>1. \A u \in Task : byNode[k] = u => byNode'[k] = u /\ u # t
    BY <1>1, <1>4, <1>6 DEF OwnersFollow, Claims
  <2> QED
    BY <1>1, <1>7, <2>1
<1>9. byNode' = [byNode EXCEPT ![k] = t]
  <2>1. \A j \in Node \ {k} : byNode'[j] = byNode[j]
    BY <1>1, <1>6, SameOwner
  <2> QED
    BY <1>1, <1>7, <2>1
<1>10. TeamOf[k] \notin PausedTeams(log)
  BY <1>2 DEF RegisterInv, NoDispatchWhilePaused
<1>11. DependsOn[k] \subseteq GatedNodes
  <2>1. \A d \in DependsOn[k] : \E u \in DispatchedTo(log, d) : Logged(log, GateEntry(u, TRUE))
    BY <1>2 DEF RegisterInv, DependenciesGatedFirst
  <2> QED
    BY <2>1, ConstantsAssumption DEF GatedNodes
\* no gate result was logged for a task before its dispatch
<1>12. GatedNodes' = GatedNodes
  <2>1. ~Logged(log, GateEntry(t, TRUE))
    BY <1>4 DEF RegisterInv, GatesDispatched, Dispatched
  <2>2. \A j \in Node : \A u : u \in DispatchedTo(log', j) <=>
          u \in DispatchedTo(log, j) \/ (j = k /\ u = t)
    BY <1>3
  <2> QED
    BY <1>3, <2>1, <2>2 DEF GatedNodes, DispatchedTo
<1>13. [j \in Node |-> DispatchedTo(log', j)]
         = [[j \in Node |-> DispatchedTo(log, j)] EXCEPT ![k] = @ \cup {t}]
  BY <1>3
<1> QED
  BY <1>3, <1>4, <1>8, <1>9, <1>10, <1>11, <1>12, <1>13
  DEF Register!Grant, Register!gates

\* A reclaim in the log is a withdrawal.
LEMMA ReclaimWithdraws ==
  ASSUME RegisterInv, RegisterInv', ~ReclaimedTwice, ~ReclaimedTwice',
         NEW t \in Task, log' = Append(log, ReclaimEntry(t))
  PROVE  \E k \in Node : Register!Withdraw(k)
<1> DEFINE e == ReclaimEntry(t)
<1>1. /\ TypeInv /\ log \in Seq(Entry) /\ e \in Entry
      /\ byNode \in [Node -> Task \cup {None}] /\ byNode' \in [Node -> Task \cup {None}]
      /\ OwnersFollow /\ OwnersFollow' /\ OneNodeEach /\ None \notin Task
  BY EntryTypes, ConstantsAssumption
  DEF RegisterInv, ClaimInv, OwnerInv, TypeInv, TypeOK, ReclaimEntry
<1>2. PICK n \in DOMAIN log' : n \notin DOMAIN log /\ Before(n)' = log /\ log'[n] = e
  BY <1>1, NewestEntry
<1>3. /\ \A k : DispatchedTo(log', k) = DispatchedTo(log, k)
      /\ Reclaimed(log') = Reclaimed(log) \cup {t} /\ Passed(log') = Passed(log)
      /\ PausedTeams(log') = PausedTeams(log)
      /\ \A u \in Task : Logged(log', GateEntry(u, TRUE)) <=> Logged(log, GateEntry(u, TRUE))
  <2>1. /\ \A j : DispatchedTo(log', j) = DispatchedTo(log, j) \cup {u \in Task : e = DispatchEntry(u, j)}
        /\ Reclaimed(log') = Reclaimed(log) \cup {u \in Task : e = ReclaimEntry(u)}
        /\ Passed(log') = (Passed(log) \cup {u \in Task : e = GateEntry(u, TRUE)})
                            \ {u \in Task : e = GateEntry(u, FALSE)}
        /\ PausedTeams(log') = (PausedTeams(log) \cup {m \in Team : e = TeamEntry("team_paused", m)})
                                 \ {m \in Team : e = TeamEntry("team_resumed", m)}
        /\ \A u \in Task : Logged(log', GateEntry(u, TRUE)) <=>
             Logged(log, GateEntry(u, TRUE)) \/ e = GateEntry(u, TRUE)
    BY <1>1, RegisterAfter
  <2>2. /\ \A u, p : e # GateEntry(u, p) /\ (e = ReclaimEntry(u) <=> u = t)
        /\ \A r, m : e # TeamEntry(r, m)
        /\ \A u, j : e # DispatchEntry(u, j)
    BY EntriesDiffer
  <2> HIDE DEF e
  <2> QED
    BY <2>1, <2>2
\* the task was dispatched, and not reclaimed before
<1>4. PICK k \in Node : t \in DispatchedTo(log, k)
  BY <1>3 DEF RegisterInv, ClaimInv, ReclaimsDispatched, Dispatched
<1>5. t \notin Reclaimed(log)
  <2> SUFFICES ASSUME NEW i \in DOMAIN log, log[i] = e PROVE FALSE
    BY DEF Reclaimed, Logged
  <2>1. i \in DOMAIN log' /\ log'[i] = e
    BY <1>1, AppendFacts
  <2>2. Len(log) \in Nat /\ DOMAIN log = 1 .. Len(log) /\ Len(log') = Len(log) + 1
        /\ DOMAIN log' = 1 .. Len(log')
    BY <1>1
  <2>3. i < n
    BY <1>2, <2>2
  <2> QED
    BY <1>2, <2>1, <2>3 DEF ReclaimedTwice
<1>6. /\ byNode[k] = t /\ t # None
      /\ \A j \in Node : Claims(log', j) = Claims(log, j) \ {t}
  BY <1>1, <1>3, <1>4, <1>5 DEF OwnersFollow, Claims
<1>7. t \notin Passed(log)
  <2>1. LastClaim(log, k, t)
    BY <1>6 DEF RegisterInv, OwnerRestorable
  <2> QED
    BY <1>2, <2>1 DEF RegisterInv, PassedOwnerKept
<1>8. byNode'[k] = None
  <2>1. \A u \in Task : byNode'[k] = u => byNode[k] = u /\ u # t
    BY <1>1, <1>6 DEF OwnersFollow
  <2> QED
    BY <1>1, <1>6, <2>1
<1>9. byNode' = [byNode EXCEPT ![k] = None]
  <2>1. \A j \in Node \ {k} : t \notin Claims(log, j)
    BY <1>1, <1>4 DEF OneNodeEach, Claims
  <2>2. \A j \in Node \ {k} : Claims(log', j) = Claims(log, j)
    BY <1>6, <2>1
  <2>3. \A j \in Node \ {k} : byNode'[j] = byNode[j]
    BY <1>1, <2>2, SameOwner
  <2> QED
    BY <1>1, <1>8, <2>3
<1>10. GatedNodes' = GatedNodes
  BY <1>3 DEF GatedNodes, DispatchedTo
<1> QED
  BY <1>3, <1>5, <1>6, <1>7, <1>9, <1>10
  DEF Register!Withdraw, Register!gates

\* A gate result in the log is one in the register.
LEMMA GateResults ==
  ASSUME RegisterInv, RegisterInv', ~ReclaimedTwice, ~ReclaimedTwice',
         NEW t \in Task, NEW p \in BOOLEAN, log' = Append(log, GateEntry(t, p))
  PROVE  \E k \in Node : Register!Pass(k, t) \/ Register!Fail(k, t)
<1> DEFINE e == GateEntry(t, p)
<1>1. /\ TypeInv /\ log \in Seq(Entry) /\ e \in Entry
      /\ byNode \in [Node -> Task \cup {None}] /\ byNode' \in [Node -> Task \cup {None}]
      /\ OwnersFollow /\ OwnersFollow'
  BY EntryTypes DEF RegisterInv, ClaimInv, OwnerInv, TypeInv, TypeOK
<1>2. /\ \A k : DispatchedTo(log', k) = DispatchedTo(log, k)
      /\ Reclaimed(log') = Reclaimed(log)
      /\ Passed(log') = (Passed(log) \cup {u \in {t} : p = TRUE}) \ {u \in {t} : p = FALSE}
      /\ PausedTeams(log') = PausedTeams(log)
      /\ \A u \in Task : Logged(log', GateEntry(u, TRUE)) <=>
           Logged(log, GateEntry(u, TRUE)) \/ (p = TRUE /\ u = t)
  <2>1. /\ \A j : DispatchedTo(log', j) = DispatchedTo(log, j) \cup {u \in Task : e = DispatchEntry(u, j)}
        /\ Reclaimed(log') = Reclaimed(log) \cup {u \in Task : e = ReclaimEntry(u)}
        /\ Passed(log') = (Passed(log) \cup {u \in Task : e = GateEntry(u, TRUE)})
                            \ {u \in Task : e = GateEntry(u, FALSE)}
        /\ PausedTeams(log') = (PausedTeams(log) \cup {m \in Team : e = TeamEntry("team_paused", m)})
                                 \ {m \in Team : e = TeamEntry("team_resumed", m)}
        /\ \A u \in Task : Logged(log', GateEntry(u, TRUE)) <=>
             Logged(log, GateEntry(u, TRUE)) \/ e = GateEntry(u, TRUE)
    BY <1>1, RegisterAfter
  <2>2. /\ \A u : e = GateEntry(u, TRUE) <=> u = t /\ p = TRUE
        /\ \A u : e = GateEntry(u, FALSE) <=> u = t /\ p = FALSE
    BY DEF GateEntry
  <2>3. /\ \A r, m : e # TeamEntry(r, m)
        /\ \A u, j : e # DispatchEntry(u, j) /\ e # ReclaimEntry(u)
    BY EntriesDiffer
  <2> HIDE DEF e
  <2> QED
    BY <2>1, <2>2, <2>3
<1>3. byNode' = byNode
  <2>1. \A k \in Node : Claims(log', k) = Claims(log, k)
    BY <1>2 DEF Claims
  <2>2. \A k \in Node : byNode'[k] = byNode[k]
    BY <1>1, <2>1, SameOwner
  <2> QED
    BY <1>1, <2>2
\* a gate result is taken for a logged task only
<1>4. PICK k \in Node : t \in DispatchedTo(log, k)
  <2>1. Logged(log', GateEntry(t, p))
    BY <1>1, NewestEntry
  <2>2. t \in Dispatched(log')
    BY <2>1 DEF RegisterInv, GatesDispatched
  <2> QED
    BY <1>2, <2>2 DEF Dispatched
<1>5. CASE p = TRUE
  <2>1. \A j \in Node : t \in DispatchedTo(log, j) => j = k
    BY <1>4 DEF RegisterInv, ClaimInv, OwnerInv, OneNodeEach
  <2>2. ASSUME NEW j \in Node
        PROVE  j \in GatedNodes' <=> j \in GatedNodes \/ j = k
    BY <1>2, <1>4, <1>5, <2>1 DEF GatedNodes, DispatchedTo
  <2>3. GatedNodes' = GatedNodes \cup {k}
    BY <2>2 DEF GatedNodes
  <2> QED
    BY <1>2, <1>3, <1>4, <1>5, <2>3 DEF Register!Pass, Register!grants
<1>6. CASE p = FALSE
  <2>1. GatedNodes' = GatedNodes
    BY <1>2, <1>6 DEF GatedNodes, DispatchedTo
  <2> QED
    BY <1>2, <1>3, <1>4, <1>6, <2>1 DEF Register!Fail, Register!grants
<1> QED
  BY <1>5, <1>6

\* Every other entry leaves the register alone, or freezes or thaws a team.
LEMMA OtherEntries ==
  ASSUME RegisterInv, RegisterInv', ~ReclaimedTwice, ~ReclaimedTwice',
         NEW e \in Entry, log' = Append(log, e), ~IsDispatch(e), ~IsGate(e),
         \A t \in Task : e # ReclaimEntry(t)
  PROVE  /\ UNCHANGED <<byNode, GatedNodes, Reclaimed(log), Passed(log),
                        [k \in Node |-> DispatchedTo(log, k)]>>
         /\ \/ UNCHANGED PausedTeams(log)
            \/ \E m \in Team : \/ PausedTeams(log') = PausedTeams(log) \cup {m}
                               \/ PausedTeams(log') = PausedTeams(log) \ {m}
<1>1. /\ TypeInv /\ log \in Seq(Entry)
      /\ byNode \in [Node -> Task \cup {None}] /\ byNode' \in [Node -> Task \cup {None}]
      /\ OwnersFollow /\ OwnersFollow'
  BY DEF RegisterInv, ClaimInv, OwnerInv, TypeInv, TypeOK
<1>2. /\ \A j : DispatchedTo(log', j) = DispatchedTo(log, j) \cup {u \in Task : e = DispatchEntry(u, j)}
      /\ Reclaimed(log') = Reclaimed(log) \cup {u \in Task : e = ReclaimEntry(u)}
      /\ Passed(log') = (Passed(log) \cup {u \in Task : e = GateEntry(u, TRUE)})
                          \ {u \in Task : e = GateEntry(u, FALSE)}
      /\ PausedTeams(log') = (PausedTeams(log) \cup {m \in Team : e = TeamEntry("team_paused", m)})
                               \ {m \in Team : e = TeamEntry("team_resumed", m)}
      /\ \A u \in Task : Logged(log', GateEntry(u, TRUE)) <=>
           Logged(log, GateEntry(u, TRUE)) \/ e = GateEntry(u, TRUE)
  BY <1>1, RegisterAfter
<1>3. /\ \A j \in Node : DispatchedTo(log', j) = DispatchedTo(log, j)
      /\ Reclaimed(log') = Reclaimed(log) /\ Passed(log') = Passed(log)
      /\ \A u \in Task : Logged(log', GateEntry(u, TRUE)) <=> Logged(log, GateEntry(u, TRUE))
  <2>1. \A u \in Task, j \in Node : e # DispatchEntry(u, j)
    BY DEF IsDispatch
  <2>2. \A u \in Task : e # GateEntry(u, TRUE) /\ e # GateEntry(u, FALSE) /\ e # ReclaimEntry(u)
    BY DEF IsGate
  <2>3. \A j \in Node : DispatchedTo(log', j) = DispatchedTo(log, j)
    BY <1>2, <2>1
  <2>4. Reclaimed(log') = Reclaimed(log) /\ Passed(log') = Passed(log)
    BY <1>2, <2>2
  <2> QED
    BY <1>2, <2>2, <2>3, <2>4
<1>4. byNode' = byNode
  <2>1. \A k \in Node : Claims(log', k) = Claims(log, k)
    BY <1>3 DEF Claims
  <2>2. \A k \in Node : byNode'[k] = byNode[k]
    BY <1>1, <2>1, SameOwner
  <2> QED
    BY <1>1, <2>2
<1>5. \/ PausedTeams(log') = PausedTeams(log)
      \/ \E m \in Team : \/ PausedTeams(log') = PausedTeams(log) \cup {m}
                         \/ PausedTeams(log') = PausedTeams(log) \ {m}
  <2>1. \A m, n : e = TeamEntry("team_paused", m) /\ e = TeamEntry("team_paused", n) => n = m
    BY DEF TeamEntry
  <2>2. \A m, n : e = TeamEntry("team_resumed", m) /\ e = TeamEntry("team_resumed", n) => n = m
    BY DEF TeamEntry
  <2>3. \A m, n : ~(e = TeamEntry("team_paused", m) /\ e = TeamEntry("team_resumed", n))
    BY DEF TeamEntry
  <2>4. ASSUME NEW m \in Team, e = TeamEntry("team_paused", m)
        PROVE  PausedTeams(log') = PausedTeams(log) \cup {m}
    BY <1>2, <2>1, <2>3, <2>4
  <2>5. ASSUME NEW m \in Team, e = TeamEntry("team_resumed", m)
        PROVE  PausedTeams(log') = PausedTeams(log) \ {m}
    BY <1>2, <2>2, <2>3, <2>5
  <2> QED
    BY <1>2, <2>4, <2>5
<1>6. GatedNodes' = GatedNodes
  BY <1>3 DEF GatedNodes, DispatchedTo
<1> QED
  BY <1>3, <1>4, <1>5, <1>6

\* Every step of the dispatcher is one of the register, or leaves it as it was.
LEMMA RegisterStep ==
  ASSUME RegisterInv, RegisterInv', [Next]_vars
  PROVE  [Register!Next]_(Register!vars)
<1>1. TypeInv /\ (UNCHANGED log \/ \E e \in Entry : log' = Append(log, e))
  BY LogStep DEF RegisterInv, ClaimInv, OwnerInv
<1>2. CASE ReclaimedTwice'
  BY <1>2 DEF Register!Next
<1>3. ASSUME ~ReclaimedTwice' PROVE ~ReclaimedTwice /\ (ReclaimedTwice' = ReclaimedTwice)
  BY <1>1, <1>3, LogGrows DEF ReclaimedTwice
<1>4. DoneFollows /\ DoneFollows' /\ OwnersFollow /\ OwnersFollow'
  BY DEF RegisterInv
<1>5. DoneNodes' = {k \in Node : byNode'[k] \in Passed(log')}
  BY <1>4 DEF DoneFollows
<1>6. ASSUME ~ReclaimedTwice', Register!Undisputed PROVE Register!Next
  BY <1>3, <1>5, <1>6 DEF Register!Next
<1>7. ASSUME UNCHANGED <<byNode, Passed(log)>> PROVE DoneNodes' = DoneNodes
  BY <1>4, <1>7 DEF DoneFollows
<1>8. CASE ~ReclaimedTwice' /\ UNCHANGED log
  <2>1. byNode' = byNode
    <3>1. byNode \in [Node -> Task \cup {None}] /\ byNode' \in [Node -> Task \cup {None}]
      BY DEF RegisterInv, ClaimInv, OwnerInv, TypeInv, TypeOK
    <3>2. \A k \in Node : byNode'[k] = byNode[k]
      BY <1>3, <1>4, <1>8, SameOwner
    <3> QED
      BY <3>1, <3>2
  <2>2. GatedNodes' = GatedNodes
    BY <1>8 DEF GatedNodes
  <2> QED
    BY <1>3, <1>7, <1>8, <2>1, <2>2 DEF Register!vars, Register!grants, Register!gates
<1>9. ASSUME ~ReclaimedTwice', NEW e \in Entry, log' = Append(log, e)
      PROVE  [Register!Next]_(Register!vars)
  <2>1. CASE IsDispatch(e)
    BY <1>3, <1>6, <1>9, <2>1, DispatchGrants DEF IsDispatch, Register!Undisputed
  <2>2. CASE IsGate(e)
    BY <1>3, <1>6, <1>9, <2>2, GateResults DEF IsGate, Register!Undisputed
  <2>3. CASE \E t \in Task : e = ReclaimEntry(t)
    BY <1>3, <1>6, <1>9, <2>3, ReclaimWithdraws DEF Register!Undisputed
  <2>4. CASE ~IsDispatch(e) /\ ~IsGate(e) /\ \A t \in Task : e # ReclaimEntry(t)
    <3>1. /\ UNCHANGED <<byNode, GatedNodes, Reclaimed(log), Passed(log),
                        [k \in Node |-> DispatchedTo(log, k)]>>
          /\ \/ UNCHANGED PausedTeams(log)
             \/ \E m \in Team : \/ PausedTeams(log') = PausedTeams(log) \cup {m}
                                \/ PausedTeams(log') = PausedTeams(log) \ {m}
      BY <1>3, <1>9, <2>4, OtherEntries
    <3>2. CASE UNCHANGED PausedTeams(log)
      BY <1>3, <1>7, <1>9, <3>1, <3>2 DEF Register!vars, Register!grants, Register!gates
    <3>3. CASE \E m \in Team : \/ PausedTeams(log') = PausedTeams(log) \cup {m}
                               \/ PausedTeams(log') = PausedTeams(log) \ {m}
      <4>1. \E m \in Team : Register!Freeze(m) \/ Register!Thaw(m)
        BY <3>1, <3>3 DEF Register!Freeze, Register!Thaw, Register!grants, Register!gates
      <4> QED
        BY <1>6, <1>9, <4>1 DEF Register!Undisputed
    <3> QED
      BY <3>1, <3>2, <3>3
  <2> QED
    BY <2>1, <2>2, <2>3, <2>4
<1> QED
  BY <1>1, <1>2, <1>8, <1>9

\* The dispatcher implements the register of owners: while no append fails, leads
\* report nothing over a gate result and nodes are dispatched by graphs of one
\* plan, every step, a death and a cold start at any point included, is a step of
\* the register or leaves it as it was.
THEOREM ImplementsRegister ==
  /\ "io_error" \notin Env /\ "replan" \notin Env
  /\ "lead" \notin Env /\ "direct" \notin Env
  => (Spec => RegisterRefined)
<1> SUFFICES ASSUME "io_error" \notin Env, "replan" \notin Env,
                    "lead" \notin Env, "direct" \notin Env
             PROVE  Spec => RegisterRefined
  OBVIOUS
<1>1. Init => Register!Init
  <2> SUFFICES ASSUME Init PROVE Register!Init
    OBVIOUS
  <2>1. log = <<>> /\ byNode = [k \in Node |-> None]
    BY DEF Init
  <2>2. \A e : ~Logged(<<>>, e)
    BY DEF Logged
  <2>3. /\ \A k \in Node : DispatchedTo(log, k) = {}
        /\ Reclaimed(log) = {} /\ PausedTeams(log) = {} /\ Passed(log) = {}
        /\ ReclaimedTwice = FALSE
    BY <2>1, <2>2, EmptyLog DEF Reclaimed, PausedTeams, Passed, LastIs, ReclaimedTwice
  <2>4. DoneNodes = {} /\ GatedNodes = {}
    BY <2>1, <2>3 DEF DoneNodes, GatedNodes
  <2> QED
    BY <2>1, <2>3, <2>4 DEF Register!Init
<1>2. RegisterInv /\ RegisterInv' /\ [Next]_vars => [Register!Next]_(Register!vars)
  BY RegisterStep
<1>3. Spec => []RegisterInv
  BY RegisterInvHolds
<1> QED
  BY <1>1, <1>2, <1>3, PTL DEF Spec, RegisterRefined, Register!Spec

=============================================================================
