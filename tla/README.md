# Verification of Amnesic Pi

TLA+ models of this repository's code, the TLC runs that check them on small
instances, and TLAPS proofs of what matters most for instances of every size.
`PROJECT.json` lists components, runs, mutants, the map from definitions to source
lines, findings, hazards and theorems.

    tlc -workers 2 -config Dispatcher_restarts.cfg MCDispatcher  # one run
    tlapm DispatcherProofs.tla                                   # one proof module

## 1. The system

The repository holds two programs.

**The orchestrator** (`src/orchestrator`, 2439 lines) is a control plane that routes
work to team leads with an audit trail. Its parts, their state and their operations:

| Part | State | Operations | What makes it correct |
|---|---|---|---|
| `dispatch.py` Dispatcher | task records, index node -> owner, paused teams, read-only flag | dispatch, dispatch_graph, reclaim, deliver, ingest_status, accept_gate, pause/resume, record_decision, may_ship, stuck_tasks, restore_from | one owner per node; records agree with the log; no dispatch to a paused team or before a dependency passed; ships only what passed |
| `state.py` replay, cold_start | none: a projection of the log | replay, the five cold-start checks, restoring and opening | the state after a restart is the one the log tells; nothing opens over sinks that differ or a topology that does not fit |
| `audit.py` AuditLog | primary and mirror files, flock, cached head | append, next_seq, verify_chain, check_mirror | the chain never breaks; the cache is never stale; the mirror converges; an alarm means something |
| `tokens.py` KeyRing, ReplayLedger | two keys, consumed tasks | sign, verify, rotate_now, consume | unexpired tokens are not dropped, revoked ones never verify, none is used twice |
| `schema.py` | none | WorkGraph.validate; strict parsing of nodes, statuses, envelopes, memos | accepts exactly the graphs that can be dispatched in some order, one team per artifact |
| `topology.py` | none: a manifest read at start | Team.validate, Topology.validate, look-ups | accepts exactly the manifests in which every agent has one lead and every gate one owner |
| `gates.py` | none: a table | parse, validate, waive | the certifier owns the gate |
| `cli.py` | none | dispatch, coldstart, audit-verify, validate-graph | several processes over one log; what validate-graph accepts can be dispatched |

**The appliance** renders and applies an nftables policy, orders it in the boot before
forwarding is enabled, and verifies the result.

| Part | State | Operations | What makes it correct |
|---|---|---|---|
| `amnesic_pi/cli.py`, `firewall.py`, `config.py` | network.env, the kernel's table | apply-firewall, render-firewall | a policy in force is replaced by another or kept, never lost or mixed |
| `systemd/`, `config/` | unit states, net.ipv4.ip_forward | start, stop, fail, reboot | Tor and forwarding come up only behind the policy |
| `amnesic_pi/verify.py` | none | verify | a pass means what it says |

How the parts interact: Dispatcher calls KeyRing.sign, then AuditLog.append, then changes
its records; leads call deliver (KeyRing.verify, ReplayLedger.consume, append) and
ingest_status; cold_start loads the topology, verifies the chain, compares the mirror,
replays the log into a new Dispatcher, appends the pauses again and opens it. All processes
share the two audit files and the manifest, and nothing else. The firewall unit runs
apply-firewall; Tor and the verify unit require the firewall unit; systemd-sysctl is only
ordered after it.

What is hard here: every operation changes memory and appends to a file, and either may
happen without the other; a process may die between the two appends of a reclaim; what is
not in the log (deadlines, superseded_by, consumed tokens) is gone after a restart; status
reports and gate results arrive in any order; several processes share the sinks, no lock
spans a replay and the appends that rest on it, and the mirror is written outside the lock;
keys rotate while tokens are in flight; an apply looks at the table before it replaces it;
units fail, and are started, stopped and retried by hand.

## 2. The modules

| Module | Models | Runs | Proofs |
|---|---|---|---|
| `Replay` | the entries of the log; replay of state.py and restore_from of dispatch.py | through the next two | |
| `Dispatcher` | dispatch.py and the cold start of state.py, one process at a time | `MCDispatcher`: 2 passing, 1 finding | `DispatcherProofs` |
| `Register` | what the dispatcher promises: a register of owners that never restarts | through Dispatcher | |
| `ControlPlane` | cli.py and state.py: several processes over one log, and a manifest that changes | `MCControlPlane`: 1 passing, 1 finding | `ControlPlaneProofs` |
| `HashChain` | what the primary sink promises: an append-only, numbered, linked sequence | through AuditLog | |
| `AuditLog` | audit.py with several processes | `MCAuditLog`: 2 passing, 1 finding | `AuditLogProofs` |
| `KeyRing` | tokens.py and the passing of time | `MCKeyRing`: 1 passing | `KeyRingProofs` |
| `WorkGraph` | WorkGraph.validate of schema.py | through ValidateGraph | `WorkGraphProofs` |
| `Topology` | Topology.validate of topology.py over the registry of gates.py | through ValidateGraph | `TopologyProofs` |
| `ValidateGraph` | the validate-graph command; composes Topology and WorkGraph | `MCValidateGraph`: 1 passing | `ValidateGraphProofs` |
| `Firewall` | apply-firewall and the checks verify makes of the table | through BootChain | |
| `BootChain` | the units of systemd/ around Firewall; extends it | `MCBootChain`: 1 passing, 1 finding | `BootChainProofs` |

Some definitions stand in front of the one they vary (`DispatchableTwice` before
`Dispatchable`): each is a plausible bug in that place, and PROJECT.json names the property
it breaks.

### Replay and Dispatcher

Python objects become functions over task ids and nodes: `state`, `nodeOf`, `supersededBy`,
`ackDeadline`, `nextUpdateBy` are the fields of TaskRecord, `byNode` is `_by_node`, `paused`
is `_paused`. `log` is the primary sink; `mirrored` is false once an append reached only the
primary. `signed` and `consumed` stand for the key ring and the replay ledger.

A call is one action when it appends once, because calls of one process do not overlap and
no time passes that another actor could see. dispatch_graph, reclaim and cold_start append
several times, and a death or an OSError can fall in between: they are split at each append,
with `pc` saying where the call stands. So reclaim is `Reclaim` (abandon, append, release the
node) followed by `ReclaimDispatch` (the inner dispatch and superseded_by), and either may
raise as the code does: the append fails, the graph no longer has the node, the node has no
owner, the team is paused. An append has three outcomes: both sinks, neither, or only the
primary (`Write`, `WriteFails`). `ColdStart` may fire in any state: it is the death of the
process and the start of the next; the pauses and the last entry of the cold start are
actions of their own. The operators of `Replay` (`Claims`, `Passed`, `PausedTeams`,
`RestoredOwner`, ...) are functions of a log, translated from `replay` and `restore_from`;
properties use them as the meaning of the log.

`Register` is what whoever works from the dispatcher may believe: a node is granted to one
fresh task when its team is not frozen and all it depends on has passed a gate, and only an
owner that has not passed loses its node, by being withdrawn. It has no process, log or
restart. `Dispatcher!Register` maps `owner` to the index in memory, `done` to the nodes that
count for a ship decision, and what was granted, withdrawn, frozen and passed to what the log
says; a cold start in the middle of a reclaim must therefore leave all of it as it was. The
register promises nothing any more (`disputed`) once a task was reclaimed twice.

What the surroundings do is the constant `Env`, so that each run turns on what its question
needs: restart, io_error, pause, replan (reclaim with another graph), clock, keep_keys (a
cold start given the old key ring), direct (callers of dispatch on a node), lead, memo.

Abstracted: payloads, deliverables and teams' leads (fixed per node); token checks that
change no state (a delivery presents what was signed); rejected calls, which change nothing;
task ids, always fresh. Not in the model: dispatch with a task_id chosen by the caller, which
no code in src/ does, and dispatch_graph(ready_only=False).

### ControlPlane

A process is what it knows of the log: `view` is the entries it replayed and those it
appended, and its records, owners and pauses are `Replay` of that view, which is what
restore_from followed by its own calls leaves in memory. The dispatch command is `Start`,
`CheckAndReconcile`, `PauseAgain`, `OpenForDispatch`, `DispatchGraph`, `WaveStep`,
`WaveRaises`, `WaveEnd`, `Exit`; coldstart exits after opening; a session of the library also
calls accept_gate, pause_team and resume_team. An append waits for its mirror line (`owes`),
as append does not return before; `Crash` is a process killed in between. A cold start that
fails a check ends the command with nothing written; `PauseAgain` also ends it at a team the
topology lacks, after it has logged some of the pauses. `EditManifest` lets teams that own no
gate leave the manifest and come back, the only change Topology.validate lets an operator
make to the set of teams. Reclaims, late reports and failing appends stay with Dispatcher,
the lock and cut writes with AuditLog: the model takes from AuditLog that an append is one
line at the end of the primary.

`behind` is a history variable: some process has appended while the log held entries it had
not replayed. Everything that two commands can do to each other goes through it.

### AuditLog and HashChain

Any number of processes, each with its cached head and size. `append` is Lock, ReadHead,
Write, Unlock, WriteMirror, so that every process can come between any two; `next_seq` outside
the lock is PeekSize and PeekScan, because it reads the size before the file. `check_mirror`
is two reads.

A sink is a sequence of pieces, one for each stretch of a line that was written: the line it
is `of`, `from` where `to` where in the JSON (the start, somewhere inside, the end), and
whether the newline has `ended` it. A write that does not get through may have put down
nothing, a part of the JSON, all of it, or the newline too. `WriteStops` and `MirrorFails` are
writes that raise, with the rest of the line possibly left in the buffer; `Close` and
`MirrorClose` are the end of the with statement, which closes the file and writes what is left
of it; `Crash` may cut a write anywhere. What a reader makes of a sink follows from the pieces
(`Lines`, `Readable`, `Entries`): an entry without its newline reads as an entry, and what is
written next goes on the same physical line. `primary` and `mirror` fail in the same way, but
only the primary is scanned before it is written, and only by a process whose cache does not
match its size.

The finally clause of append lets go of the lock before the with statement closes the file.
`overlapped` records that some process took the lock in that time; a line then written at
closing has a number and a link another line may have too. `lost` holds the entries whose
call raised or whose process died. A process does not go on with a file it failed to close.
The refinement `Chain == INSTANCE HashChain` maps the entries put down in the primary, whole
or not, to the chain: numbers and links are fixed when a line is composed.

### KeyRing

Time is a counter. sign reads the clock two or three times, so it is Current, Rotate, Stamp,
with at most `MaxLag` passing inside. `disturbed` and `revoked` are history variables: the
tokens whose key a rotation by hand dropped, and those a revoking one was meant for. The clock
never goes back (see the hazards).

### WorkGraph, Topology, ValidateGraph

In `WorkGraph` one action is one turn of a loop of validate: ids, dependencies, Kahn's rounds,
artifacts. `WellFormed` says what a graph should be without any algorithm: acyclic means that
no non-empty set of nodes has each member waiting for another member.

In `Topology` one action is one turn of the loop over the teams, or of the loop of
_validate_gate_coverage. The inner loops over a team's sub-agents and gates are one operator,
`NewIn`. The gate registry is the constant `OwnerTeam`, so the proofs hold for any registry.
`Governed` says what a manifest should be in terms of the manifest alone.

`ValidateGraph` runs the one, then the other, then looks up the team of every node, and is
compared with what dispatch later looks up for a node (`DispatchResolves`) and with the
certifier that GateResult.validate accepts (`Certified`).

### Firewall and BootChain

An apply is `Look` (load, render, ask nft whether the table exists), then `CheckFails` or
`Commit`; between the two anything may happen, another apply included. `rules` is the set of
configurations whose rules the table holds: a batch without "delete table" adds to what is
there. A content of network.env is one that renders and is accepted, one that nft -c refuses
(`Refused`), or one that does not load (`None`). `Reach` is what verify's text search comes
to on the listing of this policy: a window of 700 characters from the name of a chain to the
chains listed after it.

`BootChain` has a set of start jobs; a job is due when the jobs it is ordered after have
ended, well or not, which is what After and Before mean in systemd; Requires is a condition on
the firewall unit's state, and stopping the firewall unit stops what requires it. The apply
of the firewall unit is an apply like any other, next to those an operator runs by hand. What
sysinit.target orders besides is left out, which only lets more happen. verify is two steps,
because it lists the table before it asks for forwarding and the ports. `failed` (the
firewall unit failed in this boot) and `raced` (an apply met a table that was not there when
it looked) are history variables.

## 3. The runs

All runs state their bounds in the cfg. CHECK_DEADLOCK is FALSE where a bounded log or clock
ends every behaviour, and where validate or a process that nobody calls does stop; BootChain
never stops and checks it.

| Run | Question | States |
|---|---|---|
| `Dispatcher_faults` | index, records, log, ledger and deadlines of one node under every failure | 681 thousand |
| `Dispatcher_restarts` | owners, dependencies, pauses, passes and ship decisions of two nodes across reclaims and restarts; refinement of Register | 279 thousand |
| `ControlPlane_processes` | two processes over one log: owners, pauses, dependencies, sinks and topology | 566 thousand |
| `AuditLog_writers` | refinement of HashChain, caches, mirror and check_mirror with deaths and writes cut anywhere | 913 thousand |
| `AuditLog_mirror` | convergence of the mirror next to calls that die or raise, under fairness | 169 thousand |
| `KeyRing_rotation` | tokens across rotations and revocations | 1.4 million |
| `ValidateGraph` | what the command accepts, rejects and lets through, and that it ends | 208 thousand |
| `BootChain` | Tor, forwarding, applies and verify over boots, failures and commands by hand | 212 thousand |

Why the bounds are enough. Ownership needs three tasks of one node: an owner, its replacement,
and the third that a second reclaim creates; `Dispatcher_restarts` has three tasks for two
nodes, so that one node can have an owner and a replacement while the other depends on it, and
eight entries, which hold dispatch, reclaim, re-dispatch and pass of the first node, the
dispatch of the second, a pause, and cold starts. Faults runs all failures at once with five
entries. `ControlPlane_processes` needs two processes for every race between a replay and an
append, and six entries, because each cold start of the dispatch command takes one and a
replayed pause another: cold start and pause of the first, repeated pause and cold start of the
second, leave two for what either does after it, and a second process that replayed an old log
has a cold start, a gate result and a dependent to dispatch. To keep six entries within reach,
`Scope` (MCControlPlane) stops logs of more than four entries unless they are about pauses or
about gates and not both, with at most two cold starts and two pauses of a team, nothing else
twice, no line missing from the mirror, and every team in the manifest. Up to four, everything
may happen. Two writers and three entries show every order of two appends against a third,
which a stale cache needs; at most two of the three are of a call that raised or died (`Scope`
of MCAuditLog), which leaves one to be written after the damage. Key rotation needs two
rotations while a token is alive, hence three tokens and twice the interval. Four nodes carry
every kind of cycle up to a square with a diagonal, and a node that waits for two others. The
manifests have every flaw of one team before a sound team, every pair of teams that are sound
alone, and a third team that owns no gate: each check of validate compares a team with those
before it, so two teams show each clash. The boot has two applies (the unit's and one by hand),
which is every race of a look and a commit, and three configurations: two that can be mixed,
and one that is refused.

Fairness. `AuditLog!FairSpec` assumes that a call of append, once it holds the lock, runs to
its end unless it raises or its process dies: the code between is straight-line with no
waiting, and a process is scheduled. It asks nothing of the caller, so nobody is obliged to
append, and `Lock` is not fair. Processes of `AuditLog_mirror` die and writes to the primary
raise; an entry whose own call did not survive is excused (`lost`), because the code leaves the
mirror behind for good then, and `OpenedOnBothSinks` says that no process opens over it any
more. `ValidateGraph!Command` has weak fairness of the command's next step: it is one process
in straight-line loops, and nothing it waits for.

Type invariants are theorems of every module and are not repeated in the runs.

Conditions under which properties hold, and where the code leaves them:
`OneOwnerUnlessReclaimedTwice` holds for sinks that agree and tasks no one reclaims twice.
`PassIsLogged`, `NoDispatchWhilePaused` and `PassedOwnerKept` hold without failing appends, the
last also without late reports: what a gate result, a pause or a report leaves in memory when
its append raises, or when it comes late, is not covered by them; `DependenciesGatedFirst`
without failing appends and without callers of dispatch on a node; `OwnerRestorable` without a
reclaim whose graph lost the node, and `ShipFollowsLog` without that and without failing
appends. `RegisterRefined` needs all of these: no failing append, no late report, no graph that
lost a node, no caller of dispatch on a node. `UnacknowledgedIsStuck` holds for tasks this
process dispatched, `DeliveredOnce` while a cold start makes its own key ring, and
`HonouredInFlight` for tokens whose key no call of rotate_now revoked or found second in the
ring: one plain rotation by hand drops no token in flight, a second one does.

Of the audit log, `ChainRefined`, `ChainIntact`, `CacheCoherent` and `DamageAtTail` hold until a
lock is taken while a failed append still has its file to close (`overlapped`), which takes a
write to the primary that raised (`OnlyFailuresOverlap`); `MirrorIsCopy` and `AlarmNeedsAppend`
hold always. `ChainIntact` is about a primary that can be read: after a cut write verify_chain
may raise on a line that is not JSON, and that is what the log can do about it. Three of these
behaviours are worth knowing: an entry cut inside its JSON stops every append but those of a
process whose cache has the present size, and none has, because the cut itself changed it
(`DamageAtTail`); an entry cut just before its newline passes for the head, the next entry goes
on its line, and from then on each replay raises on a line in the middle of the file; and a
mirror that was cut is written on without a look, so `MirrorIsCopy` speaks of parts of lines.

Across processes, `OneOwnerUnlessBehind` and `NoDispatchWhilePaused` hold until some process
appends after entries it missed; `DependenciesGatedFirst`, `OpenedOnBothSinks` and
`OpenedFitsTopology` hold whatever they miss. `OpenedFitsTopology` leaves out tasks that had
passed: a gate result that overturns a pass reopens a task whose team the manifest may have
lost. `ForwardingNeedsPolicy` holds in boots whose firewall unit has not failed,
`RulesOfOneConfig` as long as no apply meets a table it had not seen. `PassedIsSecured` holds
because nothing in the repository takes the table or forwarding away while the machine is up;
only another program could make a pass stale, and none is modelled.

### Findings

Each is a run that violates one property the repository states.

| Run | What the code does |
|---|---|
| `Find_owner_restart` | a restart forgets superseded_by: reclaiming the old task again gives two owners |
| `Find_mirror_order` | two appends reach the mirror in the other order, and the sinks differ for good |
| `Find_two_commands` | two dispatch commands that replay the same log give a node two owners |
| `Find_boot_forwarding` | a firewall unit that failed does not keep systemd-sysctl from enabling forwarding |

Other settings of the same runs show the neighbours of these behaviours. In Dispatcher, with
"io_error" `PassIsLogged` fails: a pass stands in memory when its log entry failed
(dispatch.py:355). With `Report = {"running"}` and "lead", `PassedOwnerKept` fails: a late
report is written over "gate_pass" (dispatch.py:324) and the passed owner can be reclaimed.
With "pause" and no restart, `ReplayShowsOneOwner` fails when a reclaim cut short by a pause is
repeated after the resume. With "keep_keys", a token consumed before a restart is accepted
again (`DeliveredOnce`).

One disagreement has no run. `src/docs/verification.md:9` says that verify checks that
"input/forward/output base policies are DROP". verify.py:44 looks for "policy drop" in the 700
characters from the name of a chain, which reach the chains listed after it (`Reach`): with
input or forward set to accept by `OpenChain`, all three checks still pass as long as output
drops. `TableProven` has that behaviour; no property restates it.

## 4. The proofs

All theorems hold for every value of the constants that satisfies the modules' assumptions:
functions on nodes have their types, None is no task, bounds are naturals, the manifests and
graphs given are of their types. Each module's type invariant is a theorem, except
Topology's types, which are part of its loop invariant. `Register` and `HashChain` are
abstract specifications: their proofs are those that the others implement them.

**DispatcherProofs.** `TypesHold` needs to know what a call under way holds (`TypeInv`: the
task a reclaim is for has a record and a node). `OwnersWellFormed`, `RecordsFollowLog` and
`SupersessionIsLogged` come from one inductive invariant, `OwnerInv`: each task was dispatched
to one node; a record names a node it was logged for, and a logged task has a record while the
sinks agree; a task without a record supersedes nothing and is not superseded; the task of a
reclaim under way is logged as reclaimed and its node is free; and the three properties. It
is needed because well-formed ownership is not inductive: after a restart the owner comes from
the log, so what the log says must be tied to the records, and a replacement must be known to
be fresh in both. The proof splits steps by what they do to the log and the records (lemma
`StepKinds`: quiet, claimed, lost, released, rebuilt) instead of once per action.
`NoSecondDelivery` shows that acceptance at ingress is unique in the log, if a cold start
makes its own key ring: an accepted task is consumed or no longer signed, and a task that is
signed was dispatched by this process. `SilenceIsStuck` needs the same condition: such a task
has its deadline as long as its lead says nothing.

The theorems that follow carry the conditions under which the runs check them, as hypotheses
on `Env`. `PassesAreLogged`, `PausesHold`, `DependenciesFirst` and `PassedOwnersKept` assume
that no append fails; then every step is a plain one, a resumption, a gate result, a dispatch
or a cold start (lemma `SoundKinds`). `PausesKnown` ties the set in memory, with what a cold
start still has to put there, to the pauses of the log. A node of a wave has a pass in the log
for each dependency (`WaveGated`), because ready records are logged ones; a reclaim dispatches
a node the log has dispatched before, so its dependencies passed even earlier.
`PassesRemembered` is the converse of `PassIsLogged` for tasks no one reclaimed. Ownership
against the log needs that each task is dispatched once and reclaimed only afterwards
(`ClaimInv`). From it, `OwnersRestorable`: the owner in memory is the last claim of its node;
it fails only for a reclaim whose graph has lost the node, which logs and then raises. And
`OneOwnerInLog`, from `OneClaim`: a node without an owner in memory has no claim left in the
log, unless a task was reclaimed twice. It holds for every environment, failing appends
included: to reclaim a task twice, as `Find_owner_restart` does, is the only way to two claims
while the sinks agree.

`ImplementsRegister` is the refinement. Its argument is that memory is a function of the log
(`OwnersFollow`, `DoneFollows`): the owner of a node is the one a replay would restore, and a
node is done exactly when a replay would find its owner passed. A cold start then changes
nothing the register sees, and every other step is decided by the entry it appends
(`RegisterAfter`): a dispatch is a grant, whose guards are the invariants of the theorems
above (a fresh task, `PausesHold`, `DependenciesFirst`, an owner that a free node cannot have
in the log); a reclaim is a withdrawal of an owner that has not passed (`PassedOwnersKept`);
a gate result is a pass or a fail of a granted task, a pause a freeze. Its four hypotheses on
`Env` are those under which memory follows the log; a failing append, a late report or a graph
that lost its node each break one of the two equations, and a caller of dispatch on a node
grants before the dependencies passed.

**ControlPlaneProofs.** Five arguments. `DependenciesFirst` needs only that a view holds
nothing the log lacks (`ViewsLogged`) and that a wave holds nodes whose dependencies have a
pass in the view (`WavesReady`). `PausesHold` and `OneOwnerAtATime` come from `LogInv`: while
no process was behind, a process whose view is the whole log decides as the log says, each
task is dispatched once, and each node has one claim; a process whose view is not the whole
log may not append without setting `behind`. `OpenedOverBothSinks` follows because sinks only
grow and the check compared them as they were (`CheckedStands`). `OpenedTopologyFits` carries
what CheckAndReconcile established through the process's own appends, which only touch teams
it declares. `ProcessesShareRegister` shows that the processes together implement `Register`
too, with the owners a replay of the log restores, and `disputed` while some process was
behind: before that, the process that appends has the whole log in view, so its decision is
the register's. Nothing but that hypothesis is assumed; it is the one `Find_two_commands`
lacks. The refinement is stated in the proof module.

**AuditLogProofs.** `AuditInv`: the lock holder is the only process between ReadHead and
Unlock (`LockExclusive`); a composed line is in the primary or still to be written, its hash
is its own, and a failed call is recorded (`Composed`, `Failing`, `Recorded`, `Unwritten`).
`ChainInv`, as long as the lock was never taken over a failed append that had its file to
close: at most one process is closing, and then nobody holds the lock (`LoneCloser`); entries
are numbered and linked by position (`Numbered`); all but the last are whole, and what a
closing process has left continues the last (`Tails`); a cache with the file's size holds its
last line (`CachedTail`). The condition is needed for each: closing writes behind another
process's lock. They give `ChainAlwaysIntact`, `CacheIsCoherent`, `DamageStaysAtTail` and the
step simulation of `ImplementsChain`. `OnlyFailuresOverlap` says when the condition is met by
itself: a process that dies closes nothing, and one whose mirror write raised has let go of
the primary.

`MirrorInv` adds to `MirrorIsCopy` that a process which is writing to the mirror has its whole
line in the primary, and has put down of it in the mirror no more than it knows of (`sent`), so
that what it adds when it closes the file comes after. `MirrorHoldsCopies` needs no condition,
cut writes, closing and overlapping included. `Accounted`, the statement of `NoLineLost`, is
the safety half of `MirrorConverges`: no entry is forgotten but by a call that raised or a
process that died. `CountInv` counts newlines: the mirror has ended no more lines than the
primary, even after the writers that owe it a line and those that may still end one when they
close (`Debtors`, `Halfway`) have all done so. Hence the mirror never has more lines than the
primary, which is `AlarmsNeedAppends`. With nothing failing (`CallsFinish`), sinks with no call
under way are of one length (`QuietSinksOneLength`) and can differ only in the order of their
lines. A process that appends alone keeps even the order (`LoneWriterSinksAgree`): two
appending processes are what `Find_mirror_order` takes.

**KeyRingProofs.** `InFlightTokensVerify` assumes `TTL + MaxLag <= Rotation` (thirty minutes
and an hour by default; nothing in the code enforces it). `FlightInv`: an undisturbed token is
expired, or signed by the signing key and expires within two intervals of its making, or by the
previous key and expires before the next rotation can fall due. A plain rotation by hand takes
the one case to the other, because no token outlives the present by more than `TTL`.
`RevokedNeverVerifies` uses that key ids grow.

**WorkGraphProofs.** `GraphInv` says what each loop has established at its index; the heart is
that a circular set of nodes stays in the pending set as a whole, so it is empty only for
acyclic graphs, and that pending nodes none of which is ready are themselves such a set.
`StepsLeft` counts the turns the loops still have; it is a natural number and falls at every
step, because a round that does not reject removes a ready node from a finite pending set.

**TopologyProofs.** `LoopInv` says that the sets of names, leads, sub-agents and gates hold
exactly what the teams before the turn hold, and that those teams are pairwise distinct. It
gives both directions, `AcceptsGoverned` and `RejectsUngoverned`: a team that does not get
through is itself a reason why the manifest is not governed. `TurnsLeft` is its measure.

**ValidateGraphProofs.** `CommandValidatesTopology` and `CommandValidatesGraph` show that the
command implements both specifications, each step being a step of the one or a stutter, and
carry their theorems over: `CommandAcceptsGoverned` and `CommandRejectsUngoverned`,
`CommandAcceptsWellFormed`, and as their sum `CommandDecides`, that "ok" and an error each say
of the input what they should. `StepsRunOut` adds the measures of the two validations to the
command's own steps: each step lowers a natural number, so the command takes finitely many.
That a step is possible before there is an outcome needs ENABLED, and is `CommandEnds` in the
run. `OnlyUnknownGates` and `EveryGateCanPass` combine the accepted
manifest with the look-ups.

**BootChainProofs.** `BootInv`: the unit's job ends only with the table there or with a failure
(`JobAnswered`), and what is up came up over the table (`UpOverTable`). `PolicyIsKept` is an
action property: no step but `Reboot` empties `rules`. The conclusion for Tor is not inductive
alone: Requires asks for the unit's state, which must be tied to the table, and that holds
because nothing but a reboot takes the table away.  What is only model-checked: the liveness
properties `MirrorConverges` and `CommandEnds`, whose safety halves are `NoLineLost` and
`StepsRunOut`. Liveness under fairness, ENABLED, what a recursive definition computes for every
input (induction over data), and modules with RECURSIVE operators are out of the prover's reach
and stay with TLC; no module here needs a RECURSIVE operator. The four findings are runs, and
no theorem is about them.

## 5. What is not modelled, and the plan

Not modelled, and why:

- Strict parsing and single-field checks of the schemas, waivers, errors.py, package exports:
  no state, no order, nothing interleaves. A waiver is read by no code in src/.
- The rules inside the nft chains: to the code they are text. The verdict of the kernel on a
  packet is outside the repository; so is a flush of the ruleset by another program, which
  would break `TorNeedsPolicy` and which no unit of the repository answers.
- Provisioning and the amnesia check: shell scripts that install files and inspect mounts.
- The IPv6 settings: set by the file that enables forwarding, and read by verify; nothing
  else touches them.
- A clock that goes back, and tokens with a ttl longer than the rotation interval: listed
  under the hazards with the assumption they break.
- A process that reclaims, reports late or fails an append next to another process:
  Dispatcher has these for one process, ControlPlane the several processes without them.

What is left: reclaims in ControlPlane, so that a reclaim of one process races the dispatch of
another, and `ProcessesShareRegister` for that model.
