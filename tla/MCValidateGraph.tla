--------------------------- MODULE MCValidateGraph ---------------------------
(* Small instances of ValidateGraph for TLC.                               *)
EXTENDS ValidateGraph, TLC

CONSTANTS a, b, c, d, x, policy, network, research, f, g, gp, gn, l1, l2, s1, s2

WithDeps(n, ds)      == [id |-> n, team |-> policy, dependsOn |-> ds, paths |-> {}, sound |-> TRUE]
WithPaths(n, m, ps)  == [id |-> n, team |-> m, dependsOn |-> {}, paths |-> ps, sound |-> TRUE]

\* Every dependency relation over four nodes of one team, one of them free to
\* name a node the graph does not have
CyclesGraphs ==
  {<<WithDeps(a, p), WithDeps(b, q), WithDeps(c, r), WithDeps(d, s)>> :
     p \in SUBSET {b, c, d}, q \in SUBSET {a, c, d},
     r \in SUBSET {a, b, d}, s \in SUBSET {a, b, c, x}}

\* Up to three nodes with any ids, teams and artifacts, sound or not, and a
\* dependency that may close a cycle
MixedNodes ==
  {[id |-> n, team |-> m, dependsOn |-> ds, paths |-> ps, sound |-> s] :
     n \in {a, b}, m \in {policy, network}, ds \in SUBSET {a, b},
     ps \in {{f}, {g}, {f, g}}, s \in {TRUE}}
MixedGraphs ==
  {<<>>} \cup {<<u>> : u \in MixedNodes} \cup {<<u, v>> : u, v \in MixedNodes}
    \cup {<<WithPaths(a, m, ps), [WithPaths(b, n, qs) EXCEPT !.sound = s], WithPaths(c, o, rs)>> :
            m, n \in {policy, network}, o \in {policy, research}, ps, qs, rs \in {{f}, {g}, {f, g}}, s \in BOOLEAN}

AllIds    == {a, b, c, d, x}
AllGraphs == CyclesGraphs \cup MixedGraphs

TwoOwners == (gp :> policy) @@ (gn :> network)
TwoGates  == (a :> gp) @@ (b :> gn) @@ (c :> gp) @@ (d :> OtherGate) @@ (x :> gp)

Entry(n, l, ch, gs, ss) ==
  [name |-> n, lead |-> l, charter |-> ch, gatesOwned |-> gs, subagents |-> ss]
Of(v, ms) == [version |-> v, teams |-> ms]

PolicyTeam  == Entry(policy, l1, TRUE, <<gp>>, <<s1>>)
NetworkTeam == Entry(network, l2, TRUE, <<gn>>, <<s2>>)
Base        == Of(1, <<PolicyTeam, NetworkTeam>>)

\* Any one team before a sound one
AnyEntries ==
  {Entry(n, l, ch, gs, ss) :
     n \in {policy, network}, l \in {l1, l2, NoLead}, ch \in BOOLEAN,
     gs \in {<<>>, <<gp>>, <<gn>>, <<gp, gp>>, <<OtherGate>>, <<gp, gn>>},
     ss \in {<<>>, <<s1>>, <<s2>>, <<s1, s1>>, <<s1, l2>>}}

\* Teams that are sound alone, two at a time
SoundEntries ==
  {Entry(n, l, TRUE, gs, ss) :
     n \in {policy, network}, l \in {l1, l2}, gs \in {<<>>, <<gp>>, <<gn>>, <<gp, gp>>},
     ss \in {<<s1>>, <<s2>>, <<s1, s1>>}}

AllManifests ==
  {Of(v, <<>>) : v \in {1, 2}} \cup {Of(2, Base.teams)}
    \cup {Of(1, <<e, NetworkTeam>>) : e \in AnyEntries}
    \cup {Of(1, <<e, o>>) : e, o \in SoundEntries}
    \cup {Of(1, <<PolicyTeam, NetworkTeam, Entry(research, l, TRUE, <<>>, <<s>>)>>) :
            l \in {l1, l2, s1}, s \in {s1, l1, l2}}

SmallGraph == <<WithPaths(a, policy, {f}), WithPaths(b, network, {g})>>

AllInputs ==
  [manifest : {Base}, graph : AllGraphs] \cup [manifest : AllManifests, graph : {SmallGraph}]

GraphsAsked == AllGraphs \cup {SmallGraph}
=============================================================================
