---------------------------- MODULE MCDispatcher ----------------------------
(* Small instances of Dispatcher for TLC.                                  *)
EXTENDS Dispatcher, TLC

CONSTANTS t1, t2, t3, build, ship, g1, policy

\* One node of one graph
OneNode      == {build}
OneGraphOf   == [k \in OneNode |-> g1]
OneTeamOf    == [k \in OneNode |-> policy]
OneDependsOn == [k \in OneNode |-> {}]

\* Two nodes of one graph and one team; ship depends on build
TwoNodes     == {build, ship}
TwoGraphOf   == [k \in TwoNodes |-> g1]
TwoTeamOf    == [k \in TwoNodes |-> policy]
TwoDependsOn == (build :> {}) @@ (ship :> {build})

Symmetry == Permutations(Task)
=============================================================================
