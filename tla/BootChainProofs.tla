-------------------------- MODULE BootChainProofs ---------------------------
(***************************************************************************)
(* Theorems about BootChain, for any configurations and any number of      *)
(* applies under way, with machine-checked proofs.                         *)
(***************************************************************************)
EXTENDS BootChain, FiniteSetTheorems, TLAPS

\* The unit's job has ended only with the table there, or with a failure
JobAnswered == "firewall" \notin jobs => rules # {} \/ failed

\* What is up, or has passed, in this boot came up over the table
UpOverTable ==
  /\ firewall = "active" => rules # {}
  /\ tor = "active" => rules # {}
  /\ forwarding => rules # {} \/ failed
  /\ verified \in {"listed", "passed"} => rules # {}
  /\ verified = "passed" => forwarding

BootInv == TypeOK /\ JobAnswered /\ UpOverTable

\* The steps of one apply, as far as the invariants go: the table is left
\* alone, or holds what the apply had rendered.
LEMMA ApplyTypes ==
  ASSUME BootInv, NEW a \in Applier, Look(a) \/ CheckFails(a) \/ Commit(a)
  PROVE  /\ FirewallTypeOK'
         /\ rules # {} => rules' # {}
         /\ Commit(a) => rules' # {}
         /\ \A b \in Applier \ {a} : read'[b] = read[b]
         /\ CheckFails(a) \/ Commit(a) => read'[a] = None
BY ConfigAssumption
  DEF BootInv, TypeOK, FirewallTypeOK, Look, CheckFails, Commit, Returns

LEMMA BootInvInit == Init => BootInv
<1> USE BootAssumption, ConfigAssumption
<1> SUFFICES ASSUME Init PROVE BootInv
  OBVIOUS
<1>1. FirewallTypeOK
  BY DEF Init, FirewallDown, FirewallTypeOK
<1>2. TypeOK
  BY <1>1 DEF Init, FirewallDown, TypeOK
<1>. QED
  BY <1>2 DEF Init, BootInv, JobAnswered, UpOverTable, Units

LEMMA BootInvStep == BootInv /\ [Next]_vars => BootInv'
<1> SUFFICES ASSUME BootInv, [Next]_vars PROVE BootInv'
  OBVIOUS
<1> USE BootAssumption, ConfigAssumption
<1> USE DEF BootInv, TypeOK, JobAnswered, UpOverTable, Units
<1>1. CASE FirewallStarts
  <2>1. FirewallTypeOK' /\ rules' = rules
    BY <1>1, ApplyTypes DEF FirewallStarts, Look
  <2>. QED
    BY <1>1, <2>1 DEF FirewallStarts, Due, units
<1>2. CASE FirewallSucceeds
  BY <1>2, ApplyTypes DEF FirewallSucceeds, Ends
<1>3. CASE FirewallFails
  <2>1. FirewallTypeOK' /\ (rules # {} => rules' # {}) /\ read'[Unit] = None
    <3>1. CASE LoadFails(Unit)
      BY <3>1 DEF LoadFails, fwVars, applying, FirewallTypeOK
    <3>2. CASE CheckFails(Unit)
      BY <3>2, ApplyTypes DEF CheckFails, Returns, FirewallTypeOK
    <3>. QED
      BY <1>3, <3>1, <3>2 DEF FirewallFails
  <2>. QED
    BY <1>3, <2>1 DEF FirewallFails, Ends
<1>4. CASE SysctlRuns
  BY <1>4 DEF SysctlRuns, Due, Ends, After, fwVars, applying, FirewallTypeOK
<1>5. CASE TorStarts
  BY <1>5 DEF TorStarts, Due, Ends, RequirementMet, fwVars, applying, FirewallTypeOK
<1>6. CASE VerifyLists
  BY <1>6 DEF VerifyLists, Due, Ends, RequirementMet, TableProven, fwVars, applying, FirewallTypeOK
<1>7. CASE VerifyEnds
  BY <1>7 DEF VerifyEnds, Ends, fwVars, applying, FirewallTypeOK
<1>8. CASE \E a \in Applier : Apply(a)
  BY <1>8, ApplyTypes DEF Apply, units
<1>9. CASE Edit
  BY <1>9 DEF Edit, EditConfig, applying, units, FirewallTypeOK
<1>10. CASE Retune
  BY <1>10 DEF Retune, OpenChain, applying, units, FirewallTypeOK
<1>11. CASE \E u \in Units : SystemctlStart(u)
  BY <1>11 DEF SystemctlStart, fwVars, applying, FirewallTypeOK
<1>12. CASE StopFirewall
  BY <1>12 DEF StopFirewall, fwVars, applying, FirewallTypeOK
<1>13. CASE TorStops
  BY <1>13 DEF TorStops, fwVars, applying, FirewallTypeOK
<1>14. CASE Reboot
  BY <1>14 DEF Reboot, FirewallTypeOK
<1>15. CASE UNCHANGED vars
  BY <1>15 DEF vars, units, fwVars, applying, FirewallTypeOK
<1>. QED
  BY <1>1, <1>2, <1>3, <1>4, <1>5, <1>6, <1>7, <1>8, <1>9, <1>10, <1>11,
     <1>12, <1>13, <1>14, <1>15 DEF Next

LEMMA BootInvariant == Spec => []BootInv
BY BootInvInit, BootInvStep, PTL DEF Spec

\* The variables keep their types, and the unit applies only inside its job.
THEOREM TypeCorrect == Spec => []TypeOK
BY BootInvariant, PTL DEF BootInv

\* tor-amnesic-pi.conf: Tor never runs without the table.
THEOREM TorBehindPolicy == Spec => []TorNeedsPolicy
<1>1. BootInv => TorNeedsPolicy
  BY DEF BootInv, UpOverTable, TorNeedsPolicy
<1>. QED
  BY <1>1, BootInvariant, PTL

\* boot-chain.md: no forwarding before the policy, in a boot whose firewall
\* unit has not failed.
THEOREM ForwardingBehindPolicy == Spec => []ForwardingNeedsPolicy
<1>1. BootInv => ForwardingNeedsPolicy
  BY DEF BootInv, UpOverTable, ForwardingNeedsPolicy
<1>. QED
  BY <1>1, BootInvariant, PTL

\* The verify unit's pass stands for the rest of the boot.
THEOREM PassStands == Spec => []PassedIsSecured
<1>1. BootInv => PassedIsSecured
  BY DEF BootInv, UpOverTable, PassedIsSecured
<1>. QED
  BY <1>1, BootInvariant, PTL

\* cmd_apply: only a reboot takes the table away.
THEOREM PolicyIsKept == Spec => PolicyKept
<1>1. BootInv /\ [Next]_vars => [rules # {} => rules' # {} \/ Reboot]_vars
  <2> SUFFICES ASSUME BootInv, Next, rules # {}, ~Reboot PROVE rules' # {}
    BY DEF vars
  <2>1. CASE FirewallSucceeds \/ \E a \in Applier : Apply(a)
    BY <2>1, BootAssumption, ApplyTypes DEF FirewallSucceeds, Apply
  <2>2. CASE FirewallStarts \/ FirewallFails
    BY <2>2 DEF FirewallStarts, FirewallFails, Look, LoadFails, CheckFails, fwVars
  <2>3. CASE SysctlRuns \/ TorStarts \/ VerifyLists \/ VerifyEnds
    BY <2>3 DEF SysctlRuns, TorStarts, VerifyLists, VerifyEnds, fwVars
  <2>4. CASE Edit \/ Retune \/ StopFirewall \/ TorStops \/ \E u \in Units : SystemctlStart(u)
    BY <2>4 DEF Edit, EditConfig, Retune, OpenChain, StopFirewall, TorStops, SystemctlStart, fwVars
  <2>. QED
    BY <2>1, <2>2, <2>3, <2>4 DEF Next
<1>. QED
  BY <1>1, BootInvariant, PTL DEF Spec, PolicyKept

\* cmd_apply: one configuration's rules, unless an apply met a table that it
\* had not seen.
THEOREM OneConfigAtATime == Spec => []RulesOfOneConfig
<1>1. Init => RulesOfOneConfig
  BY FS_EmptySet DEF Init, FirewallDown, RulesOfOneConfig
<1>2. BootInv /\ RulesOfOneConfig /\ [Next]_vars => RulesOfOneConfig'
  <2> SUFFICES ASSUME BootInv, RulesOfOneConfig, [Next]_vars PROVE RulesOfOneConfig'
    OBVIOUS
  <2>1. ASSUME NEW a \in Applier, Commit(a) PROVE RulesOfOneConfig'
    <3>1. Cardinality({read[a]}) = 1
      BY FS_Singleton
    <3>2. raced' \/ rules' = {read[a]}
      BY <2>1 DEF Commit
    <3>. QED
      BY <3>1, <3>2 DEF RulesOfOneConfig
  <2>2. CASE Reboot
    BY <2>2, FS_EmptySet DEF Reboot, RulesOfOneConfig
  <2>3. ASSUME rules' = rules, raced' = raced PROVE RulesOfOneConfig'
    BY <2>3 DEF RulesOfOneConfig
  <2>4. CASE FirewallSucceeds \/ \E a \in Applier : Apply(a)
    BY <2>4, <2>1, <2>3, BootAssumption DEF FirewallSucceeds, Apply, Look, CheckFails
  <2>5. CASE FirewallStarts \/ FirewallFails
    BY <2>5, <2>3 DEF FirewallStarts, FirewallFails, Look, LoadFails, CheckFails, fwVars
  <2>6. CASE SysctlRuns \/ TorStarts \/ VerifyLists \/ VerifyEnds
    BY <2>6, <2>3 DEF SysctlRuns, TorStarts, VerifyLists, VerifyEnds, fwVars
  <2>7. CASE Edit \/ Retune \/ StopFirewall \/ TorStops \/ \E u \in Units : SystemctlStart(u)
    BY <2>7, <2>3 DEF Edit, EditConfig, Retune, OpenChain, StopFirewall, TorStops, SystemctlStart, fwVars
  <2>8. CASE UNCHANGED vars
    BY <2>8, <2>3 DEF vars, fwVars
  <2>. QED
    BY <2>2, <2>4, <2>5, <2>6, <2>7, <2>8 DEF Next
<1>. QED
  BY <1>1, <1>2, BootInvariant, PTL DEF Spec

=============================================================================
