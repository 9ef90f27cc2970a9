----------------------------- MODULE BootChain ------------------------------
(***************************************************************************)
(* The boot chain of docs/boot-chain.md: the firewall unit, systemd-sysctl,*)
(* Tor and the verify unit, as their unit files in src/systemd order and   *)
(* require one another, around the apply command of Firewall.  systemd is  *)
(* modelled from what the unit files ask of it: After and Before make a    *)
(* job wait for the jobs they name to end, well or not; Requires pulls in  *)
(* a job for the unit required, fails the requirer's when that one fails,  *)
(* and stops it when the unit required is stopped.                         *)
(***************************************************************************)
EXTENDS Firewall

CONSTANTS
  Unit,        \* the apply of amnesic-pi-firewall.service
  Provisioned  \* the network.env of the image

ASSUME BootAssumption ==
  /\ Unit \in Applier
  /\ Provisioned \in Config \cup {None}

VARIABLES
  jobs,        \* the start jobs that have not ended
  firewall,    \* the state of the firewall unit; "active" remains after exit
  forwarding,  \* net.ipv4.ip_forward
  tor,         \* the state of tor@default
  verified,    \* what the verify unit's last run came to
  failed       \* history: the firewall unit failed in this boot

units == <<jobs, firewall, forwarding, tor, verified, failed>>
vars == <<fwVars, units>>

Units == {"firewall", "sysctl", "tor", "verify"}

\* After, and the Before of the units named.  What sysinit.target orders
\* besides is left out, which only lets more happen.
After ==
  [firewall |-> {}, sysctl |-> {"firewall"},
   tor |-> {"firewall"}, verify |-> {"firewall", "tor"}]

AfterWithoutSysctl == [After EXCEPT !.sysctl = {}]

DueWithoutBefore(u) == u \in jobs /\ AfterWithoutSysctl[u] \cap jobs = {}

Due(u) == u \in jobs /\ After[u] \cap jobs = {}

Ends(u) == jobs' = jobs \ {u}

-----------------------------------------------------------------------------
(* amnesic-pi-firewall.service: oneshot, RemainAfterExit, no ExecStop.     *)

FirewallStarts == Due("firewall") /\ Look(Unit) /\ UNCHANGED units

FirewallSucceeds ==
  /\ Commit(Unit)
  /\ firewall' = "active"
  /\ Ends("firewall")
  /\ UNCHANGED <<forwarding, tor, verified, failed>>

FirewallFails ==
  /\ \/ Due("firewall") /\ LoadFails(Unit)
     \/ CheckFails(Unit)
  /\ firewall' = "failed"
  /\ failed' = TRUE
  /\ Ends("firewall")
  /\ UNCHANGED <<forwarding, tor, verified>>

-----------------------------------------------------------------------------
(* The units that come after it.                                           *)

\* systemd-sysctl is ordered after the firewall unit and does not require it
SysctlRuns ==
  /\ Due("sysctl") /\ Ends("sysctl")
  /\ forwarding' = TRUE
  /\ UNCHANGED <<fwVars, firewall, tor, verified, failed>>

RequirementMetUnlessFailed == firewall # "inactive"

RequirementMet == firewall = "active"

TorStarts ==
  /\ Due("tor") /\ Ends("tor")
  /\ tor' = IF RequirementMet THEN "active" ELSE tor
  /\ UNCHANGED <<fwVars, firewall, forwarding, verified, failed>>

\* verify lists the table first and asks sysctl and the ports afterwards
VerifyLists ==
  /\ Due("verify") /\ verified # "listed"
  /\ IF RequirementMet /\ TableProven
       THEN verified' = "listed" /\ UNCHANGED jobs
       ELSE verified' = "failed" /\ Ends("verify")
  /\ UNCHANGED <<fwVars, firewall, forwarding, tor, failed>>

VerifyEndsUnasked ==
  /\ verified = "listed" /\ Ends("verify")
  /\ verified' = IF tor = "active" THEN "passed" ELSE "failed"
  /\ UNCHANGED <<fwVars, firewall, forwarding, tor, failed>>

VerifyEnds ==
  /\ verified = "listed" /\ Ends("verify")
  /\ verified' = IF forwarding /\ tor = "active" THEN "passed" ELSE "failed"
  /\ UNCHANGED <<fwVars, firewall, forwarding, tor, failed>>

-----------------------------------------------------------------------------
(* The operator and the machine.                                           *)

\* An apply by hand: its outcome is nobody's unit state
Apply(a) ==
  /\ a # Unit
  /\ Look(a) \/ CheckFails(a) \/ Commit(a)
  /\ UNCHANGED units

Edit == (\E c \in Config \cup {None} : EditConfig(c)) /\ UNCHANGED units

Retune == (\E c \in BaseChain : OpenChain(c)) /\ UNCHANGED units

\* systemctl start u, with a job for the firewall unit unless it is active
SystemctlStart(u) ==
  /\ u \in Units \ (jobs \cup {"sysctl"})
  /\ u = "firewall" => firewall # "active"
  /\ u = "tor" => tor # "active"
  /\ jobs' = jobs \cup {u} \cup (IF firewall = "active" THEN {} ELSE {"firewall"})
  /\ verified' = IF u = "verify" THEN "inactive" ELSE verified
  /\ UNCHANGED <<fwVars, firewall, forwarding, tor, failed>>

\* Stopping the unit stops those that require it, and leaves the table
StopFirewall ==
  /\ firewall = "active" /\ firewall' = "inactive"
  /\ tor' = "inactive"
  /\ verified' = IF verified = "listed" THEN "failed" ELSE verified
  /\ jobs' = jobs \ {"tor", "verify"}
  /\ UNCHANGED <<fwVars, forwarding, failed>>

\* Tor is stopped, or dies
TorStops ==
  /\ tor = "active" /\ tor' = "inactive"
  /\ UNCHANGED <<fwVars, jobs, firewall, forwarding, verified, failed>>

\* Kernel state and processes are gone; with OverlayFS, so are the edits
Reboot ==
  /\ config' \in {config, Provisioned}
  /\ rules' = {} /\ opened' = {} /\ raced' = FALSE
  /\ read' = [a \in Applier |-> None]
  /\ present' = [a \in Applier |-> FALSE]
  /\ jobs' = Units
  /\ firewall' = "inactive" /\ tor' = "inactive" /\ verified' = "inactive"
  /\ forwarding' = FALSE /\ failed' = FALSE

-----------------------------------------------------------------------------

Init ==
  /\ config = Provisioned /\ FirewallDown
  /\ jobs = Units
  /\ firewall = "inactive" /\ tor = "inactive" /\ verified = "inactive"
  /\ forwarding = FALSE /\ failed = FALSE

Next ==
  \/ FirewallStarts \/ FirewallSucceeds \/ FirewallFails
  \/ SysctlRuns \/ TorStarts \/ VerifyLists \/ VerifyEnds
  \/ (\E a \in Applier : Apply(a)) \/ Edit \/ Retune
  \/ (\E u \in Units : SystemctlStart(u)) \/ StopFirewall \/ TorStops \/ Reboot

Spec == Init /\ [][Next]_vars

-----------------------------------------------------------------------------
(* Properties.                                                             *)

\* The variables hold what their comments say, and the unit's apply runs
\* only inside its job.
TypeOK ==
  /\ FirewallTypeOK
  /\ jobs \subseteq Units
  /\ firewall \in {"inactive", "active", "failed"}
  /\ forwarding \in BOOLEAN
  /\ tor \in {"inactive", "active"}
  /\ verified \in {"inactive", "listed", "passed", "failed"}
  /\ failed \in BOOLEAN
  /\ read[Unit] # None => "firewall" \in jobs

\* tor-amnesic-pi.conf, Requires and After: Tor never runs without the table,
\* whatever failed, was retried, stopped or applied by hand.
TorNeedsPolicy == tor = "active" => rules # {}

\* boot-chain.md, "IP forwarding is not enabled before the nftables deny
\* policy exists": the code keeps it in every boot whose firewall unit has not
\* failed.
ForwardingNeedsPolicy == forwarding /\ rules = {} => failed

\* The same without the condition.
NoForwardingBeforePolicy == forwarding => rules # {}

\* cmd_apply, "existing ruleset untouched": no apply, and nothing else short of
\* a reboot, takes the table away once it is there.
PolicyKept == [][rules # {} => rules' # {} \/ Reboot]_vars

\* cmd_apply, "Replace only our table": the table never mixes the rules of two
\* configurations, unless an apply met one that it had not seen.
RulesOfOneConfig == ~raced => Cardinality(rules) <= 1

\* The verify unit passes only over a machine that has the table and forwards,
\* and both are so until the next boot.
PassedIsSecured == verified = "passed" => rules # {} /\ forwarding

=============================================================================
