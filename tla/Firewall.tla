------------------------------ MODULE Firewall ------------------------------
(***************************************************************************)
(* src/amnesic_pi: amnesic-pi apply-firewall (cli.py) loads network.env    *)
(* (config.py), renders the policy (firewall.py, policy.nft.in), asks nft  *)
(* whether the table exists, checks the batch and applies it.  Several     *)
(* applies may run at once: the unit's, and those of an operator.          *)
(*                                                                         *)
(* nft itself is modelled from how cli.py uses it: a batch is applied as a *)
(* whole or not at all, and a batch that does not delete the table first   *)
(* adds its rules to those that are there.                                 *)
(***************************************************************************)
EXTENDS FiniteSets, Naturals

CONSTANTS
  Applier,  \* the runs of apply-firewall that may be under way at once
  Config,   \* the contents of network.env that load and render
  Refused,  \* those of them whose rendered policy nft -c refuses
  None      \* contents that do not load: a parse error, an unknown TOR_USER

ASSUME ConfigAssumption == Refused \subseteq Config /\ None \notin Config

VARIABLES
  config,   \* network.env
  rules,    \* the configurations whose rules the table holds; {}: no table
  opened,   \* the base chains of the table whose policy is not drop
  read,     \* the configuration an apply has rendered, None before
  present,  \* whether the table existed when the apply looked
  raced     \* history: an apply met a table that was not there when it looked

applying == <<read, present>>
fwVars == <<config, rules, opened, applying, raced>>

BaseChain == {"input", "forward", "output"}

FirewallTypeOK ==
  /\ config \in Config \cup {None}
  /\ rules \subseteq Config
  /\ opened \subseteq BaseChain
  /\ read \in [Applier -> Config \cup {None}]
  /\ present \in [Applier -> BOOLEAN]
  /\ raced \in BOOLEAN

\* No table, and no apply under way
FirewallDown ==
  /\ rules = {} /\ opened = {} /\ raced = FALSE
  /\ read = [a \in Applier |-> None]
  /\ present = [a \in Applier |-> FALSE]

-----------------------------------------------------------------------------
(* cmd_apply, up to the candidate file: only the last step changes a thing *)

Look(a) ==
  /\ read[a] = None /\ config # None
  /\ read' = [read EXCEPT ![a] = config]
  /\ present' = [present EXCEPT ![a] = rules # {}]
  /\ UNCHANGED <<config, rules, opened, raced>>

\* _load or render_file raised
LoadFails(a) == read[a] = None /\ config = None /\ UNCHANGED fwVars

Returns(a) ==
  /\ read' = [read EXCEPT ![a] = None]
  /\ present' = [present EXCEPT ![a] = FALSE]

\* nft -c fails: the ruleset is untouched
CheckFails(a) ==
  /\ read[a] \in Refused
  /\ Returns(a)
  /\ UNCHANGED <<config, rules, opened, raced>>

\* A policy applied as two batches, the table gone in between
CommitInTwo(a) ==
  /\ read[a] \in Config \ Refused
  /\ IF present[a]
       THEN /\ rules' = {}
            /\ present' = [present EXCEPT ![a] = FALSE]
            /\ UNCHANGED <<read, raced>>
       ELSE /\ rules' = rules \cup {read[a]}
            /\ raced' = (raced \/ rules # {})
            /\ Returns(a)
  /\ opened' = {}
  /\ UNCHANGED config

\* A batch that never deletes the table it replaces
CommitKeepsOld(a) ==
  /\ read[a] \in Config \ Refused
  /\ rules' = rules \cup {read[a]}
  /\ opened' = {}
  /\ raced' = (raced \/ (~present[a] /\ rules # {}))
  /\ Returns(a)
  /\ UNCHANGED config

\* nft -f: delete and create, or create, or add to a table that appeared
\* since; the chains it declares get their base policy again
Commit(a) ==
  /\ read[a] \in Config \ Refused
  /\ rules' = IF present[a] THEN {read[a]} ELSE rules \cup {read[a]}
  /\ opened' = {}
  /\ raced' = (raced \/ (~present[a] /\ rules # {}))
  /\ Returns(a)
  /\ UNCHANGED config

-----------------------------------------------------------------------------
(* The operator.                                                           *)

EditConfig(c) ==
  /\ c # config /\ config' = c
  /\ UNCHANGED <<rules, opened, applying, raced>>

\* nft add chain ... { policy accept; } on a chain of the table
OpenChain(c) ==
  /\ rules # {} /\ opened' = opened \cup {c}
  /\ UNCHANGED <<config, rules, applying, raced>>

-----------------------------------------------------------------------------
(* verify.py looks for "policy drop" in the 700 characters that follow the *)
(* name of a chain.  The listing has about 600 from the first base chain   *)
(* to the end, so they reach every base chain listed after it.             *)

Reach ==
  [input |-> BaseChain, forward |-> {"forward", "output"}, output |-> {"output"}]

ChainProven(c) == \E d \in Reach[c] : d \notin opened

\* _load, and the checks of the table
TableProven == config # None /\ rules # {} /\ \A c \in BaseChain : ChainProven(c)

=============================================================================
