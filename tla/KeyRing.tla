------------------------------- MODULE KeyRing -------------------------------
(***************************************************************************)
(* src/orchestrator/tokens.py: the keys that sign handoff tokens, when     *)
(* they rotate, and which tokens still verify.  A ring belongs to one      *)
(* process and its calls do not overlap, but sign reads the clock two or   *)
(* three times, so time may pass inside it: sign is three actions.         *)
(*                                                                         *)
(* A delivery presents the envelope as it was signed: the checks of verify *)
(* that compare the payload, the team and the tier with the token change   *)
(* no state, and are passed.                                               *)
(***************************************************************************)
EXTENDS Naturals, Sequences

CONSTANTS
  Token,     \* task ids, each signed at most once
  None,      \* Python's None
  Rotation,  \* KeyRing._rotation
  TTL,       \* the ttl sign is given
  MaxLag,    \* how much time may pass inside one call of sign
  MaxKeys,   \* bound: how many keys the ring ever makes
  Horizon    \* bound: when time stops

ASSUME KeyRingAssumption ==
  /\ None \notin Token
  /\ Rotation \in Nat \ {0} /\ TTL \in Nat \ {0}
  /\ MaxLag \in Nat /\ MaxKeys \in Nat /\ Horizon \in Nat

VARIABLES
  now,        \* the clock the ring is given; it never goes back
  keys,       \* KeyRing._keys, the signing key first
  made,       \* how many keys were made; the n-th key has id n
  pc,         \* where the call of sign stands
  signing,    \* the task sign is called for
  lag,        \* time since sign was called
  keyOf,      \* HandoffToken.key_id, 0 while the task is not signed
  expiry,     \* HandoffToken.expiry
  consumed,   \* ReplayLedger._consumed
  disturbed,  \* history: the tasks whose key some call of rotate_now dropped
  revoked     \* history: the tasks signed before some rotate_now(revoke=True)

tokens == <<keyOf, expiry>>
history == <<disturbed, revoked>>
vars == <<now, keys, made, pc, signing, lag, tokens, consumed, history>>

Key == [id : Nat, born : Nat]

Signed == {t \in Token : keyOf[t] # 0}

-----------------------------------------------------------------------------
(* Rotation.                                                               *)

NewKey == [id |-> made + 1, born |-> now]

RotatedDropsAll == <<NewKey>>

\* _rotate: the new key in front, and all but two dropped
Rotated == <<NewKey, keys[1]>>

\* current, "now - created_at >= rotation"
RotationDue == now >= keys[1].born + Rotation

\* A plain rotation keeps the signing key and drops the one before it
Dropped(revoke) == {t \in Signed : revoke \/ keyOf[t] # keys[1].id}

RotateNowKeepsPrevious(revoke) ==
  /\ pc = "idle" /\ made < MaxKeys
  /\ keys' = Rotated
  /\ made' = made + 1
  /\ disturbed' = disturbed \cup Dropped(revoke)
  /\ revoked' = IF revoke THEN revoked \cup Signed ELSE revoked
  /\ UNCHANGED <<now, pc, signing, lag, tokens, consumed>>

RotateNow(revoke) ==
  /\ pc = "idle" /\ made < MaxKeys
  /\ keys' = IF revoke THEN <<NewKey>> ELSE Rotated
  /\ made' = made + 1
  /\ disturbed' = disturbed \cup Dropped(revoke)
  /\ revoked' = IF revoke THEN revoked \cup Signed ELSE revoked
  /\ UNCHANGED <<now, pc, signing, lag, tokens, consumed>>

-----------------------------------------------------------------------------
(* sign: current reads the clock, _rotate reads it again for the new key,  *)
(* and the expiry is reckoned from a third reading.                        *)

Current(t) ==
  /\ pc = "idle" /\ keyOf[t] = 0
  /\ signing' = t
  /\ lag' = 0
  /\ pc' = IF RotationDue THEN "rotate" ELSE "stamp"
  /\ UNCHANGED <<now, keys, made, tokens, consumed, history>>

Rotate ==
  /\ pc = "rotate" /\ made < MaxKeys
  /\ keys' = Rotated
  /\ made' = made + 1
  /\ pc' = "stamp"
  /\ UNCHANGED <<now, signing, lag, tokens, consumed, history>>

Stamp ==
  /\ pc = "stamp"
  /\ keyOf' = [keyOf EXCEPT ![signing] = keys[1].id]
  /\ expiry' = [expiry EXCEPT ![signing] = now + TTL]
  /\ pc' = "idle"
  /\ signing' = None
  /\ UNCHANGED <<now, keys, made, lag, consumed, history>>

-----------------------------------------------------------------------------
(* verify and consume, as Dispatcher.deliver calls them.                   *)

Live(id) == \E i \in DOMAIN keys : keys[i].id = id

InFlight(t) == keyOf[t] # 0 /\ now < expiry[t]

Deliver(t) ==
  /\ pc = "idle"
  /\ Live(keyOf[t]) /\ InFlight(t)
  /\ t \notin consumed
  /\ consumed' = consumed \cup {t}
  /\ UNCHANGED <<now, keys, made, pc, signing, lag, tokens, history>>

Tick ==
  /\ now < Horizon
  /\ pc = "idle" \/ lag < MaxLag
  /\ now' = now + 1
  /\ lag' = IF pc = "idle" THEN lag ELSE lag + 1
  /\ UNCHANGED <<keys, made, pc, signing, tokens, consumed, history>>

Init ==
  /\ now = 0
  /\ keys = <<[id |-> 1, born |-> 0]>> /\ made = 1
  /\ pc = "idle" /\ signing = None /\ lag = 0
  /\ keyOf = [t \in Token |-> 0] /\ expiry = [t \in Token |-> 0]
  /\ consumed = {} /\ disturbed = {} /\ revoked = {}

Next ==
  \/ Tick \/ Rotate \/ Stamp
  \/ \E t \in Token : Current(t) \/ Deliver(t)
  \/ \E revoke \in BOOLEAN : RotateNow(revoke)

Spec == Init /\ [][Next]_vars

-----------------------------------------------------------------------------
(* Properties.                                                             *)

\* The variables hold what the program keeps in them, and the ring holds one
\* or two keys.
TypeOK ==
  /\ now \in Nat /\ made \in Nat \ {0} /\ lag \in 0 .. MaxLag
  /\ keys \in Seq(Key) /\ Len(keys) \in {1, 2}
  /\ pc \in {"idle", "rotate", "stamp"}
  /\ signing \in Token \cup {None}
  /\ pc # "idle" => signing \in Token
  /\ keyOf \in [Token -> Nat] /\ expiry \in [Token -> Nat]
  /\ consumed \subseteq Token /\ disturbed \subseteq Token
  /\ revoked \subseteq Token

\* _rotate and rotate_now, "tasks signed just before a rotation are not dropped in
\* flight": until it expires a token verifies, however the rotations that fall
\* due and those by hand interleave with it and however long sign took, unless a
\* call of rotate_now revoked its key or found it second already.
HonouredInFlight ==
  \A t \in Token \ disturbed : InFlight(t) => Live(keyOf[t])

\* rotate_now(revoke=True) "invalidates outstanding tokens rather than honouring
\* them for one more window": none of them verifies again.
RevokedStaysDead == \A t \in revoked : ~Live(keyOf[t])

=============================================================================
