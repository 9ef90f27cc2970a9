--------------------------- MODULE KeyRingProofs ---------------------------
(***************************************************************************)
(* Proofs about KeyRing, for every rotation interval, time to live and     *)
(* lag, and for any set of tokens.                                         *)
(***************************************************************************)
EXTENDS KeyRing, TLAPS

\* There is always a signing key.
LEMMA SigningKey ==
  ASSUME TypeOK
  PROVE  /\ 1 \in DOMAIN keys /\ keys[1] \in Key
         /\ keys[1].id \in Nat /\ keys[1].born \in Nat
         /\ Len(keys) = 2 => keys[2] \in Key
<1>1. DOMAIN keys = 1 .. Len(keys) /\ \A i \in DOMAIN keys : keys[i] \in Key
  BY DEF TypeOK
<1>2. 1 \in DOMAIN keys /\ (Len(keys) = 2 => 2 \in DOMAIN keys)
  BY <1>1 DEF TypeOK
<1> QED
  BY <1>1, <1>2 DEF Key

\* The ring keeps its types whatever is called and however time passes.
THEOREM RingTypesHold == Spec => []TypeOK
<1>1. Init => TypeOK
  BY KeyRingAssumption DEF Init, TypeOK, Key
<1>2. TypeOK /\ [Next]_vars => TypeOK'
  <2> SUFFICES ASSUME TypeOK, [Next]_vars PROVE TypeOK'
    OBVIOUS
  <2> USE KeyRingAssumption DEF TypeOK, Key
  <2>1. keys[1] \in Key
    BY SigningKey
  <2>2. Rotated \in Seq(Key) /\ Len(Rotated) = 2
    BY <2>1 DEF Rotated, NewKey
  <2>3. <<NewKey>> \in Seq(Key) /\ Len(<<NewKey>>) = 1
    BY DEF NewKey
  <2>4. CASE Tick
    BY <2>4 DEF Tick, tokens, history
  <2>5. CASE Rotate
    BY <2>5, <2>2 DEF Rotate, tokens, history
  <2>6. CASE Stamp
    BY <2>6, <2>1 DEF Stamp, history
  <2>7. ASSUME NEW t \in Token, Current(t) PROVE TypeOK'
    BY <2>7 DEF Current, tokens, history
  <2>8. ASSUME NEW t \in Token, Deliver(t) PROVE TypeOK'
    BY <2>8 DEF Deliver, tokens, history
  <2>9. ASSUME NEW revoke \in BOOLEAN, RotateNow(revoke) PROVE TypeOK'
    <3>1. keys' \in Seq(Key) /\ Len(keys') \in {1, 2}
      BY <2>9, <2>2, <2>3 DEF RotateNow
    <3>2. disturbed' \subseteq Token /\ revoked' \subseteq Token
      BY <2>9 DEF RotateNow, Dropped, Signed
    <3> QED
      BY <2>9, <3>1, <3>2 DEF RotateNow, tokens
  <2>10. CASE UNCHANGED vars
    BY <2>10 DEF vars, tokens, history
  <2> QED
    BY <2>4, <2>5, <2>6, <2>7, <2>8, <2>9, <2>10 DEF Next
<1> QED
  BY <1>1, <1>2, PTL DEF Spec

-----------------------------------------------------------------------------
(* How long a key stays is told by when the signing key was made.          *)

\* While sign runs, the key it will use was due no longer than the lag ago.
SignInTime ==
  /\ pc = "rotate" => now >= keys[1].born + Rotation
  /\ pc = "stamp" => now < keys[1].born + Rotation + lag \/ now <= keys[1].born + lag

\* An unexpired token was signed by the signing key, and expires before that
\* key can have been dropped; or by the previous one, and expires before the
\* next rotation falls due.
CoveredBy(t) ==
  \/ now >= expiry[t]
  \/ keyOf[t] = keys[1].id /\ expiry[t] <= keys[1].born + 2 * Rotation
  \/ Len(keys) = 2 /\ keyOf[t] = keys[2].id /\ expiry[t] <= keys[1].born + Rotation

FlightInv ==
  /\ SignInTime
  /\ \A t \in Token : keyOf[t] # 0 => expiry[t] <= now + TTL
  /\ \A t \in Token \ disturbed : keyOf[t] # 0 => CoveredBy(t)

\* "Tasks signed just before a rotation are not dropped in flight": if a token's
\* life and the time sign may take fit in one rotation interval, every unexpired
\* token verifies, one plain rotation by hand included, unless rotate_now revoked
\* its key or came when it was the previous one.
THEOREM InFlightTokensVerify ==
  TTL + MaxLag <= Rotation => (Spec => []HonouredInFlight)
<1> SUFFICES ASSUME TTL + MaxLag <= Rotation PROVE Spec => []HonouredInFlight
  OBVIOUS
<1>1. Init => FlightInv
  BY DEF Init, FlightInv, SignInTime
<1>2. TypeOK /\ FlightInv /\ [Next]_vars => FlightInv'
  <2> SUFFICES ASSUME TypeOK, FlightInv, [Next]_vars PROVE FlightInv'
    OBVIOUS
  <2> USE KeyRingAssumption DEF TypeOK, Key
  <2>1. /\ keys[1] \in Key /\ (Len(keys) = 2 => keys[2] \in Key)
        /\ keys[1].born \in Nat /\ lag \in Nat /\ now \in Nat
    BY SigningKey
  <2>2. CASE Tick
    <3>1. SignInTime'
      <4> DEFINE b == keys[1].born
      <4>1. b \in Nat /\ Rotation \in Nat /\ now \in Nat /\ lag \in Nat
        BY <2>1
      <4>2. /\ now' = now + 1 /\ UNCHANGED <<keys, pc>>
            /\ pc # "idle" => lag' = lag + 1
        BY <2>2 DEF Tick
      <4>3. /\ pc = "rotate" => now >= b + Rotation
            /\ pc = "stamp" => now < b + Rotation + lag \/ now <= b + lag
        BY DEF FlightInv, SignInTime
      <4>4. b' = b
        BY <4>2
      <4> HIDE DEF b
      <4>5. /\ pc' = "rotate" => now' >= b' + Rotation
            /\ pc' = "stamp" => now' < b' + Rotation + lag' \/ now' <= b' + lag'
        BY ONLY <4>1, <4>2, <4>3, <4>4
      <4> QED
        BY <4>5 DEF b, SignInTime
    <3>2. ASSUME NEW t \in Token \ disturbed, keyOf[t] # 0 PROVE CoveredBy(t)'
      <4>1. CoveredBy(t) /\ now' = now + 1 /\ UNCHANGED <<keys, keyOf, expiry>>
        BY <2>2, <3>2 DEF Tick, FlightInv, tokens
      <4>2. expiry[t] \in Nat
        OBVIOUS
      <4> QED
        BY <4>1, <4>2, <2>1 DEF CoveredBy
    <3> QED
      BY <2>2, <3>1, <3>2 DEF FlightInv, Tick, tokens, history
  <2>3. CASE Rotate
    <3>1. keys' = Rotated /\ now' = now /\ pc' = "stamp" /\ lag' = lag
      BY <2>3 DEF Rotate
    <3>2. /\ Len(keys') = 2 /\ keys'[2] = keys[1]
          /\ keys'[1].born = now
      BY <3>1, <2>1 DEF Rotated, NewKey
    <3>3. now >= keys[1].born + Rotation
      BY <2>3 DEF Rotate, FlightInv, SignInTime
    <3>4. SignInTime'
      BY <3>1, <3>2 DEF SignInTime
    <3>5. ASSUME NEW t \in Token \ disturbed, keyOf[t] # 0 PROVE CoveredBy(t)'
      <4>1. CoveredBy(t) /\ keyOf' = keyOf /\ expiry' = expiry
        BY <2>3, <3>5 DEF FlightInv, Rotate, tokens
      <4> QED
        BY <4>1, <3>1, <3>2, <3>3, <2>1 DEF CoveredBy
    <3> QED
      BY <2>3, <3>4, <3>5 DEF FlightInv, Rotate, tokens, history
  <2>4. CASE Stamp
    <3>1. /\ signing \in Token /\ pc' = "idle" /\ keys' = keys /\ now' = now
          /\ disturbed' = disturbed
          /\ keyOf' = [keyOf EXCEPT ![signing] = keys[1].id]
          /\ expiry' = [expiry EXCEPT ![signing] = now + TTL]
      BY <2>4 DEF Stamp, history
    <3>2. now + TTL <= keys[1].born + 2 * Rotation
      <4>1. \/ now < keys[1].born + Rotation + lag
            \/ now <= keys[1].born + lag
        BY <2>4 DEF Stamp, FlightInv, SignInTime
      <4>2. lag <= MaxLag
        OBVIOUS
      <4> HIDE DEF TypeOK
      <4> QED
        BY <4>1, <4>2, <2>1
    <3>3. ASSUME NEW t \in Token \ disturbed, keyOf'[t] # 0 PROVE CoveredBy(t)'
      <4>1. CASE t = signing
        BY <4>1, <3>1, <3>2 DEF CoveredBy
      <4>2. CASE t # signing
        BY <4>2, <3>1, <3>3 DEF FlightInv, CoveredBy
      <4> QED
        BY <4>1, <4>2
    <3> QED
      BY <3>1, <3>3 DEF FlightInv, SignInTime
  <2>5. ASSUME NEW t \in Token, Current(t) PROVE FlightInv'
    <3>1. SignInTime'
      BY <2>5, <2>1 DEF Current, SignInTime, RotationDue
    <3> QED
      BY <2>5, <3>1 DEF Current, FlightInv, CoveredBy, tokens, history
  <2>6. ASSUME NEW t \in Token, Deliver(t) PROVE FlightInv'
    BY <2>6 DEF Deliver, FlightInv, SignInTime, CoveredBy, tokens, history
  <2>7. ASSUME NEW revoke \in BOOLEAN, RotateNow(revoke) PROVE FlightInv'
    <3>1. /\ pc' = pc /\ pc = "idle" /\ now' = now /\ UNCHANGED <<keyOf, expiry>>
          /\ disturbed' = disturbed \cup Dropped(revoke)
      BY <2>7 DEF RotateNow, tokens
    <3>2. ASSUME NEW t \in Token \ disturbed', keyOf[t] # 0 PROVE CoveredBy(t)'
      \* It is of the key that now becomes the previous one
      <4>1. ~revoke /\ keyOf[t] = keys[1].id
        BY <3>1, <3>2 DEF Dropped, Signed
      <4>2. Len(keys') = 2 /\ keys'[2] = keys[1] /\ keys'[1].born = now
        BY <2>7, <4>1, <2>1 DEF RotateNow, Rotated, NewKey
      <4>3. expiry[t] <= now + TTL /\ expiry[t] \in Nat
        BY <3>2 DEF FlightInv
      <4>4. expiry[t] <= now + Rotation
        <5> HIDE DEF TypeOK
        <5> QED
          BY <4>3, <2>1
      <4> QED
        BY <3>1, <4>1, <4>2, <4>4 DEF CoveredBy
    <3> QED
      BY <3>1, <3>2 DEF FlightInv, SignInTime
  <2>8. CASE UNCHANGED vars
    BY <2>8 DEF vars, FlightInv, SignInTime, CoveredBy, tokens, history
  <2> QED
    BY <2>2, <2>3, <2>4, <2>5, <2>6, <2>7, <2>8 DEF Next
<1>3. TypeOK /\ FlightInv => HonouredInFlight
  BY DEF TypeOK, FlightInv, CoveredBy, HonouredInFlight, InFlight, Live
<1> QED
  BY <1>1, <1>2, <1>3, RingTypesHold, PTL DEF Spec

-----------------------------------------------------------------------------
(* Key ids grow, so a key once dropped does not come back.                 *)

RevokedInv ==
  /\ \A i \in DOMAIN keys : keys[i].id <= made
  /\ \A t \in Token : keyOf[t] <= made
  /\ \A t \in revoked : keyOf[t] # 0 /\ \A i \in DOMAIN keys : keyOf[t] < keys[i].id
  /\ pc # "idle" => keyOf[signing] = 0

\* rotate_now(revoke=True): no token outstanding then verifies ever again,
\* whatever is signed, rotated or revoked after it.
THEOREM RevokedNeverVerifies == Spec => []RevokedStaysDead
<1>1. Init => RevokedInv
  BY DEF Init, RevokedInv
<1>2. TypeOK /\ RevokedInv /\ [Next]_vars => RevokedInv'
  <2> SUFFICES ASSUME TypeOK, RevokedInv, [Next]_vars PROVE RevokedInv'
    OBVIOUS
  <2> USE DEF TypeOK, Key
  <2>1. keys[1] \in Key /\ 1 \in DOMAIN keys
    BY SigningKey
  <2>2. /\ DOMAIN Rotated = {1, 2}
        /\ Rotated[1].id = made + 1 /\ Rotated[2] = keys[1]
    BY DEF Rotated, NewKey
  <2>3. CASE Rotate
    BY <2>3, <2>1, <2>2 DEF Rotate, RevokedInv, tokens, history
  <2>4. CASE Stamp
    <3>1. signing \in Token \ revoked
      BY <2>4 DEF Stamp, RevokedInv
    <3>2. keys[1].id \in Nat /\ keys[1].id <= made
      BY <2>1 DEF RevokedInv
    <3>3. \A t \in Token : keyOf'[t] = IF t = signing THEN keys[1].id ELSE keyOf[t]
      BY <2>4 DEF Stamp
    <3> QED
      BY <2>4, <3>1, <3>2, <3>3 DEF Stamp, RevokedInv, history
  <2>5. ASSUME NEW revoke \in BOOLEAN, RotateNow(revoke) PROVE RevokedInv'
    BY <2>5, <2>1, <2>2 DEF RotateNow, RevokedInv, NewKey, Signed, tokens
  <2>6. CASE Tick \/ (\E t \in Token : Current(t) \/ Deliver(t)) \/ UNCHANGED vars
    BY <2>6 DEF Tick, Current, Deliver, vars, RevokedInv, tokens, history
  <2> QED
    BY <2>3, <2>4, <2>5, <2>6 DEF Next
<1>3. TypeOK /\ RevokedInv => RevokedStaysDead
  <2> SUFFICES ASSUME TypeOK, RevokedInv, NEW t \in revoked, NEW i \in DOMAIN keys,
                      keys[i].id = keyOf[t]
               PROVE  FALSE
    BY DEF RevokedStaysDead, Live
  <2>1. keyOf[t] \in Nat
    BY DEF TypeOK
  <2>2. keyOf[t] < keys[i].id
    BY DEF RevokedInv
  <2> QED
    BY <2>1, <2>2
<1> QED
  BY <1>1, <1>2, <1>3, RingTypesHold, PTL DEF Spec
=============================================================================
