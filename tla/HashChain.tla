------------------------------ MODULE HashChain ------------------------------
(***************************************************************************)
(* What the primary audit sink promises whoever reads it: an append-only   *)
(* sequence of entries, numbered from zero without a gap, in which every   *)
(* entry commits to the hash of the one before it.  A hash is modelled by  *)
(* an identifier that no two entries share, and Genesis by one of its own.  *)
(***************************************************************************)
EXTENDS Naturals, Sequences

CONSTANT Hash   \* the hashes entries have

VARIABLE chain

Genesis == 0

HeadHash(c) == IF c = <<>> THEN Genesis ELSE c[Len(c)].hash

\* verify_chain: the numbering has no gap and the links hold
Linked(c) ==
  \A i \in DOMAIN c :
    /\ c[i].seq = i - 1
    /\ c[i].prev = IF i = 1 THEN Genesis ELSE c[i - 1].hash

Init == chain = <<>>

Extend(h) ==
  /\ \A i \in DOMAIN chain : chain[i].hash # h
  /\ chain' = Append(chain, [seq |-> Len(chain), prev |-> HeadHash(chain), hash |-> h])

Next == \E h \in Hash : Extend(h)

Spec == Init /\ [][Next]_chain
=============================================================================
