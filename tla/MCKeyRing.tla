----------------------------- MODULE MCKeyRing -----------------------------
(* Small instances of KeyRing for TLC.                                     *)
EXTENDS KeyRing, TLC

CONSTANTS t1, t2, t3

Symmetry == Permutations(Token)
=============================================================================
