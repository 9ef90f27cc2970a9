----------------------------- MODULE MCAuditLog -----------------------------
(* Small instances of AuditLog for TLC.                                    *)
EXTENDS AuditLog, TLC

CONSTANTS w1, w2

Symmetry == Permutations(Writer)
\* A bound: at most two of three entries are of a call that raised or died
Scope == made < 3 \/ Cardinality(lost) <= 2
=============================================================================
