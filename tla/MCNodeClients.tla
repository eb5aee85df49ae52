----------------------------- MODULE MCNodeClients -----------------------------
(* Values of the constants of NodeClients for TLC. *)
EXTENDS NodeClients

FourNames == 1 .. 4
\* An arbitrary placement that depends on the whole set of pods
SomeRing == [S \in SUBSET FourNames |-> IF S = {} THEN 1
                ELSE LET s == SetToSortSeq(S, <) IN s[1 + ((Len(s) + s[1]) % Len(s))]]
=============================================================================
