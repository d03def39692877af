----------------------------- MODULE MCDatabase -----------------------------
(***************************************************************************)
(* Two programs on two database files, for TLC.                            *)
(***************************************************************************)
EXTENDS Database, TLC

CONSTANTS p1, p2, f1, f2, n1, n2, u1, t1, t2, d1

\* Programs and files are interchangeable; no property tells them apart.
Symmetry == Permutations({p1, p2}) \cup Permutations({f1, f2})
=============================================================================
