------------------------------ MODULE MCWorkDb ------------------------------
(* Small instances of WorkDb for TLC. *)
EXTENDS WorkDb, TLC

CONSTANTS p1, p2, o1, o2, f1, f2, r1, r2, m1, m2

\* Names of one kind are interchangeable; no property tells them apart.
Symmetry == Permutations({p1, p2}) \cup Permutations({o1, o2})
               \cup Permutations({f1, f2}) \cup Permutations({r1, r2})
=============================================================================
