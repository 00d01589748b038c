----------------------------- MODULE MCDepartmentTree -----------------------------
(* Finite instances of DepartmentTree. *)
EXTENDS DepartmentTree, TLC

\* PATCHes do not overlap, and nothing overlaps at all.
MCRegimes == {{"patch"}, Kinds}

Symmetry == Permutations(Units) \cup Permutations(Workers)
==================================================================================
