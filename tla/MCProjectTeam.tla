------------------------------ MODULE MCProjectTeam ------------------------------
(* Finite instances of ProjectTeam. *)
EXTENDS ProjectTeam, TLC

\* Nothing that writes is_lead overlaps, and nothing overlaps at all.
MCRegimes == {LeadWriters, Kinds}

Symmetry == Permutations(Users) \cup Permutations(Workers)
==================================================================================
