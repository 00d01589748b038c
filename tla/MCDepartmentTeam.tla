----------------------------- MODULE MCDepartmentTeam -----------------------------
(* Finite instances of DepartmentTeam. *)
EXTENDS DepartmentTeam, TLC

\* The three groups of writers the properties name, and all writers at once.
MCRegimes == {Appointing, BundleKeepers, CareerService}
MCDeployed == {Kinds}

Symmetry == Permutations(Users \ SuperAdmins) \cup Permutations(Departments)
==================================================================================
