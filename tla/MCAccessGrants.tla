----------------------------- MODULE MCAccessGrants -----------------------------
(***************************************************************************)
(* Instances of AccessGrants for TLC.  One administrator and one employee  *)
(* suffice: any user may hold, pass on and receive a grant, themselves     *)
(* included.  Three scopes give a broader one and two of one type.         *)
(***************************************************************************)
EXTENDS AccessGrants, TLC

CONSTANTS admin, staff, w1, w2, edit

WorkerSymmetry == Permutations(Workers)

company == [type |-> "company", id |-> "c"]
projectA == [type |-> "project", id |-> "a"]
projectB == [type |-> "project", id |-> "b"]

AdminManages == [c \in Codes |-> {admin}]
EveryoneManages == [c \in Codes |-> Users]
Delegable == [code |-> edit, active |-> TRUE, delegable |-> TRUE,
              scopes |-> {"company", "project"}]
Disabled == [Delegable EXCEPT !.active = FALSE]

\* The two shapes of seeded rules (access/seed.py): company to project two links
\* deep, project to project one link deep and within the scope.
Downward == [code |-> edit, from |-> "company", to |-> "project",
             allow |-> TRUE, sameOnly |-> FALSE, depth |-> 2]
Sideways == [code |-> edit, from |-> "project", to |-> "project",
             allow |-> TRUE, sameOnly |-> TRUE, depth |-> 1]
Withdrawn == [Sideways EXCEPT !.allow = FALSE]

NoRows == {}
AllScopes == {company, projectA, projectB}
OneProject == {projectA}
TwoTiers == {company, projectA}
JustDelegable == {Delegable}
BothRules == {Downward, Sideways}
PatchedRules == {Sideways, Withdrawn, [Sideways EXCEPT !.from = "company", !.sameOnly = FALSE]}
DisabledOrNot == {Delegable, Disabled}
==================================================================================
