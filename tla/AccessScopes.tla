------------------------------ MODULE AccessScopes ------------------------------
(***************************************************************************)
(* The scope vocabulary of apps.access: the scope types, their breadth     *)
(* order, when one scope covers another, and when a delegated grant stays  *)
(* within the grant it was delegated from.  Pure definitions, shared by    *)
(* every module about grants.  A scope is a record [type, id]; an id is a  *)
(* value the code compares for equality only.                              *)
(***************************************************************************)
EXTENDS Naturals

ScopeTypes == {"global", "company", "department", "employee", "project",
               "module", "task", "ai_workspace", "self"}

\* SCOPE_BREADTH_ORDER: a lower number is a broader scope.
Breadth ==
  [t \in ScopeTypes |->
     CASE t = "global" -> 0
       [] t = "company" -> 1
       [] t \in {"department", "employee", "project", "module"} -> 2
       [] t \in {"task", "ai_workspace"} -> 3
       [] t = "self" -> 4]

Modes == {"use_only", "use_and_delegate"}

\* scope_covers: a global grant covers everything, any other grant covers
\* the very same scope and nothing below it.
ScopeCovers(granted, required) ==
  \/ granted.type = "global"
  \/ granted.type = required.type /\ granted.id = required.id

\* The scope test of _assert_delegation_allowed.
ScopeWithin(target, source) ==
  source.type # "global" =>
    /\ Breadth[target.type] >= Breadth[source.type]
    /\ source.type = target.type => source.id = target.id

\* What a delegated grant keeps of its parent: everything _assert_delegation_allowed
\* compares between the two rows that no later write changes.
Within(child, parent) ==
  /\ parent.mode = "use_and_delegate"
  /\ child.code = parent.code
  /\ child.by = parent.employee
  /\ child.expires <= parent.expires
  /\ ScopeWithin(child.scope, parent.scope)
==================================================================================
