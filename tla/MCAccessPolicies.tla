---------------------------- MODULE MCAccessPolicies ----------------------------
(* Finite instances of AccessPolicies. *)
EXTENDS AccessPolicies

Row(effect, scope, code) == [effect |-> effect, scope |-> scope, code |-> code]

\* Of the codes each ladder asks for, those of different rungs, with the scope
\* it asks in.
Asked ==
  {"project"} \X {"project.edit", "project.view_metadata", "docs.upload", "docs.view",
                  "tasks.assign", "project.assign_rights"}
  \cup {"department"} \X {"department.edit", "department.update", "department.read",
                          "document.upload", "employee.view_metadata"}
  \cup {"employee", "company"} \X {"employee.manage_roles", "employee.view_metadata"}
  \cup {"company"} \X {"roles.assign", "project.create"}
  \cup {"workspace"} \X {"ai.workspace.view_content", "ai.workspace.view_metadata"}

MCAccessRows ==
  {Row(e, a[1], a[2]) : e \in {"grant", "deny"}, a \in Asked}
  \cup {Row(e, "global", c) : e \in {"grant", "deny"},
          c \in {"docs.upload", "employee.manage_roles", "ai.workspace.view_content"}}

\* The viewer's own tasks, workspace and profile; a peer in the organization and
\* department, and in neither.
MCShapes ==
  {[created |-> c, primary |-> TRUE, subject |-> "self", peer |-> {}, linked |-> ~c] : c \in BOOLEAN}
  \cup {[created |-> FALSE, primary |-> b, subject |-> "peer", linked |-> b,
         peer |-> IF b THEN {"org", "seat"} ELSE {"org"}] : b \in BOOLEAN}

MCRoleCodes == {"manager", "company_admin", "executive"}
==================================================================================
