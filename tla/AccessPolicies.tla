----------------------------- MODULE AccessPolicies -----------------------------
(***************************************************************************)
(* The policy ladders that stand between the access rows and the endpoints: *)
(* what one viewer may do with one project, one department, one employee    *)
(* (the subject), the subject's tasks, AI workspace and documents.          *)
(*                                                                          *)
(* The state is what the ladders read: the viewer's rows in the identity,   *)
(* organization, project, department and access tables.  Each step is a     *)
(* change of one of those rows by some other operation of the system; the   *)
(* ladders are operators over the state, evaluated at every one.            *)
(*                                                                          *)
(* Abstracted: a code and its project.* mirror (docs.upload and             *)
(* project.docs.upload, either of which will do) are one code; a template's  *)
(* permission is a grant of company or global scope; an inactive definition *)
(* is a deny of global scope; the reason strings.  has_permission itself,    *)
(* and what it reads when, is AccessDecision's subject.                     *)
(* Bounds: MaxRows access rows and MaxFacts rows altogether.                *)
(***************************************************************************)
EXTENDS Naturals, FiniteSets

CONSTANTS
  RoleCodes,   \* the role codes handed out
  AccessRows,  \* the access rows handed out
  Shapes,      \* the situations examined
  MaxRows, MaxFacts

Privileged == {"admin", "company_admin", "super_admin", "executive", "ceo"}
MemberStates == {"none", "invited", "viewer", "editor"}  \* no row, inactive, active, in MANAGE_ROLES
SeatStates == {"none", "member", "head"}
Facts == {"superuser", "org"}  \* org: an active member of the organization
Scopes == {"global", "company", "department", "project", "employee", "workspace"}

\* What does not change: whether the viewer created the project, whether the
\* department is its primary unit, who the subject is, whether a peer is in the
\* viewer's organization and department, and whether the task is in the project.
Shape == [created : BOOLEAN, primary : BOOLEAN, subject : {"self", "peer"},
          peer : SUBSET {"org", "seat"}, linked : BOOLEAN]

ASSUME PolicyConstants ==
  /\ MaxRows \in Nat /\ MaxFacts \in Nat
  /\ Shapes \subseteq Shape
  /\ \A r \in AccessRows : r.effect \in {"grant", "deny"} /\ r.scope \in Scopes

VARIABLES
  shape,    \* the situation
  facts,    \* those of Facts that hold
  latest,   \* the viewer's latest role assignment, or "none"
  earlier,  \* the roles assigned before it
  member,   \* the viewer's ProjectMember row
  seat,     \* the viewer's OrgUnitMember row
  rows      \* the active grants and denies of the viewer

vars == <<shape, facts, latest, earlier, member, seat, rows>>

--------------------------------------------------------------------------------
(* Roles, capabilities and permissions *)

None == 0  Metadata == 1  Read == 2  Write == 3  Manage == 4  Admin == 5
Levels == None .. Admin

\* _user_role_code takes the first assignment, and they are ordered latest first.
IsPrivileged == latest \in Privileged
IsManager == latest = "manager"

\* The normalized set of roles looks at every assignment.
RoleSet == {IF r = "admin" THEN "company_admin" ELSE r : r \in earlier \cup ({latest} \ {"none"})}

Covers(row, scope) == row.scope \in {scope, "global"}

Granted(code, scope) ==
  \E r \in rows : r.effect = "grant" /\ r.code = code /\ Covers(r, scope)

Denied(code, scope) ==
  \E r \in rows : r.effect = "deny" /\ r.code = code /\ Covers(r, scope)

Has(code, scope) == ~Denied(code, scope) /\ Granted(code, scope)

\* Grants of exactly this scope, whatever the code: what the list filters read.
GrantedOn(scope) == \E r \in rows : r.effect = "grant" /\ r.scope = scope

\* effective_capabilities, as far as the platform's rights go: a bundle of the
\* role set, and grants of global or company scope that the bridge translates.
BundleRoles(cap) ==
  CASE cap = "capabilities.manage" -> {"super_admin"}
    [] cap = "roles.manage" -> {"super_admin", "company_admin", "executive", "ceo"}

BridgeCodes(cap) ==
  CASE cap = "capabilities.manage" -> {"rights.grant", "rights.revoke"}
    [] cap = "roles.manage" -> {"roles.assign"}

HasCapability(cap) ==
  \/ RoleSet \cap BundleRoles(cap) # {}
  \/ \E r \in rows : /\ r.effect = "grant" /\ r.code \in BridgeCodes(cap)
                     /\ r.scope \in {"global", "company"}

--------------------------------------------------------------------------------
(* Projects *)

ManagesPrimary(seats) == IsManager /\ shape.primary /\ seat \in seats

ProjectListed ==
  \/ GrantedOn("project")
  \/ IF IsPrivileged THEN "org" \in facts
     ELSE shape.created \/ member # "none" \/ ManagesPrimary({"member", "head"})

\* Mutant: an invitation not yet accepted is not looked at.
CanViewProject_ActiveOnly ==
  \/ IsPrivileged \/ shape.created \/ member \in {"viewer", "editor"}
  \/ GrantedOn("project") \/ ManagesPrimary({"member", "head"})

CanViewProject ==
  \/ IsPrivileged \/ shape.created \/ member # "none"
  \/ GrantedOn("project") \/ ManagesPrimary({"member", "head"})

CanManageProject == IsPrivileged \/ member = "editor" \/ ManagesPrimary({"head"})
CanProjectAction(code) == Has(code, "project") \/ CanManageProject

ProjectLevel ==
  IF "superuser" \in facts \/ IsPrivileged THEN Admin
  ELSE IF CanManageProject THEN Manage
  ELSE IF CanProjectAction("project.edit") THEN Write
  ELSE IF CanViewProject THEN Read
  ELSE IF Has("project.view_metadata", "project") THEN Metadata
  ELSE None

ProjectMin == [a \in {"view_metadata", "read", "update", "archive", "manage_members", "manage_settings"} |->
  CASE a = "view_metadata" -> Metadata
    [] a = "read" -> Read
    [] a \in {"update", "archive"} -> Write
    [] OTHER -> Manage]

ProjectAllows(action) ==
  IF action = "delete" THEN ProjectLevel >= Manage \/ Has("project.delete", "project")
  ELSE ProjectLevel >= ProjectMin[action]

MayCreateProject == "org" \in facts /\ ("superuser" \in facts \/ Has("project.create", "company"))

\* require_view_project: read, or else metadata.
ProjectOpens == ProjectAllows("read") \/ ProjectAllows("view_metadata")

--------------------------------------------------------------------------------
(* The flags a project is served with *)

ViewFlags == {"docs.view", "tasks.view"}
ManageFlags == {"project.edit", "docs.upload", "docs.edit", "docs.delete", "docs.assign_editors",
                "tasks.create", "tasks.assign", "tasks.edit", "tasks.change_deadline",
                "tasks.block", "project.assign_members", "project.chat.moderate"}
FlagCodes == ViewFlags \cup ManageFlags \cup {"project.assign_rights"}

FlagOf(code, holds) ==
  \/ holds
  \/ code \in ViewFlags /\ CanViewProject
  \/ code \in ManageFlags /\ CanManageProject

Flag(code) == FlagOf(code, Has(code, "project"))

\* Mutant: the list takes any grant on the project.
BulkHas_AnyCode(code) == \E r \in rows : r.effect = "grant" /\ r.scope = "project"

\* ProjectAccessContext: grants of the project's scope, denies are not looked at.
BulkHas(code) == \E r \in rows : r.effect = "grant" /\ r.code = code /\ r.scope = "project"

BulkFlag(code) == FlagOf(code, BulkHas(code))

--------------------------------------------------------------------------------
(* Departments *)

DepartmentListed ==
  IF IsPrivileged THEN "org" \in facts
  ELSE seat # "none"  \* reading the grants raises a NameError that the filter swallows

CanManageDepartment ==
  \/ seat = "head"
  \/ "company_admin" \in RoleSet /\ "org" \in facts
  \/ \E code \in {"department.edit", "department.manage_workspace"} : Has(code, "department")

\* Mutant: the seat is looked at before the right to update.
DepartmentLevel_SeatFirst ==
  IF "superuser" \in facts \/ (IsPrivileged /\ "org" \in facts) THEN Admin
  ELSE IF CanManageDepartment THEN Manage
  ELSE IF seat # "none" \/ Has("department.read", "department") THEN Read
  ELSE IF Has("department.update", "department") THEN Write
  ELSE IF Has("department.view_metadata", "department") THEN Metadata
  ELSE None

DepartmentLevel ==
  IF "superuser" \in facts \/ (IsPrivileged /\ "org" \in facts) THEN Admin
  ELSE IF CanManageDepartment THEN Manage
  ELSE IF Has("department.update", "department") THEN Write
  ELSE IF seat # "none" \/ Has("department.read", "department") THEN Read
  ELSE IF Has("department.view_metadata", "department") THEN Metadata
  ELSE None

DepartmentMin == [a \in {"view_metadata", "read", "view_reports", "use_ai", "update",
                         "manage_documents", "manage_members", "manage_workspace"} |->
  CASE a = "view_metadata" -> Metadata
    [] a \in {"read", "view_reports", "use_ai"} -> Read
    [] a \in {"update", "manage_documents"} -> Write
    [] OTHER -> Manage]

DepartmentAllows(action) == DepartmentLevel >= DepartmentMin[action]
DepartmentOpens == DepartmentAllows("read") \/ DepartmentAllows("view_metadata")

--------------------------------------------------------------------------------
(* Employees *)

Self == shape.subject = "self"
SharesOrg == "org" \in facts /\ (Self \/ "org" \in shape.peer)
SharesSeat == seat # "none" /\ (Self \/ "seat" \in shape.peer)

EmployeeHas(code) ==
  \/ Has(code, "employee")
  \/ SharesOrg /\ Has(code, "company")
  \/ SharesSeat /\ Has(code, "department")

EmployeeLevel ==
  IF "superuser" \in facts THEN Admin
  ELSE IF Self THEN Read
  ELSE IF ~SharesOrg THEN None
  ELSE IF IsPrivileged THEN Admin
  ELSE IF EmployeeHas("employee.manage_roles") THEN Manage
  ELSE IF EmployeeHas("employee.update") THEN Write
  ELSE IF EmployeeHas("employee.read") \/ SharesSeat THEN Read
  ELSE IF EmployeeHas("employee.view_metadata") THEN Metadata
  ELSE None

EmployeeMin == [a \in {"view_metadata", "read", "update", "manage_roles"} |->
  CASE a = "view_metadata" -> Metadata [] a = "read" -> Read [] a = "update" -> Write [] OTHER -> Manage]

\* Seeing the employee's workspace is delegated apart from the profile.
EmployeeAllows(action) ==
  CASE action \in DOMAIN EmployeeMin -> EmployeeLevel >= EmployeeMin[action]
    [] action = "view_workspace_metadata" ->
         EmployeeLevel >= Read \/ EmployeeHas("employee.view_workspace_metadata")
    [] action = "view_workspace_content" ->
         EmployeeLevel >= Read \/ EmployeeHas("employee.view_workspace_content")

\* Rows the filter lets through; each is then asked for employee.view_metadata.
EmployeeListed ==
  \/ "superuser" \in facts
  \/ "org" \notin facts /\ Self
  \/ SharesOrg /\ (IsPrivileged \/ Self \/ SharesSeat \/ GrantedOn("employee"))

--------------------------------------------------------------------------------
(* The subject's tasks, AI workspace and documents *)

Weaker(a, b) == IF a <= b THEN a ELSE b

\* Mutant: a privileged viewer is let in as the worker is.
WorkerLevel_AnyManager ==
  IF Self THEN Write
  ELSE IF "superuser" \in facts THEN Admin
  ELSE IF IsPrivileged \/ IsManager THEN Manage ELSE None

WorkerLevel ==
  IF Self THEN Write
  ELSE IF "superuser" \in facts THEN Admin
  ELSE IF IsPrivileged THEN Manage ELSE None

TaskLevel == IF shape.linked THEN Weaker(WorkerLevel, ProjectLevel) ELSE WorkerLevel

TaskMin == [a \in {"view_metadata", "read", "comment", "review", "create", "update", "change_status",
                   "upload_artifact", "block", "delete", "assign", "escalate"} |->
  CASE a = "view_metadata" -> Metadata
    [] a \in {"read", "comment", "review"} -> Read
    [] a \in {"assign", "escalate"} -> Manage
    [] OTHER -> Write]

TaskAllows(action) ==
  \/ TaskLevel >= TaskMin[action]
  \/ /\ shape.linked
     /\ \/ action = "assign" /\ CanProjectAction("tasks.assign")
        \/ action = "block" /\ CanProjectAction("tasks.block") /\ TaskLevel >= Read
        \/ action = "escalate" /\ CanProjectAction("tasks.assign") /\ TaskLevel >= Read

\* Mutant: the organization's administrators read the content.
WorkspaceLevel_Privileged ==
  IF Self THEN Read
  ELSE IF "superuser" \in facts \/ IsPrivileged THEN Admin
  ELSE IF Has("ai.workspace.view_content", "workspace") THEN Read
  ELSE IF Has("ai.workspace.view_metadata", "workspace") THEN Metadata
  ELSE None

WorkspaceLevel ==
  IF Self THEN Read
  ELSE IF "superuser" \in facts THEN Admin
  ELSE IF Has("ai.workspace.view_content", "workspace") THEN Read
  ELSE IF Has("ai.workspace.view_metadata", "workspace") THEN Metadata
  ELSE None

WorkspaceAllows(action) ==
  CASE action = "view_metadata" -> WorkspaceLevel >= Metadata
    [] action = "view_content" -> WorkspaceLevel >= Read

\* Mutant: managing the project does not count.
ProjectDocumentLevel_GrantOnly ==
  IF Has("docs.upload", "project") THEN Write
  ELSE IF CanViewProject \/ Has("docs.view", "project") THEN Read
  ELSE IF Has("document.view_metadata", "project") THEN Metadata
  ELSE None

ProjectDocumentLevel ==
  IF CanProjectAction("docs.upload") THEN Write
  ELSE IF CanViewProject \/ Has("docs.view", "project") THEN Read
  ELSE IF Has("document.view_metadata", "project") THEN Metadata
  ELSE None

DepartmentDocumentLevel ==
  IF Has("department.manage_documents", "department") \/ Has("document.upload", "department") THEN Write
  ELSE IF seat # "none" \/ (\E c \in {"document.read", "docs.view"} : Has(c, "department")) THEN Read
  ELSE IF Has("document.view_metadata", "department") THEN Metadata
  ELSE None

WorkspaceDocumentLevel == Weaker(WorkspaceLevel, Read)

DocumentMin == [a \in {"view_metadata", "read", "upload", "update", "delete", "share"} |->
  CASE a = "view_metadata" -> Metadata [] a = "read" -> Read [] OTHER -> Write]

DocumentAllows(level, action) == level >= DocumentMin[action]

--------------------------------------------------------------------------------
(* Changes of the rows the ladders read *)

Count == Cardinality(facts) + Cardinality(rows) + Cardinality(earlier)
         + (IF latest = "none" THEN 0 ELSE 1)
         + (IF member = "none" THEN 0 ELSE 1) + (IF seat = "none" THEN 0 ELSE 1)
Room == Count < MaxFacts

Init ==
  /\ shape \in Shapes
  /\ facts = {} /\ latest = "none" /\ earlier = {}
  /\ member = "none" /\ seat = "none" /\ rows = {}

SetFact(f) ==
  /\ f \notin facts => Room
  /\ facts' = IF f \in facts THEN facts \ {f} ELSE facts \cup {f}
  /\ UNCHANGED <<shape, latest, earlier, member, seat, rows>>

\* The new assignment becomes the latest.
AssignRole(r) ==
  /\ Room /\ r # latest /\ r \notin earlier
  /\ latest' = r
  /\ earlier' = earlier \cup ({latest} \ {"none"})
  /\ UNCHANGED <<shape, facts, member, seat, rows>>

\* Which of the earlier ones is then the latest is not kept: any may be.
RemoveRole(r) ==
  \/ /\ r \in earlier
     /\ earlier' = earlier \ {r}
     /\ UNCHANGED <<shape, facts, latest, member, seat, rows>>
  \/ /\ r = latest
     /\ \/ earlier = {} /\ latest' = "none"
        \/ latest' \in earlier
     /\ earlier' = earlier \ {latest'}
     /\ UNCHANGED <<shape, facts, member, seat, rows>>

SetMember(m) ==
  /\ m # member /\ (member = "none" => Room)
  /\ member' = m
  /\ UNCHANGED <<shape, facts, latest, earlier, seat, rows>>

SetSeat(s) ==
  /\ s # seat /\ (seat = "none" => Room)
  /\ seat' = s
  /\ UNCHANGED <<shape, facts, latest, earlier, member, rows>>

AddRow(r) ==
  /\ Room /\ Cardinality(rows) < MaxRows
  /\ rows' = rows \cup {r}
  /\ UNCHANGED <<shape, facts, latest, earlier, member, seat>>

\* Revoked, or expired.
EndRow(r) ==
  /\ r \in rows
  /\ rows' = rows \ {r}
  /\ UNCHANGED <<shape, facts, latest, earlier, member, seat>>

Next ==
  \/ \E f \in Facts : SetFact(f)
  \/ \E r \in RoleCodes : AssignRole(r) \/ RemoveRole(r)
  \/ \E m \in MemberStates : SetMember(m)
  \/ \E s \in SeatStates : SetSeat(s)
  \/ \E r \in AccessRows : AddRow(r) \/ EndRow(r)

Spec == Init /\ [][Next]_vars

--------------------------------------------------------------------------------
(* Properties *)

\* The rows are those the operations hand out.
TypeOK ==
  /\ shape \in Shapes
  /\ facts \subseteq Facts
  /\ latest \in RoleCodes \cup {"none"} /\ earlier \subseteq RoleCodes
  /\ member \in MemberStates /\ seat \in SeatStates
  /\ rows \subseteq AccessRows

\* What a list endpoint serves opens: a project the list filter lets through
\* passes require_view_project, a department require_view_department, and an
\* employee the filter lets through shares the organization or is the viewer.
ListedOpens ==
  /\ ProjectListed => ProjectOpens
  /\ DepartmentListed => DepartmentOpens
  /\ EmployeeListed => Self \/ SharesOrg \/ "superuser" \in facts

\* The flags a project is served with are honoured by the gates of the endpoints
\* they switch on.
FlagsHonoured ==
  /\ Flag("project.edit") => ProjectAllows("update") /\ ProjectAllows("archive")
  /\ CanManageProject => \A a \in {"manage_members", "manage_settings", "delete"} : ProjectAllows(a)
  /\ CanViewProject => ProjectAllows("read")
  /\ \A a \in {"upload", "update", "delete", "share"} :
       Flag("docs.upload") => DocumentAllows(ProjectDocumentLevel, a)
  /\ Flag("docs.view") => DocumentAllows(ProjectDocumentLevel, "read")
  /\ shape.linked /\ Flag("tasks.assign") => TaskAllows("assign")

\* The flags of a list (bulk, from preloaded rows) and of the detail differ only
\* where a deny or a grant wider than the project decides.
BulkAgrees ==
  \A code \in FlagCodes :
    /\ BulkFlag(code) => Flag(code) \/ Denied(code, "project")
    /\ Flag(code) => \/ BulkFlag(code)
                     \/ \E r \in rows : r.effect = "grant" /\ r.scope = "global" /\ r.code = code

\* Another employee's tasks are open to superusers and privileged roles alone;
\* what the viewer's rights on the project add is handing the task on.
TaskIsolation ==
  ~Self /\ "superuser" \notin facts /\ ~IsPrivileged =>
    \A action \in DOMAIN TaskMin :
      TaskAllows(action) => action = "assign" /\ shape.linked /\ CanProjectAction("tasks.assign")

\* The content of somebody else's AI workspace, and of the documents in it, is
\* read with a grant for the content or by a superuser: no role gives it.
PrivateContent ==
  ~Self /\ (WorkspaceAllows("view_content") \/ DocumentAllows(WorkspaceDocumentLevel, "read"))
    => "superuser" \in facts \/ Has("ai.workspace.view_content", "workspace")

Door(open) == IF open THEN Admin ELSE None

Standing == <<ProjectLevel, DepartmentLevel, EmployeeLevel, TaskLevel, WorkspaceLevel,
              ProjectDocumentLevel, DepartmentDocumentLevel,
              Door(HasCapability("capabilities.manage")), Door(HasCapability("roles.manage")),
              Door(MayCreateProject), Door(ProjectAllows("delete")),
              Door(EmployeeAllows("view_workspace_content"))>>

Grants == {r \in rows : r.effect = "grant"}
Denies == {r \in rows : r.effect = "deny"}

\* Rights are withdrawn without a change of role: rows end, denies come, a
\* membership ends or is demoted.
Withdrawn ==
  /\ facts' \subseteq facts /\ latest' = latest /\ earlier' = earlier
  /\ member' = member \/ member' = "none" \/ (member = "editor" /\ member' # "editor")
  /\ seat' = seat \/ seat' = "none" \/ seat = "head"
  /\ Grants' \subseteq Grants /\ Denies \subseteq Denies'

\* Withdrawing a right never raises what the viewer may do anywhere: no rung of
\* a ladder hides a higher one, and no other check turns in the viewer's favour.
WithdrawalNeverRaises ==
  [][Withdrawn => \A k \in 1 .. 12 : Standing'[k] <= Standing[k]]_vars

\* What a smoke script expects of the deployment (scripts/document_upload_smoke.py):
\* employees can upload documents to their own workspace.
OwnWorkspaceTakesUploads == Self => DocumentAllows(WorkspaceDocumentLevel, "upload")
==================================================================================
