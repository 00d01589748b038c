-------------------------- MODULE AccessPoliciesProofs --------------------------
(***************************************************************************)
(* The ladders agree with one another for any roles, codes and rows: what   *)
(* is listed opens, what is flagged is allowed, and withdrawing a right     *)
(* raises nothing.                                                          *)
(***************************************************************************)
EXTENDS AccessPolicies, TLAPS

\* The rows handed out stay among those the operations may hand out.
LEMMA TypingStep == TypeOK /\ [Next]_vars => TypeOK'
<1> SUFFICES ASSUME TypeOK, [Next]_vars PROVE TypeOK'
  OBVIOUS
<1> USE DEF TypeOK
<1>1. ASSUME NEW f \in Facts, SetFact(f) PROVE TypeOK'
  BY <1>1 DEF SetFact
<1>2. ASSUME NEW r \in RoleCodes, AssignRole(r) PROVE TypeOK'
  BY <1>2 DEF AssignRole
<1>3. ASSUME NEW r \in RoleCodes, RemoveRole(r) PROVE TypeOK'
  BY <1>3 DEF RemoveRole
<1>4. ASSUME NEW m \in MemberStates, SetMember(m) PROVE TypeOK'
  BY <1>4 DEF SetMember
<1>5. ASSUME NEW s \in SeatStates, SetSeat(s) PROVE TypeOK'
  BY <1>5 DEF SetSeat
<1>6. ASSUME NEW r \in AccessRows, AddRow(r) PROVE TypeOK'
  BY <1>6 DEF AddRow
<1>7. ASSUME NEW r \in AccessRows, EndRow(r) PROVE TypeOK'
  BY <1>7 DEF EndRow
<1>8. CASE UNCHANGED vars
  BY <1>8 DEF vars
<1> QED BY <1>1, <1>2, <1>3, <1>4, <1>5, <1>6, <1>7, <1>8 DEF Next

\* Type correctness.
THEOREM Typing == Spec => []TypeOK
<1>1. Init => TypeOK
  BY DEF Init, TypeOK, MemberStates, SeatStates
<1> QED BY <1>1, TypingStep, PTL DEF Spec

\* Every ladder ends on one of its rungs.
LEMMA LevelTypes ==
  /\ ProjectLevel \in Levels /\ DepartmentLevel \in Levels /\ EmployeeLevel \in Levels
  /\ WorkerLevel \in Levels /\ TaskLevel \in Levels /\ WorkspaceLevel \in Levels
  /\ ProjectDocumentLevel \in Levels /\ DepartmentDocumentLevel \in Levels
  /\ WorkspaceDocumentLevel \in Levels
<1> USE DEF Levels, None, Metadata, Read, Write, Manage, Admin
<1>1. ProjectLevel \in Levels /\ WorkerLevel \in Levels
  BY DEF ProjectLevel, WorkerLevel
<1>2. DepartmentLevel \in Levels /\ EmployeeLevel \in Levels
  BY DEF DepartmentLevel, EmployeeLevel
<1>3. WorkspaceLevel \in Levels
  BY DEF WorkspaceLevel
<1>4. ProjectDocumentLevel \in Levels /\ DepartmentDocumentLevel \in Levels
  BY DEF ProjectDocumentLevel, DepartmentDocumentLevel
<1>5. TaskLevel \in Levels /\ WorkspaceDocumentLevel \in Levels
  BY <1>1, <1>3 DEF TaskLevel, WorkspaceDocumentLevel, Weaker
<1> QED BY <1>1, <1>2, <1>3, <1>4, <1>5

\* The lowest rung that opens a project or a department is metadata.
LEMMA Gates ==
  /\ ProjectLevel >= Metadata => ProjectOpens
  /\ DepartmentLevel >= Metadata => DepartmentOpens
BY DEF ProjectOpens, ProjectAllows, ProjectMin, DepartmentOpens, DepartmentAllows, DepartmentMin

LEMMA ListedOpensHolds == ListedOpens
<1> USE DEF None, Metadata, Read, Write, Manage, Admin
<1>1. ProjectListed => ProjectLevel >= Metadata
  BY DEF ProjectListed, ProjectLevel, CanViewProject
<1>2. DepartmentListed => DepartmentLevel >= Metadata
  BY DEF DepartmentListed, DepartmentLevel
<1>3. EmployeeListed => Self \/ SharesOrg \/ "superuser" \in facts
  BY DEF EmployeeListed
<1> QED BY <1>1, <1>2, <1>3, Gates DEF ListedOpens

\* What a list endpoint serves, its detail opens, in every reachable state.
THEOREM ListsOpen == Spec => []ListedOpens
BY ListedOpensHolds, PTL

LEMMA FlagsHonouredHolds == FlagsHonoured
<1> USE DEF None, Metadata, Read, Write, Manage, Admin
<1>1. Flag("project.edit") => ProjectLevel >= Write
  BY DEF Flag, FlagOf, ViewFlags, ManageFlags, ProjectLevel, CanProjectAction
<1>2. CanManageProject => ProjectLevel >= Manage
  BY DEF ProjectLevel
<1>3. CanViewProject => ProjectLevel >= Read
  BY DEF ProjectLevel
<1>4. Flag("docs.upload") => ProjectDocumentLevel >= Write
  BY DEF Flag, FlagOf, ViewFlags, ManageFlags, ProjectDocumentLevel, CanProjectAction
<1>5. Flag("docs.view") => ProjectDocumentLevel >= Read
  BY DEF Flag, FlagOf, ViewFlags, ManageFlags, ProjectDocumentLevel
<1>6. shape.linked /\ Flag("tasks.assign") => TaskAllows("assign")
  BY DEF Flag, FlagOf, ViewFlags, ManageFlags, TaskAllows, CanProjectAction
<1>7. /\ \A a \in {"update", "archive"} : ProjectLevel >= Write => ProjectAllows(a)
      /\ \A a \in {"manage_members", "manage_settings", "delete"} :
           ProjectLevel >= Manage => ProjectAllows(a)
      /\ ProjectLevel >= Read => ProjectAllows("read")
  BY DEF ProjectAllows, ProjectMin
<1>8. \A l : /\ l >= Read => DocumentAllows(l, "read")
             /\ \A a \in {"upload", "update", "delete", "share"} : l >= Write => DocumentAllows(l, a)
  BY DEF DocumentAllows, DocumentMin
<1> QED BY <1>1, <1>2, <1>3, <1>4, <1>5, <1>6, <1>7, <1>8 DEF FlagsHonoured

\* The gates honour the flags a project is served with.
THEOREM GatesHonourFlags == Spec => []FlagsHonoured
BY FlagsHonouredHolds, PTL

LEMMA BulkAgreesHolds == BulkAgrees
<1> SUFFICES ASSUME NEW code \in FlagCodes
             PROVE  /\ BulkFlag(code) => Flag(code) \/ Denied(code, "project")
                    /\ Flag(code) => \/ BulkFlag(code)
                                     \/ \E r \in rows : /\ r.effect = "grant" /\ r.scope = "global"
                                                        /\ r.code = code
  BY DEF BulkAgrees
<1>1. BulkHas(code) => Granted(code, "project")
  BY DEF BulkHas, Granted, Covers
<1>2. Has(code, "project") => \/ BulkHas(code)
                              \/ \E r \in rows : /\ r.effect = "grant" /\ r.scope = "global"
                                                 /\ r.code = code
  BY DEF BulkHas, Has, Granted, Covers
<1> QED BY <1>1, <1>2 DEF BulkFlag, Flag, FlagOf, Has

\* The flags of lists and of details differ only where a deny or a wide grant decides.
THEOREM BulkAgreement == Spec => []BulkAgrees
BY BulkAgreesHolds, PTL

LEMMA TaskIsolationHolds == TaskIsolation
<1> USE DEF None, Metadata, Read, Write, Manage, Admin
<1> SUFFICES ASSUME ~Self, "superuser" \notin facts, ~IsPrivileged,
                    NEW action \in DOMAIN TaskMin, TaskAllows(action)
             PROVE  action = "assign" /\ shape.linked /\ CanProjectAction("tasks.assign")
  BY DEF TaskIsolation
<1>1. TaskLevel = None
  BY LevelTypes DEF TaskLevel, WorkerLevel, Weaker, Levels
<1>2. TaskMin[action] \in Metadata .. Manage
  BY DEF TaskMin
<1> QED BY <1>1, <1>2 DEF TaskAllows

\* The tasks of another employee stay closed to those without a privileged role.
THEOREM TasksIsolated == Spec => []TaskIsolation
BY TaskIsolationHolds, PTL

LEMMA PrivateContentHolds == PrivateContent
<1> USE DEF None, Metadata, Read, Write, Manage, Admin
<1>1. DocumentAllows(WorkspaceDocumentLevel, "read") => WorkspaceLevel >= Read
  BY LevelTypes DEF DocumentAllows, DocumentMin, WorkspaceDocumentLevel, Weaker, Levels
<1>2. ~Self /\ WorkspaceLevel >= Read
        => "superuser" \in facts \/ Has("ai.workspace.view_content", "workspace")
  BY DEF WorkspaceLevel
<1> QED BY <1>1, <1>2 DEF PrivateContent, WorkspaceAllows

\* No role opens the content of somebody else's AI workspace.
THEOREM ContentPrivate == Spec => []PrivateContent
BY PrivateContentHolds, PTL

--------------------------------------------------------------------------------
(* Withdrawing a right *)

\* What has_permission refuses before rows are withdrawn it refuses after.
LEMMA HasFalls ==
  ASSUME Withdrawn, NEW code, NEW scope
  PROVE  /\ Has(code, scope)' => Has(code, scope)
         /\ GrantedOn(scope)' => GrantedOn(scope)
<1>1. \A r \in rows' : r.effect = "grant" => r \in rows
  BY DEF Withdrawn, Grants
<1>2. \A r \in rows : r.effect = "deny" => r \in rows'
  BY DEF Withdrawn, Denies
<1>3. Denied(code, scope) => Denied(code, scope)'
  BY <1>2 DEF Denied, Covers
<1>4. Granted(code, scope)' => Granted(code, scope)
  BY <1>1 DEF Granted, Covers
<1>5. GrantedOn(scope)' => GrantedOn(scope)
  BY <1>1 DEF GrantedOn
<1> QED BY <1>3, <1>4, <1>5 DEF Has

\* The situation never changes.
LEMMA ShapeFixed == [Next]_vars => shape' = shape
BY DEF Next, vars, SetFact, AssignRole, RemoveRole, SetMember, SetSeat, AddRow, EndRow

\* Each ladder falls, or stays, on a withdrawal.
LEMMA LaddersFall ==
  ASSUME TypeOK, TypeOK', shape' = shape, Withdrawn
  PROVE  /\ ProjectLevel' <= ProjectLevel
         /\ DepartmentLevel' <= DepartmentLevel
         /\ EmployeeLevel' <= EmployeeLevel
         /\ TaskLevel' <= TaskLevel
         /\ WorkspaceLevel' <= WorkspaceLevel
         /\ ProjectDocumentLevel' <= ProjectDocumentLevel
         /\ DepartmentDocumentLevel' <= DepartmentDocumentLevel
         /\ \A cap : HasCapability(cap)' => HasCapability(cap)
         /\ MayCreateProject' => MayCreateProject
         /\ ProjectAllows("delete")' => ProjectAllows("delete")
         /\ EmployeeAllows("view_workspace_content")' => EmployeeAllows("view_workspace_content")
<1> USE DEF None, Metadata, Read, Write, Manage, Admin
<1>1. \A code, scope : /\ Has(code, scope)' => Has(code, scope)
                       /\ GrantedOn(scope)' => GrantedOn(scope)
  BY HasFalls
<1>2. /\ IsPrivileged' = IsPrivileged /\ IsManager' = IsManager /\ RoleSet' = RoleSet
      /\ \A f : f \in facts' => f \in facts
      /\ seat' # "none" => seat # "none"
      /\ seat' = "head" => seat = "head"
      /\ member' # "none" => member # "none"
      /\ member' = "editor" => member = "editor"
      /\ Self' = Self
  BY DEF Withdrawn, IsPrivileged, IsManager, RoleSet, Self, TypeOK, SeatStates, MemberStates
<1>3. /\ CanViewProject' => CanViewProject
      /\ CanManageProject' => CanManageProject
      /\ \A code : CanProjectAction(code)' => CanProjectAction(code)
  <2>1. \A seats : ManagesPrimary({"member", "head"})' => ManagesPrimary({"member", "head"})
    BY <1>2 DEF ManagesPrimary, Withdrawn, TypeOK, SeatStates
  <2>2. ManagesPrimary({"head"})' => ManagesPrimary({"head"})
    BY <1>2 DEF ManagesPrimary
  <2>3. CanViewProject' => CanViewProject
    BY <1>1, <1>2, <2>1 DEF CanViewProject
  <2>4. CanManageProject' => CanManageProject
    BY <1>2, <2>2 DEF CanManageProject
  <2> QED BY <1>1, <2>3, <2>4 DEF CanProjectAction
<1>4. ProjectLevel' <= ProjectLevel
  BY <1>1, <1>2, <1>3 DEF ProjectLevel
<1>5. DepartmentLevel' <= DepartmentLevel
  <2>1. CanManageDepartment' => CanManageDepartment
    BY <1>1, <1>2 DEF CanManageDepartment
  <2> QED BY <1>1, <1>2, <2>1 DEF DepartmentLevel
<1>6. /\ EmployeeLevel' <= EmployeeLevel
      /\ EmployeeAllows("view_workspace_content")' => EmployeeAllows("view_workspace_content")
  <2>1. (SharesOrg' => SharesOrg) /\ (SharesSeat' => SharesSeat)
    BY <1>2 DEF SharesOrg, SharesSeat
  <2>2. \A code : EmployeeHas(code)' => EmployeeHas(code)
    BY <1>1, <2>1 DEF EmployeeHas
  <2>3. EmployeeLevel' <= EmployeeLevel
    BY <1>2, <2>1, <2>2 DEF EmployeeLevel
  <2>4. EmployeeLevel \in Nat /\ EmployeeLevel' \in Nat
    BY DEF EmployeeLevel
  <2> QED BY <2>2, <2>3, <2>4 DEF EmployeeAllows, EmployeeMin
<1>7. TaskLevel' <= TaskLevel
  <2>1. WorkerLevel' <= WorkerLevel
    BY <1>2 DEF WorkerLevel
  <2>2. /\ ProjectLevel \in Nat /\ WorkerLevel \in Nat
        /\ ProjectLevel' \in Nat /\ WorkerLevel' \in Nat
    BY DEF ProjectLevel, WorkerLevel
  <2> QED BY <1>4, <2>1, <2>2 DEF TaskLevel, Weaker
<1>8. WorkspaceLevel' <= WorkspaceLevel
  BY <1>1, <1>2 DEF WorkspaceLevel
<1>9. ProjectDocumentLevel' <= ProjectDocumentLevel
  BY <1>1, <1>3 DEF ProjectDocumentLevel
<1>10. DepartmentDocumentLevel' <= DepartmentDocumentLevel
  BY <1>1, <1>2 DEF DepartmentDocumentLevel
<1>11. \A cap : HasCapability(cap)' => HasCapability(cap)
  <2>1. \A r \in rows' : r.effect = "grant" => r \in rows
    BY DEF Withdrawn, Grants
  <2> QED BY <1>2, <2>1 DEF HasCapability
<1>12. MayCreateProject' => MayCreateProject
  BY <1>1, <1>2 DEF MayCreateProject
<1>13. ProjectAllows("delete")' => ProjectAllows("delete")
  <2>1. ProjectLevel \in Nat /\ ProjectLevel' \in Nat
    BY DEF ProjectLevel
  <2> QED BY <1>1, <1>4, <2>1 DEF ProjectAllows
<1> QED BY <1>4, <1>5, <1>6, <1>7, <1>8, <1>9, <1>10, <1>11, <1>12, <1>13

\* No withdrawal of rights raises a level on any ladder.
THEOREM WithdrawalsLower == Spec => WithdrawalNeverRaises
<1>1. TypeOK /\ TypeOK' /\ [Next]_vars
        => [Withdrawn => \A k \in 1 .. 12 : Standing'[k] <= Standing[k]]_vars
  <2> SUFFICES ASSUME TypeOK, TypeOK', [Next]_vars, Withdrawn, NEW k \in 1 .. 12
               PROVE  Standing'[k] <= Standing[k]
    OBVIOUS
  <2>1. shape' = shape
    BY ShapeFixed
  <2>2. \/ k = 1 \/ k = 2 \/ k = 3 \/ k = 4 \/ k = 5 \/ k = 6 \/ k = 7 \/ k = 8 \/ k = 9
     \/ k = 10 \/ k = 11 \/ k = 12
    OBVIOUS
  <2> QED BY <2>1, <2>2, LaddersFall DEF Standing, Door, None, Admin
<1> QED BY <1>1, Typing, PTL DEF Spec, WithdrawalNeverRaises
==================================================================================
