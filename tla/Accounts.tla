-------------------------------- MODULE Accounts --------------------------------
(***************************************************************************)
(* Accounts, their roles and their firms: the super-admin cabinet          *)
(* (identity/api/super_admin_views.py) and the company administrator's     *)
(* list of users (core/api/parallel_contract_views.py).                    *)
(*                                                                         *)
(* A request of the cabinet looks at the account it is about and refuses   *)
(* to touch a super admin; then it writes, without a lock and with other   *)
(* requests in between (Check..., and a step of its own for the write).    *)
(* Only a replacement of roles is a transaction.  The company              *)
(* administrator's change of a role deletes the old rows and then creates  *)
(* the new one, and the server may die between the two.  The career        *)
(* service writes another code into one of the user's rows.                *)
(*                                                                         *)
(* Abstracted: a firm is active, and a membership that is not is none;     *)
(* "admin" stands for company_admin too, and other codes give no right     *)
(* here; explicit capabilities, which a super admin has all of; the        *)
(* department in a change of role (DepartmentTeam); names, mail addresses, *)
(* and of a password all but who set it last.  When a row was assigned is  *)
(* not kept: the latest of a user may be any.  Ending a user's sessions    *)
(* changes nothing: it asks a token model whose application is not         *)
(* installed, and fails.  Bounds: one request per clerk, MaxChanges        *)
(* requests, RoleSets for what one may give.                               *)
(***************************************************************************)
EXTENDS Naturals, FiniteSetsExt

CONSTANTS
  Persons, Roots,        \* Roots: the super admins there are from the start
  Firms, Everywhere,     \* organization is Everywhere where the column is NULL
  RoleSets, Clerks, MaxChanges

ASSUME AccountsAssumption ==
  /\ Roots \subseteq Persons
  /\ Firms \subseteq Nat /\ IsFiniteSet(Firms) /\ Everywhere \notin Firms
  /\ RoleSets \subseteq SUBSET {"super_admin", "admin", "employee"}
  /\ MaxChanges \in Nat

RoleCodes == {"super_admin", "admin", "employee"}
CompanyCodes == {"admin", "employee"}
Realms == Firms \cup {Everywhere}
Off == [kind |-> "off"]

VARIABLES
  account,  \* is_active, and whether there is such a user
  roles,    \* UserRole: <<user, code, organization>>
  staff,    \* OrganizationMember: staff[f][u]
  secret,   \* who set the password last: "own" or "set" by an administrator
  clerk,    \* clerk[h]: what thread h is in the middle of
  changes   \* how many requests are still to come

uvars == <<account, roles, staff, secret, clerk, changes>>

Holds(u, code) == \E s \in Realms : <<u, code, s>> \in roles
Super(u) == Holds(u, "super_admin")

\* IsSuperAdmin and IsCompanyAdminOrSuperAdmin, of somebody who can log in.
MayRule(a) == account[a] = "active" /\ Super(a)
MayStaff(a) == account[a] = "active" /\ (Super(a) \/ Holds(a, "admin"))

\* _company_scope_org_ids: all of them for a super admin.
FirmsOf(a) == IF Super(a) THEN Firms ELSE {f \in Firms : staff[f][a] = "active"}

Asks == changes > 0 /\ changes' = changes - 1
TakesUp(h, r) == clerk[h] = Off /\ clerk' = [clerk EXCEPT ![h] = r]

\* Thread h goes on with r, having changed the roles of u: what others found out
\* about u is out of date.
Passes(h, r, u) ==
  clerk' = [k \in Clerks |-> IF k = h THEN r
                             ELSE IF clerk[k] # Off /\ clerk[k].of = u
                             THEN [clerk[k] EXCEPT !.clean = FALSE] ELSE clerk[k]]

--------------------------------------------------------------------------------
AccountsInit ==
  /\ account = [u \in Persons |-> IF u \in Roots THEN "active" ELSE "none"]
  /\ roles = {<<u, "super_admin", Everywhere>> : u \in Roots}
  /\ staff = [f \in Firms |-> [u \in Persons |-> "none"]]
  /\ secret = [u \in Persons |-> "own"]
  /\ clerk = [h \in Clerks |-> Off]
  /\ changes = MaxChanges

\* InviteUserView: the user, his memberships and his roles in one transaction; he
\* joins the first firm if none is named.
InviteUser(a, u) ==
  /\ Asks
  /\ MayRule(a) /\ account[u] = "none"
  /\ \E codes \in RoleSets, named \in SUBSET Firms :
       LET joined == IF named # {} \/ Firms = {} THEN named ELSE {Min(Firms)}
           realms == IF joined # {} THEN joined ELSE {Everywhere}
       IN /\ roles' = roles \cup ({u} \X codes \X realms)
          /\ staff' = [f \in Firms |-> IF f \in joined THEN [staff[f] EXCEPT ![u] = "active"]
                                       ELSE staff[f]]
  /\ account' = [account EXCEPT ![u] = "active"]
  /\ secret' = [secret EXCEPT ![u] = "set"]
  /\ UNCHANGED clerk

\* Mutant: only oneself is spared.
CheckDisable_NotSelf(h, a, u) ==
  /\ Asks
  /\ MayRule(a) /\ account[u] = "active"
  /\ u # a
  /\ TakesUp(h, [kind |-> "disable", of |-> u, clean |-> TRUE])
  /\ UNCHANGED <<account, roles, staff, secret>>

\* DisableUserView up to the save: neither oneself nor a super admin.
CheckDisable(h, a, u) ==
  /\ Asks
  /\ MayRule(a) /\ account[u] = "active"
  /\ u # a /\ ~ Super(u)
  /\ TakesUp(h, [kind |-> "disable", of |-> u, clean |-> TRUE])
  /\ UNCHANGED <<account, roles, staff, secret>>

Disable(h) ==
  /\ clerk[h].kind = "disable"
  /\ account' = [account EXCEPT ![clerk[h].of] = "disabled"]
  /\ clerk' = [clerk EXCEPT ![h] = Off]
  /\ UNCHANGED <<roles, staff, secret, changes>>

\* EnableUserView: nothing is looked at.
Enable(a, u) ==
  /\ Asks
  /\ MayRule(a) /\ account[u] = "disabled"
  /\ account' = [account EXCEPT ![u] = "active"]
  /\ UNCHANGED <<roles, staff, secret, clerk>>

\* Mutant: only super admins of everywhere are spared.
CheckPassword_Everywhere(h, a, u) ==
  /\ Asks
  /\ MayRule(a) /\ account[u] # "none"
  /\ u # a /\ <<u, "super_admin", Everywhere>> \notin roles
  /\ TakesUp(h, [kind |-> "password", of |-> u, clean |-> TRUE])
  /\ UNCHANGED <<account, roles, staff, secret>>

\* SetUserPasswordView up to the save.
CheckPassword(h, a, u) ==
  /\ Asks
  /\ MayRule(a) /\ account[u] # "none"
  /\ u # a /\ ~ Super(u)
  /\ TakesUp(h, [kind |-> "password", of |-> u, clean |-> TRUE])
  /\ UNCHANGED <<account, roles, staff, secret>>

SetPassword(h) ==
  /\ clerk[h].kind = "password"
  /\ secret' = [secret EXCEPT ![clerk[h].of] = "set"]
  /\ clerk' = [clerk EXCEPT ![h] = Off]
  /\ UNCHANGED <<account, roles, staff, changes>>

\* MePasswordChangeView.
ChangeOwnPassword(u) ==
  /\ account[u] = "active"
  /\ secret' = [secret EXCEPT ![u] = "own"]
  /\ UNCHANGED <<account, roles, staff, clerk, changes>>

\* UpdateUserRolesView up to the transaction.  It asks whether the user is a super
\* admin anywhere, and looks for the role in the list for the one scope.
CheckRoles(h, a, u) ==
  /\ Asks
  /\ MayRule(a) /\ account[u] # "none"
  /\ \E codes \in RoleSets, s \in Realms :
       /\ Super(u) => "super_admin" \in codes
       /\ TakesUp(h, [kind |-> "roles", of |-> u, codes |-> codes, in |-> s, clean |-> TRUE])
  /\ UNCHANGED <<account, roles, staff, secret>>

\* The transaction: the scope's rows go, the listed ones come.
ReplaceRoles(h) ==
  /\ clerk[h].kind = "roles"
  /\ LET r == clerk[h]
     IN /\ roles' = (roles \ ({r.of} \X RoleCodes \X {r.in})) \cup ({r.of} \X r.codes \X {r.in})
        /\ Passes(h, Off, r.of)
  /\ UNCHANGED <<account, staff, secret, changes>>

--------------------------------------------------------------------------------
(* The company administrator *)

\* CompanyAdminUserRoleUpdateView up to the roles.  Who administers a single firm
\* makes the user a member of it if he is not.
CheckCompanyRole(h, a, u) ==
  /\ Asks
  /\ MayStaff(a) /\ account[u] # "none"
  /\ \/ /\ Super(a) \/ \E f \in FirmsOf(a) : staff[f][u] = "active"
        /\ UNCHANGED staff
     \/ /\ ~ Super(a)
        /\ \E f \in FirmsOf(a) : /\ FirmsOf(a) = {f} /\ staff[f][u] # "active"
                                 /\ staff' = [staff EXCEPT ![f][u] = "active"]
  /\ \E to \in CompanyCodes :
       TakesUp(h, [kind |-> "dismiss", of |-> u, to |-> to, clean |-> TRUE])
  /\ UNCHANGED <<account, roles, secret>>

\* The company's roles go, in whatever firm they were held.
DeleteCompanyRoles(h) ==
  /\ clerk[h].kind = "dismiss"
  /\ roles' = roles \ ({clerk[h].of} \X CompanyCodes \X Realms)
  /\ Passes(h, [clerk[h] EXCEPT !.kind = "appoint"], clerk[h].of)
  /\ UNCHANGED <<account, staff, secret, changes>>

\* The new one is held everywhere.
CreateCompanyRole(h) ==
  /\ clerk[h].kind = "appoint"
  /\ roles' = roles \cup {<<clerk[h].of, clerk[h].to, Everywhere>>}
  /\ Passes(h, Off, clerk[h].of)
  /\ UNCHANGED <<account, staff, secret, changes>>

\* Who may change a system role: through the profile whoever administers the company
\* of somebody in it (EmployeeJobTitleView) ...
ByProfile(a, u) ==
  MayStaff(a) /\ \E f \in Firms : staff[f][u] = "active" /\ (Super(a) \/ staff[f][a] = "active")

\* ... and through the roles page any colleague, if he administers or was granted
\* employee.manage_roles (EmployeeRolesView); who was is left open here.
ByGrant(a, u) ==
  a # u /\ \E f \in Firms : staff[f][u] = "active" /\ staff[f][a] = "active"

\* change_system_role up to the save: of a super admin one can but make a super admin.
CheckSystemRole(h, a, u) ==
  /\ Asks
  /\ account[a] = "active" /\ (ByProfile(a, u) \/ ByGrant(a, u))
  /\ \E to \in UNION RoleSets :
       /\ to = "super_admin" => Super(a)
       /\ Super(u) => to = "super_admin"
       /\ \/ \E row \in roles :
               /\ row[1] = u /\ row[2] # to
               /\ TakesUp(h, [kind |-> "rewrite", of |-> u, to |-> to, row |-> row, clean |-> TRUE])
          \/ /\ \A row \in roles : row[1] # u
             /\ \E f \in {g \in Firms : staff[g][u] = "active"} :
                  TakesUp(h, [kind |-> "rewrite", of |-> u, to |-> to,
                              row |-> <<u, "none", f>>, clean |-> TRUE])
  /\ UNCHANGED <<account, roles, staff, secret>>

\* The row found gets the code, or a new one is made; the table refuses two alike in
\* one firm.  A row of no firm may have had a double, which stays.  If the user's roles
\* changed meanwhile, the row may hold another code by now, or be gone.
SaveSystemRole(h) ==
  /\ clerk[h].kind = "rewrite"
  /\ LET r == clerk[h]
         realm == r.row[3]
         new == <<r.of, r.to, realm>>
         refused == realm # Everywhere /\ new \in roles
     IN \/ refused /\ UNCHANGED roles
        \/ ~ refused /\ r.row[2] = "none" /\ roles' = roles \cup {new}
        \/ ~ r.clean /\ r.row[2] # "none" /\ UNCHANGED roles
        \/ /\ ~ refused /\ r.row[2] # "none"
           /\ \E code \in IF r.clean THEN {r.row[2]} ELSE RoleCodes :
                LET old == <<r.of, code, realm>>
                IN /\ old \in roles
                   /\ \/ roles' = (roles \ {old}) \cup {new}
                      \/ realm = Everywhere /\ roles' = roles \cup {new}
  /\ Passes(h, Off, clerk[h].of)
  /\ UNCHANGED <<account, staff, secret, changes>>

\* CompanyAdminUsersView.get: reading the list makes everyone on it an active member
\* of the reader's first firm.
ListUsers(a) ==
  /\ MayStaff(a) /\ FirmsOf(a) # {}
  /\ LET shown == {u \in Persons :
                     \/ \E f \in FirmsOf(a) : staff[f][u] = "active"
                     \/ \E code \in CompanyCodes, s \in FirmsOf(a) \cup {Everywhere} :
                          <<u, code, s>> \in roles}
     IN staff' = [staff EXCEPT ![Min(FirmsOf(a))] =
                    [u \in Persons |-> IF u \in shown THEN "active" ELSE @[u]]]
  /\ UNCHANGED <<account, roles, secret, clerk, changes>>

\* The server dies with every request under way.
CabinetCrash ==
  /\ \E h \in Clerks : clerk[h] # Off
  /\ clerk' = [h \in Clerks |-> Off]
  /\ UNCHANGED <<account, roles, staff, secret, changes>>

AccountsNext ==
  \/ \E a, u \in Persons : InviteUser(a, u) \/ Enable(a, u)
  \/ \E h \in Clerks, a, u \in Persons :
       \/ CheckDisable(h, a, u) \/ CheckPassword(h, a, u)
       \/ CheckRoles(h, a, u) \/ CheckCompanyRole(h, a, u) \/ CheckSystemRole(h, a, u)
  \/ \E h \in Clerks :
       \/ Disable(h) \/ SetPassword(h) \/ ReplaceRoles(h)
       \/ DeleteCompanyRoles(h) \/ CreateCompanyRole(h) \/ SaveSystemRole(h)
  \/ \E a \in Persons : ChangeOwnPassword(a) \/ ListUsers(a)
  \/ CabinetCrash

AccountsSpec == AccountsInit /\ [][AccountsNext]_uvars

--------------------------------------------------------------------------------
(* Properties *)

Cases ==
  {Off} \cup [kind : {"disable", "password"}, of : Persons, clean : BOOLEAN]
        \cup [kind : {"roles"}, of : Persons, codes : RoleSets, in : Realms, clean : BOOLEAN]
        \cup [kind : {"dismiss", "appoint"}, of : Persons, to : CompanyCodes, clean : BOOLEAN]
        \cup [kind : {"rewrite"}, of : Persons, to : RoleCodes, clean : BOOLEAN,
              row : Persons \X (RoleCodes \cup {"none"}) \X Realms]

\* The tables hold what the handlers write, of users there are.
AccountsTyped ==
  /\ account \in [Persons -> {"none", "active", "disabled"}]
  /\ roles \subseteq {u \in Persons : account[u] # "none"} \X RoleCodes \X Realms
  /\ staff \in [Firms -> [Persons -> {"none", "active"}]]
  /\ secret \in [Persons -> {"own", "set"}]
  /\ clerk \in [Clerks -> Cases]
  /\ \A h \in Clerks : clerk[h] # Off => account[clerk[h].of] # "none"
  /\ changes \in 0 .. MaxChanges

\* What the cabinet protects of a super admin ("forbidden_ceo"): the role, the
\* account, and a password of his own choice.
Kept(u) == Super(u) /\ account[u] = "active" /\ secret[u] = "own"

\* Whoever is super admin from the start can always get in and is always super admin,
\* however the requests of everybody he has promoted overlap, with each other and
\* with his own: there is no way to lock the cabinet.
RootsStay == \A u \in Roots : Kept(u)

\* Nor does anybody else lose, having once become super admin, any of the three to a
\* request - unless his roles were changed between what it found out and what it wrote.
PromotedStay ==
  [][\A u \in Persons :
       /\ Super(u) => Super(u)'
       /\ Super(u) /\ account[u] = "active" => account'[u] = "active"
       /\ Super(u) /\ secret[u] = "own" => secret'[u] = "own"
     \/ \E h \in Clerks : clerk[h] # Off /\ clerk'[h] = Off /\ ~ clerk[h].clean]_uvars
=================================================================================
