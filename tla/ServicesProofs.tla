------------------------------- MODULE ServicesProofs -------------------------------
(***************************************************************************)
(* What the super-admin cabinet protects, the stored files and their       *)
(* providers, the life of a project, for any number of accounts, firms,    *)
(* documents, providers, projects and requests; and the services together. *)
(***************************************************************************)
EXTENDS MCServices, CollaborationProofs

(* The least of a set of numbers is one of them. *)
LEMMA LeastOf == ASSUME NEW S \in SUBSET Nat, S # {} PROVE Min(S) \in S
<1>1. PICK m \in S : \A k \in S : m <= k
  BY LeastThere
<1> QED
  BY <1>1 DEF Min

--------------------------------------------------------------------------------
(* Accounts *)

USE AccountsAssumption

LEMMA FirstOfMine == ASSUME NEW a, FirmsOf(a) # {} PROVE Min(FirmsOf(a)) \in Firms
<1>1. FirmsOf(a) \subseteq Firms
  BY DEF FirmsOf
<1> QED
  BY <1>1, LeastOf

--------------------------------------------------------------------------------
(* Types *)

RoleRows == Persons \X RoleCodes \X Realms
AccountHolders == {u \in Persons : account[u] # "none"}

LEMMA TypesBegin == AccountsInit => AccountsTyped
BY DEF AccountsInit, AccountsTyped, RoleCodes, Realms, Cases, Off

(* Who is a member of a firm has an account. *)
MembersHaveAccounts == \A f \in Firms, u \in Persons : staff[f][u] = "active" => account[u] # "none"

LEMMA MembersBegin == AccountsInit => MembersHaveAccounts
BY DEF AccountsInit, MembersHaveAccounts

LEMMA MembersStep == AccountsTyped /\ MembersHaveAccounts /\ [AccountsNext]_uvars => MembersHaveAccounts'
<1> SUFFICES ASSUME AccountsTyped, MembersHaveAccounts, [AccountsNext]_uvars PROVE MembersHaveAccounts'
  OBVIOUS
<1> USE DEF AccountsTyped, MembersHaveAccounts
<1>1. ASSUME NEW a \in Persons, NEW u \in Persons, InviteUser(a, u) PROVE MembersHaveAccounts'
  <2>1. account' = [account EXCEPT ![u] = "active"]
    BY <1>1 DEF InviteUser
  <2>2. \A f \in Firms, v \in Persons : v # u => staff'[f][v] = staff[f][v]
    BY <1>1 DEF InviteUser
  <2> QED
    BY <2>1, <2>2
<1>2. ASSUME NEW h \in Clerks, NEW a \in Persons, NEW u \in Persons, CheckCompanyRole(h, a, u)
      PROVE  MembersHaveAccounts'
  BY <1>2 DEF CheckCompanyRole
<1>3. ASSUME NEW a \in Persons, ListUsers(a) PROVE MembersHaveAccounts'
  <2> DEFINE shown == {u \in Persons :
                         \/ \E f \in FirmsOf(a) : staff[f][u] = "active"
                         \/ \E code \in CompanyCodes, s \in FirmsOf(a) \cup {Everywhere} :
                              <<u, code, s>> \in roles}
             first == Min(FirmsOf(a))
  <2>1. \A u \in shown : account[u] # "none"
    BY DEF FirmsOf
  <2>2. /\ staff' = [staff EXCEPT ![first] =
                       [u \in Persons |-> IF u \in shown THEN "active" ELSE @[u]]]
        /\ UNCHANGED account
    BY <1>3 DEF ListUsers
  <2> HIDE DEF shown, first
  <2>3. \A f \in Firms, u \in Persons :
          staff'[f][u] = IF f = first /\ u \in shown THEN "active" ELSE staff[f][u]
    BY <2>2
  <2> QED
    BY <2>1, <2>2, <2>3
<1>4. ASSUME NEW a \in Persons, NEW u \in Persons, Enable(a, u) PROVE MembersHaveAccounts'
  BY <1>4 DEF Enable
<1>5. ASSUME NEW h \in Clerks, Disable(h) PROVE MembersHaveAccounts'
  BY <1>5 DEF Disable
<1>6. CASE UNCHANGED <<account, staff>>
  BY <1>6
<1> QED
  BY <1>1, <1>2, <1>3, <1>4, <1>5, <1>6
  DEF AccountsNext, CheckDisable, CheckPassword, CheckRoles, CheckSystemRole, SetPassword,
      ReplaceRoles, DeleteCompanyRoles, CreateCompanyRole, SaveSystemRole, ChangeOwnPassword,
      CabinetCrash, uvars

(* A case that has gone stale is the same case. *)
Stale(c) == [c EXCEPT !.clean = FALSE]

LEMMA StaleCase ==
  ASSUME NEW c \in Cases, c # Off
  PROVE  /\ Stale(c) \in Cases /\ Stale(c) # Off
         /\ Stale(c).of = c.of /\ Stale(c).kind = c.kind /\ ~ Stale(c).clean
         /\ c.kind = "roles" => Stale(c).codes = c.codes
         /\ c.kind = "rewrite" => Stale(c).to = c.to
<1> USE DEF Stale
<1>1. CASE c \in [kind : {"disable", "password"}, of : Persons, clean : BOOLEAN]
  BY <1>1 DEF Cases, Off
<1>2. CASE c \in [kind : {"roles"}, of : Persons, codes : RoleSets, in : Realms, clean : BOOLEAN]
  BY <1>2 DEF Cases, Off
<1>3. CASE c \in [kind : {"dismiss", "appoint"}, of : Persons, to : CompanyCodes, clean : BOOLEAN]
  BY <1>3 DEF Cases, Off
<1>4. CASE c \in [kind : {"rewrite"}, of : Persons, to : RoleCodes, clean : BOOLEAN,
                  row : Persons \X (RoleCodes \cup {"none"}) \X Realms]
  BY <1>4 DEF Cases, Off
<1> QED
  BY <1>1, <1>2, <1>3, <1>4 DEF Cases

(* A thread that goes on with a case of its own leaves the others theirs. *)
LEMMA PassesTyped ==
  ASSUME clerk \in [Clerks -> Cases], NEW h \in Clerks, NEW r \in Cases, NEW u, Passes(h, r, u)
  PROVE  /\ clerk' \in [Clerks -> Cases] /\ clerk'[h] = r
         /\ \A k \in Clerks \ {h} : clerk[k] # Off /\ clerk[k].of # u => clerk'[k] = clerk[k]
         /\ \A k \in Clerks \ {h} :
              IF clerk[k] = Off THEN clerk'[k] = Off
              ELSE /\ clerk'[k] # Off /\ clerk'[k].of = clerk[k].of
                   /\ clerk'[k].kind = clerk[k].kind
                   /\ clerk[k].kind = "roles" => clerk'[k].codes = clerk[k].codes
                   /\ clerk[k].kind = "rewrite" => clerk'[k].to = clerk[k].to
                   /\ clerk[k].of = u => ~ clerk'[k].clean
<1>1. clerk'[h] = r
  BY DEF Passes
<1>2. ASSUME NEW k \in Clerks \ {h}
      PROVE  /\ clerk'[k] \in Cases
             /\ clerk[k] # Off /\ clerk[k].of # u => clerk'[k] = clerk[k]
             /\ IF clerk[k] = Off THEN clerk'[k] = Off
                ELSE /\ clerk'[k] # Off /\ clerk'[k].of = clerk[k].of
                     /\ clerk'[k].kind = clerk[k].kind
                     /\ clerk[k].kind = "roles" => clerk'[k].codes = clerk[k].codes
                     /\ clerk[k].kind = "rewrite" => clerk'[k].to = clerk[k].to
                     /\ clerk[k].of = u => ~ clerk'[k].clean
  <2> DEFINE c == clerk[k]
  <2>1. clerk'[k] = IF c # Off /\ c.of = u THEN Stale(c) ELSE c
    BY <1>2 DEF Passes, Stale
  <2>2. c \in Cases
    OBVIOUS
  <2> HIDE DEF c
  <2>3. CASE c # Off /\ c.of = u
    <3>1. clerk'[k] = Stale(c)
      BY <2>1, <2>3
    <3> QED
      BY <2>2, <2>3, <3>1, StaleCase DEF c
  <2>4. CASE ~ (c # Off /\ c.of = u)
    BY <2>1, <2>2, <2>4 DEF c
  <2> QED
    BY <2>3, <2>4
<1>3. clerk' \in [Clerks -> Cases]
  BY <1>1, <1>2 DEF Passes
<1> QED
  BY <1>1, <1>2, <1>3

LEMMA TypesStep == AccountsTyped /\ MembersHaveAccounts /\ [AccountsNext]_uvars => AccountsTyped'
<1> SUFFICES ASSUME AccountsTyped, MembersHaveAccounts, [AccountsNext]_uvars PROVE AccountsTyped'
  OBVIOUS
<1>a. Off \in Cases
  BY DEF Cases
<1> USE <1>a DEF AccountsTyped
<1>1. ASSUME NEW a \in Persons, NEW u \in Persons, InviteUser(a, u) PROVE AccountsTyped'
  <2>1. PICK codes \in RoleSets, named \in SUBSET Firms :
          LET joined == IF named # {} \/ Firms = {} THEN named ELSE {Min(Firms)}
              realms == IF joined # {} THEN joined ELSE {Everywhere}
          IN /\ roles' = roles \cup ({u} \X codes \X realms)
             /\ staff' = [f \in Firms |-> IF f \in joined THEN [staff[f] EXCEPT ![u] = "active"]
                                          ELSE staff[f]]
    BY <1>1 DEF InviteUser
  <2> DEFINE joined == IF named # {} \/ Firms = {} THEN named ELSE {Min(Firms)}
             realms == IF joined # {} THEN joined ELSE {Everywhere}
  <2>2. realms \subseteq Realms
    BY LeastOf DEF Realms
  <2> HIDE DEF joined, realms
  <2>3. /\ roles' = roles \cup ({u} \X codes \X realms)
        /\ staff' = [f \in Firms |-> IF f \in joined THEN [staff[f] EXCEPT ![u] = "active"]
                                     ELSE staff[f]]
    BY <2>1 DEF joined, realms
  <2>4. /\ account' = [account EXCEPT ![u] = "active"] /\ codes \subseteq RoleCodes
        /\ secret' = [secret EXCEPT ![u] = "set"] /\ UNCHANGED clerk
        /\ changes > 0 /\ changes' = changes - 1
    BY <1>1 DEF InviteUser, Asks, RoleCodes
  <2>5. AccountHolders' = AccountHolders \cup {u}
    BY <2>4 DEF AccountHolders
  <2>6. roles' \subseteq AccountHolders' \X RoleCodes \X Realms
    <3>1. roles \subseteq AccountHolders \X RoleCodes \X Realms
      BY DEF AccountHolders
    <3> QED
      BY <2>2, <2>3, <2>4, <2>5, <3>1
  <2>7. staff' \in [Firms -> [Persons -> {"none", "active"}]]
    BY <2>3
  <2> QED
    BY <2>4, <2>6, <2>7 DEF AccountHolders
<1>2. ASSUME NEW a \in Persons, NEW u \in Persons, Enable(a, u) PROVE AccountsTyped'
  BY <1>2 DEF Enable, Asks
<1>3. ASSUME NEW h \in Clerks, NEW a \in Persons, NEW u \in Persons,
             CheckDisable(h, a, u) \/ CheckPassword(h, a, u)
      PROVE  AccountsTyped'
  <2>1. \E k \in {"disable", "password"} :
          clerk' = [clerk EXCEPT ![h] = [kind |-> k, of |-> u, clean |-> TRUE]]
    BY <1>3 DEF CheckDisable, CheckPassword, TakesUp
  <2>2. clerk' \in [Clerks -> Cases]
    BY <2>1 DEF Cases
  <2>3. /\ account[u] # "none" /\ UNCHANGED <<account, roles, staff, secret>>
        /\ changes > 0 /\ changes' = changes - 1
    BY <1>3 DEF CheckDisable, CheckPassword, Asks
  <2> QED
    BY <2>1, <2>2, <2>3
<1>4. ASSUME NEW h \in Clerks, NEW a \in Persons, NEW u \in Persons, CheckRoles(h, a, u)
      PROVE  AccountsTyped'
  BY <1>4 DEF CheckRoles, Asks, TakesUp, Cases, Off
<1>5. ASSUME NEW h \in Clerks, NEW a \in Persons, NEW u \in Persons, CheckCompanyRole(h, a, u)
      PROVE  AccountsTyped'
  BY <1>5 DEF CheckCompanyRole, Asks, TakesUp, Cases, Off
<1>6. ASSUME NEW h \in Clerks, NEW a \in Persons, NEW u \in Persons, CheckSystemRole(h, a, u)
      PROVE  AccountsTyped'
  <2>1. PICK to \in RoleCodes, row \in Persons \X (RoleCodes \cup {"none"}) \X Realms :
          clerk' = [clerk EXCEPT ![h] = [kind |-> "rewrite", of |-> u, to |-> to,
                                         row |-> row, clean |-> TRUE]]
    <3>1. PICK to \in UNION RoleSets, row \in roles \cup {<<u, "none", f>> : f \in Firms} :
            TakesUp(h, [kind |-> "rewrite", of |-> u, to |-> to, row |-> row, clean |-> TRUE])
      <4>1. PICK to \in UNION RoleSets :
              \/ \E row \in roles :
                   TakesUp(h, [kind |-> "rewrite", of |-> u, to |-> to, row |-> row, clean |-> TRUE])
              \/ \E f \in Firms :
                   TakesUp(h, [kind |-> "rewrite", of |-> u, to |-> to,
                               row |-> <<u, "none", f>>, clean |-> TRUE])
        BY <1>6, Zenon DEF CheckSystemRole
      <4> QED
        BY <4>1, Zenon
    <3>2. to \in RoleCodes
      BY DEF RoleCodes
    <3>3. row \in Persons \X (RoleCodes \cup {"none"}) \X Realms
      BY DEF Realms
    <3> QED
      BY <3>1, <3>2, <3>3 DEF TakesUp
  <2>2. clerk' \in [Clerks -> Cases]
    BY <2>1 DEF Cases
  <2>3. /\ account[u] # "none" /\ UNCHANGED <<account, roles, staff, secret>>
        /\ changes > 0 /\ changes' = changes - 1
    BY <1>6 DEF CheckSystemRole, ByProfile, ByGrant, MembersHaveAccounts, Asks
  <2> QED
    BY <2>1, <2>2, <2>3
<1>7. ASSUME NEW h \in Clerks, Disable(h) \/ SetPassword(h) PROVE AccountsTyped'
  BY <1>7 DEF Disable, SetPassword, Cases, Off
<1>8. ASSUME NEW h \in Clerks, ReplaceRoles(h) PROVE AccountsTyped'
  <2> DEFINE r == clerk[h]
  <2>1. r \in [kind : {"roles"}, of : Persons, codes : RoleSets, in : Realms, clean : BOOLEAN]
    BY <1>8 DEF ReplaceRoles, Cases, Off
  <2>2. r # Off /\ r.of \in AccountHolders /\ r.codes \subseteq RoleCodes /\ r.in \in Realms
    <3>1. r.codes \in RoleSets /\ r.of \in Persons /\ r.in \in Realms
      BY <2>1
    <3>2. r.codes \subseteq RoleCodes
      BY <3>1 DEF RoleCodes
    <3>3. r # Off
      BY <2>1 DEF Off
    <3>4. account[r.of] # "none"
      BY <1>8, <3>3
    <3> QED
      BY <3>1, <3>2, <3>3, <3>4 DEF AccountHolders
  <2>3. /\ roles' = (roles \ ({r.of} \X RoleCodes \X {r.in})) \cup ({r.of} \X r.codes \X {r.in})
        /\ Passes(h, Off, r.of) /\ UNCHANGED <<account, staff, secret, changes>>
    BY <1>8 DEF ReplaceRoles
  <2>4. roles' \subseteq AccountHolders' \X RoleCodes \X Realms
    BY <2>2, <2>3 DEF AccountHolders
  <2>5. clerk' \in [Clerks -> Cases] /\ \A k \in Clerks : clerk'[k] # Off => account[clerk'[k].of] # "none"
    BY <2>3, PassesTyped
  <2> QED
    BY <2>3, <2>4, <2>5 DEF AccountHolders
<1>9. ASSUME NEW h \in Clerks, DeleteCompanyRoles(h) PROVE AccountsTyped'
  <2> DEFINE r == [clerk[h] EXCEPT !.kind = "appoint"]
  <2>1. /\ roles' \subseteq roles /\ Passes(h, r, clerk[h].of)
        /\ UNCHANGED <<account, staff, secret, changes>>
    BY <1>9 DEF DeleteCompanyRoles
  <2>2. clerk[h] \in [kind : {"dismiss", "appoint"}, of : Persons, to : CompanyCodes, clean : BOOLEAN]
    BY <1>9 DEF DeleteCompanyRoles, Cases, Off
  <2>3. r \in Cases /\ r.of = clerk[h].of
    BY <2>2 DEF Cases
  <2>4. clerk[h] # Off
    BY <2>2 DEF Off
  <2> HIDE DEF r
  <2>5. clerk' \in [Clerks -> Cases] /\ \A k \in Clerks : clerk'[k] # Off => account[clerk'[k].of] # "none"
    BY <2>1, <2>3, <2>4, PassesTyped
  <2> QED
    BY <2>1, <2>5
<1>10. ASSUME NEW h \in Clerks, CreateCompanyRole(h) PROVE AccountsTyped'
  <2>1. /\ roles' = roles \cup {<<clerk[h].of, clerk[h].to, Everywhere>>}
        /\ Passes(h, Off, clerk[h].of) /\ UNCHANGED <<account, staff, secret, changes>>
    BY <1>10 DEF CreateCompanyRole
  <2>2. clerk[h] \in [kind : {"dismiss", "appoint"}, of : Persons, to : CompanyCodes, clean : BOOLEAN]
    BY <1>10 DEF CreateCompanyRole, Cases, Off
  <2>3. /\ clerk[h].of \in Persons /\ account[clerk[h].of] # "none"
        /\ clerk[h].to \in RoleCodes /\ Everywhere \in Realms
    BY <2>2 DEF Off, CompanyCodes, RoleCodes, Realms
  <2>4. clerk' \in [Clerks -> Cases] /\ \A k \in Clerks : clerk'[k] # Off => account[clerk'[k].of] # "none"
    BY <2>1, PassesTyped
  <2> QED
    BY <2>1, <2>3, <2>4
<1>11. ASSUME NEW h \in Clerks, SaveSystemRole(h) PROVE AccountsTyped'
  <2> DEFINE r == clerk[h]
  <2>1. r \in [kind : {"rewrite"}, of : Persons, to : RoleCodes, clean : BOOLEAN,
              row : Persons \X (RoleCodes \cup {"none"}) \X Realms]
    BY <1>11 DEF SaveSystemRole, Cases, Off
  <2>2. r # Off /\ r.of \in AccountHolders /\ <<r.of, r.to, r.row[3]>> \in AccountHolders \X RoleCodes \X Realms
    BY <2>1 DEF Off, AccountHolders
  <2>3. Passes(h, Off, r.of) /\ UNCHANGED <<account, staff, secret, changes>>
    BY <1>11 DEF SaveSystemRole
  <2>4. roles' \subseteq roles \cup {<<r.of, r.to, r.row[3]>>}
    BY <1>11 DEF SaveSystemRole
  <2>5. clerk' \in [Clerks -> Cases] /\ \A k \in Clerks : clerk'[k] # Off => account[clerk'[k].of] # "none"
    BY <2>3, PassesTyped
  <2>6. roles' \subseteq AccountHolders' \X RoleCodes \X Realms
    BY <2>2, <2>3, <2>4 DEF AccountHolders
  <2> QED
    BY <2>3, <2>5, <2>6 DEF AccountHolders
<1>12. ASSUME NEW a \in Persons, ChangeOwnPassword(a) PROVE AccountsTyped'
  BY <1>12 DEF ChangeOwnPassword
<1>13. ASSUME NEW a \in Persons, ListUsers(a) PROVE AccountsTyped'
  <2>1. PICK shown : staff' = [staff EXCEPT ![Min(FirmsOf(a))] =
                                [u \in Persons |-> IF u \in shown THEN "active" ELSE @[u]]]
    BY <1>13 DEF ListUsers
  <2>2. staff' \in [Firms -> [Persons -> {"none", "active"}]]
    <3>1. staff[Min(FirmsOf(a))] \in [Persons -> {"none", "active"}]
      BY <1>13, FirstOfMine DEF ListUsers
    <3>2. [u \in Persons |-> IF u \in shown THEN "active" ELSE staff[Min(FirmsOf(a))][u]]
            \in [Persons -> {"none", "active"}]
      BY <3>1
    <3> QED
      BY <2>1, <3>2
  <2> QED
    BY <1>13, <2>2 DEF ListUsers
<1>14. CASE CabinetCrash \/ UNCHANGED uvars
  BY <1>14 DEF CabinetCrash, uvars
<1> QED
  BY <1>1, <1>2, <1>3, <1>4, <1>5, <1>6, <1>7, <1>8, <1>9, <1>10, <1>11, <1>12, <1>13, <1>14
  DEF AccountsNext

(* Every table holds what the handlers write, of users there are: a request still  *)
(* under way is about a user who exists, since accounts are never deleted.         *)
THEOREM AccountsTypeCorrect == AccountsSpec => []AccountsTyped
<1>1. AccountsInit => AccountsTyped /\ MembersHaveAccounts
  BY TypesBegin, MembersBegin
<1>2. AccountsTyped /\ MembersHaveAccounts /\ [AccountsNext]_uvars => AccountsTyped' /\ MembersHaveAccounts'
  BY TypesStep, MembersStep
<1> QED
  BY <1>1, <1>2, PTL DEF AccountsSpec

--------------------------------------------------------------------------------
(* What a request does to a super admin *)

(* The request takes nothing from a super admin. *)
Careful(c) ==
  /\ c.kind \notin {"disable", "password"}
  /\ c.kind = "roles" => "super_admin" \in c.codes
  /\ c.kind = "rewrite" => c.to = "super_admin"

(* So are those about a root, whatever became of what they found out, and those about *)
(* any super admin while it still holds.                                              *)
Due(c) == c.of \in Roots \/ (c.clean /\ Super(c.of))
Cautious == \A h \in Clerks : clerk[h] # Off /\ Due(clerk[h]) => Careful(clerk[h])

Guarded == AccountsTyped /\ MembersHaveAccounts /\ Cautious /\ RootsStay

(* What u keeps of the three in a step. *)
Spared(u) ==
  /\ Super(u) => Super(u)'
  /\ Super(u) /\ account[u] = "active" => account'[u] = "active"
  /\ Super(u) /\ secret[u] = "own" => secret'[u] = "own"

(* A request ends that went by what was out of date. *)
Misled == \E h \in Clerks : clerk[h] # Off /\ clerk'[h] = Off /\ ~ clerk[h].clean

(* Who holds the same codes before and after is as much a super admin. *)
LEMMA SuperKept ==
  ASSUME NEW u, \A s \in Realms : <<u, "super_admin", s>> \in roles => <<u, "super_admin", s>> \in roles'
  PROVE  Super(u) => Super(u)'
BY DEF Super, Holds

LEMMA SuperLikewise ==
  ASSUME NEW u, \A s \in Realms : <<u, "super_admin", s>> \in roles <=> <<u, "super_admin", s>> \in roles'
  PROVE  Super(u) <=> Super(u)'
BY DEF Super, Holds

(* A request that starts is careful if it is due to be. *)
LEMMA StartsCautious ==
  ASSUME Guarded, NEW h \in Clerks, NEW c \in Cases, TakesUp(h, c), UNCHANGED roles,
         Super(c.of) => Careful(c)
  PROVE  Cautious'
<1>1. \A u \in Persons : Super(u)' <=> Super(u)
  BY DEF Super, Holds
<1>2. \A u \in Roots : Super(u)
  BY DEF Guarded, RootsStay, Kept
<1>3. clerk' = [clerk EXCEPT ![h] = c]
  BY DEF TakesUp
<1>4. clerk \in [Clerks -> Cases]
  BY DEF Guarded, AccountsTyped
<1>5. \A k \in Clerks : clerk[k] # Off => clerk[k].of \in Persons
  BY <1>4 DEF Cases, Off
<1>6. c # Off => c.of \in Persons
  BY DEF Cases, Off
<1>7. ASSUME NEW k \in Clerks, clerk'[k] # Off, Due(clerk[k])' PROVE Careful(clerk'[k])
  <2>1. CASE k = h
    <3>1. clerk'[k] = c
      BY <1>3, <1>4, <2>1
    <3>2. c # Off /\ (c.of \in Roots \/ Super(c.of)')
      BY <1>7, <3>1 DEF Due
    <3>3. Super(c.of)
      BY <1>1, <1>2, <1>6, <3>2
    <3> QED
      BY <3>1, <3>3
  <2>2. CASE k # h
    <3>1. clerk'[k] = clerk[k]
      BY <1>3, <1>4, <2>2
    <3>2. Due(clerk[k])
      BY <1>1, <1>5, <1>7, <3>1 DEF Due
    <3> QED
      BY <1>7, <3>1, <3>2 DEF Guarded, Cautious
  <2> QED
    BY <2>1, <2>2
<1> QED
  BY <1>7 DEF Cautious, Careful, Due

(* One that passes on a case which is careful if its old one was leaves everybody's so. *)
LEMMA PassesCautious ==
  ASSUME Guarded, NEW h \in Clerks, NEW r \in Cases, NEW u \in Persons, Passes(h, r, u),
         r # Off => Careful(r),
         \A v \in Persons \ {u} : Super(v)' <=> Super(v)
  PROVE  Cautious'
<1>1. clerk \in [Clerks -> Cases]
  BY DEF Guarded, AccountsTyped
<1>2. \A k \in Clerks : clerk[k] # Off => clerk[k].of \in Persons
  BY <1>1 DEF Cases, Off
<1>3. ASSUME NEW k \in Clerks, clerk'[k] # Off, Due(clerk[k])' PROVE Careful(clerk'[k])
  <2>1. CASE k = h
    BY <1>1, <1>3, <2>1, PassesTyped
  <2>2. CASE k # h
    <3>1. /\ clerk[k] # Off /\ clerk'[k].of = clerk[k].of /\ clerk'[k].kind = clerk[k].kind
          /\ clerk[k].kind = "roles" => clerk'[k].codes = clerk[k].codes
          /\ clerk[k].kind = "rewrite" => clerk'[k].to = clerk[k].to
          /\ clerk[k].of = u => ~ clerk'[k].clean
          /\ clerk[k].of # u => clerk'[k] = clerk[k]
      BY <1>1, <1>3, <2>2, PassesTyped
    <3>2. Due(clerk[k])
      BY <1>2, <1>3, <3>1 DEF Due
    <3>3. Careful(clerk[k])
      BY <3>1, <3>2 DEF Guarded, Cautious
    <3> QED
      BY <3>1, <3>3 DEF Careful
  <2> QED
    BY <2>1, <2>2
<1> QED
  BY <1>3 DEF Cautious, Careful, Due

(* One that ends leaves the others as they were. *)
LEMMA EndsCautious ==
  ASSUME Guarded, NEW h \in Clerks, clerk' = [clerk EXCEPT ![h] = Off], UNCHANGED roles
  PROVE  Cautious'
<1>1. clerk \in [Clerks -> Cases]
  BY DEF Guarded, AccountsTyped
<1>2. \A k \in Clerks : clerk[k] # Off => clerk[k].of \in Persons
  BY <1>1 DEF Cases, Off
<1>3. \A u \in Persons : Super(u)' <=> Super(u)
  BY DEF Super, Holds
<1>4. ASSUME NEW k \in Clerks, clerk'[k] # Off, Due(clerk[k])' PROVE Careful(clerk'[k])
  <2>1. k # h /\ clerk'[k] = clerk[k]
    BY <1>1, <1>4
  <2>2. Due(clerk[k])
    BY <1>2, <1>3, <1>4, <2>1 DEF Due
  <2> QED
    BY <1>4, <2>1, <2>2 DEF Guarded, Cautious
<1> QED
  BY <1>4 DEF Cautious, Careful, Due

(* The six ways a request writes about a user: what it keeps of a super admin's.   *)
LEMMA WritesSpare ==
  ASSUME Guarded, NEW h \in Clerks, NEW u \in Persons,
         \/ Disable(h) \/ SetPassword(h) \/ ReplaceRoles(h)
         \/ DeleteCompanyRoles(h) \/ CreateCompanyRole(h) \/ SaveSystemRole(h)
  PROVE  Spared(u) \/ (u \notin Roots /\ Misled)
<1> DEFINE c == clerk[h]
<1>1. clerk \in [Clerks -> Cases] /\ c \in Cases
  BY DEF Guarded, AccountsTyped
<1>2. c # Off
  BY DEF Disable, SetPassword, ReplaceRoles, DeleteCompanyRoles, CreateCompanyRole,
         SaveSystemRole, Off
<1>3. Due(c) => Careful(c)
  BY <1>2 DEF Guarded, Cautious
<1>4. Off \in Cases
  BY DEF Cases
<1>5. CASE Disable(h) \/ SetPassword(h)
  <2>1. /\ clerk'[h] = Off /\ UNCHANGED roles
        /\ \A v \in Persons : v # c.of => account'[v] = account[v] /\ secret'[v] = secret[v]
    BY <1>1, <1>5 DEF Disable, SetPassword, Guarded, AccountsTyped
  <2>2. Super(u) => Super(u)'
    BY <2>1 DEF Super, Holds
  <2>3. ~ Careful(c)
    BY <1>5 DEF Disable, SetPassword, Careful
  <2>4. c.of \notin Roots /\ (Super(c.of) => ~ c.clean)
    BY <1>3, <2>3, <1>1, <1>2 DEF Due, Cases, Off
  <2>5. CASE u = c.of /\ Super(u)
    BY <1>2, <2>1, <2>4, <2>5 DEF Misled
  <2>6. CASE u # c.of \/ ~ Super(u)
    BY <2>1, <2>2, <2>6 DEF Spared
  <2> QED
    BY <2>5, <2>6
<1>6. CASE ReplaceRoles(h)
  <2>1. /\ roles' = (roles \ ({c.of} \X RoleCodes \X {c.in})) \cup ({c.of} \X c.codes \X {c.in})
        /\ clerk'[h] = Off /\ UNCHANGED <<account, secret>>
    BY <1>1, <1>4, <1>6, PassesTyped DEF ReplaceRoles
  <2>2. c.in \in Realms
    BY <1>1, <1>6 DEF Cases, ReplaceRoles, Off
  <2>3. CASE u # c.of
    <3>1. Super(u) => Super(u)'
      BY <2>1, <2>3, SuperKept
    <3> QED
      BY <2>1, <3>1 DEF Spared
  <2>4. CASE u = c.of /\ "super_admin" \in c.codes
    <3>1. <<u, "super_admin", c.in>> \in roles'
      BY <2>1, <2>4
    <3>2. Super(u)'
      BY <2>2, <3>1 DEF Super, Holds
    <3> QED
      BY <2>1, <3>2 DEF Spared
  <2>5. CASE u = c.of /\ "super_admin" \notin c.codes
    <3>1. ~ Careful(c)
      BY <1>6, <2>5 DEF Careful, ReplaceRoles
    <3>2. u \notin Roots /\ (Super(u) => ~ c.clean)
      BY <1>1, <1>2, <1>3, <2>5, <3>1 DEF Due, Cases, Off
    <3>3. CASE Super(u)
      BY <1>2, <2>1, <3>2, <3>3 DEF Misled
    <3>4. CASE ~ Super(u)
      BY <2>1, <3>4 DEF Spared
    <3> QED
      BY <3>3, <3>4
  <2> QED
    BY <2>3, <2>4, <2>5
<1>7. CASE DeleteCompanyRoles(h) \/ CreateCompanyRole(h)
  <2>1. /\ roles \ ({c.of} \X CompanyCodes \X Realms) \subseteq roles'
        /\ UNCHANGED <<account, secret>>
    BY <1>7 DEF DeleteCompanyRoles, CreateCompanyRole
  <2>2. Super(u) => Super(u)'
    BY <2>1, SuperKept DEF CompanyCodes
  <2> QED
    BY <2>1, <2>2 DEF Spared
<1>8. CASE SaveSystemRole(h)
  <2> DEFINE new == <<c.of, c.to, c.row[3]>>
  <2>1. /\ UNCHANGED <<account, secret>> /\ clerk'[h] = Off /\ c.kind = "rewrite"
    BY <1>1, <1>4, <1>8, PassesTyped DEF SaveSystemRole
  <2>2. c.row[3] \in Realms /\ c.of \in Persons
    BY <1>1, <2>1 DEF Cases, Off
  <2>3. \/ roles \subseteq roles'
        \/ new \in roles' /\ \A row \in roles : row[1] # c.of => row \in roles'
    <3>1. \/ roles \subseteq roles'
          \/ \E code : roles' = (roles \ {<<c.of, code, c.row[3]>>}) \cup {new}
      BY <1>8 DEF SaveSystemRole
    <3>2. \A code : <<c.of, code, c.row[3]>>[1] = c.of
      OBVIOUS
    <3> QED
      BY <3>1, <3>2
  <2>4. CASE roles \subseteq roles'
    <3>1. Super(u) => Super(u)'
      BY <2>4, SuperKept
    <3> QED
      BY <2>1, <3>1 DEF Spared
  <2>5. CASE u # c.of /\ ~ roles \subseteq roles'
    <3>1. Super(u) => Super(u)'
      BY <2>3, <2>5, SuperKept
    <3> QED
      BY <2>1, <3>1 DEF Spared
  <2>6. CASE u = c.of /\ c.to = "super_admin" /\ ~ roles \subseteq roles'
    <3>1. Super(u)'
      BY <2>2, <2>3, <2>6 DEF Super, Holds
    <3> QED
      BY <2>1, <3>1 DEF Spared
  <2>7. CASE u = c.of /\ c.to # "super_admin"
    <3>1. u \notin Roots /\ (Super(u) => ~ c.clean)
      BY <1>1, <1>3, <2>1, <2>7 DEF Due, Careful, Cases, Off
    <3>2. CASE Super(u)
      BY <1>2, <2>1, <3>1, <3>2 DEF Misled
    <3>3. CASE ~ Super(u)
      BY <2>1, <3>3 DEF Spared
    <3> QED
      BY <3>2, <3>3
  <2> QED
    BY <2>4, <2>5, <2>6, <2>7
<1> QED
  BY <1>5, <1>6, <1>7, <1>8

(* No other step takes anything from anybody. *)
LEMMA StepSpares ==
  ASSUME Guarded, [AccountsNext]_uvars, NEW u \in Persons
  PROVE  Spared(u) \/ (u \notin Roots /\ Misled)
<1>1. ASSUME NEW a \in Persons, NEW v \in Persons, InviteUser(a, v) PROVE Spared(u)
  <2>1. /\ roles \subseteq roles' /\ account[v] = "none"
        /\ account' = [account EXCEPT ![v] = "active"] /\ secret' = [secret EXCEPT ![v] = "set"]
    BY <1>1 DEF InviteUser
  <2>2. Super(u) => account[u] # "none"
    BY DEF Guarded, AccountsTyped, Super, Holds
  <2>3. Super(u) => Super(u)'
    BY <2>1, SuperKept
  <2> QED
    BY <2>1, <2>2, <2>3 DEF Spared, Guarded, AccountsTyped
<1>2. ASSUME NEW a \in Persons, NEW v \in Persons, Enable(a, v) PROVE Spared(u)
  BY <1>2 DEF Enable, Spared, Super, Holds, Guarded, AccountsTyped
<1>3. ASSUME NEW v \in Persons, ChangeOwnPassword(v) PROVE Spared(u)
  BY <1>3 DEF ChangeOwnPassword, Spared, Super, Holds, Guarded, AccountsTyped
<1>4. ASSUME UNCHANGED <<account, roles, secret>> PROVE Spared(u)
  BY <1>4 DEF Spared, Super, Holds
<1>5. ASSUME NEW h \in Clerks,
             \/ Disable(h) \/ SetPassword(h) \/ ReplaceRoles(h)
             \/ DeleteCompanyRoles(h) \/ CreateCompanyRole(h) \/ SaveSystemRole(h)
      PROVE  Spared(u) \/ (u \notin Roots /\ Misled)
  BY <1>5, WritesSpare
<1>6. ASSUME NEW h \in Clerks, NEW a \in Persons, NEW v \in Persons,
             \/ CheckDisable(h, a, v) \/ CheckPassword(h, a, v)
             \/ CheckRoles(h, a, v) \/ CheckCompanyRole(h, a, v) \/ CheckSystemRole(h, a, v)
      PROVE  Spared(u)
  <2>1. CheckDisable(h, a, v) \/ CheckPassword(h, a, v) => UNCHANGED <<account, roles, secret>>
    BY DEF CheckDisable, CheckPassword
  <2>2. CheckRoles(h, a, v) => UNCHANGED <<account, roles, secret>>
    BY DEF CheckRoles
  <2>3. CheckCompanyRole(h, a, v) => UNCHANGED <<account, roles, secret>>
    BY DEF CheckCompanyRole
  <2>4. CheckSystemRole(h, a, v) => UNCHANGED <<account, roles, secret>>
    BY DEF CheckSystemRole
  <2> QED
    BY <1>4, <1>6, <2>1, <2>2, <2>3, <2>4
<1>7. ASSUME NEW a \in Persons, ListUsers(a) PROVE Spared(u)
  <2>1. UNCHANGED <<account, roles, secret>>
    BY <1>7 DEF ListUsers
  <2> QED
    BY <1>4, <2>1
<1>8. CASE CabinetCrash \/ UNCHANGED uvars
  BY <1>4, <1>8 DEF CabinetCrash, uvars
<1>9. CASE AccountsNext
  BY <1>1, <1>2, <1>3, <1>5, <1>6, <1>7, <1>8, <1>9 DEF AccountsNext
<1> QED
  BY <1>8, <1>9

--------------------------------------------------------------------------------
(* Every step leaves the requests under way as careful as they are due to be *)

LEMMA CautiousStep == Guarded /\ [AccountsNext]_uvars => Cautious'
<1> SUFFICES ASSUME Guarded, [AccountsNext]_uvars PROVE Cautious'
  OBVIOUS
<1>a. /\ Off \in Cases /\ clerk \in [Clerks -> Cases]
      /\ \A k \in Clerks : clerk[k] # Off => clerk[k].of \in Persons /\ account[clerk[k].of] # "none"
  BY DEF Guarded, AccountsTyped, Cases, Off
<1>1. ASSUME NEW a \in Persons, NEW u \in Persons, InviteUser(a, u) PROVE Cautious'
  <2>1. account[u] = "none" /\ UNCHANGED clerk
    BY <1>1 DEF InviteUser
  <2>2. \A k \in Clerks : clerk[k] # Off => clerk[k].of # u
    BY <1>a, <2>1
  <2>3. \A v \in Persons \ {u} : Super(v)' <=> Super(v)
    <3> SUFFICES ASSUME NEW v \in Persons \ {u} PROVE Super(v)' <=> Super(v)
      OBVIOUS
    <3>1. \A code, s : <<v, code, s>> \in roles' <=> <<v, code, s>> \in roles
      BY <1>1 DEF InviteUser
    <3> QED
      BY <3>1, SuperLikewise
  <2>4. \A k \in Clerks : clerk[k] # Off /\ Due(clerk[k])' => Due(clerk[k])
    BY <1>a, <2>1, <2>2, <2>3 DEF Due
  <2> QED
    BY <2>1, <2>4 DEF Guarded, Cautious, Careful
<1>2. ASSUME NEW h \in Clerks, NEW a \in Persons, NEW u \in Persons,
             CheckDisable(h, a, u) \/ CheckPassword(h, a, u)
      PROVE  Cautious'
  <2>1. PICK kind \in {"disable", "password"} :
          TakesUp(h, [kind |-> kind, of |-> u, clean |-> TRUE])
    BY <1>2 DEF CheckDisable, CheckPassword
  <2>2. ~ Super(u) /\ UNCHANGED roles
    BY <1>2 DEF CheckDisable, CheckPassword
  <2>3. [kind |-> kind, of |-> u, clean |-> TRUE] \in Cases
    BY DEF Cases
  <2> QED
    BY <2>1, <2>2, <2>3, StartsCautious
<1>3. ASSUME NEW h \in Clerks, NEW a \in Persons, NEW u \in Persons, CheckRoles(h, a, u)
      PROVE  Cautious'
  <2>1. PICK codes \in RoleSets, s \in Realms :
          /\ Super(u) => "super_admin" \in codes
          /\ TakesUp(h, [kind |-> "roles", of |-> u, codes |-> codes, in |-> s, clean |-> TRUE])
    BY <1>3 DEF CheckRoles
  <2> DEFINE c == [kind |-> "roles", of |-> u, codes |-> codes, in |-> s, clean |-> TRUE]
  <2>2. c \in Cases /\ UNCHANGED roles
    BY <1>3 DEF Cases, CheckRoles
  <2>3. Super(c.of) => Careful(c)
    BY <2>1 DEF Careful
  <2> QED
    BY <2>1, <2>2, <2>3, StartsCautious
<1>4. ASSUME NEW h \in Clerks, NEW a \in Persons, NEW u \in Persons, CheckCompanyRole(h, a, u)
      PROVE  Cautious'
  <2>1. PICK to \in CompanyCodes :
          TakesUp(h, [kind |-> "dismiss", of |-> u, to |-> to, clean |-> TRUE])
    BY <1>4 DEF CheckCompanyRole
  <2> DEFINE c == [kind |-> "dismiss", of |-> u, to |-> to, clean |-> TRUE]
  <2>2. c \in Cases /\ Careful(c) /\ UNCHANGED roles
    BY <1>4 DEF Cases, Careful, CheckCompanyRole
  <2> QED
    BY <2>1, <2>2, StartsCautious
<1>5. ASSUME NEW h \in Clerks, NEW a \in Persons, NEW u \in Persons, CheckSystemRole(h, a, u)
      PROVE  Cautious'
  <2>1. PICK to \in UNION RoleSets, row \in roles \cup {<<u, "none", f>> : f \in Firms} :
          /\ Super(u) => to = "super_admin"
          /\ TakesUp(h, [kind |-> "rewrite", of |-> u, to |-> to, row |-> row, clean |-> TRUE])
    BY <1>5 DEF CheckSystemRole
  <2> DEFINE c == [kind |-> "rewrite", of |-> u, to |-> to, row |-> row, clean |-> TRUE]
  <2>2. to \in RoleCodes /\ row \in Persons \X (RoleCodes \cup {"none"}) \X Realms
    BY DEF RoleCodes, Realms, Guarded, AccountsTyped
  <2>3. c \in Cases /\ UNCHANGED roles
    BY <1>5, <2>2 DEF Cases, CheckSystemRole
  <2>4. Super(c.of) => Careful(c)
    BY <2>1 DEF Careful
  <2> QED
    BY <2>1, <2>3, <2>4, StartsCautious
<1>6. ASSUME NEW h \in Clerks, Disable(h) \/ SetPassword(h) PROVE Cautious'
  BY <1>6, EndsCautious DEF Disable, SetPassword
<1>7. ASSUME NEW h \in Clerks, ReplaceRoles(h) PROVE Cautious'
  <2> DEFINE u == clerk[h].of
  <2>1. Passes(h, Off, u) /\ u \in Persons
    BY <1>7, <1>a DEF ReplaceRoles, Off
  <2>2. \A v \in Persons \ {u} : Super(v)' <=> Super(v)
    <3> SUFFICES ASSUME NEW v \in Persons \ {u} PROVE Super(v)' <=> Super(v)
      OBVIOUS
    <3>1. \A code, s : <<v, code, s>> \in roles' <=> <<v, code, s>> \in roles
      BY <1>7 DEF ReplaceRoles
    <3> QED
      BY <3>1, SuperLikewise
  <2> QED
    BY <1>a, <2>1, <2>2, PassesCautious
<1>8. ASSUME NEW h \in Clerks, DeleteCompanyRoles(h) PROVE Cautious'
  <2> DEFINE u == clerk[h].of
             r == [clerk[h] EXCEPT !.kind = "appoint"]
  <2>1. Passes(h, r, u) /\ u \in Persons
    BY <1>8, <1>a DEF DeleteCompanyRoles, Off
  <2>2. r \in Cases /\ Careful(r)
    BY <1>8, <1>a DEF DeleteCompanyRoles, Cases, Off, Careful
  <2>3. \A v \in Persons \ {u} : Super(v)' <=> Super(v)
    <3> SUFFICES ASSUME NEW v \in Persons \ {u} PROVE Super(v)' <=> Super(v)
      OBVIOUS
    <3>1. \A code, s : <<v, code, s>> \in roles' <=> <<v, code, s>> \in roles
      BY <1>8 DEF DeleteCompanyRoles
    <3> QED
      BY <3>1, SuperLikewise
  <2> QED
    BY <2>1, <2>2, <2>3, PassesCautious
<1>9. ASSUME NEW h \in Clerks, CreateCompanyRole(h) \/ SaveSystemRole(h) PROVE Cautious'
  <2> DEFINE u == clerk[h].of
  <2>1. Passes(h, Off, u) /\ u \in Persons
    BY <1>9, <1>a DEF CreateCompanyRole, SaveSystemRole, Off
  <2>2. \A v \in Persons \ {u} : Super(v)' <=> Super(v)
    <3> SUFFICES ASSUME NEW v \in Persons \ {u} PROVE Super(v)' <=> Super(v)
      OBVIOUS
    <3>1. \A code, s : <<v, code, s>> \in roles' <=> <<v, code, s>> \in roles
      <4>1. CASE CreateCompanyRole(h)
        BY <4>1 DEF CreateCompanyRole
      <4>2. CASE SaveSystemRole(h)
        <5>1. \/ UNCHANGED roles
              \/ \E to, s : roles' = roles \cup {<<u, to, s>>}
              \/ \E to, code, s : roles' = (roles \ {<<u, code, s>>}) \cup {<<u, to, s>>}
          BY <4>2 DEF SaveSystemRole
        <5> QED
          BY <5>1
      <4> QED
        BY <1>9, <4>1, <4>2
    <3> QED
      BY <3>1, SuperLikewise
  <2> QED
    BY <1>a, <2>1, <2>2, PassesCautious
<1>10. CASE UNCHANGED <<roles, clerk>>
  BY <1>10 DEF Guarded, Cautious, Due, Careful, Super, Holds
<1>11. CASE CabinetCrash
  BY <1>11 DEF CabinetCrash, Cautious
<1> QED
  BY <1>1, <1>2, <1>3, <1>4, <1>5, <1>6, <1>7, <1>8, <1>9, <1>10, <1>11
  DEF AccountsNext, Enable, ChangeOwnPassword, ListUsers, uvars

--------------------------------------------------------------------------------
(* The theorems *)

LEMMA GuardedBegins == AccountsInit => Guarded
<1> SUFFICES ASSUME AccountsInit PROVE Guarded
  OBVIOUS
<1>1. Cautious
  BY DEF AccountsInit, Cautious
<1>2. RootsStay
  <2>1. \A u \in Roots : <<u, "super_admin", Everywhere>> \in roles
    BY DEF AccountsInit
  <2>2. Everywhere \in Realms
    BY DEF Realms
  <2>3. \A u \in Roots : Super(u)
    BY <2>1, <2>2 DEF Super, Holds
  <2> QED
    BY <2>3 DEF AccountsInit, RootsStay, Kept
<1> QED
  BY <1>1, <1>2, TypesBegin, MembersBegin DEF Guarded

LEMMA GuardedStep == Guarded /\ [AccountsNext]_uvars => Guarded'
<1> SUFFICES ASSUME Guarded, [AccountsNext]_uvars PROVE Guarded'
  OBVIOUS
<1>1. \A u \in Roots : Spared(u)
  BY StepSpares
<1>2. RootsStay'
  BY <1>1 DEF Guarded, RootsStay, Kept, Spared
<1> QED
  BY <1>2, TypesStep, MembersStep, CautiousStep DEF Guarded

LEMMA AlwaysGuarded == AccountsSpec => []Guarded
BY GuardedBegins, GuardedStep, PTL DEF AccountsSpec

(* However the cabinet's requests overlap, whoever was super admin from the start      *)
(* keeps the role, the account and the password: the requests about him were refused   *)
(* when they looked, and he cannot have stopped being super admin since.               *)
THEOREM RootsAlwaysStay == AccountsSpec => []RootsStay
<1>1. Guarded => RootsStay
  BY DEF Guarded
<1> QED
  BY <1>1, AlwaysGuarded, PTL

(* Nobody else loses any of the three either, but to a request that went by roles he   *)
(* no longer had: one that is still up to date was refused what would take them.       *)
THEOREM PromotedAlwaysStay == AccountsSpec => PromotedStay
<1>1. Guarded /\ [AccountsNext]_uvars =>
        [\A u \in Persons :
           /\ Super(u) => Super(u)'
           /\ Super(u) /\ account[u] = "active" => account'[u] = "active"
           /\ Super(u) /\ secret[u] = "own" => secret'[u] = "own"
         \/ \E h \in Clerks : clerk[h] # Off /\ clerk'[h] = Off /\ ~ clerk[h].clean]_uvars
  BY StepSpares DEF Spared, Misled
<1> QED
  BY <1>1, AlwaysGuarded, PTL DEF AccountsSpec, PromotedStay

HIDE AccountsAssumption

--------------------------------------------------------------------------------
(* Sums over a set of rows *)

(* MapThenSumSet adds the sizes up by a function on the subsets, one element at a time. *)
Some(s) == CHOOSE x \in s : TRUE
Adds(rows, S, g) == g = [s \in SUBSET S |-> IF s = {} THEN 0 ELSE rows[Some(s)].size + g[s \ {Some(s)}]]
Adder(rows, S) == CHOOSE g : Adds(rows, S, g)
SizeOf(rows, S) == Adder(rows, S)[S]

LEMMA SomeIn == ASSUME NEW s, s # {} PROVE Some(s) \in s
BY DEF Some

(* There is such a function on the subsets of at most n elements, for every n. *)
LEMMA AdderThere ==
  ASSUME NEW rows, NEW S, IsFiniteSet(S)
  PROVE  Adds(rows, S, Adder(rows, S))
<1> DEFINE Upto(n) == {s \in SUBSET S : Cardinality(s) <= n}
           Part(n, g) == g = [s \in Upto(n) |->
                                IF s = {} THEN 0 ELSE rows[Some(s)].size + g[s \ {Some(s)}]]
           Missing == {n \in Nat : ~ \E g : Part(n, g)}
<1>1. \A s \in SUBSET S : IsFiniteSet(s) /\ Cardinality(s) \in Nat
  BY FS_Subset, FS_CardinalityType
<1>2. \E g : Part(0, g)
  <2>1. \A s \in Upto(0) : s = {}
    BY <1>1, FS_EmptySet
  <2>2. Part(0, [s \in Upto(0) |-> 0])
    BY <2>1
  <2> QED
    BY <2>2
<1>3. ASSUME NEW n \in Nat, NEW g, Part(n, g) PROVE \E h : Part(n + 1, h)
  <2>1. PICK h : h = [s \in Upto(n + 1) |->
                        IF s = {} THEN 0 ELSE rows[Some(s)].size + g[s \ {Some(s)}]]
    OBVIOUS
  <2>2. \A s \in Upto(n) : s \in Upto(n + 1)
    BY <1>1
  <2>3. \A s \in Upto(n) : h[s] = g[s]
    <3> SUFFICES ASSUME NEW s \in Upto(n) PROVE h[s] = g[s]
      OBVIOUS
    <3>1. g[s] = IF s = {} THEN 0 ELSE rows[Some(s)].size + g[s \ {Some(s)}]
      BY <1>3
    <3>2. h[s] = IF s = {} THEN 0 ELSE rows[Some(s)].size + g[s \ {Some(s)}]
      BY <2>1, <2>2
    <3> QED
      BY <3>1, <3>2
  <2>4. \A s \in Upto(n + 1) : s # {} => s \ {Some(s)} \in Upto(n)
    <3> SUFFICES ASSUME NEW s \in Upto(n + 1), s # {} PROVE s \ {Some(s)} \in Upto(n)
      OBVIOUS
    <3>1. IsFiniteSet(s) /\ Cardinality(s) \in Nat /\ Some(s) \in s /\ Cardinality(s) <= n + 1
      BY <1>1, SomeIn
    <3>2. Cardinality(s \ {Some(s)}) = Cardinality(s) - 1
      BY <3>1, FS_RemoveElement
    <3> QED
      BY <3>1, <3>2
  <2>5. h = [s \in Upto(n + 1) |-> IF s = {} THEN 0 ELSE rows[Some(s)].size + h[s \ {Some(s)}]]
    <3> HIDE DEF Upto
    <3>1. \A s \in Upto(n + 1) : s # {} => h[s \ {Some(s)}] = g[s \ {Some(s)}]
      BY <2>3, <2>4
    <3> QED
      BY <2>1, <3>1
  <2> QED
    BY <2>5
<1>4. Missing = {}
  <2> SUFFICES ASSUME Missing # {} PROVE FALSE
    OBVIOUS
  <2> HIDE DEF Part
  <2>1. PICK m \in Missing : \A k \in Missing : m <= k
    <3>1. Missing \in SUBSET Nat
      OBVIOUS
    <3> HIDE DEF Missing
    <3> QED
      BY <3>1, LeastThere
  <2>2. m \in Nat /\ m # 0 /\ m - 1 \in Nat /\ (m - 1) + 1 = m
    BY <1>2
  <2>3. \E g : Part(m - 1, g)
    <3>1. ~ (m <= m - 1)
      BY <2>2
    <3> QED
      BY <2>1, <2>2, <3>1
  <2>4. \E g : Part((m - 1) + 1, g)
    BY <1>3, <2>2, <2>3
  <2> QED
    BY <2>1, <2>2, <2>4
<1>5. \E g : Adds(rows, S, g)
  <2>1. Cardinality(S) \in Nat
    BY FS_CardinalityType
  <2>2. PICK g : Part(Cardinality(S), g)
    BY <1>4, <2>1
  <2>3. Upto(Cardinality(S)) = SUBSET S
    BY FS_Subset
  <2>4. g = [s \in SUBSET S |-> IF s = {} THEN 0 ELSE rows[Some(s)].size + g[s \ {Some(s)}]]
    BY <2>2, <2>3
  <2> QED
    BY <2>4 DEF Adds
<1> QED
  BY <1>5 DEF Adder

LEMMA AdderStep ==
  ASSUME NEW rows, NEW S, IsFiniteSet(S), NEW s \in SUBSET S
  PROVE  /\ s = {} => Adder(rows, S)[s] = 0
         /\ s # {} => Adder(rows, S)[s] = rows[Some(s)].size + Adder(rows, S)[s \ {Some(s)}]
<1>1. PICK g : g = Adder(rows, S)
  OBVIOUS
<1>2. g = [t \in SUBSET S |-> IF t = {} THEN 0 ELSE rows[Some(t)].size + g[t \ {Some(t)}]]
  <2>1. Adds(rows, S, g)
    BY <1>1, AdderThere
  <2> QED
    BY <2>1 DEF Adds
<1>3. g[s] = IF s = {} THEN 0 ELSE rows[Some(s)].size + g[s \ {Some(s)}]
  BY <1>2
<1> QED
  BY <1>1, <1>3

Sized(rows, S) == \A d \in S : rows[d].size \in Nat
SameSizes(rows, others, S) == \A d \in S : others[d].size = rows[d].size

(* What holds of a set if it holds of all that are smaller, holds of every subset: here *)
(* for the set of those of which it does not.                                           *)
LEMMA Smallest ==
  ASSUME NEW S, IsFiniteSet(S), NEW B \in SUBSET SUBSET S, B # {}
  PROVE  \E s \in B : \A t \in B : Cardinality(s) <= Cardinality(t)
<1>1. \A s \in B : Cardinality(s) \in Nat
  BY FS_Subset, FS_CardinalityType
<1>2. {Cardinality(s) : s \in B} \in SUBSET Nat /\ {Cardinality(s) : s \in B} # {}
  BY <1>1
<1>3. PICK m \in {Cardinality(s) : s \in B} : \A k \in {Cardinality(s) : s \in B} : m <= k
  BY <1>2, LeastThere
<1> QED
  BY <1>3

LEMMA Smaller ==
  ASSUME NEW S, IsFiniteSet(S), NEW s \in SUBSET S, NEW x \in s
  PROVE  /\ s \ {x} \in SUBSET S /\ ~ (Cardinality(s) <= Cardinality(s \ {x}))
<1>1. IsFiniteSet(s) /\ Cardinality(s) \in Nat
  BY FS_Subset, FS_CardinalityType
<1>2. Cardinality(s \ {x}) = Cardinality(s) - 1
  BY <1>1, FS_RemoveElement
<1> QED
  BY <1>1, <1>2

LEMMA AdderInNat ==
  ASSUME NEW rows, NEW S, IsFiniteSet(S), Sized(rows, S), NEW s \in SUBSET S
  PROVE  Adder(rows, S)[s] \in Nat
<1> DEFINE g == Adder(rows, S)
           B == {t \in SUBSET S : g[t] \notin Nat}
<1>1. SUFFICES ASSUME B # {} PROVE FALSE
  OBVIOUS
<1>2. PICK t \in B : \A u \in B : Cardinality(t) <= Cardinality(u)
  BY <1>1, Smallest
<1>3. t \in SUBSET S /\ g[t] \notin Nat
  BY <1>2
<1>4. t # {} => Some(t) \in t /\ rows[Some(t)].size \in Nat
  BY <1>3, SomeIn DEF Sized
<1>5. t # {} => g[t \ {Some(t)}] \in Nat
  BY <1>2, <1>3, <1>4, Smaller
<1>6. /\ t = {} => g[t] = 0
      /\ t # {} => g[t] = rows[Some(t)].size + g[t \ {Some(t)}]
  BY <1>3, AdderStep
<1> HIDE DEF g
<1> QED
  BY <1>3, <1>4, <1>5, <1>6

(* The order does not matter. *)
LEMMA AdderTakes ==
  ASSUME NEW rows, NEW S, IsFiniteSet(S), Sized(rows, S), NEW s \in SUBSET S, NEW x \in s
  PROVE  Adder(rows, S)[s] = rows[x].size + Adder(rows, S)[s \ {x}]
<1>1. PICK g : g = Adder(rows, S)
  OBVIOUS
<1> DEFINE B == {t \in SUBSET S : \E y \in t : g[t] # rows[y].size + g[t \ {y}]}
<1>2. SUFFICES ASSUME B # {} PROVE FALSE
  BY <1>1
<1>3. PICK t \in B : \A u \in B : Cardinality(t) <= Cardinality(u)
  BY <1>2, Smallest
<1>4. PICK y \in t : g[t] # rows[y].size + g[t \ {y}]
  OBVIOUS
<1>5. PICK c \in t : c = Some(t)
  BY SomeIn
<1>6. t \in SUBSET S /\ g[t] = rows[c].size + g[t \ {c}] /\ y # c
  <2>1. t \in SUBSET S /\ t # {}
    BY <1>3, <1>5
  <2>2. Adder(rows, S)[t] = rows[Some(t)].size + Adder(rows, S)[t \ {Some(t)}]
    BY <2>1, AdderStep
  <2>3. g[t] = rows[c].size + g[t \ {c}]
    BY <1>1, <1>5, <2>2
  <2> QED
    BY <1>4, <2>1, <2>3
<1>7. /\ t \ {c} \in SUBSET S /\ t \ {c} \notin B /\ t \ {y} \in SUBSET S /\ t \ {y} \notin B
  BY <1>3, <1>6, Smaller
<1>8. /\ g[t \ {c}] = rows[y].size + g[(t \ {c}) \ {y}]
      /\ g[t \ {y}] = rows[c].size + g[(t \ {y}) \ {c}]
  BY <1>6, <1>7
<1>9. (t \ {c}) \ {y} = (t \ {y}) \ {c} /\ (t \ {y}) \ {c} \in SUBSET S
  BY <1>6
<1>10. rows[c].size \in Nat /\ rows[y].size \in Nat /\ g[(t \ {y}) \ {c}] \in Nat
  BY <1>1, <1>6, <1>9, AdderInNat DEF Sized
<1>11. g[t] = rows[c].size + (rows[y].size + g[(t \ {y}) \ {c}])
  BY <1>6, <1>8, <1>9
<1>12. rows[y].size + g[t \ {y}] = rows[y].size + (rows[c].size + g[(t \ {y}) \ {c}])
  BY <1>8
<1> QED
  BY <1>4, <1>10, <1>11, <1>12

(* Neither do what is not in the sum and what else could have been. *)
LEMMA AdderSees ==
  ASSUME NEW rows, NEW others, NEW S, IsFiniteSet(S), NEW T \in SUBSET S,
         \A d \in T : others[d].size = rows[d].size, NEW s \in SUBSET T
  PROVE  Adder(others, T)[s] = Adder(rows, S)[s]
<1> DEFINE g == Adder(rows, S)
           h == Adder(others, T)
           B == {t \in SUBSET T : h[t] # g[t]}
<1>0. IsFiniteSet(T)
  BY FS_Subset
<1>1. SUFFICES ASSUME B # {} PROVE FALSE
  OBVIOUS
<1>2. PICK t \in B : \A u \in B : Cardinality(t) <= Cardinality(u)
  BY <1>0, <1>1, Smallest
<1>3. t \in SUBSET T /\ t \in SUBSET S /\ h[t] # g[t]
  BY <1>2
<1>4. t # {}
  <2>1. t = {} => h[t] = 0 /\ g[t] = 0
    BY <1>0, <1>3, AdderStep
  <2> QED
    BY <1>3, <2>1
<1>5. Some(t) \in t /\ others[Some(t)].size = rows[Some(t)].size
  BY <1>3, <1>4, SomeIn
<1>6. h[t \ {Some(t)}] = g[t \ {Some(t)}]
  BY <1>0, <1>2, <1>3, <1>5, Smaller
<1>7. h[t] = others[Some(t)].size + h[t \ {Some(t)}]
  BY <1>0, <1>3, <1>4, AdderStep
<1>8. g[t] = rows[Some(t)].size + g[t \ {Some(t)}]
  <2>1. t \in SUBSET S /\ t # {}
    BY <1>3, <1>4
  <2>2. \A u \in SUBSET S : u # {} => g[u] = rows[Some(u)].size + g[u \ {Some(u)}]
    BY AdderStep
  <2> QED
    BY <2>1, <2>2
<1> HIDE DEF g, h
<1> QED
  BY <1>3, <1>5, <1>6, <1>7, <1>8

LEMMA SizeInNat ==
  ASSUME NEW rows, NEW S, IsFiniteSet(S), Sized(rows, S) PROVE SizeOf(rows, S) \in Nat
BY AdderInNat DEF SizeOf

LEMMA SizeSame ==
  ASSUME NEW rows, NEW others, NEW S, IsFiniteSet(S), \A d \in S : others[d].size = rows[d].size
  PROVE  SizeOf(others, S) = SizeOf(rows, S)
BY AdderSees DEF SizeOf

LEMMA SizeGrows ==
  ASSUME NEW rows, NEW others, NEW S, NEW U, NEW d \in U, IsFiniteSet(U), S = U \ {d},
         Sized(rows, U), SameSizes(rows, others, S)
  PROVE  SizeOf(rows, U) = rows[d].size + SizeOf(others, S)
<1>1. S \in SUBSET U /\ U \in SUBSET U
  OBVIOUS
<1>2. Adder(rows, U)[U] = rows[d].size + Adder(rows, U)[S]
  BY AdderTakes
<1>3. Adder(others, S)[S] = Adder(rows, U)[S]
  BY <1>1, AdderSees DEF SameSizes
<1> QED
  BY <1>2, <1>3 DEF SizeOf

--------------------------------------------------------------------------------
(* Stored files and their providers *)

USE StorageAssumption

(* One default at most, without counting. *)
OneDefault == \A p, q \in Default : p = q

(* An upload has its id for itself, puts the object before it writes the row; a     *)
(* deletion is of a row that there is or was.                                       *)
FileKept(h) ==
  /\ hand[h].kind \in Uploading =>
       /\ doc[hand[h].of] = Unused
       /\ \A k \in Hands : hand[k].kind \in Uploading /\ hand[k].of = hand[h].of => k = h
  /\ hand[h].kind = "create" => <<hand[h].row.at, hand[h].of>> \in objects
  /\ hand[h].kind \in {"object", "row"} => doc[hand[h].of] # Unused

FilesKept == RowHasObject /\ \A h \in Hands : FileKept(h)

(* A request about a provider that is still undisturbed is the only one, and what   *)
(* it is about to promote may be promoted.                                          *)
ProviderKept(h) ==
  hand[h].kind \in Managing /\ hand[h].clean =>
    /\ \A k \in Hands : hand[k].kind \in Managing => k = h
    /\ hand[h].kind = "promote" => hand[h].of \in Active /\ Default = {}

DefaultsKept == DefaultSettles /\ \A h \in Hands : ProviderKept(h)

StorageInv == StorageTyped /\ OneDefault /\ FilesKept /\ DefaultsKept

LEMMA FewDefaults == ASSUME NEW S, \A p, q \in S : p = q PROVE Cardinality(S) <= 1
<1>1. CASE S = {}
  BY <1>1, FS_EmptySet
<1>2. CASE S # {}
  <2>1. PICK p : S = {p}
    BY <1>2
  <2> QED
    BY <2>1, FS_Singleton
<1> QED
  BY <1>1, <1>2

(* What a thread is in the middle of, by its kind. *)
ChoreIs(r) ==
  /\ r.kind \in {"ready", "object", "row"} \cup Uploading \cup Managing
  /\ r.kind = "ready" => r = Ready
  /\ r.kind \in Uploading => r \in [kind : Uploading, of : Documents, clean : BOOLEAN, row : Stored]
  /\ r.kind = "object" => r \in [kind : {"object"}, of : Documents, at : Stores \cup {Local}]
  /\ r.kind = "row" => r \in [kind : {"row"}, of : Documents]
  /\ r.kind = "save" => r \in [kind : {"save"}, of : Stores, row : ProviderRow, clean : BOOLEAN]
  /\ r.kind = "repair" => r \in [kind : {"repair"}, clean : BOOLEAN]
  /\ r.kind = "promote" => r \in [kind : {"promote"}, of : Stores, clean : BOOLEAN]

LEMMA ChoreOf == ASSUME NEW r \in Chores PROVE ChoreIs(r)
<1> USE DEF ChoreIs, Uploading, Managing
<1>1. CASE r = Ready
  BY <1>1 DEF Ready
<1>2. CASE r \in [kind : Uploading, of : Documents, clean : BOOLEAN, row : Stored]
  BY <1>2
<1>3. CASE r \in [kind : {"object"}, of : Documents, at : Stores \cup {Local}]
  BY <1>3
<1>4. CASE r \in [kind : {"row"}, of : Documents]
  BY <1>4
<1>5. CASE r \in [kind : {"save"}, of : Stores, row : ProviderRow, clean : BOOLEAN]
  BY <1>5
<1>6. CASE r \in [kind : {"repair"}, clean : BOOLEAN]
  BY <1>6
<1>7. CASE r \in [kind : {"promote"}, of : Stores, clean : BOOLEAN]
  BY <1>7
<1> QED
  BY <1>1, <1>2, <1>3, <1>4, <1>5, <1>6, <1>7 DEF Chores

(* The same step of the same request; at most it has been disturbed. *)
SameChore(x, y) ==
  /\ y.kind = x.kind
  /\ x.kind \in Uploading \cup {"object", "row", "save", "promote"} => y.of = x.of
  /\ x.kind \in Uploading => y.row = x.row
  /\ x.kind \in Managing /\ y.clean => x.clean

LEMMA Disturbed ==
  ASSUME NEW r \in Chores, r.kind \in Uploading \cup Managing, NEW b \in BOOLEAN
  PROVE  /\ [r EXCEPT !.clean = b] \in Chores /\ ([r EXCEPT !.clean = b].clean <=> b)
         /\ [r EXCEPT !.clean = b].kind = r.kind
         /\ ~ b => SameChore(r, [r EXCEPT !.clean = b])
<1>0. ChoreIs(r)
  BY ChoreOf
<1>1. CASE r.kind \in Uploading
  <2>1. /\ r \in [kind : Uploading, of : Documents, clean : BOOLEAN, row : Stored]
        /\ r.kind \notin Managing
    BY <1>0, <1>1 DEF ChoreIs, Uploading, Managing
  <2> QED
    BY <2>1 DEF Chores, SameChore
<1>2. CASE r.kind = "save"
  <2>1. r \in [kind : {"save"}, of : Stores, row : ProviderRow, clean : BOOLEAN]
    BY <1>0, <1>2 DEF ChoreIs
  <2> QED
    BY <2>1 DEF Chores, SameChore, Uploading
<1>3. CASE r.kind = "repair"
  <2>1. r \in [kind : {"repair"}, clean : BOOLEAN]
    BY <1>0, <1>3 DEF ChoreIs
  <2> QED
    BY <2>1 DEF Chores, SameChore, Uploading
<1>4. CASE r.kind = "promote"
  <2>1. r \in [kind : {"promote"}, of : Stores, clean : BOOLEAN]
    BY <1>0, <1>4 DEF ChoreIs
  <2> QED
    BY <2>1 DEF Chores, SameChore, Uploading
<1> QED
  BY <1>1, <1>2, <1>3, <1>4 DEF Managing

LEMMA BeginsHands ==
  ASSUME StorageTyped, NEW h \in Hands, NEW r \in Chores,
         NEW sort \in {Uploading, Managing}, r.kind \in sort, Begins(h, r, sort)
  PROVE  /\ hand' \in [Hands -> Chores] /\ hand'[h].kind = r.kind
         /\ \E b \in BOOLEAN : hand'[h] = [r EXCEPT !.clean = b]
         /\ hand'[h].clean => \A k \in Hands : k # h => hand[k].kind \notin sort
         /\ \A k \in Hands : k # h =>
              SameChore(hand[k], hand'[k]) /\ (hand[k].kind \in sort => ~ hand'[k].clean)
<1>1. hand \in [Hands -> Chores]
  BY DEF StorageTyped
<1>2. PICK others : others = {k \in Hands \ {h} : hand[k].kind \in sort}
  OBVIOUS
<1>3. hand' = [k \in Hands |-> IF k = h THEN [r EXCEPT !.clean = others = {}]
                              ELSE IF k \in others THEN [hand[k] EXCEPT !.clean = FALSE]
                              ELSE hand[k]]
  BY <1>2 DEF Begins
<1>4. PICK b \in BOOLEAN : b <=> others = {}
  OBVIOUS
<1>5. hand'[h] = [r EXCEPT !.clean = b] /\ hand'[h] \in Chores /\ (hand'[h].clean <=> b)
      /\ hand'[h].kind = r.kind
  <2>1. hand'[h] = [r EXCEPT !.clean = b]
    BY <1>3, <1>4
  <2> QED
    BY <2>1, Disturbed
<1>6. ASSUME NEW k \in Hands, k # h
      PROVE  /\ hand'[k] \in Chores
             /\ SameChore(hand[k], hand'[k]) /\ (hand[k].kind \in sort => ~ hand'[k].clean)
  <2>1. CASE k \in others
    <3>1. hand'[k] = [hand[k] EXCEPT !.clean = FALSE] /\ hand[k].kind \in Uploading \cup Managing
      BY <1>2, <1>3, <1>6, <2>1
    <3> QED
      BY <1>1, <3>1, Disturbed
  <2>2. CASE k \notin others
    BY <1>1, <1>2, <1>3, <1>6, <2>2 DEF SameChore
  <2> QED
    BY <2>1, <2>2
<1>7. hand' = [k \in Hands |-> hand'[k]]
  BY <1>3
<1> QED
  BY <1>2, <1>4, <1>5, <1>6, <1>7

LEMMA GoesHands ==
  ASSUME StorageTyped, NEW h \in Hands, NEW r \in Chores, Goes(h, r)
  PROVE  /\ hand' \in [Hands -> Chores] /\ hand'[h] = r
         /\ \A k \in Hands : k # h => hand'[k] = hand[k] /\ SameChore(hand[k], hand'[k])
BY DEF StorageTyped, Goes, SameChore

OnFiles == {"object", "row"} \cup Uploading

(* A step about providers leaves the files alone. *)
LEMMA FilesStay ==
  ASSUME FilesKept, UNCHANGED <<doc, objects>>, cut \subseteq cut',
         \A k \in Hands : SameChore(hand[k], hand'[k])
                          \/ (hand[k].kind \notin OnFiles /\ hand'[k].kind \notin OnFiles),
         \A p \in Stores : There(p) => There(p)' \/ \A d \in Rows : doc[d].at # p
  PROVE  FilesKept'
<1>1. ASSUME NEW h \in Hands PROVE FileKept(h)'
  BY DEF FilesKept, FileKept, SameChore, OnFiles, Uploading
<1>2. Rows' = Rows
  BY DEF Rows
<1>3. ASSUME NEW d \in Rows
      PROVE  /\ doc'[d].at \in {p \in Stores : There(p)'} \cup {Local}
             /\ \/ <<doc'[d].at, d>> \in objects' \/ d \in cut'
                \/ \E h \in Hands : hand'[h].kind = "row" /\ hand'[h].of = d
  <2>1. doc'[d].at \in {p \in Stores : There(p)'} \cup {Local}
    <3>1. doc'[d].at = doc[d].at /\ doc[d].at \in {p \in Stores : There(p)} \cup {Local}
      BY <1>3 DEF FilesKept, RowHasObject
    <3>2. CASE doc[d].at = Local
      BY <3>1, <3>2
    <3>3. CASE doc[d].at # Local
      <4>1. PICK p \in Stores : p = doc[d].at /\ There(p)
        BY <3>1, <3>3
      <4>2. There(p)'
        BY <1>3, <4>1
      <4> QED
        BY <3>1, <4>1, <4>2
    <3> QED
      BY <3>2, <3>3
  <2>2. ASSUME NEW h \in Hands, hand[h].kind = "row", hand[h].of = d
        PROVE  hand'[h].kind = "row" /\ hand'[h].of = d
    BY <2>2 DEF SameChore, OnFiles
  <2> QED
    BY <2>1, <2>2 DEF FilesKept, RowHasObject
<1> QED
  BY <1>1, <1>2, <1>3 DEF FilesKept, RowHasObject

(* A step about files leaves the providers alone. *)
LEMMA DefaultsStay ==
  ASSUME DefaultsKept, provider' = provider, torn' = torn,
         \A k \in Hands : SameChore(hand[k], hand'[k])
                          \/ (hand[k].kind \notin Managing /\ hand'[k].kind \notin Managing)
  PROVE  DefaultsKept'
<1>1. Active' = Active /\ Default' = Default
  BY DEF Active, Default, There
<1>2. \A k \in Hands : hand'[k].kind \in Managing <=> hand[k].kind \in Managing
  BY DEF SameChore
<1>3. ASSUME NEW h \in Hands PROVE ProviderKept(h)'
  BY <1>1, <1>2 DEF DefaultsKept, ProviderKept, SameChore, Managing
<1>4. DefaultSettles'
  BY <1>1, <1>2 DEF DefaultsKept, DefaultSettles
<1> QED
  BY <1>3, <1>4 DEF DefaultsKept

LEMMA PlaceIsKnown == ASSUME StorageTyped PROVE Place \in Stores \cup {Local}
<1>1. CASE Active \cap Default = {}
  BY <1>1 DEF Place
<1>2. CASE Active \cap Default # {}
  <2>1. Min(Active \cap Default) \in Active \cap Default
    <3>1. Active \cap Default \in SUBSET Nat
      BY DEF Active
    <3> QED
      BY <1>2, <3>1, LeastOf
  <2> QED
    BY <1>2, <2>1 DEF Place, Active
<1> QED
  BY <1>1, <1>2

(* A request about files, seen from the providers and the tables. *)
LEMMA FilesStep ==
  ASSUME StorageInv, NEW h \in Hands, UNCHANGED <<provider, turns, torn>>,
         hand[h].kind \notin Managing, hand'[h].kind \notin Managing,
         hand' \in [Hands -> Chores],
         \A k \in Hands : k # h => SameChore(hand[k], hand'[k]),
         doc' \in [Documents -> {Unused, Gone} \cup Stored],
         limit' \in [QuotaScopes -> Limits \cup {NoLimit}],
         objects' \subseteq (Stores \cup {Local}) \X Documents, cut' \subseteq Documents,
         FilesKept'
  PROVE  StorageInv'
<1>1. StorageTyped' /\ OneDefault'
  BY DEF StorageInv, StorageTyped, OneDefault, Default, There
<1>2. DefaultsKept'
  BY DefaultsStay DEF StorageInv
<1> QED
  BY <1>1, <1>2 DEF StorageInv

(* The other threads on files, while thread h takes a step. *)
LEMMA OthersOnFiles ==
  ASSUME FilesKept, NEW h \in Hands, NEW k \in Hands, k # h,
         \A i \in Hands : i # h => SameChore(hand[i], hand'[i]),
         hand'[h].kind \in Uploading =>
           \/ hand[h].kind \in Uploading /\ hand'[h].of = hand[h].of
           \/ \A i \in Hands : hand[i].kind \in Uploading => hand[i].of # hand'[h].of,
         \A d : d = hand[k].of =>
           doc'[d] = doc[d] \/ (hand[k].kind \notin Uploading /\ doc'[d] # Unused),
         \A x : x = <<hand[k].row.at, hand[k].of>> /\ x \in objects /\ hand[k].kind = "create" =>
           x \in objects'
  PROVE  FileKept(k)'
<1>1. FileKept(k) /\ SameChore(hand[k], hand'[k])
  BY DEF FilesKept
<1>2. ASSUME hand'[k].kind \in Uploading
      PROVE  /\ doc'[hand'[k].of] = Unused
             /\ \A i \in Hands : hand'[i].kind \in Uploading /\ hand'[i].of = hand'[k].of => i = k
  <2>1. hand[k].kind \in Uploading /\ hand'[k].of = hand[k].of
    BY <1>1, <1>2 DEF SameChore
  <2>2. doc[hand[k].of] = Unused /\ doc'[hand[k].of] = Unused
    BY <1>1, <2>1 DEF FileKept
  <2>3. ASSUME NEW i \in Hands, hand'[i].kind \in Uploading, hand'[i].of = hand'[k].of, i # k
        PROVE  FALSE
    <3>1. CASE i = h
      BY <1>1, <2>1, <2>3, <3>1 DEF FileKept
    <3>2. CASE i # h
      BY <1>1, <2>1, <2>3, <3>2 DEF FileKept, SameChore
    <3> QED
      BY <3>1, <3>2
  <2> QED
    BY <2>1, <2>2, <2>3
<1>3. hand'[k].kind = "create" => <<hand'[k].row.at, hand'[k].of>> \in objects'
  BY <1>1 DEF SameChore, FileKept, Uploading
<1>4. hand'[k].kind \in {"object", "row"} => doc'[hand'[k].of] # Unused
  BY <1>1 DEF SameChore, FileKept
<1> QED
  BY <1>2, <1>3, <1>4 DEF FileKept

LEMMA AdmitsKeeps ==
  ASSUME StorageInv, NEW h \in Hands, NEW d \in Documents, NEW kk, Admits(h, d, kk)
  PROVE  StorageInv'
<1>1. StorageTyped
  BY DEF StorageInv
<1>2. PICK r \in Chores :
        /\ r.kind = "put" /\ r.of = d /\ Begins(h, r, Uploading)
  <2>1. PICK size \in Sizes :
          Begins(h, [kind |-> "put", of |-> d, clean |-> TRUE,
                     row |-> [row |-> "stored", kind |-> kk, size |-> size, at |-> Place]],
                 Uploading)
    BY DEF Admits
  <2>2. PICK row : row = [row |-> "stored", kind |-> kk, size |-> size, at |-> Place]
    OBVIOUS
  <2>3. row \in Stored
    BY <1>1, <2>2, PlaceIsKnown DEF Stored, Admits
  <2>4. PICK r : r = [kind |-> "put", of |-> d, clean |-> TRUE, row |-> row]
    OBVIOUS
  <2>5. r \in [kind : Uploading, of : Documents, clean : BOOLEAN, row : Stored]
    BY <2>3, <2>4 DEF Uploading
  <2> QED
    BY <2>1, <2>2, <2>4, <2>5 DEF Chores
<1>3. /\ hand' \in [Hands -> Chores] /\ hand'[h].kind = "put" /\ hand'[h].of = d
      /\ \A k \in Hands : k # h => SameChore(hand[k], hand'[k])
  <2>1. r.kind \in Uploading
    BY <1>2 DEF Uploading
  <2>2. /\ hand' \in [Hands -> Chores] /\ hand'[h].kind = r.kind
        /\ \E b \in BOOLEAN : hand'[h] = [r EXCEPT !.clean = b]
        /\ \A k \in Hands : k # h => SameChore(hand[k], hand'[k])
    BY <1>1, <1>2, <2>1, BeginsHands
  <2>3. r \in [kind : Uploading, of : Documents, clean : BOOLEAN, row : Stored]
    BY <2>1, ChoreOf DEF ChoreIs
  <2>4. hand'[h].of = d
    BY <1>2, <2>2, <2>3
  <2> QED
    BY <1>2, <2>2, <2>4
<1>4. /\ hand[h] = Ready /\ doc[d] = Unused
      /\ \A i \in Hands : hand[i].kind \in Uploading => hand[i].of # d
      /\ UNCHANGED <<provider, limit, doc, objects, turns, torn, cut>>
  BY DEF Admits
<1>5. ASSUME NEW k \in Hands PROVE FileKept(k)'
  <2>1. CASE k = h
    BY <1>3, <1>4, <2>1 DEF FileKept, SameChore, Uploading
  <2>2. CASE k # h
    BY <1>3, <1>4, <2>2, OthersOnFiles DEF StorageInv
  <2> QED
    BY <2>1, <2>2
<1>6. RowHasObject'
  <2>1. \A e \in Documents, k \in Hands : hand[k].kind = "row" /\ hand[k].of = e =>
          hand'[k].kind = "row" /\ hand'[k].of = e
    BY <1>3, <1>4 DEF SameChore, Ready
  <2> QED
    BY <1>4, <2>1 DEF StorageInv, FilesKept, RowHasObject, Rows, There
<1> QED
  BY <1>1, <1>3, <1>4, <1>5, <1>6, FilesStep DEF FilesKept, Ready, Managing, StorageTyped

LEMMA UploadRow ==
  ASSUME StorageTyped, NEW h \in Hands, hand[h].kind \in Uploading
  PROVE  /\ hand[h].of \in Documents /\ hand[h].row \in Stored
         /\ hand[h].row.at \in Stores \cup {Local} /\ hand[h].row.row = "stored"
         /\ hand[h].kind \notin Managing
<1>1. hand[h] \in [kind : Uploading, of : Documents, clean : BOOLEAN, row : Stored]
  BY ChoreOf DEF StorageTyped, ChoreIs
<1> QED
  BY <1>1 DEF Stored, Uploading, Managing

(* Documents whose rows nobody touches. *)
LEMMA RowsKeep ==
  ASSUME RowHasObject, provider' = provider, NEW h \in Hands, NEW e \in Rows', doc'[e] = doc[e],
         hand[h].kind = "row" => hand[h].of # e,
         \A k \in Hands : k # h => SameChore(hand[k], hand'[k]),
         <<doc[e].at, e>> \in objects => <<doc[e].at, e>> \in objects',
         e \in cut => e \in cut'
  PROVE  /\ doc'[e].at \in {p \in Stores : There(p)'} \cup {Local}
         /\ \/ <<doc'[e].at, e>> \in objects' \/ e \in cut'
            \/ \E k \in Hands : hand'[k].kind = "row" /\ hand'[k].of = e
<1>1. e \in Rows
  BY DEF Rows
<1>2. doc'[e].at \in {p \in Stores : There(p)'} \cup {Local}
  BY <1>1 DEF RowHasObject, There
<1>3. ASSUME NEW k \in Hands, hand[k].kind = "row", hand[k].of = e
      PROVE  hand'[k].kind = "row" /\ hand'[k].of = e
  BY <1>3 DEF SameChore
<1> QED
  BY <1>1, <1>2, <1>3 DEF RowHasObject

LEMMA PutObjectKeeps ==
  ASSUME StorageInv, NEW h \in Hands, PutObject(h)
  PROVE  StorageInv'
<1>1. StorageTyped /\ RowHasObject /\ FileKept(h)
  BY DEF StorageInv, FilesKept
<1>2. /\ hand[h].kind = "put" /\ hand[h].kind \in Uploading
      /\ UNCHANGED <<provider, limit, doc, turns, torn, cut>>
  BY DEF PutObject, Uploading
<1>3. CASE UNCHANGED objects /\ Ends(h)
  <2>1. Ready \in Chores /\ Goes(h, Ready) /\ Ready.kind = "ready"
    BY <1>3 DEF Chores, Ends, Goes, Ready
  <2>2. /\ hand' \in [Hands -> Chores] /\ hand'[h] = Ready
        /\ \A k \in Hands : k # h => SameChore(hand[k], hand'[k])
    BY <1>1, <2>1, GoesHands
  <2>3. ASSUME NEW k \in Hands PROVE FileKept(k)'
    <3>1. CASE k = h
      BY <2>1, <2>2, <3>1 DEF FileKept, Uploading
    <3>2. CASE k # h
      BY <1>2, <1>3, <2>1, <2>2, <3>2, OthersOnFiles DEF StorageInv, Uploading
    <3> QED
      BY <3>1, <3>2
  <2>4. RowHasObject'
    BY <1>1, <1>2, <1>3, <2>2, RowsKeep DEF RowHasObject, Rows
  <2> QED
    BY <1>1, <1>2, <1>3, <2>1, <2>2, <2>3, <2>4, FilesStep, UploadRow
       DEF FilesKept, StorageTyped, Managing
<1>4. CASE /\ objects' = objects \cup {<<hand[h].row.at, hand[h].of>>}
           /\ Goes(h, [hand[h] EXCEPT !.kind = "create"])
  <2>1. hand[h] \in [kind : Uploading, of : Documents, clean : BOOLEAN, row : Stored]
    BY <1>1, <1>2, ChoreOf DEF StorageTyped, ChoreIs
  <2>2. PICK r \in Chores :
          /\ r = [hand[h] EXCEPT !.kind = "create"]
          /\ r.kind = "create" /\ r.of = hand[h].of /\ r.row = hand[h].row
    <3>1. PICK r : r = [hand[h] EXCEPT !.kind = "create"]
      OBVIOUS
    <3>2. /\ r \in [kind : Uploading, of : Documents, clean : BOOLEAN, row : Stored]
          /\ r.kind = "create" /\ r.of = hand[h].of /\ r.row = hand[h].row
      BY <2>1, <3>1 DEF Uploading
    <3>3. r \in Chores
      BY <3>2 DEF Chores
    <3> QED
      BY <3>1, <3>2, <3>3
  <2>3. /\ hand' \in [Hands -> Chores] /\ hand'[h] = r
        /\ \A k \in Hands : k # h => SameChore(hand[k], hand'[k])
    BY <1>1, <1>4, <2>2, GoesHands
  <2>4. ASSUME NEW k \in Hands PROVE FileKept(k)'
    <3>1. CASE k = h
      <4>1. /\ doc[hand[h].of] = Unused
            /\ \A i \in Hands : hand[i].kind \in Uploading /\ hand[i].of = hand[h].of => i = h
        BY <1>1, <1>2 DEF FileKept
      <4>2. /\ doc'[hand'[h].of] = Unused
            /\ \A i \in Hands : hand'[i].kind \in Uploading /\ hand'[i].of = hand'[h].of => i = h
        BY <1>2, <2>2, <2>3, <4>1 DEF SameChore
      <4> QED
        BY <1>4, <2>2, <2>3, <3>1, <4>2 DEF FileKept
    <3>2. CASE k # h
      BY <1>2, <1>4, <2>2, <2>3, <3>2, OthersOnFiles DEF StorageInv
    <3> QED
      BY <3>1, <3>2
  <2>5. RowHasObject'
    BY <1>1, <1>2, <1>4, <2>3, RowsKeep DEF RowHasObject, Rows
  <2>6. objects' \subseteq (Stores \cup {Local}) \X Documents
    BY <1>1, <1>2, <1>4, UploadRow DEF StorageTyped
  <2>7. hand[h].kind \notin Managing /\ hand'[h].kind \notin Managing
    BY <1>2, <2>2, <2>3 DEF Managing
  <2> QED
    BY <1>1, <1>2, <2>3, <2>4, <2>5, <2>6, <2>7, FilesStep DEF FilesKept, StorageTyped
<1> QED
  BY <1>3, <1>4 DEF PutObject

LEMMA RowsAreStored ==
  ASSUME StorageTyped, NEW d \in Rows
  PROVE  doc[d] \in Stored /\ doc[d].at \in Stores \cup {Local} /\ doc[d] # Unused
<1>1. doc[d] \in Stored /\ doc[d] # Unused
  BY DEF StorageTyped, Rows, Unused, Gone
<1> QED
  BY <1>1 DEF Stored

LEMMA ReadyIsQuiet == Ready \in Chores /\ Ready.kind = "ready"
BY DEF Ready, Chores

LEMMA CreateRowKeeps ==
  ASSUME StorageInv, NEW h \in Hands, CreateRow(h)
  PROVE  StorageInv'
<1>1. StorageTyped /\ RowHasObject /\ FileKept(h) /\ FilesKept
  BY DEF StorageInv, FilesKept
<1>2. /\ hand[h].kind = "create" /\ hand[h].kind \in Uploading
      /\ Goes(h, Ready) /\ UNCHANGED <<provider, limit, objects, turns, torn, cut>>
  BY DEF CreateRow, Uploading, Ends, Goes
<1>3. PICK d \in Documents, r \in Stored :
        /\ d = hand[h].of /\ r = hand[h].row /\ r.row = "stored" /\ r.at \in Stores \cup {Local}
  BY <1>1, <1>2, UploadRow
<1>4. doc' = IF r.at = Local \/ There(r.at) THEN [doc EXCEPT ![d] = r] ELSE doc
  BY <1>3 DEF CreateRow
<1>5. /\ hand' \in [Hands -> Chores] /\ hand'[h] = Ready
      /\ \A k \in Hands : k # h => SameChore(hand[k], hand'[k])
  BY <1>1, <1>2, ReadyIsQuiet, GoesHands
<1>6. /\ doc' \in [Documents -> {Unused, Gone} \cup Stored]
      /\ \A e \in Documents : e # d => doc'[e] = doc[e]
      /\ doc'[d] = doc[d] \/ (doc'[d] = r /\ (r.at = Local \/ There(r.at)))
  BY <1>1, <1>4 DEF StorageTyped
<1>7. ASSUME NEW k \in Hands PROVE FileKept(k)'
  <2>1. CASE k = h
    BY <1>5, <2>1, ReadyIsQuiet DEF FileKept, Uploading
  <2>2. CASE k # h
    <3>1. hand[k].kind \in Uploading => hand[k].of # d
      BY <1>1, <1>2, <1>3, <2>2 DEF FileKept
    <3>2. r # Unused
      BY <1>3 DEF Unused
    <3>3. \A e : e = hand[k].of => doc'[e] = doc[e] \/ (hand[k].kind \notin Uploading /\ doc'[e] # Unused)
      BY <1>4, <1>6, <3>1, <3>2, <1>1 DEF StorageTyped
    <3>4. hand'[h].kind \notin Uploading
      BY <1>5, ReadyIsQuiet DEF Uploading
    <3> QED
      BY <1>1, <1>2, <1>5, <2>2, <3>3, <3>4, OthersOnFiles
  <2> QED
    BY <2>1, <2>2
<1>8. RowHasObject'
  <2> SUFFICES ASSUME NEW e \in Rows'
               PROVE  /\ doc'[e].at \in {p \in Stores : There(p)'} \cup {Local}
                      /\ \/ <<doc'[e].at, e>> \in objects' \/ e \in cut'
                         \/ \E k \in Hands : hand'[k].kind = "row" /\ hand'[k].of = e
    BY DEF RowHasObject
  <2>1. CASE doc'[e] = doc[e]
    BY <1>1, <1>2, <1>5, <2>1, RowsKeep
  <2>2. CASE doc'[e] # doc[e]
    <3>1. e = d /\ doc'[e] = r /\ (r.at = Local \/ There(r.at))
      BY <1>6, <2>2 DEF Rows
    <3>2. <<r.at, d>> \in objects
      BY <1>1, <1>2, <1>3 DEF FileKept
    <3>3. r.at # Local => r.at \in Stores /\ There(r.at)'
      BY <1>2, <1>3, <3>1 DEF There
    <3> QED
      BY <1>2, <3>1, <3>2, <3>3
  <2> QED
    BY <2>1, <2>2
<1>9. hand[h].kind \notin Managing /\ hand'[h].kind \notin Managing
  BY <1>2, <1>5, ReadyIsQuiet DEF Managing
<1> QED
  BY <1>1, <1>2, <1>5, <1>6, <1>7, <1>8, <1>9, FilesStep DEF FilesKept, StorageTyped

LEMMA StartDeletionKeeps ==
  ASSUME StorageInv, NEW h \in Hands, NEW d \in Documents, StartDeletion(h, d)
  PROVE  StorageInv'
<1>1. StorageTyped /\ RowHasObject /\ FilesKept
  BY DEF StorageInv, FilesKept
<1>2. /\ hand[h] = Ready /\ d \in Rows
      /\ UNCHANGED <<provider, limit, doc, objects, turns, torn, cut>>
  BY DEF StartDeletion
<1>3. PICK r \in Chores : r.kind = "object" /\ r.of = d /\ Goes(h, r)
  <2>1. PICK r : r = [kind |-> "object", of |-> d, at |-> doc[d].at]
    OBVIOUS
  <2>2. r \in Chores
    BY <1>1, <1>2, <2>1, RowsAreStored DEF Chores
  <2> QED
    BY <2>1, <2>2 DEF StartDeletion
<1>4. /\ hand' \in [Hands -> Chores] /\ hand'[h] = r
      /\ \A k \in Hands : k # h => SameChore(hand[k], hand'[k])
  BY <1>1, <1>3, GoesHands
<1>5. ASSUME NEW k \in Hands PROVE FileKept(k)'
  <2>1. CASE k = h
    BY <1>1, <1>2, <1>3, <1>4, <2>1, RowsAreStored DEF FileKept, Uploading
  <2>2. CASE k # h
    BY <1>1, <1>2, <1>3, <1>4, <2>2, OthersOnFiles DEF Uploading
  <2> QED
    BY <2>1, <2>2
<1>6. RowHasObject'
  <2>1. hand[h].kind # "row"
    BY <1>2, ReadyIsQuiet
  <2> QED
    BY <1>1, <1>2, <1>4, <2>1, RowsKeep DEF RowHasObject, Rows
<1>7. hand[h].kind \notin Managing /\ hand'[h].kind \notin Managing
  BY <1>2, <1>3, <1>4, ReadyIsQuiet DEF Managing
<1> QED
  BY <1>1, <1>2, <1>4, <1>5, <1>6, <1>7, FilesStep DEF FilesKept, StorageTyped

LEMMA DeleteObjectKeeps ==
  ASSUME StorageInv, NEW h \in Hands, DeleteObject(h)
  PROVE  StorageInv'
<1>1. StorageTyped /\ RowHasObject /\ FilesKept /\ FileKept(h)
  BY DEF StorageInv, FilesKept
<1>2. /\ hand[h].kind = "object"
      /\ UNCHANGED <<provider, limit, doc, turns, torn, cut>>
  BY DEF DeleteObject
<1>3. PICK d \in Documents : d = hand[h].of
  <2>1. hand[h] \in [kind : {"object"}, of : Documents, at : Stores \cup {Local}]
    BY <1>1, <1>2, ChoreOf DEF StorageTyped, ChoreIs
  <2> QED
    BY <2>1
<1>4. PICK r \in Chores : r.kind = "row" /\ r.of = d /\ Goes(h, r)
  <2>1. PICK r : r = [kind |-> "row", of |-> d]
    OBVIOUS
  <2>2. r \in Chores
    BY <2>1 DEF Chores
  <2> QED
    BY <1>3, <2>1, <2>2 DEF DeleteObject
<1>5. /\ hand' \in [Hands -> Chores] /\ hand'[h] = r
      /\ \A k \in Hands : k # h => SameChore(hand[k], hand'[k])
  BY <1>1, <1>4, GoesHands
<1>6. objects' \subseteq objects /\ \A e, a : e # d /\ <<a, e>> \in objects => <<a, e>> \in objects'
  BY <1>3 DEF DeleteObject
<1>7. doc[d] # Unused
  BY <1>1, <1>2, <1>3 DEF FileKept
<1>8. ASSUME NEW k \in Hands PROVE FileKept(k)'
  <2>1. CASE k = h
    BY <1>2, <1>4, <1>5, <1>7, <2>1 DEF FileKept, Uploading
  <2>2. CASE k # h
    <3>1. hand[k].kind = "create" => hand[k].of # d
      <4>1. FileKept(k)
        BY <1>1 DEF FilesKept
      <4>2. hand[k].kind = "create" => doc[hand[k].of] = Unused
        BY <4>1 DEF FileKept, Uploading
      <4> QED
        BY <1>7, <4>2
    <3>2. hand'[h].kind \notin Uploading
      BY <1>4, <1>5 DEF Uploading
    <3> QED
      BY <1>1, <1>2, <1>5, <1>6, <2>2, <3>1, <3>2, OthersOnFiles
  <2> QED
    BY <2>1, <2>2
<1>9. RowHasObject'
  <2> SUFFICES ASSUME NEW e \in Rows'
               PROVE  /\ doc'[e].at \in {p \in Stores : There(p)'} \cup {Local}
                      /\ \/ <<doc'[e].at, e>> \in objects' \/ e \in cut'
                         \/ \E k \in Hands : hand'[k].kind = "row" /\ hand'[k].of = e
    BY DEF RowHasObject
  <2>1. CASE e = d
    <3>1. doc'[e].at \in {p \in Stores : There(p)'} \cup {Local}
      BY <1>1, <1>2 DEF RowHasObject, Rows, There
    <3> QED
      BY <1>4, <1>5, <2>1, <3>1
  <2>2. CASE e # d
    BY <1>1, <1>2, <1>5, <1>6, <2>2, RowsKeep
  <2> QED
    BY <2>1, <2>2
<1>10. hand[h].kind \notin Managing /\ hand'[h].kind \notin Managing
  BY <1>2, <1>4, <1>5 DEF Managing
<1> QED
  BY <1>1, <1>2, <1>5, <1>6, <1>8, <1>9, <1>10, FilesStep DEF FilesKept, StorageTyped

LEMMA DeleteRowKeeps ==
  ASSUME StorageInv, NEW h \in Hands, DeleteRow(h)
  PROVE  StorageInv'
<1>1. StorageTyped /\ RowHasObject /\ FilesKept /\ FileKept(h)
  BY DEF StorageInv, FilesKept
<1>2. /\ hand[h].kind = "row" /\ Goes(h, Ready)
      /\ UNCHANGED <<provider, limit, objects, turns, torn>>
  BY DEF DeleteRow, Ends, Goes
<1>3. PICK d \in Documents : d = hand[h].of
  <2>1. hand[h] \in [kind : {"row"}, of : Documents]
    BY <1>1, <1>2, ChoreOf DEF StorageTyped, ChoreIs
  <2> QED
    BY <2>1
<1>4. /\ hand' \in [Hands -> Chores] /\ hand'[h] = Ready
      /\ \A k \in Hands : k # h => SameChore(hand[k], hand'[k])
  BY <1>1, <1>2, ReadyIsQuiet, GoesHands
<1>5. /\ doc' \in [Documents -> {Unused, Gone} \cup Stored] /\ doc'[d] = Gone
      /\ \A e : e # d => doc'[e] = doc[e]
      /\ cut' = cut \ {d}
  BY <1>1, <1>3 DEF DeleteRow, StorageTyped
<1>6. doc[d] # Unused /\ Gone # Unused
  BY <1>1, <1>2, <1>3 DEF FileKept, Gone, Unused
<1>7. ASSUME NEW k \in Hands PROVE FileKept(k)'
  <2>1. CASE k = h
    BY <1>4, <2>1, ReadyIsQuiet DEF FileKept, Uploading
  <2>2. CASE k # h
    <3>1. hand[k].kind \in Uploading => hand[k].of # d
      BY <1>1, <1>6 DEF FilesKept, FileKept
    <3>2. hand'[h].kind \notin Uploading
      BY <1>4, ReadyIsQuiet DEF Uploading
    <3> QED
      BY <1>1, <1>2, <1>4, <1>5, <1>6, <2>2, <3>1, <3>2, OthersOnFiles
  <2> QED
    BY <2>1, <2>2
<1>8. RowHasObject'
  <2> SUFFICES ASSUME NEW e \in Rows'
               PROVE  /\ doc'[e].at \in {p \in Stores : There(p)'} \cup {Local}
                      /\ \/ <<doc'[e].at, e>> \in objects' \/ e \in cut'
                         \/ \E k \in Hands : hand'[k].kind = "row" /\ hand'[k].of = e
    BY DEF RowHasObject
  <2>1. e # d
    BY <1>5 DEF Rows, Gone
  <2> QED
    BY <1>1, <1>2, <1>3, <1>4, <1>5, <2>1, RowsKeep
<1>9. hand[h].kind \notin Managing /\ hand'[h].kind \notin Managing
  BY <1>2, <1>4, ReadyIsQuiet DEF Managing
<1> QED
  BY <1>1, <1>2, <1>4, <1>5, <1>7, <1>8, <1>9, FilesStep DEF FilesKept, StorageTyped

LEMMA SetQuotaKeeps ==
  ASSUME StorageInv, NEW s \in QuotaScopes, NEW l \in Limits \cup {NoLimit}, SetQuota(s, l)
  PROVE  StorageInv'
<1>1. StorageTyped /\ FilesKept /\ DefaultsKept
  BY DEF StorageInv
<1>2. /\ limit' = [limit EXCEPT ![s] = l] /\ UNCHANGED <<provider, doc, objects, turns, torn, cut>>
      /\ hand' = [k \in Hands |-> IF hand[k].kind \in Uploading
                                  THEN [hand[k] EXCEPT !.clean = FALSE] ELSE hand[k]]
  BY DEF SetQuota
<1>3. ASSUME NEW k \in Hands PROVE hand'[k] \in Chores /\ SameChore(hand[k], hand'[k])
  <2>1. hand[k] \in Chores
    BY <1>1 DEF StorageTyped
  <2>2. CASE hand[k].kind \in Uploading
    BY <1>2, <2>1, <2>2, Disturbed
  <2>3. CASE hand[k].kind \notin Uploading
    BY <1>2, <2>1, <2>3 DEF SameChore
  <2> QED
    BY <2>2, <2>3
<1>4. FilesKept'
  <2>1. \A p : There(p)' = There(p)
    BY <1>2 DEF There
  <2> QED
    BY <1>1, <1>2, <1>3, <2>1, FilesStay
<1>5. DefaultsKept'
  BY <1>1, <1>2, <1>3, DefaultsStay
<1>6. hand' \in [Hands -> Chores]
  <2>1. hand' = [k \in Hands |-> hand'[k]]
    BY <1>2
  <2> QED
    BY <1>3, <2>1
<1>7. StorageTyped' /\ OneDefault'
  BY <1>2, <1>6 DEF StorageInv, StorageTyped, OneDefault, Default, There
<1> QED
  BY <1>4, <1>5, <1>7 DEF StorageInv

(* Requests about providers *)

(* What a saved row does to the table. *)
LEMMA SavedTable ==
  ASSUME StorageTyped, OneDefault, NEW p \in Stores, NEW row \in ProviderRow,
         provider' = Saved(p, row)
  PROVE  /\ provider' \in [Stores -> {NoProvider} \cup ProviderRow] /\ OneDefault'
         /\ \A q \in Stores : There(q) => There(q)'
<1>1. \A q \in Stores : provider[q] = NoProvider \/ provider[q] \in ProviderRow
  BY DEF StorageTyped
<1>2. ASSUME NEW q \in Stores
      PROVE  /\ provider'[q] \in {NoProvider} \cup ProviderRow /\ (There(q) => There(q)')
             /\ q # p /\ q \in Default' => q \in Default /\ ~ row.default
  <2>1. CASE q = p
    <3>1. provider'[q] = row
      BY <2>1 DEF Saved
    <3> QED
      BY <2>1, <3>1 DEF There, ProviderRow
  <2>2. CASE q # p /\ There(q) /\ row.default
    <3>1. provider'[q] = [provider[q] EXCEPT !.default = FALSE]
      BY <2>2 DEF Saved
    <3>2. provider[q] \in ProviderRow
      BY <1>1, <2>2 DEF There, NoProvider
    <3> QED
      BY <2>2, <3>1, <3>2 DEF There, Default, ProviderRow
  <2>3. CASE q # p /\ ~ (There(q) /\ row.default)
    <3>1. provider'[q] = provider[q]
      BY <2>3 DEF Saved
    <3> QED
      BY <1>1, <2>3, <3>1 DEF There, Default
  <2> QED
    BY <2>1, <2>2, <2>3
<1>3. p \in Default' => row.default
  BY DEF Default, Saved
<1>4. OneDefault'
  BY <1>2, <1>3 DEF OneDefault, Default
<1>5. provider' = [q \in Stores |-> provider'[q]]
  BY DEF Saved
<1> QED
  BY <1>2, <1>4, <1>5

LEMMA ProviderStep ==
  ASSUME StorageInv, NEW h \in Hands, UNCHANGED <<limit, doc, objects, cut>>,
         hand[h].kind \in Managing \cup {"ready"}, hand'[h].kind \in Managing \cup {"ready"},
         hand' \in [Hands -> Chores],
         \A k \in Hands : k # h => SameChore(hand[k], hand'[k]),
         provider' \in [Stores -> {NoProvider} \cup ProviderRow], OneDefault',
         \A p \in Stores : There(p) => There(p)' \/ \A d \in Rows : doc[d].at # p,
         turns' \in 0 .. MaxRequestsOn, torn' \in BOOLEAN, DefaultsKept'
  PROVE  StorageInv'
<1>1. FilesKept'
  <2>1. hand[h].kind \notin OnFiles /\ hand'[h].kind \notin OnFiles
    BY DEF OnFiles, Managing, Uploading
  <2> QED
    BY <2>1, FilesStay DEF StorageInv
<1>2. (Cardinality(Default) <= 1)'
  BY FewDefaults DEF OneDefault
<1>3. StorageTyped'
  BY <1>2 DEF StorageInv, StorageTyped
<1> QED
  BY <1>1, <1>3 DEF StorageInv

(* A request that begins. *)
LEMMA BeginsManaging ==
  ASSUME StorageInv, NEW h \in Hands, NEW r \in Chores, r.kind \in {"save", "repair"},
         hand[h] = Ready, Begins(h, r, Managing)
  PROVE  /\ hand' \in [Hands -> Chores] /\ hand'[h].kind \in Managing
         /\ \A k \in Hands : k # h => SameChore(hand[k], hand'[k])
         /\ DefaultsKept'
<1>1. StorageTyped /\ r.kind \in Managing
  BY DEF StorageInv, Managing
<1>2. /\ hand' \in [Hands -> Chores] /\ hand'[h].kind = r.kind
      /\ hand'[h].clean => \A k \in Hands : k # h => hand[k].kind \notin Managing
      /\ \A k \in Hands : k # h =>
           SameChore(hand[k], hand'[k]) /\ (hand[k].kind \in Managing => ~ hand'[k].clean)
  BY <1>1, BeginsHands
<1>3. ASSUME NEW k \in Hands PROVE ProviderKept(k)'
  <2>1. CASE k = h
    <3>1. hand'[h].clean => \A i \in Hands : hand'[i].kind \in Managing => i = h
      BY <1>2 DEF SameChore
    <3> QED
      BY <1>2, <2>1, <3>1 DEF ProviderKept
  <2>2. CASE k # h
    <3>1. hand'[k].kind \in Managing => ~ hand'[k].clean
      BY <1>2, <2>2 DEF SameChore
    <3> QED
      BY <3>1 DEF ProviderKept
  <2> QED
    BY <2>1, <2>2
<1>4. DefaultSettles'
  BY <1>1, <1>2 DEF DefaultSettles
<1> QED
  BY <1>1, <1>2, <1>3, <1>4 DEF DefaultsKept

LEMMA RepairsIsAChore == Repairs \in Chores /\ Repairs.kind = "repair"
BY DEF Repairs, Chores

LEMMA AddProviderKeeps ==
  ASSUME StorageInv, NEW h \in Hands, NEW p \in Stores, AddProvider(h, p)
  PROVE  StorageInv'
<1>1. StorageTyped /\ OneDefault
  BY DEF StorageInv
<1>2. PICK row \in ProviderRow : provider' = Saved(p, row)
  BY DEF AddProvider
<1>3. /\ provider' \in [Stores -> {NoProvider} \cup ProviderRow] /\ OneDefault'
      /\ \A q \in Stores : There(q) => There(q)'
  BY <1>1, <1>2, SavedTable
<1>4. /\ hand' \in [Hands -> Chores] /\ hand'[h].kind \in Managing
      /\ \A k \in Hands : k # h => SameChore(hand[k], hand'[k])
      /\ DefaultsKept'
  BY RepairsIsAChore, BeginsManaging DEF AddProvider
<1>5. /\ turns' \in 0 .. MaxRequestsOn /\ torn' \in BOOLEAN /\ hand[h].kind = "ready"
      /\ UNCHANGED <<limit, doc, objects, cut>>
  BY <1>1, ReadyIsQuiet DEF AddProvider, Turn, StorageTyped
<1> QED
  BY <1>3, <1>4, <1>5, ProviderStep

LEMMA LoadProviderKeeps ==
  ASSUME StorageInv, NEW h \in Hands, NEW p \in Stores, LoadProvider(h, p)
  PROVE  StorageInv'
<1>1. StorageTyped /\ OneDefault
  BY DEF StorageInv
<1>2. PICK r \in Chores : r.kind \in {"save", "repair"} /\ Begins(h, r, Managing)
  <2>1. CASE Begins(h, Repairs, Managing)
    BY <2>1, RepairsIsAChore
  <2>2. CASE \E row \in ProviderRow :
               Begins(h, [kind |-> "save", of |-> p, row |-> row, clean |-> TRUE], Managing)
    <3>1. PICK row \in ProviderRow :
            Begins(h, [kind |-> "save", of |-> p, row |-> row, clean |-> TRUE], Managing)
      BY <2>2
    <3>2. PICK r : r = [kind |-> "save", of |-> p, row |-> row, clean |-> TRUE]
      OBVIOUS
    <3>3. r \in Chores
      BY <3>2 DEF Chores
    <3> QED
      BY <3>1, <3>2, <3>3
  <2> QED
    BY <2>1, <2>2 DEF LoadProvider
<1>3. /\ hand[h] = Ready /\ UNCHANGED <<provider, limit, doc, objects, torn, cut>>
      /\ turns' \in 0 .. MaxRequestsOn
  BY <1>1 DEF LoadProvider, Turn, StorageTyped
<1>4. /\ hand' \in [Hands -> Chores] /\ hand'[h].kind \in Managing
      /\ \A k \in Hands : k # h => SameChore(hand[k], hand'[k])
      /\ DefaultsKept'
  BY <1>2, <1>3, BeginsManaging
<1>5. /\ provider' \in [Stores -> {NoProvider} \cup ProviderRow] /\ OneDefault'
      /\ \A q \in Stores : There(q) => There(q)'
  BY <1>1, <1>3 DEF StorageTyped, OneDefault, Default, There
<1> QED
  BY <1>1, <1>3, <1>4, <1>5, ReadyIsQuiet, ProviderStep DEF StorageTyped

LEMMA DeleteProviderKeeps ==
  ASSUME StorageInv, NEW h \in Hands, NEW p \in Stores, DeleteProvider(h, p)
  PROVE  StorageInv'
<1>1. StorageTyped /\ OneDefault
  BY DEF StorageInv
<1>2. /\ provider' = [provider EXCEPT ![p] = NoProvider] /\ hand[h] = Ready
      /\ Begins(h, Repairs, Managing) /\ \A d \in Rows : doc[d].at # p
      /\ UNCHANGED <<limit, doc, objects, torn, cut>> /\ turns' \in 0 .. MaxRequestsOn
  BY <1>1 DEF DeleteProvider, Turn, StorageTyped
<1>3. /\ provider' \in [Stores -> {NoProvider} \cup ProviderRow]
      /\ \A q \in Stores : q # p => provider'[q] = provider[q]
      /\ provider'[p] = NoProvider
  BY <1>1, <1>2 DEF StorageTyped
<1>4. Default' \subseteq Default
  <2>1. ASSUME NEW q \in Stores, There(q)', provider'[q].default PROVE There(q) /\ provider[q].default
    BY <1>3, <2>1 DEF There, NoProvider
  <2> QED
    BY <2>1 DEF Default
<1>5. \A q \in Stores : There(q) => There(q)' \/ \A d \in Rows : doc[d].at # q
  BY <1>2, <1>3 DEF There
<1>6. OneDefault'
  BY <1>1, <1>4 DEF OneDefault
<1>7. /\ hand' \in [Hands -> Chores] /\ hand'[h].kind \in Managing
      /\ \A k \in Hands : k # h => SameChore(hand[k], hand'[k])
      /\ DefaultsKept'
  BY <1>2, RepairsIsAChore, BeginsManaging
<1> QED
  BY <1>1, <1>2, <1>3, <1>5, <1>6, <1>7, ReadyIsQuiet, ProviderStep DEF StorageTyped

(* While a request about a provider is under way, no other one is undisturbed. *)
LEMMA OneUndisturbed ==
  ASSUME StorageInv, NEW h \in Hands, hand[h].kind \in Managing, NEW k \in Hands, k # h,
         SameChore(hand[k], hand'[k])
  PROVE  ProviderKept(k)' /\ (hand[h].clean => hand'[k].kind \notin Managing)
<1>1. ProviderKept(h) /\ ProviderKept(k)
  BY DEF StorageInv, DefaultsKept
<1>2. hand[k].kind \in Managing => ~ hand[k].clean /\ ~ hand[h].clean
  BY <1>1 DEF ProviderKept
<1> QED
  BY <1>2 DEF ProviderKept, SameChore

LEMMA SaveProviderKeeps ==
  ASSUME StorageInv, NEW h \in Hands, SaveProvider(h)
  PROVE  StorageInv'
<1>1. StorageTyped /\ OneDefault
  BY DEF StorageInv
<1>2. hand[h] \in [kind : {"save"}, of : Stores, row : ProviderRow, clean : BOOLEAN]
  BY <1>1, ChoreOf DEF SaveProvider, StorageTyped, ChoreIs
<1>3. PICK p \in Stores, row \in ProviderRow, b \in BOOLEAN :
        /\ b = hand[h].clean /\ provider' = Saved(p, row)
        /\ Goes(h, [Repairs EXCEPT !.clean = b])
  BY <1>2 DEF SaveProvider
<1>4. /\ provider' \in [Stores -> {NoProvider} \cup ProviderRow] /\ OneDefault'
      /\ \A q \in Stores : There(q) => There(q)'
  BY <1>1, <1>3, SavedTable
<1>5. PICK r \in Chores : Goes(h, r) /\ r.kind = "repair" /\ r.clean = hand[h].clean
  <2>1. [Repairs EXCEPT !.clean = b] \in Chores /\ [Repairs EXCEPT !.clean = b].kind = "repair"
        /\ [Repairs EXCEPT !.clean = b].clean = b
    BY DEF Repairs, Chores
  <2> QED
    BY <1>3, <2>1
<1>6. /\ hand' \in [Hands -> Chores] /\ hand'[h] = r
      /\ \A k \in Hands : k # h => SameChore(hand[k], hand'[k])
  BY <1>1, <1>5, GoesHands
<1>7. hand[h].kind \in Managing /\ hand'[h].kind \in Managing
  BY <1>2, <1>5, <1>6 DEF Managing
<1>8. \A k \in Hands : k # h => ProviderKept(k)' /\ (hand[h].clean => hand'[k].kind \notin Managing)
  BY <1>6, <1>7, OneUndisturbed
<1>9. ProviderKept(h)'
  BY <1>5, <1>6, <1>8 DEF ProviderKept
<1>10. DefaultsKept'
  BY <1>7, <1>8, <1>9 DEF DefaultsKept, DefaultSettles
<1>11. UNCHANGED <<limit, doc, objects, turns, torn, cut>>
  BY DEF SaveProvider
<1> QED
  BY <1>1, <1>4, <1>6, <1>7, <1>10, <1>11, ProviderStep DEF StorageTyped

LEMMA RepairKeeps ==
  ASSUME StorageInv, NEW h \in Hands, Repair(h)
  PROVE  StorageInv'
<1>1. StorageTyped /\ OneDefault
  BY DEF StorageInv
<1>2. hand[h] \in [kind : {"repair"}, clean : BOOLEAN] /\ hand[h].kind \in Managing
  BY <1>1, ChoreOf DEF Repair, StorageTyped, ChoreIs, Managing
<1>3. /\ provider' = [p \in Stores |-> IF There(p) /\ ~ provider[p].active
                                       THEN [provider[p] EXCEPT !.default = FALSE]
                                       ELSE provider[p]]
      /\ UNCHANGED <<limit, doc, objects, turns, cut>>
  BY DEF Repair
<1>4. ASSUME NEW p \in Stores
      PROVE  /\ provider'[p] \in {NoProvider} \cup ProviderRow /\ There(p)' = There(p)
             /\ There(p) => provider'[p].active = provider[p].active
             /\ There(p) /\ provider[p].active => provider'[p].default = provider[p].default
             /\ There(p) /\ ~ provider[p].active => ~ provider'[p].default
  <2>1. provider[p] = NoProvider \/ provider[p] \in ProviderRow
    BY <1>1 DEF StorageTyped
  <2>2. CASE There(p) /\ ~ provider[p].active
    <3>1. provider'[p] = [provider[p] EXCEPT !.default = FALSE] /\ provider[p] \in ProviderRow
      BY <1>3, <2>1, <2>2 DEF There, NoProvider
    <3> QED
      BY <2>2, <3>1 DEF There, ProviderRow
  <2>3. CASE ~ (There(p) /\ ~ provider[p].active)
    BY <1>3, <2>1, <2>3 DEF There
  <2> QED
    BY <2>2, <2>3
<1>5. Active' = Active /\ Default' = Default \cap Active
  BY <1>4 DEF Active, Default
<1>6. /\ provider' \in [Stores -> {NoProvider} \cup ProviderRow] /\ OneDefault'
      /\ \A p \in Stores : There(p) => There(p)'
  <2>1. provider' = [p \in Stores |-> provider'[p]]
    BY <1>3
  <2> QED
    BY <1>1, <1>4, <1>5, <2>1 DEF OneDefault
<1>7. CASE /\ Active # {} /\ Active \cap Default = {} /\ UNCHANGED torn
           /\ Goes(h, [kind |-> "promote", of |-> Min(Active), clean |-> hand[h].clean])
  <2>1. Min(Active) \in Active /\ Active \subseteq Stores
    BY <1>7, LeastOf DEF Active
  <2>2. PICK r \in Chores :
          Goes(h, r) /\ r.kind = "promote" /\ r.of \in Active /\ r.clean = hand[h].clean
    <3>1. PICK r : r = [kind |-> "promote", of |-> Min(Active), clean |-> hand[h].clean]
      OBVIOUS
    <3>2. r \in [kind : {"promote"}, of : Stores, clean : BOOLEAN]
      BY <1>2, <2>1, <3>1
    <3> QED
      BY <1>7, <2>1, <3>1, <3>2 DEF Chores
  <2>3. /\ hand' \in [Hands -> Chores] /\ hand'[h] = r
        /\ \A k \in Hands : k # h => SameChore(hand[k], hand'[k])
    BY <1>1, <2>2, GoesHands
  <2>4. hand'[h].kind \in Managing
    BY <2>2, <2>3 DEF Managing
  <2>5. \A k \in Hands : k # h =>
          ProviderKept(k)' /\ (hand[h].clean => hand'[k].kind \notin Managing)
    BY <1>2, <2>3, OneUndisturbed
  <2>6. ProviderKept(h)'
    BY <1>5, <1>7, <2>2, <2>3, <2>5 DEF ProviderKept
  <2>7. DefaultsKept'
    BY <2>4, <2>5, <2>6 DEF DefaultsKept, DefaultSettles
  <2> QED
    BY <1>1, <1>2, <1>3, <1>6, <1>7, <2>3, <2>4, <2>7, ProviderStep DEF StorageTyped
<1>8. CASE /\ Active = {} \/ Active \cap Default # {}
           /\ Ends(h) /\ torn' = ~ hand[h].clean
  <2>1. /\ hand' \in [Hands -> Chores] /\ hand'[h] = Ready
        /\ \A k \in Hands : k # h => SameChore(hand[k], hand'[k])
    BY <1>1, <1>8, ReadyIsQuiet, GoesHands DEF Ends, Goes
  <2>2. \A k \in Hands : k # h => ProviderKept(k)'
    BY <1>2, <2>1, OneUndisturbed
  <2>3. ProviderKept(h)'
    BY <2>1, ReadyIsQuiet DEF ProviderKept, Managing
  <2>4. DefaultsKept'
    BY <1>5, <1>8, <2>2, <2>3 DEF DefaultsKept, DefaultSettles
  <2> QED
    BY <1>1, <1>2, <1>3, <1>6, <1>8, <2>1, <2>4, ReadyIsQuiet, ProviderStep DEF StorageTyped
<1> QED
  BY <1>7, <1>8 DEF Repair

LEMMA PromoteKeeps ==
  ASSUME StorageInv, NEW h \in Hands, Promote(h)
  PROVE  StorageInv'
<1>1. StorageTyped /\ OneDefault /\ ProviderKept(h)
  BY DEF StorageInv, DefaultsKept
<1>2. hand[h] \in [kind : {"promote"}, of : Stores, clean : BOOLEAN] /\ hand[h].kind \in Managing
  BY <1>1, ChoreOf DEF Promote, StorageTyped, ChoreIs, Managing
<1>3. PICK p \in Stores : p = hand[h].of
  BY <1>2
<1>4. /\ provider' = IF There(p) /\ Default = {}
                     THEN [provider EXCEPT ![p].default = TRUE] ELSE provider
      /\ Ends(h) /\ torn' = ~ hand[h].clean
      /\ UNCHANGED <<limit, doc, objects, turns, cut>>
  BY <1>3 DEF Promote
<1>5. /\ hand' \in [Hands -> Chores] /\ hand'[h] = Ready
      /\ \A k \in Hands : k # h => SameChore(hand[k], hand'[k])
  BY <1>1, <1>4, ReadyIsQuiet, GoesHands DEF Ends, Goes
<1>6. CASE There(p) /\ Default = {}
  <2>1. provider[p] \in ProviderRow
    BY <1>1, <1>6 DEF StorageTyped, There, NoProvider
  <2>2. /\ provider'[p] = [provider[p] EXCEPT !.default = TRUE]
        /\ \A q \in Stores : q # p => provider'[q] = provider[q]
        /\ provider' \in [Stores -> {NoProvider} \cup ProviderRow]
    BY <1>1, <1>4, <1>6, <2>1 DEF StorageTyped, ProviderRow
  <2>3. provider'[p].default /\ provider'[p].here /\ provider'[p].active = provider[p].active
    BY <2>1, <2>2 DEF ProviderRow
  <2>4. Default' = {p}
    BY <1>6, <2>2, <2>3 DEF Default, There
  <2>5. /\ \A q \in Stores : There(q)' = There(q)
        /\ Active' = Active
    BY <1>6, <2>2, <2>3 DEF There, Active
  <2>6. OneDefault'
    BY <2>4 DEF OneDefault
  <2>7. hand[h].clean => p \in Active
    BY <1>1, <1>2, <1>3 DEF ProviderKept
  <2>8. \A k \in Hands : k # h => ProviderKept(k)'
    BY <1>2, <1>5, OneUndisturbed
  <2>9. ProviderKept(h)'
    BY <1>5, ReadyIsQuiet DEF ProviderKept, Managing
  <2>10. DefaultsKept'
    BY <1>4, <2>4, <2>5, <2>7, <2>8, <2>9 DEF DefaultsKept, DefaultSettles
  <2> QED
    BY <1>1, <1>2, <1>4, <1>5, <2>2, <2>5, <2>6, <2>10, ReadyIsQuiet, ProviderStep DEF StorageTyped
<1>7. CASE ~ (There(p) /\ Default = {})
  <2>1. provider' = provider
    BY <1>4, <1>7
  <2>2. /\ provider' \in [Stores -> {NoProvider} \cup ProviderRow] /\ OneDefault'
        /\ \A q \in Stores : There(q)' = There(q)
    BY <1>1, <2>1 DEF StorageTyped, OneDefault, Default, There
  <2>3. ~ hand[h].clean
    BY <1>1, <1>2, <1>3, <1>7 DEF ProviderKept, Active
  <2>4. \A k \in Hands : k # h => ProviderKept(k)'
    BY <1>2, <1>5, OneUndisturbed
  <2>5. ProviderKept(h)'
    BY <1>5, ReadyIsQuiet DEF ProviderKept, Managing
  <2>6. DefaultsKept'
    BY <1>4, <2>3, <2>4, <2>5 DEF DefaultsKept, DefaultSettles
  <2> QED
    BY <1>1, <1>2, <1>4, <1>5, <2>2, <2>6, ReadyIsQuiet, ProviderStep DEF StorageTyped
<1> QED
  BY <1>6, <1>7

LEMMA StorageCrashKeeps ==
  ASSUME StorageInv, StorageCrash
  PROVE  StorageInv'
<1>1. StorageTyped /\ OneDefault /\ FilesKept /\ DefaultsKept
  BY DEF StorageInv
<1>2. /\ hand' = [h \in Hands |-> Ready]
      /\ torn' = (torn \/ \E h \in Hands : hand[h].kind \in Managing)
      /\ cut' = cut \cup {d \in Rows : \E h \in Hands : hand[h].kind = "row" /\ hand[h].of = d}
      /\ UNCHANGED <<provider, limit, doc, objects, turns>>
  BY DEF StorageCrash
<1>3. /\ There(0)' = There(0) /\ Rows' = Rows /\ Active' = Active /\ Default' = Default
  BY <1>2 DEF There, Rows, Active, Default
<1>4. \A h \in Hands : FileKept(h)' /\ ProviderKept(h)'
  BY <1>2 DEF FileKept, ProviderKept, Ready, Uploading, Managing
<1>5. RowHasObject'
  BY <1>1, <1>2, <1>3 DEF FilesKept, RowHasObject, There
<1>6. DefaultSettles'
  BY <1>1, <1>2, <1>3 DEF DefaultsKept, DefaultSettles
<1>7. StorageTyped'
  <2>1. hand' \in [Hands -> Chores] /\ torn' \in BOOLEAN /\ cut' \subseteq Documents
    BY <1>1, <1>2, ReadyIsQuiet DEF StorageTyped, Rows
  <2> QED
    BY <1>1, <1>2, <1>3, <2>1 DEF StorageTyped
<1> QED
  BY <1>1, <1>3, <1>4, <1>5, <1>6, <1>7 DEF StorageInv, FilesKept, DefaultsKept, OneDefault

LEMMA StorageBegins == StorageInit => StorageInv
<1> SUFFICES ASSUME StorageInit PROVE StorageInv
  OBVIOUS
<1>1. Default = {} /\ Active = {} /\ Rows = {}
  BY DEF StorageInit, Default, Active, There, NoProvider, Rows, Unused
<1>2. OneDefault /\ Cardinality(Default) <= 1
  BY <1>1, FewDefaults DEF OneDefault
<1>3. StorageTyped
  <2>1. Ready \in Chores
    BY ReadyIsQuiet
  <2>2. /\ provider \in [Stores -> {NoProvider} \cup ProviderRow]
        /\ limit \in [QuotaScopes -> Limits \cup {NoLimit}]
        /\ doc \in [Documents -> {Unused, Gone} \cup Stored]
    BY DEF StorageInit
  <2>3. /\ objects \subseteq (Stores \cup {Local}) \X Documents /\ hand \in [Hands -> Chores]
        /\ torn \in BOOLEAN /\ cut \subseteq Documents
    BY <2>1 DEF StorageInit
  <2>4. turns \in 0 .. MaxRequestsOn
    BY DEF StorageInit
  <2> QED
    BY <1>2, <2>2, <2>3, <2>4 DEF StorageTyped
<1>4. \A h \in Hands : FileKept(h) /\ ProviderKept(h)
  BY DEF StorageInit, FileKept, ProviderKept, Ready, Uploading, Managing
<1>5. RowHasObject /\ DefaultSettles
  BY <1>1 DEF RowHasObject, DefaultSettles
<1> QED
  BY <1>2, <1>3, <1>4, <1>5 DEF StorageInv, FilesKept, DefaultsKept

LEMMA StorageStep == StorageInv /\ [StorageNext]_svars => StorageInv'
<1> SUFFICES ASSUME StorageInv, [StorageNext]_svars PROVE StorageInv'
  OBVIOUS
<1>1. CASE StorageNext
  BY <1>1, AdmitsKeeps, StartDeletionKeeps, PutObjectKeeps, CreateRowKeeps, DeleteObjectKeeps,
     DeleteRowKeeps, SetQuotaKeeps, AddProviderKeeps, LoadProviderKeeps, DeleteProviderKeeps,
     SaveProviderKeeps, RepairKeeps, PromoteKeeps, StorageCrashKeeps
     DEF StorageNext, UploadToProject, UploadToDepartment, AttachToChat
<1>2. CASE UNCHANGED svars
  BY <1>2 DEF svars, StorageInv, StorageTyped, OneDefault, FilesKept, DefaultsKept, FileKept,
     ProviderKept, RowHasObject, DefaultSettles, Rows, Active, Default, There
<1> QED
  BY <1>1, <1>2

(* The tables of files, quotas and providers, and the threads on them, are of their *)
(* kinds, with one default provider at most, in whatever order uploads, deletions   *)
(* and changes of providers overlap and are cut off (the uniqueness that            *)
(* repair_storage_provider_defaults and the providers' transactions keep).          *)
THEOREM StorageTypeCorrect == StorageSpec => []StorageTyped
<1>1. StorageInv => StorageTyped
  BY DEF StorageInv
<1> QED
  BY <1>1, StorageBegins, StorageStep, PTL DEF StorageSpec

(* For any number of documents, providers and threads: the row of a stored file     *)
(* names a provider that is still configured and an object that is there, unless    *)
(* its deletion is under way or was cut off (the uploads, delete_chat_attachment,   *)
(* and the PROTECT on the provider's foreign key).                                  *)
THEOREM RowsHaveObjects == StorageSpec => []RowHasObject
<1>1. StorageInv => RowHasObject
  BY DEF StorageInv, FilesKept
<1> QED
  BY <1>1, StorageBegins, StorageStep, PTL DEF StorageSpec

(* For any number of providers: a request about one that met no other leaves a      *)
(* default among the active ones whenever there are any, whatever overlaps and      *)
(* crashes came before it (repair_storage_provider_defaults after every save).      *)
THEOREM DefaultAlwaysSettles == StorageSpec => []DefaultSettles
<1>1. StorageInv => DefaultSettles
  BY DEF StorageInv, DefaultsKept
<1> QED
  BY <1>1, StorageBegins, StorageStep, PTL DEF StorageSpec

(* Quotas *)

(* An upload that nothing came between is the only one, and still fits; what is being *)
(* deleted is not counted.                                                            *)
UploadKept(h) ==
  /\ hand[h].kind \in Uploading /\ hand[h].clean =>
       /\ \A k \in Hands : hand[k].kind \in Uploading => k = h
       /\ \A s \in Counted(hand[h].row.kind) \cap QuotaScopes :
            limit[s] # NoLimit => Used(s) + hand[h].row.size <= limit[s]
  /\ hand[h].kind \in {"object", "row"} /\ hand[h].of \in Rows => doc[hand[h].of].kind = "chat"

UploadsKept == \A h \in Hands : UploadKept(h)

(* The rows a quota's usage adds up. *)
Charged(s) == {d \in Rows : s \in Counted(doc[d].kind)}

LEMMA UsedIs ==
  ASSUME NEW s
  PROVE  Used(s) = SizeOf(doc, Charged(s)) /\ Used(s)' = SizeOf(doc', Charged(s)')
<1>1. Used(s) = SizeOf(doc, Charged(s))
  BY DEF Used, MapThenSumSet, MapThenFoldSet, SizeOf, Adder, Adds, Some, Charged
<1>2. Used(s)' = SizeOf(doc', Charged(s)')
  BY DEF Used, MapThenSumSet, MapThenFoldSet, SizeOf, Adder, Adds, Some, Charged
<1> QED
  BY <1>1, <1>2

LEMMA ChargedSized ==
  ASSUME StorageTyped, NEW s
  PROVE  IsFiniteSet(Charged(s)) /\ Sized(doc, Charged(s)) /\ Used(s) \in Nat
<1>1. Charged(s) \in SUBSET Documents
  BY DEF Charged, Rows
<1>2. IsFiniteSet(Charged(s))
  BY <1>1, FS_Subset
<1>3. Sized(doc, Charged(s))
  <2> SUFFICES ASSUME NEW d \in Charged(s) PROVE doc[d].size \in Nat
    BY DEF Sized
  <2>1. doc[d] \in Stored
    BY DEF StorageTyped, Charged, Rows, Unused, Gone
  <2>2. Sizes \subseteq Nat
    OBVIOUS
  <2> QED
    BY <2>1, <2>2 DEF Stored
<1> QED
  BY <1>2, <1>3, UsedIs, SizeInNat

(* No row that is counted comes or goes. *)
LEMMA UsedStays ==
  ASSUME StorageTyped, NEW s, Charged(s)' = Charged(s),
         \A d \in Charged(s) : doc'[d] = doc[d]
  PROVE  Used(s)' = Used(s)
BY ChargedSized, UsedIs, SizeSame

(* What the next step of a thread has from the last one. *)
Continues(x, y) ==
  /\ y.kind \in Uploading => x.kind \in Uploading /\ y.row = x.row /\ (y.clean => x.clean)
  /\ y.kind \in {"object", "row"} => x.kind \in {"object", "row"} /\ y.of = x.of

(* What undisturbed uploads and deletions go by changes under none of them. *)
UploadsGoOn ==
  /\ \A k \in Hands : \/ Continues(hand[k], hand'[k])
                      \/ hand'[k].kind \notin Uploading /\ UploadKept(k)'
  /\ \A k \in Hands : hand'[k].kind \in Uploading /\ hand'[k].clean =>
       limit' = limit /\ \A s \in QuotaScopes : Used(s)' = Used(s)
  /\ \A d \in Rows' : \/ d \in Rows /\ doc'[d] = doc[d]
                      \/ \A k \in Hands : hand'[k].kind \in {"object", "row"} => hand'[k].of # d

LEMMA UploadsStay == ASSUME UploadsKept, UploadsGoOn PROVE UploadsKept'
<1> SUFFICES ASSUME NEW h \in Hands PROVE UploadKept(h)'
  BY DEF UploadsKept
<1>0. SUFFICES ASSUME Continues(hand[h], hand'[h]) PROVE UploadKept(h)'
  BY DEF UploadsGoOn
<1>1. UploadKept(h) /\ Continues(hand[h], hand'[h])
  BY <1>0 DEF UploadsKept
<1>2. ASSUME hand'[h].kind \in Uploading, hand'[h].clean
      PROVE  /\ \A k \in Hands : hand'[k].kind \in Uploading => k = h
             /\ \A s \in Counted(hand'[h].row.kind) \cap QuotaScopes :
                  limit'[s] # NoLimit => Used(s)' + hand'[h].row.size <= limit'[s]
  <2>1. hand[h].kind \in Uploading /\ hand[h].clean /\ hand'[h].row = hand[h].row
    BY <1>1, <1>2 DEF Continues
  <2>2. limit' = limit /\ \A s \in QuotaScopes : Used(s)' = Used(s)
    BY <1>2 DEF UploadsGoOn
  <2>3. \A s \in Counted(hand[h].row.kind) \cap QuotaScopes :
          limit[s] # NoLimit => Used(s) + hand[h].row.size <= limit[s]
    BY <1>1, <2>1 DEF UploadKept
  <2>4. \A k \in Hands : hand'[k].kind \in Uploading => k = h
    <3>1. \A k \in Hands : hand'[k].kind \in Uploading => hand[k].kind \in Uploading
      BY DEF UploadsGoOn, Continues
    <3> QED
      BY <1>1, <2>1, <3>1 DEF UploadKept
  <2> QED
    BY <2>1, <2>2, <2>3, <2>4
<1>3. ASSUME hand'[h].kind \in {"object", "row"}, hand'[h].of \in Rows'
      PROVE  doc'[hand'[h].of].kind = "chat"
  BY <1>1, <1>3 DEF Continues, UploadKept, UploadsGoOn
<1> QED
  BY <1>2, <1>3 DEF UploadKept

LEMMA BeginsContinues ==
  ASSUME StorageTyped, NEW h \in Hands, NEW r \in Chores,
         NEW sort \in {Uploading, Managing}, r.kind \in sort, Begins(h, r, sort)
  PROVE  \A k \in Hands : k # h => Continues(hand[k], hand'[k])
<1> SUFFICES ASSUME NEW k \in Hands, k # h PROVE Continues(hand[k], hand'[k])
  OBVIOUS
<1>1. SameChore(hand[k], hand'[k]) /\ (hand[k].kind \in sort => ~ hand'[k].clean)
  BY BeginsHands
<1>2. hand[k].kind \notin sort => hand'[k] = hand[k]
  BY DEF Begins
<1> QED
  BY <1>1, <1>2 DEF Continues, SameChore, Uploading, Managing

(* A step about providers. *)
LEMMA ManagingKeepsUploads ==
  ASSUME StorageInv, UploadsKept, UNCHANGED <<doc, limit>>, NEW h \in Hands,
         \A k \in Hands : k # h => Continues(hand[k], hand'[k]),
         hand'[h].kind \notin Uploading \cup {"object", "row"}
  PROVE  UploadsKept' /\ \A s : Used(s)' = Used(s)
<1>1. Rows' = Rows /\ \A s : Charged(s)' = Charged(s)
  BY DEF Rows, Charged
<1>2. \A s : Used(s)' = Used(s)
  BY <1>1, UsedStays DEF StorageInv
<1>3. \A k \in Hands : Continues(hand[k], hand'[k])
  BY DEF Continues
<1>4. limit' = limit /\ \A d \in Rows' : d \in Rows /\ doc'[d] = doc[d]
  BY <1>1
<1>5. UploadsKept'
  BY <1>2, <1>3, <1>4, UploadsStay DEF UploadsGoOn
<1> QED
  BY <1>2, <1>5
LEMMA StandsStill ==
  ASSUME UNCHANGED <<doc>>
  PROVE  Rows' = Rows /\ \A s : Charged(s)' = Charged(s)
BY DEF Rows, Charged

LEMMA UsedWithoutRows ==
  ASSUME StorageTyped, UNCHANGED <<doc>> PROVE \A s : Used(s)' = Used(s)
BY StandsStill, UsedStays

LEMMA AdmitsKeepsUploads ==
  ASSUME StorageInv, UploadsKept, NEW h \in Hands, NEW d \in Documents, NEW kk, Admits(h, d, kk)
  PROVE  UploadsKept'
<1>1. StorageTyped
  BY DEF StorageInv
<1>2. PICK size \in Sizes :
        /\ Fits(kk, size)
        /\ Begins(h, [kind |-> "put", of |-> d, clean |-> TRUE,
                      row |-> [row |-> "stored", kind |-> kk, size |-> size, at |-> Place]],
                  Uploading)
  BY DEF Admits
<1>3. kk \in Kinds /\ UNCHANGED <<limit, doc>> /\ hand[h] = Ready
  BY DEF Admits
<1>4. PICK row \in Stored : row = [row |-> "stored", kind |-> kk, size |-> size, at |-> Place]
  <2>1. PICK row : row = [row |-> "stored", kind |-> kk, size |-> size, at |-> Place]
    OBVIOUS
  <2>2. row \in Stored
    BY <1>1, <1>3, <2>1, PlaceIsKnown DEF Stored
  <2> QED
    BY <2>1, <2>2
<1>5. PICK r \in Chores : r = [kind |-> "put", of |-> d, clean |-> TRUE, row |-> row]
  <2>1. PICK r : r = [kind |-> "put", of |-> d, clean |-> TRUE, row |-> row]
    OBVIOUS
  <2>2. r \in [kind : Uploading, of : Documents, clean : BOOLEAN, row : Stored]
    BY <2>1 DEF Uploading
  <2>3. r \in Chores
    BY <2>2 DEF Chores
  <2> QED
    BY <2>1, <2>3
<1>6. Begins(h, r, Uploading) /\ r.kind \in Uploading /\ r.kind = "put" /\ r.row = row
  BY <1>2, <1>4, <1>5 DEF Uploading
<1>7. /\ hand'[h].kind = "put" /\ \E b \in BOOLEAN : hand'[h] = [r EXCEPT !.clean = b]
      /\ hand'[h].clean => \A k \in Hands : k # h => hand[k].kind \notin Uploading
      /\ \A k \in Hands : k # h =>
           SameChore(hand[k], hand'[k]) /\ (hand[k].kind \in Uploading => ~ hand'[k].clean)
  BY <1>1, <1>6, BeginsHands
<1>8. \A k \in Hands : k # h => Continues(hand[k], hand'[k])
  BY <1>1, <1>6, BeginsContinues
<1>9. hand'[h].row = row /\ row.kind = kk /\ row.size = size
  BY <1>4, <1>5, <1>7
<1>10. Rows' = Rows /\ \A s : Used(s)' = Used(s)
  BY <1>1, <1>3, StandsStill, UsedWithoutRows
<1>11. UploadKept(h)'
  <2>1. hand'[h].clean => \A k \in Hands : hand'[k].kind \in Uploading => k = h
    BY <1>7 DEF SameChore
  <2>2. \A s \in Counted(kk) \cap QuotaScopes : limit'[s] # NoLimit => Used(s)' + size <= limit'[s]
    <3>1. Counted(kk) \subseteq Checked(kk)
      BY <1>3 DEF Counted, Checked
    <3> QED
      BY <1>2, <1>3, <1>10, <3>1 DEF Fits
  <2> QED
    BY <1>7, <1>9, <2>1, <2>2 DEF UploadKept
<1>12. ASSUME NEW k \in Hands, k # h PROVE UploadKept(k)'
  <2>1. hand'[k].kind \in Uploading => ~ hand'[k].clean
    BY <1>7, <1>12 DEF SameChore
  <2>2. hand'[k].kind \in {"object", "row"} /\ hand'[k].of \in Rows' =>
          doc'[hand'[k].of].kind = "chat"
    BY <1>3, <1>8, <1>10, <1>12 DEF Continues, UploadsKept, UploadKept
  <2> QED
    BY <2>1, <2>2 DEF UploadKept
<1> QED
  BY <1>11, <1>12 DEF UploadsKept

LEMMA PutObjectKeepsUploads ==
  ASSUME StorageInv, UploadsKept, NEW h \in Hands, PutObject(h)
  PROVE  UploadsKept'
<1>1. StorageTyped
  BY DEF StorageInv
<1>2. hand[h].kind = "put" /\ UNCHANGED <<limit, doc>>
  BY DEF PutObject
<1>3. hand[h] \in [kind : Uploading, of : Documents, clean : BOOLEAN, row : Stored]
  BY <1>1, <1>2, ChoreOf DEF StorageTyped, ChoreIs, Uploading
<1>4. \A k \in Hands : k # h => hand'[k] = hand[k]
  BY <1>1 DEF PutObject, Goes, Ends, StorageTyped
<1>5. Continues(hand[h], hand'[h])
  <2>1. CASE Goes(h, [hand[h] EXCEPT !.kind = "create"])
    <3>1. hand'[h] = [hand[h] EXCEPT !.kind = "create"]
      BY <1>1, <2>1 DEF StorageTyped, Goes
    <3> QED
      BY <1>2, <1>3, <3>1 DEF Continues, Uploading
  <2>2. CASE Ends(h)
    <3>1. hand'[h] = Ready
      BY <1>1, <2>2 DEF StorageTyped, Ends
    <3> QED
      BY <3>1, ReadyIsQuiet DEF Continues, Uploading
  <2> QED
    BY <2>1, <2>2 DEF PutObject
<1>6. \A k \in Hands : Continues(hand[k], hand'[k])
  BY <1>4, <1>5 DEF Continues
<1>7. Rows' = Rows /\ \A s : Used(s)' = Used(s)
  BY <1>1, <1>2, StandsStill, UsedWithoutRows
<1>8. limit' = limit /\ \A d \in Rows' : d \in Rows /\ doc'[d] = doc[d]
  BY <1>2, <1>7
<1> QED
  BY <1>6, <1>7, <1>8, UploadsStay DEF UploadsGoOn

(* What the row of an upload adds. *)
LEMMA CreateRowUses ==
  ASSUME StorageInv, NEW h \in Hands, CreateRow(h), NEW s
  PROVE  \/ Used(s)' = Used(s)
         \/ s \in Counted(hand[h].row.kind) /\ Used(s)' = Used(s) + hand[h].row.size
<1>1. StorageTyped /\ StorageTyped'
  BY CreateRowKeeps DEF StorageInv
<1>2. hand[h].kind \in Uploading
  BY DEF CreateRow, Uploading
<1>3. PICK d \in Documents, r \in Stored :
        d = hand[h].of /\ r = hand[h].row /\ r.row = "stored" /\ doc[d] = Unused
  <2>1. doc[hand[h].of] = Unused
    BY <1>2 DEF StorageInv, FilesKept, FileKept
  <2> QED
    BY <1>1, <1>2, <2>1, UploadRow
<1>4. d \notin Rows
  BY <1>3 DEF Rows, Unused
<1>5. CASE UNCHANGED <<doc>>
  BY <1>1, <1>5, UsedWithoutRows
<1>6. CASE doc' = [doc EXCEPT ![d] = r]
  <2>1. doc'[d] = r /\ \A e \in Documents : e # d => doc'[e] = doc[e]
    BY <1>1, <1>6 DEF StorageTyped
  <2>2. Rows' = Rows \cup {d}
    BY <1>3, <2>1 DEF Rows
  <2>3. Rows \subseteq Documents
    BY DEF Rows
  <2>4. CASE s \notin Counted(r.kind)
    <3>1. Charged(s)' = Charged(s) /\ \A e \in Charged(s) : doc'[e] = doc[e]
      BY <1>4, <2>1, <2>2, <2>3, <2>4 DEF Charged
    <3> QED
      BY <1>1, <3>1, UsedStays
  <2>5. CASE s \in Counted(r.kind)
    <3>1. /\ Charged(s)' = Charged(s) \cup {d} /\ d \notin Charged(s)
          /\ \A e \in Charged(s) : doc'[e] = doc[e]
      BY <1>4, <2>1, <2>2, <2>3, <2>5 DEF Charged
    <3>2. PICK C : C = Charged(s)
      OBVIOUS
    <3>3. IsFiniteSet(C) /\ Used(s) = SizeOf(doc, C) /\ Used(s) \in Nat
      BY <1>1, <3>2, ChargedSized, UsedIs
    <3>4. PICK U : U = C \cup {d}
      OBVIOUS
    <3>5. IsFiniteSet(U) /\ d \in U /\ C = U \ {d} /\ Used(s)' = SizeOf(doc', U)
      <4>1. IsFiniteSet(U)
        BY <3>3, <3>4, FS_AddElement
      <4>2. d \in U /\ C = U \ {d} /\ Charged(s)' = U
        BY <3>1, <3>2, <3>4
      <4>3. Used(s)' = SizeOf(doc', Charged(s)')
        BY UsedIs
      <4> QED
        BY <4>1, <4>2, <4>3
    <3>6. SizeOf(doc', U) = doc'[d].size + SizeOf(doc, C)
      <4>1. PICK n : n = doc'
        OBVIOUS
      <4>2. PICK o : o = doc
        OBVIOUS
      <4>3. SameSizes(n, o, C)
        BY <3>1, <3>2, <4>1, <4>2 DEF SameSizes
      <4>4. Sized(n, U)
        <5>1. Sized(o, C) /\ r.size \in Nat
          <6>1. Sizes \subseteq Nat
            OBVIOUS
          <6> QED
            BY <1>1, <3>2, <4>2, <6>1, ChargedSized DEF Stored
        <5> QED
          BY <2>1, <3>4, <4>1, <4>3, <5>1 DEF Sized, SameSizes
      <4>5. d \in U /\ IsFiniteSet(U)
        BY <3>5
      <4>6. C = U \ {d}
        BY <3>5
      <4>7. SizeOf(n, U) = n[d].size + SizeOf(o, C)
        BY <4>3, <4>4, <4>5, <4>6, SizeGrows
      <4> QED
        BY <4>1, <4>2, <4>7
    <3>7. r.size \in Nat
      <4>1. Sizes \subseteq Nat
        OBVIOUS
      <4> QED
        BY <4>1 DEF Stored
    <3>8. Used(s)' = Used(s) + r.size
      BY <2>1, <3>3, <3>5, <3>6, <3>7
    <3> QED
      BY <1>3, <2>5, <3>8
  <2> QED
    BY <2>4, <2>5
<1> QED
  BY <1>3, <1>5, <1>6 DEF CreateRow

LEMMA CreateRowKeepsUploads ==
  ASSUME StorageInv, UploadsKept, NEW h \in Hands, CreateRow(h)
  PROVE  UploadsKept'
<1>1. StorageTyped
  BY DEF StorageInv
<1>2. hand[h].kind \in Uploading /\ UNCHANGED limit
  BY DEF CreateRow, Uploading
<1>3. hand'[h] = Ready /\ \A k \in Hands : k # h => hand'[k] = hand[k]
  BY <1>1 DEF CreateRow, Ends, StorageTyped
<1>4. \A k \in Hands : Continues(hand[k], hand'[k])
  BY <1>3, ReadyIsQuiet DEF Continues, Uploading
<1>5. ASSUME NEW k \in Hands, hand'[k].kind \in Uploading, hand'[k].clean PROVE FALSE
  <2>1. k # h /\ hand'[k] = hand[k]
    BY <1>3, <1>5, ReadyIsQuiet DEF Uploading
  <2> QED
    BY <1>2, <1>5, <2>1 DEF UploadsKept, UploadKept
<1>6. ASSUME NEW e \in Rows'
      PROVE  \/ e \in Rows /\ doc'[e] = doc[e]
             \/ \A k \in Hands : hand'[k].kind \in {"object", "row"} => hand'[k].of # e
  <2>1. CASE e # hand[h].of
    BY <1>1, <1>6, <2>1 DEF CreateRow, Rows, StorageTyped
  <2>2. CASE e = hand[h].of
    <3>1. doc[e] = Unused
      BY <1>2, <2>2 DEF StorageInv, FilesKept, FileKept
    <3>2. ASSUME NEW k \in Hands, hand'[k].kind \in {"object", "row"} PROVE hand'[k].of # e
      <4>1. k # h /\ hand'[k] = hand[k]
        BY <1>3, <3>2, ReadyIsQuiet
      <4>2. doc[hand[k].of] # Unused
        BY <3>2, <4>1 DEF StorageInv, FilesKept, FileKept
      <4> QED
        BY <3>1, <4>1, <4>2
    <3> QED
      BY <3>2
  <2> QED
    BY <2>1, <2>2
<1> QED
  BY <1>4, <1>5, <1>6, UploadsStay DEF UploadsGoOn

LEMMA StartDeletionKeepsUploads ==
  ASSUME StorageInv, UploadsKept, NEW h \in Hands, NEW d \in Documents, StartDeletion(h, d)
  PROVE  UploadsKept'
<1>1. StorageTyped
  BY DEF StorageInv
<1>2. UNCHANGED <<limit, doc>> /\ d \in Rows /\ doc[d].kind = "chat"
  BY DEF StartDeletion
<1>3. /\ hand'[h].kind = "object" /\ hand'[h].of = d
      /\ \A k \in Hands : k # h => hand'[k] = hand[k]
  BY <1>1 DEF StartDeletion, Goes, StorageTyped
<1>4. UploadKept(h)' /\ hand'[h].kind \notin Uploading
  BY <1>2, <1>3 DEF UploadKept, Uploading
<1>5. \A k \in Hands : k # h => Continues(hand[k], hand'[k])
  BY <1>3 DEF Continues
<1>6. Rows' = Rows /\ \A s : Used(s)' = Used(s)
  BY <1>1, <1>2, StandsStill, UsedWithoutRows
<1>7. UploadsGoOn
  BY <1>2, <1>4, <1>5, <1>6 DEF UploadsGoOn
<1> QED
  BY <1>7, UploadsStay

LEMMA DeleteObjectKeepsUploads ==
  ASSUME StorageInv, UploadsKept, NEW h \in Hands, DeleteObject(h)
  PROVE  UploadsKept'
<1>1. StorageTyped
  BY DEF StorageInv
<1>2. hand[h].kind = "object" /\ UNCHANGED <<limit, doc>>
  BY DEF DeleteObject
<1>3. /\ hand'[h].kind = "row" /\ hand'[h].of = hand[h].of
      /\ \A k \in Hands : k # h => hand'[k] = hand[k]
  BY <1>1 DEF DeleteObject, Goes, StorageTyped
<1>4. \A k \in Hands : Continues(hand[k], hand'[k])
  BY <1>2, <1>3 DEF Continues, Uploading
<1>5. Rows' = Rows /\ \A s : Used(s)' = Used(s)
  BY <1>1, <1>2, StandsStill, UsedWithoutRows
<1>6. UploadsGoOn
  BY <1>2, <1>4, <1>5 DEF UploadsGoOn
<1> QED
  BY <1>6, UploadsStay

(* What is deleted was never counted. *)
LEMMA DeleteRowUses ==
  ASSUME StorageInv, UploadsKept, NEW h \in Hands, DeleteRow(h), NEW s
  PROVE  Used(s)' = Used(s)
<1>1. StorageTyped
  BY DEF StorageInv
<1>2. PICK d : d = hand[h].of
  OBVIOUS
<1>3. d \in Rows => doc[d].kind = "chat"
  BY <1>2 DEF DeleteRow, UploadsKept, UploadKept
<1>4. d \notin Charged(s)
  BY <1>3 DEF Charged, Counted
<1>5. \A e \in Documents : e # d => doc'[e] = doc[e]
  BY <1>1, <1>2 DEF DeleteRow, StorageTyped
<1>6. d \in Documents => doc'[d] = Gone
  BY <1>1, <1>2 DEF DeleteRow, StorageTyped
<1>7. \A e \in Documents : e \in Charged(s)' <=> e \in Charged(s)
  BY <1>4, <1>5, <1>6 DEF Charged, Rows, Gone
<1>8. Charged(s)' = Charged(s) /\ \A e \in Charged(s) : doc'[e] = doc[e]
  BY <1>4, <1>5, <1>7 DEF Charged, Rows
<1> QED
  BY <1>1, <1>8, UsedStays

LEMMA DeleteRowKeepsUploads ==
  ASSUME StorageInv, UploadsKept, NEW h \in Hands, DeleteRow(h)
  PROVE  UploadsKept'
<1>1. StorageTyped
  BY DEF StorageInv
<1>2. limit' = limit /\ hand'[h] = Ready /\ \A k \in Hands : k # h => hand'[k] = hand[k]
  BY <1>1 DEF DeleteRow, Ends, StorageTyped
<1>3. \A k \in Hands : Continues(hand[k], hand'[k])
  BY <1>2, ReadyIsQuiet DEF Continues, Uploading
<1>4. \A d \in Rows' : d \in Rows /\ doc'[d] = doc[d]
  BY <1>1 DEF DeleteRow, Rows, Gone, StorageTyped
<1>5. \A s : Used(s)' = Used(s)
  BY DeleteRowUses
<1>6. UploadsGoOn
  BY <1>2, <1>3, <1>4, <1>5 DEF UploadsGoOn
<1> QED
  BY <1>6, UploadsStay

LEMMA SetQuotaKeepsUploads ==
  ASSUME StorageInv, UploadsKept, NEW s \in QuotaScopes, NEW l, SetQuota(s, l)
  PROVE  UploadsKept'
<1>1. StorageTyped
  BY DEF StorageInv
<1>2. ASSUME NEW k \in Hands
      PROVE  /\ Continues(hand[k], hand'[k])
             /\ hand'[k].kind \in Uploading => ~ hand'[k].clean
  <2>1. hand[k] \in Chores
    BY <1>1 DEF StorageTyped
  <2>2. CASE hand[k].kind \in Uploading
    <3>1. hand'[k] = [hand[k] EXCEPT !.clean = FALSE]
      BY <2>2 DEF SetQuota
    <3>2. SameChore(hand[k], hand'[k]) /\ ~ hand'[k].clean
      BY <2>1, <2>2, <3>1, Disturbed
    <3> QED
      BY <2>2, <3>2 DEF Continues, SameChore, Uploading
  <2>3. CASE hand[k].kind \notin Uploading
    BY <2>3 DEF SetQuota, Continues
  <2> QED
    BY <2>2, <2>3
<1>3. Rows' = Rows /\ doc' = doc
  BY DEF SetQuota, Rows
<1>4. UploadsGoOn
  BY <1>2, <1>3 DEF UploadsGoOn
<1> QED
  BY <1>4, UploadsStay

LEMMA BeginsManagingKeepsUploads ==
  ASSUME StorageInv, UploadsKept, UNCHANGED <<doc, limit>>, NEW h \in Hands, NEW r \in Chores,
         r.kind \in Managing, Begins(h, r, Managing)
  PROVE  UploadsKept'
<1>1. StorageTyped
  BY DEF StorageInv
<1>2. \A k \in Hands : k # h => Continues(hand[k], hand'[k])
  BY <1>1, BeginsContinues
<1>3. hand'[h].kind = r.kind
  BY <1>1, BeginsHands
<1>4. hand'[h].kind \notin Uploading \cup {"object", "row"}
  BY <1>3 DEF Managing, Uploading
<1> QED
  BY <1>2, <1>4, ManagingKeepsUploads

LEMMA ProvidersKeepUploads ==
  ASSUME StorageInv, UploadsKept, NEW h \in Hands, NEW p \in Stores,
         AddProvider(h, p) \/ LoadProvider(h, p) \/ DeleteProvider(h, p)
  PROVE  UploadsKept'
<1>1. UNCHANGED <<doc, limit>>
  BY DEF AddProvider, LoadProvider, DeleteProvider
<1>2. PICK r \in Chores : r.kind \in Managing /\ Begins(h, r, Managing)
  <2>1. CASE Begins(h, Repairs, Managing)
    BY <2>1, RepairsIsAChore DEF Managing
  <2>2. CASE \E row \in ProviderRow :
               Begins(h, [kind |-> "save", of |-> p, row |-> row, clean |-> TRUE], Managing)
    <3>1. PICK row \in ProviderRow :
            Begins(h, [kind |-> "save", of |-> p, row |-> row, clean |-> TRUE], Managing)
      BY <2>2
    <3>2. PICK r : r = [kind |-> "save", of |-> p, row |-> row, clean |-> TRUE]
      OBVIOUS
    <3>3. r \in Chores /\ r.kind \in Managing
      BY <3>2 DEF Chores, Managing
    <3> QED
      BY <3>1, <3>2, <3>3
  <2> QED
    BY <2>1, <2>2 DEF AddProvider, LoadProvider, DeleteProvider
<1> QED
  BY <1>1, <1>2, BeginsManagingKeepsUploads

LEMMA RepairsKeepUploads ==
  ASSUME StorageInv, UploadsKept, NEW h \in Hands, SaveProvider(h) \/ Repair(h) \/ Promote(h)
  PROVE  UploadsKept'
<1>1. StorageTyped /\ UNCHANGED <<doc, limit>>
  BY DEF StorageInv, SaveProvider, Repair, Promote
<1>2. PICK r : Goes(h, r) /\ r.kind \in {"repair", "promote", "ready"}
  <2>1. ASSUME SaveProvider(h)
        PROVE  \E r : Goes(h, r) /\ r.kind \in {"repair", "promote", "ready"}
    <3>1. [Repairs EXCEPT !.clean = hand[h].clean].kind = "repair"
      BY DEF Repairs
    <3> QED
      BY <2>1, <3>1 DEF SaveProvider
  <2>2. ASSUME Repair(h) \/ Promote(h)
        PROVE  \E r : Goes(h, r) /\ r.kind \in {"repair", "promote", "ready"}
    <3>1. CASE Ends(h)
      BY <3>1, ReadyIsQuiet DEF Ends, Goes
    <3>2. CASE Goes(h, [kind |-> "promote", of |-> Min(Active), clean |-> hand[h].clean])
      <4>1. PICK r : r = [kind |-> "promote", of |-> Min(Active), clean |-> hand[h].clean]
        OBVIOUS
      <4>2. Goes(h, r) /\ r.kind = "promote"
        BY <3>2, <4>1
      <4> QED
        BY <4>2
    <3> QED
      BY <2>2, <3>1, <3>2 DEF Repair, Promote
  <2> QED
    BY <2>1, <2>2
<1>3. hand'[h] = r /\ \A k \in Hands : k # h => hand'[k] = hand[k]
  BY <1>1, <1>2 DEF Goes, StorageTyped
<1>4. hand'[h].kind \notin Uploading \cup {"object", "row"}
  BY <1>2, <1>3 DEF Uploading
<1>5. \A k \in Hands : k # h => Continues(hand[k], hand'[k])
  BY <1>3 DEF Continues
<1> QED
  BY <1>1, <1>4, <1>5, ManagingKeepsUploads

LEMMA StorageCrashKeepsUploads == ASSUME StorageCrash PROVE UploadsKept'
BY ReadyIsQuiet DEF StorageCrash, UploadsKept, UploadKept, Uploading

LEMMA UploadsBegin == StorageInit => UploadsKept
BY ReadyIsQuiet DEF StorageInit, UploadsKept, UploadKept, Uploading

LEMMA UploadsStep == StorageInv /\ UploadsKept /\ [StorageNext]_svars => UploadsKept'
<1> SUFFICES ASSUME StorageInv, UploadsKept, [StorageNext]_svars PROVE UploadsKept'
  OBVIOUS
<1>1. CASE StorageNext
  BY <1>1, AdmitsKeepsUploads, StartDeletionKeepsUploads, PutObjectKeepsUploads,
     CreateRowKeepsUploads, DeleteObjectKeepsUploads, DeleteRowKeepsUploads,
     SetQuotaKeepsUploads, ProvidersKeepUploads, RepairsKeepUploads, StorageCrashKeepsUploads
     DEF StorageNext, UploadToProject, UploadToDepartment, AttachToChat
<1>2. CASE UNCHANGED svars
  <2>1. Rows' = Rows /\ (\A s : Used(s)' = Used(s)) /\ \A k \in Hands : Continues(hand[k], hand'[k])
    BY <1>2, StandsStill, UsedWithoutRows DEF svars, StorageInv, Continues
  <2>2. UploadsGoOn
    BY <1>2, <2>1 DEF svars, UploadsGoOn
  <2> QED
    BY <2>2, UploadsStay
<1> QED
  BY <1>1, <1>2

(* Only the row of a project's document adds to a usage. *)
LEMMA OnlyRowsAdd ==
  ASSUME StorageInv, UploadsKept, [StorageNext]_svars
  PROVE  \/ \A s : Used(s)' = Used(s)
         \/ \E h \in Hands : CreateRow(h)
<1>1. StorageTyped
  BY DEF StorageInv
<1>2. \/ doc' = doc \/ \E h \in Hands : CreateRow(h) \/ DeleteRow(h)
  BY DEF StorageNext, UploadToProject, UploadToDepartment, AttachToChat, Admits, StartDeletion,
     PutObject, DeleteObject, SetQuota, AddProvider, LoadProvider, DeleteProvider, SaveProvider,
     Repair, Promote, StorageCrash, svars
<1> QED
  BY <1>1, <1>2, UsedWithoutRows, DeleteRowUses

LEMMA CreateRowFits ==
  ASSUME StorageInv, UploadsKept, NEW h \in Hands, CreateRow(h), NEW s \in QuotaScopes,
         Used(s)' > Used(s)
  PROVE  \/ limit[s] = NoLimit \/ Used(s)' <= limit[s]
         \/ hand[h].kind = "create" /\ hand'[h] = Ready /\ ~ hand[h].clean
<1>1. StorageTyped /\ UploadKept(h)
  BY DEF StorageInv, UploadsKept
<1>2. Used(s) \in Nat
  BY <1>1, ChargedSized
<1>3. s \in Counted(hand[h].row.kind) /\ Used(s)' = Used(s) + hand[h].row.size
  BY <1>2, CreateRowUses
<1>4. hand[h].kind = "create" /\ hand[h].kind \in Uploading /\ hand'[h] = Ready
  BY <1>1 DEF CreateRow, Ends, StorageTyped, Uploading
<1>5. hand[h].clean /\ limit[s] # NoLimit => Used(s) + hand[h].row.size <= limit[s]
  BY <1>1, <1>3, <1>4 DEF UploadKept
<1> QED
  BY <1>3, <1>4, <1>5

(* Whatever the sizes, the limits and the number of threads: an upload that no other *)
(* upload and no change of a quota came between leaves the usage within every quota  *)
(* in force (_check_quota against compute_storage_usage, before the object and the   *)
(* row are written).                                                                 *)
THEOREM QuotaAlwaysKept == StorageSpec => QuotaKept
<1>1. ASSUME StorageInv, UploadsKept, [StorageNext]_svars
      PROVE  [\A s \in QuotaScopes : Used(s)' > Used(s) =>
                \/ limit[s] = NoLimit \/ Used(s)' <= limit[s]
                \/ \E h \in Hands : hand[h].kind = "create" /\ hand'[h] = Ready /\ ~ hand[h].clean]_svars
  <2>1. ASSUME NEW s \in QuotaScopes, Used(s)' > Used(s)
        PROVE  \/ limit[s] = NoLimit \/ Used(s)' <= limit[s]
               \/ \E h \in Hands : hand[h].kind = "create" /\ hand'[h] = Ready /\ ~ hand[h].clean
    <3>1. Used(s) \in Nat
      BY <1>1, ChargedSized DEF StorageInv
    <3>2. PICK h \in Hands : CreateRow(h)
      BY <1>1, <2>1, <3>1, OnlyRowsAdd
    <3> QED
      BY <1>1, <2>1, <3>2, CreateRowFits
  <2> QED
    BY <2>1
<1> QED
  BY <1>1, StorageBegins, StorageStep, UploadsBegin, UploadsStep, PTL DEF StorageSpec, QuotaKept

HIDE StorageAssumption

--------------------------------------------------------------------------------
(* The life of a project *)

USE LifeAssumption

(* What a request found is still so while nobody wrote the row under it. *)
Undisturbed(r) ==
  /\ r.kind = "save" /\ r.clean =>
       /\ Exists(r.of) /\ r.row.visibility = project[r.of].visibility
       /\ r.named \/ r.row.status = project[r.of].status
  /\ r.kind = "settings" /\ r.clean => r.old = project[r.of].visibility
  /\ r.kind = "tell" /\ r.clean => r.new = project[r.of].visibility

(* A request that will still tell the trail, for good or not, of what the row says. *)
Owes(r, p) ==
  r.kind \in Telling /\ r.of = p /\ (r.kind = "tell" \/ (r.kind = "reread" /\ r.old # project[p].visibility))

(* The owner's row comes first. *)
Founding(r) ==
  r.kind = "crew" =>
    "owner" \in r.roles \/ "owner" \in crew[r.of] \/ ~ Exists(r.of) \/ "crew" \in amiss[r.of]

RowKept(p) ==
  /\ project[p] = Deleted => p \in farewell
  /\ project[p] = NotYet => told[p] = Unset
  /\ Exists(p) /\ "status" \notin amiss[p] => project[p].status = meant[p]
  /\ Exists(p) /\ "visibility" \notin amiss[p] /\ project[p].visibility # told[p] =>
       \E h \in Helms : Owes(helm[h], p)
  /\ Exists(p) /\ "crew" \notin amiss[p] /\ "owner" \notin crew[p] => At({"crew"}, p)

(* A request about a project began when there was one. *)
OfProjects == {"crew", "save", "settings", "reread", "tell", "status", "delete"}
HelmKept(h) ==
  /\ helm[h].kind \in OfProjects => project[helm[h].of] # NotYet
  /\ helm[h].kind = "delete" => helm[h].of \in farewell
  /\ Undisturbed(helm[h]) /\ Founding(helm[h])

LifeInv ==
  /\ LifeTyped
  /\ \A p \in ProjectIds : RowKept(p)
  /\ \A h \in Helms : HelmKept(h)

LEMMA LifeBegins == LifeInit => LifeInv
<1> SUFFICES ASSUME LifeInit PROVE LifeInv
  OBVIOUS
<1>1. LifeTyped
  BY DEF LifeInit, LifeTyped, Exists, NotYet, Courses, LifeStates
<1>2. \A p \in ProjectIds : RowKept(p)
  BY DEF LifeInit, RowKept, Exists, NotYet, Deleted, LifeStates
<1>3. \A h \in Helms : HelmKept(h)
  BY DEF LifeInit, HelmKept, Adrift, OfProjects, Undisturbed, Founding
<1> QED
  BY <1>1, <1>2, <1>3 DEF LifeInv

(* What a thread is in the middle of, by its kind. *)
CourseIs(r) ==
  /\ r = Adrift \/ r.kind \in OfProjects \cup {"close"}
  /\ r.kind \in OfProjects => r # Adrift /\ r.of \in ProjectIds
  /\ r.kind = "close" => r # Adrift /\ r.of \in Wishes
  /\ r.kind = "crew" => r.roles \in SUBSET {"owner", "editor"}
  /\ r.kind \in {"save"} \cup Telling => r.clean \in BOOLEAN
  /\ r.kind = "save" => r.row \in ProjectRow /\ r.new \in SUBSET Visibilities
  /\ r.kind = "settings" => r.old \in Visibilities /\ r.new \in SUBSET Visibilities
  /\ r.kind = "reread" => r.old \in Visibilities
  /\ r.kind = "tell" => r.new \in Visibilities
  /\ r.kind = "status" => r.to \in {"active", "archived"}

LEMMA CourseOf == ASSUME NEW r \in Courses PROVE CourseIs(r)
<1> USE DEF CourseIs, OfProjects, Telling
<1>1. CASE r = Adrift
  BY <1>1 DEF Adrift
<1>2. CASE r \in [kind : {"crew"}, of : ProjectIds, roles : SUBSET {"owner", "editor"}]
  BY <1>2 DEF Adrift
<1>3. CASE r \in [kind : {"save"}, of : ProjectIds, clean : BOOLEAN, row : ProjectRow,
                  new : SUBSET Visibilities, named : BOOLEAN]
  BY <1>3 DEF Adrift
<1>4. CASE r \in [kind : {"settings"}, of : ProjectIds, clean : BOOLEAN, old : Visibilities,
                  new : SUBSET Visibilities]
  BY <1>4 DEF Adrift
<1>5. CASE r \in [kind : {"reread"}, of : ProjectIds, clean : BOOLEAN, old : Visibilities]
  BY <1>5 DEF Adrift
<1>6. CASE r \in [kind : {"tell"}, of : ProjectIds, clean : BOOLEAN, new : Visibilities]
  BY <1>6 DEF Adrift
<1>7. CASE r \in [kind : {"status"}, of : ProjectIds, to : {"active", "archived"}]
  BY <1>7 DEF Adrift
<1>8. CASE r \in [kind : {"delete"}, of : ProjectIds] \cup [kind : {"close"}, of : Wishes]
  BY <1>8 DEF Adrift
<1> QED
  BY <1>1, <1>2, <1>3, <1>4, <1>5, <1>6, <1>7, <1>8 DEF Courses

(* The same place of the same request; at most it has become stale. *)
StaysAt(x, y) ==
  /\ y.kind = x.kind
  /\ x.kind \in OfProjects => y.of = x.of
  /\ x.kind = "crew" => y.roles = x.roles
  /\ x.kind = "save" => y.row = x.row /\ y.named = x.named
  /\ x.kind \in {"settings", "reread"} => y.old = x.old
  /\ x.kind = "tell" => y.new = x.new
  /\ x.kind \in {"save"} \cup Telling => (y.clean => x.clean)

LEMMA GoesStale ==
  ASSUME NEW r \in Courses, r.kind \in {"save"} \cup Telling
  PROVE  /\ [r EXCEPT !.clean = FALSE] \in Courses /\ StaysAt(r, [r EXCEPT !.clean = FALSE])
         /\ ~ [r EXCEPT !.clean = FALSE].clean
<1> USE DEF StaysAt, OfProjects, Telling
<1>0. CourseIs(r)
  BY CourseOf
<1>1. CASE r.kind = "save"
  <2>1. r \in [kind : {"save"}, of : ProjectIds, clean : BOOLEAN, row : ProjectRow,
               new : SUBSET Visibilities, named : BOOLEAN]
    BY <1>1 DEF Courses, Adrift
  <2> QED
    BY <2>1 DEF Courses
<1>2. CASE r.kind = "settings"
  <2>1. r \in [kind : {"settings"}, of : ProjectIds, clean : BOOLEAN, old : Visibilities,
               new : SUBSET Visibilities]
    BY <1>2 DEF Courses, Adrift
  <2> QED
    BY <2>1 DEF Courses
<1>3. CASE r.kind = "reread"
  <2>1. r \in [kind : {"reread"}, of : ProjectIds, clean : BOOLEAN, old : Visibilities]
    BY <1>3 DEF Courses, Adrift
  <2> QED
    BY <2>1 DEF Courses
<1>4. CASE r.kind = "tell"
  <2>1. r \in [kind : {"tell"}, of : ProjectIds, clean : BOOLEAN, new : Visibilities]
    BY <1>4 DEF Courses, Adrift
  <2> QED
    BY <2>1 DEF Courses
<1> QED
  BY <1>1, <1>2, <1>3, <1>4

(* What Wrote and Turns do to the other threads. *)
LEMMA OthersAfter ==
  ASSUME LifeTyped, NEW h \in Helms, NEW r \in Courses, NEW p, Wrote(h, r, p)
  PROVE  /\ helm' \in [Helms -> Courses] /\ helm'[h] = r
         /\ \A k \in Helms : k # h => StaysAt(helm[k], helm'[k])
         /\ \A k \in Helms : k # h /\ helm[k].kind \in {"save"} \cup Telling /\ helm[k].of = p =>
              ~ helm'[k].clean
<1>1. helm \in [Helms -> Courses]
  BY DEF LifeTyped
<1>2. ASSUME NEW k \in Helms, k # h
      PROVE  /\ helm'[k] \in Courses /\ StaysAt(helm[k], helm'[k])
             /\ helm[k].kind \in {"save"} \cup Telling /\ helm[k].of = p => ~ helm'[k].clean
  <2>1. CASE helm[k].kind \in {"save"} \cup Telling /\ helm[k].of = p
    <3>1. helm'[k] = [helm[k] EXCEPT !.clean = FALSE]
      BY <1>2, <2>1 DEF Wrote
    <3> QED
      BY <3>1, <2>1, <1>1, GoesStale
  <2>2. CASE ~ (helm[k].kind \in {"save"} \cup Telling /\ helm[k].of = p)
    <3>1. helm'[k] = helm[k]
      BY <1>2, <2>2 DEF Wrote
    <3> QED
      BY <3>1, <2>2, <1>1 DEF StaysAt
  <2> QED
    BY <2>1, <2>2
<1>3. helm'[h] = r
  BY DEF Wrote
<1>4. helm' = [k \in Helms |-> helm'[k]]
  BY DEF Wrote
<1> QED
  BY <1>2, <1>3, <1>4

LEMMA OthersStay ==
  ASSUME LifeTyped, NEW h \in Helms, NEW r \in Courses, Turns(h, r)
  PROVE  /\ helm' \in [Helms -> Courses] /\ helm'[h] = r
         /\ \A k \in Helms : k # h => StaysAt(helm[k], helm'[k])
<1>1. helm \in [Helms -> Courses]
  BY DEF LifeTyped
<1> QED
  BY <1>1 DEF Turns, StaysAt

(* A project that nobody touches, and whose requests stay where they are. *)
LEMMA RowStays ==
  ASSUME NEW p, RowKept(p), project'[p] = project[p], crew'[p] = crew[p], told'[p] = told[p],
         meant'[p] = meant[p], amiss[p] \subseteq amiss'[p], farewell \subseteq farewell',
         \A k \in Helms : helm[k].kind \in {"crew"} \cup Telling /\ helm[k].of = p =>
           StaysAt(helm[k], helm'[k])
  PROVE  RowKept(p)'
<1>1. Exists(p)' = Exists(p)
  BY DEF Exists
<1>2. ASSUME NEW k \in Helms, Owes(helm[k], p) PROVE Owes(helm[k], p)'
  BY <1>2 DEF Owes, StaysAt, Telling, OfProjects
<1>3. At({"crew"}, p) => At({"crew"}, p)'
  BY DEF At, StaysAt, OfProjects
<1> QED
  BY <1>1, <1>2, <1>3 DEF RowKept

(* A request that stays where it is, on a project that was not written, or written  *)
(* under it.                                                                        *)
LEMMA HelmStays ==
  ASSUME LifeTyped, NEW k \in Helms, HelmKept(k), StaysAt(helm[k], helm'[k]),
         farewell \subseteq farewell',
         \A p : helm[k].kind \in OfProjects /\ p = helm[k].of =>
              /\ project'[p] # NotYet /\ amiss[p] \subseteq amiss'[p]
              /\ project'[p] = project[p] \/ (helm[k].kind \in {"save"} \cup Telling => ~ helm'[k].clean)
              /\ ~ Exists(p)' \/ (Exists(p) /\ crew[p] \subseteq crew'[p]) \/ "crew" \in amiss'[p]
  PROVE  HelmKept(k)'
<1>1. CASE helm[k].kind \notin OfProjects
  BY <1>1 DEF HelmKept, StaysAt, OfProjects, Undisturbed, Founding
<1>2. CASE helm[k].kind \in OfProjects
  <2>1. PICK p : p = helm[k].of
    OBVIOUS
  <2>2. helm'[k].of = p /\ helm'[k].kind = helm[k].kind
    BY <1>2, <2>1 DEF StaysAt
  <2>3. /\ project'[p] # NotYet
        /\ helm[k].kind = "delete" => p \in farewell'
    BY <1>2, <2>1 DEF HelmKept
  <2>4. Undisturbed(helm[k])'
    <3>1. CASE project'[p] = project[p]
      BY <1>2, <2>1, <2>2, <3>1 DEF HelmKept, Undisturbed, StaysAt, Exists, Telling
    <3>2. CASE helm[k].kind \in {"save"} \cup Telling => ~ helm'[k].clean
      BY <2>2, <3>2 DEF Undisturbed, Telling
    <3> QED
      BY <1>2, <2>1, <3>1, <3>2
  <2>5. Founding(helm[k])'
    BY <1>2, <2>1, <2>2 DEF HelmKept, Founding, StaysAt
  <2> QED
    BY <2>2, <2>3, <2>4, <2>5 DEF HelmKept
<1> QED
  BY <1>1, <1>2

(* A step of a thread that leaves every row alone, with what it goes on with. *)
LEMMA QuietTurn ==
  ASSUME LifeInv, NEW h \in Helms, NEW r \in Courses, Turns(h, r),
         UNCHANGED <<project, crew, told, meant, amiss>>,
         farewell \subseteq farewell',
         r.kind \in OfProjects => project[r.of] # NotYet,
         r.kind = "delete" => r.of \in farewell',
         Undisturbed(r), Founding(r),
         helm[h].kind \notin {"crew"} \cup Telling
  PROVE  (\A p \in ProjectIds : RowKept(p)') /\ (\A k \in Helms : HelmKept(k)')
<1>1. LifeTyped
  BY DEF LifeInv
<1>2. /\ helm'[h] = r
      /\ \A k \in Helms : k # h => StaysAt(helm[k], helm'[k])
  BY <1>1, OthersStay
<1>3. ASSUME NEW p \in ProjectIds PROVE RowKept(p)'
  BY <1>2, RowStays DEF LifeInv
<1>4. ASSUME NEW k \in Helms, k # h PROVE HelmKept(k)'
  <2>1. HelmKept(k) /\ StaysAt(helm[k], helm'[k])
    BY <1>2, <1>4 DEF LifeInv
  <2>2. \A p : Exists(p)' = Exists(p)
    BY DEF Exists
  <2>3. \A p : helm[k].kind \in OfProjects /\ p = helm[k].of => project'[p] # NotYet
    BY <2>1 DEF HelmKept
  <2> QED
    BY <1>1, <2>1, <2>2, <2>3, HelmStays
<1>5. HelmKept(h)'
  BY <1>2 DEF HelmKept, Undisturbed, Founding, Exists
<1> QED
  BY <1>3, <1>4, <1>5

LEMMA AdriftIsQuiet ==
  Adrift \in Courses /\ Undisturbed(Adrift) /\ Founding(Adrift)
  /\ Adrift.kind \notin OfProjects
BY DEF Adrift, Courses, Undisturbed, Founding, OfProjects

LEMMA LoadKeeps ==
  ASSUME LifeInv, NEW h \in Helms, NEW p \in ProjectIds, LoadProject(h, p)
  PROVE  LifeInv'
<1>1. LifeTyped
  BY DEF LifeInv
<1>2. PICK s \in LifeStates \cup {"unnamed"}, v \in SUBSET Visibilities :
        Turns(h, [kind |-> "save", of |-> p, clean |-> TRUE, new |-> v, named |-> s # "unnamed",
                  row |-> IF s = "unnamed" THEN project[p] ELSE [project[p] EXCEPT !.status = s]])
  BY DEF LoadProject
<1>3. PICK row \in ProjectRow :
        /\ row = IF s = "unnamed" THEN project[p] ELSE [project[p] EXCEPT !.status = s]
        /\ row.visibility = project[p].visibility
        /\ s = "unnamed" => row.status = project[p].status
  <2>1. Exists(p) /\ project[p] \in ProjectRow
    BY <1>1 DEF LoadProject, LifeTyped, Exists, NotYet, Deleted, LifeStates
  <2>2. CASE s = "unnamed"
    BY <2>1, <2>2
  <2>3. CASE s # "unnamed"
    <3>1. s \in LifeStates
      BY <2>3
    <3>2. /\ [project[p] EXCEPT !.status = s] \in ProjectRow
          /\ [project[p] EXCEPT !.status = s].visibility = project[p].visibility
      BY <2>1, <3>1 DEF ProjectRow
    <3> QED
      BY <2>3, <3>2
  <2> QED
    BY <2>2, <2>3
<1>4. PICK r : r = [kind |-> "save", of |-> p, clean |-> TRUE, new |-> v,
                    named |-> s # "unnamed", row |-> row]
  OBVIOUS
<1>5. r \in Courses /\ Turns(h, r) /\ Undisturbed(r) /\ Founding(r) /\ r.kind = "save" /\ r.of = p
  BY <1>2, <1>3, <1>4 DEF Courses, Undisturbed, Founding, LoadProject
<1>6. project[p] # NotYet
  BY DEF LoadProject, Exists, NotYet, LifeStates
<1>7. helm[h].kind \notin {"crew"} \cup Telling
  BY DEF LoadProject, TakesOn, Adrift, Telling
<1>8. UNCHANGED <<project, crew, wish, told, farewell, meant, amiss>> /\ rounds' \in 0 .. MaxRounds
  BY <1>1 DEF LoadProject, TakesOn, LifeTyped
<1>9. (\A q \in ProjectIds : RowKept(q)') /\ (\A k \in Helms : HelmKept(k)')
  BY <1>5, <1>6, <1>7, <1>8, QuietTurn
<1>10. helm' \in [Helms -> Courses]
  BY <1>1, <1>5, OthersStay
<1>11. LifeTyped'
  BY <1>1, <1>8, <1>10 DEF LifeTyped, Exists
<1> QED
  BY <1>9, <1>11 DEF LifeInv

(* The threads that are not about a row in any way that can go wrong. *)
LEMMA QuietKeeps ==
  ASSUME LifeInv, NEW h \in Helms, NEW r \in Courses, Turns(h, r),
         UNCHANGED <<project, crew, told, meant, amiss>>,
         farewell \subseteq farewell', farewell' \subseteq ProjectIds,
         wish' \in [Wishes -> {NoWish} \cup [state : {"open", "closed"}, of : ProjectIds]],
         \A w \in Wishes : wish'[w] # NoWish => wish[w] # NoWish /\ wish'[w].of = wish[w].of,
         rounds' \in 0 .. MaxRounds,
         r.kind \in OfProjects => project[r.of] # NotYet,
         r.kind = "delete" => r.of \in farewell',
         r.kind \notin {"save", "settings", "tell", "crew"},
         helm[h].kind \notin {"crew"} \cup Telling
  PROVE  LifeInv'
<1>1. LifeTyped
  BY DEF LifeInv
<1>2. Undisturbed(r) /\ Founding(r)
  BY DEF Undisturbed, Founding
<1>3. (\A q \in ProjectIds : RowKept(q)') /\ (\A k \in Helms : HelmKept(k)')
  BY <1>2, QuietTurn
<1>4. helm' \in [Helms -> Courses]
  BY <1>1, OthersStay
<1>5. LifeTyped'
  BY <1>1, <1>4 DEF LifeTyped, Exists
<1> QED
  BY <1>3, <1>5 DEF LifeInv

LEMMA LoadForStatusKeeps ==
  ASSUME LifeInv, NEW h \in Helms, NEW p \in ProjectIds, LoadForStatus(h, p)
  PROVE  LifeInv'
<1>1. LifeTyped
  BY DEF LifeInv
<1>2. PICK s \in {"active", "archived"} : Turns(h, [kind |-> "status", of |-> p, to |-> s])
  BY DEF LoadForStatus
<1>3. PICK r \in Courses : r = [kind |-> "status", of |-> p, to |-> s]
  BY DEF Courses
<1>4. /\ project[p] # NotYet /\ helm[h].kind \notin {"crew"} \cup Telling
      /\ UNCHANGED <<project, crew, wish, told, farewell, meant, amiss>>
      /\ rounds' \in 0 .. MaxRounds
  BY <1>1 DEF LoadForStatus, TakesOn, LifeTyped, Exists, NotYet, LifeStates, Adrift, Telling
<1> QED
  BY <1>1, <1>2, <1>3, <1>4, QuietKeeps DEF LifeTyped

LEMMA TellDeletionKeeps ==
  ASSUME LifeInv, NEW h \in Helms, NEW p \in ProjectIds, TellDeletion(h, p)
  PROVE  LifeInv'
<1>1. LifeTyped
  BY DEF LifeInv
<1>2. PICK r \in Courses : r = [kind |-> "delete", of |-> p]
  BY DEF Courses
<1>3. /\ project[p] # NotYet /\ helm[h].kind \notin {"crew"} \cup Telling
      /\ UNCHANGED <<project, crew, wish, told, meant, amiss>> /\ Turns(h, r)
      /\ rounds' \in 0 .. MaxRounds /\ farewell' = farewell \cup {p}
  BY <1>1, <1>2 DEF TellDeletion, TakesOn, LifeTyped, Exists, NotYet, LifeStates, Adrift, Telling
<1> QED
  BY <1>1, <1>2, <1>3, QuietKeeps DEF LifeTyped

LEMMA LoadWishKeeps ==
  ASSUME LifeInv, NEW h \in Helms, NEW w \in Wishes, LoadWish(h, w)
  PROVE  LifeInv'
<1>1. LifeTyped
  BY DEF LifeInv
<1>2. PICK r \in Courses : r = [kind |-> "close", of |-> w]
  BY DEF Courses
<1>3. /\ helm[h].kind \notin {"crew"} \cup Telling
      /\ UNCHANGED <<project, crew, wish, told, farewell, meant, amiss, rounds>> /\ Turns(h, r)
      /\ r.kind \notin OfProjects
  BY <1>1, <1>2 DEF LoadWish, Adrift, Telling, OfProjects
<1> QED
  BY <1>1, <1>2, <1>3, QuietKeeps DEF LifeTyped

LEMMA CloseWishKeeps ==
  ASSUME LifeInv, NEW h \in Helms, CloseWish(h)
  PROVE  LifeInv'
<1>1. LifeTyped /\ helm[h].kind = "close" /\ helm[h] \in Courses
  BY DEF LifeInv, CloseWish, LifeTyped
<1>2. PICK w \in Wishes : w = helm[h].of
  BY <1>1, CourseOf DEF CourseIs
<1>3. wish' = IF wish[w] = NoWish THEN wish ELSE [wish EXCEPT ![w].state = "closed"]
  BY <1>2 DEF CloseWish
<1>4. /\ wish' \in [Wishes -> {NoWish} \cup [state : {"open", "closed"}, of : ProjectIds]]
      /\ \A x \in Wishes : wish'[x] # NoWish => wish[x] # NoWish /\ wish'[x].of = wish[x].of
  <2>1. CASE wish[w] = NoWish
    BY <1>1, <1>3, <2>1 DEF LifeTyped
  <2>2. CASE wish[w] # NoWish
    <3>1. wish[w] \in [state : {"open", "closed"}, of : ProjectIds]
      BY <1>1, <2>2 DEF LifeTyped
    <3>2. /\ [wish[w] EXCEPT !.state = "closed"] \in [state : {"open", "closed"}, of : ProjectIds]
          /\ [wish[w] EXCEPT !.state = "closed"].of = wish[w].of
      BY <3>1
    <3>3. wish' = [wish EXCEPT ![w] = [wish[w] EXCEPT !.state = "closed"]]
      BY <1>1, <1>3, <2>2 DEF LifeTyped
    <3> QED
      BY <1>1, <2>2, <3>2, <3>3 DEF LifeTyped
  <2> QED
    BY <2>1, <2>2
<1>5. /\ UNCHANGED <<project, crew, told, farewell, meant, amiss, rounds>> /\ Turns(h, Adrift)
      /\ helm[h].kind \notin {"crew"} \cup Telling
  BY <1>1 DEF CloseWish, Telling
<1>6. Adrift \in Courses /\ Adrift.kind = "adrift" /\ Adrift.kind \notin OfProjects
  BY DEF Adrift, Courses, OfProjects
<1> QED
  BY <1>1, <1>4, <1>5, <1>6, QuietKeeps DEF LifeTyped

(* A step of thread h that touches project p only. *)
LEMMA OneProject ==
  ASSUME LifeInv, NEW h \in Helms, NEW p \in ProjectIds,
         helm[h].kind \in {"crew"} \cup Telling => helm[h].of = p,
         \A k \in Helms : k # h => StaysAt(helm[k], helm'[k]),
         \A q \in ProjectIds : q # p =>
           /\ project'[q] = project[q] /\ crew'[q] = crew[q] /\ told'[q] = told[q]
           /\ meant'[q] = meant[q] /\ amiss'[q] = amiss[q],
         farewell \subseteq farewell', project'[p] # NotYet, amiss[p] \subseteq amiss'[p],
         \/ project'[p] = project[p]
         \/ \A k \in Helms : k # h /\ helm[k].kind \in {"save"} \cup Telling /\ helm[k].of = p =>
              ~ helm'[k].clean,
         ~ Exists(p)' \/ (Exists(p) /\ crew[p] \subseteq crew'[p]) \/ "crew" \in amiss'[p],
         RowKept(p)', HelmKept(h)'
  PROVE  (\A q \in ProjectIds : RowKept(q)') /\ (\A k \in Helms : HelmKept(k)')
<1>1. LifeTyped
  BY DEF LifeInv
<1>2. ASSUME NEW q \in ProjectIds, q # p PROVE RowKept(q)'
  <2>1. RowKept(q)
    BY DEF LifeInv
  <2>2. \A k \in Helms : helm[k].kind \in {"crew"} \cup Telling /\ helm[k].of = q => k # h
    BY <1>2
  <2> QED
    BY <1>2, <2>1, <2>2, RowStays
<1>3. ASSUME NEW k \in Helms, k # h PROVE HelmKept(k)'
  <2>1. HelmKept(k) /\ StaysAt(helm[k], helm'[k])
    BY <1>3 DEF LifeInv
  <2>2. ASSUME NEW q, helm[k].kind \in OfProjects, q = helm[k].of
        PROVE  /\ project'[q] # NotYet /\ amiss[q] \subseteq amiss'[q]
               /\ project'[q] = project[q] \/ (helm[k].kind \in {"save"} \cup Telling => ~ helm'[k].clean)
               /\ ~ Exists(q)' \/ (Exists(q) /\ crew[q] \subseteq crew'[q]) \/ "crew" \in amiss'[q]
    <3>1. CASE q = p
      BY <1>3, <2>2, <3>1
    <3>2. CASE q # p
      <4>1. q \in ProjectIds /\ project[q] # NotYet
        BY <1>1, <2>1, <2>2, CourseOf DEF LifeTyped, CourseIs, HelmKept
      <4>2. Exists(q)' = Exists(q)
        BY <3>2, <4>1 DEF Exists
      <4> QED
        BY <3>2, <4>1, <4>2
    <3> QED
      BY <3>1, <3>2
  <2> QED
    BY <1>1, <2>1, <2>2, HelmStays
<1> QED
  BY <1>2, <1>3

LEMMA RowOf ==
  ASSUME LifeTyped, NEW p \in ProjectIds, Exists(p)
  PROVE  project[p] \in ProjectRow /\ project[p] # NotYet /\ project[p] # Deleted
BY DEF LifeTyped, Exists, NotYet, Deleted, LifeStates

LEMMA RowsExist ==
  ASSUME NEW p, project'[p] \in ProjectRow
  PROVE  Exists(p)' /\ project'[p] # NotYet /\ project'[p] # Deleted
BY DEF Exists, ProjectRow, NotYet, Deleted, LifeStates

LEMMA DraftKeeps ==
  ASSUME LifeInv, NEW h \in Helms, NEW p \in ProjectIds, DraftProject(h, p)
  PROVE  LifeInv'
<1>1. LifeTyped /\ RowKept(p)
  BY DEF LifeInv
<1>2. PICK s \in LifeStates, titles \in SUBSET {"owner", "editor"} :
        /\ "owner" \in titles
        /\ project' = [project EXCEPT ![p] = [status |-> s, visibility |-> Unset]]
        /\ meant' = [meant EXCEPT ![p] = s]
        /\ Turns(h, [kind |-> "crew", of |-> p, roles |-> titles])
  BY DEF DraftProject
<1>3. PICK r \in Courses : r = [kind |-> "crew", of |-> p, roles |-> titles]
  BY DEF Courses
<1>4. /\ helm' \in [Helms -> Courses] /\ helm'[h] = r
      /\ \A k \in Helms : k # h => StaysAt(helm[k], helm'[k])
  BY <1>1, <1>2, <1>3, OthersStay
<1>5. /\ UNCHANGED <<crew, wish, told, farewell, amiss>> /\ rounds' \in 0 .. MaxRounds
      /\ project[p] = NotYet /\ helm[h].kind \notin {"crew"} \cup Telling
  BY <1>1 DEF DraftProject, TakesOn, LifeTyped, Adrift, Telling
<1>6. project'[p] = [status |-> s, visibility |-> Unset] /\ project'[p] \in ProjectRow
  BY <1>1, <1>2 DEF LifeTyped, ProjectRow
<1>7. Exists(p)' /\ project'[p] # NotYet /\ project'[p] # Deleted
  BY <1>6, RowsExist
<1>8. ~ Exists(p)
  BY <1>5 DEF Exists, NotYet, LifeStates
<1>9. RowKept(p)'
  <2>1. told'[p] = Unset /\ meant'[p] = s
    BY <1>1, <1>2, <1>5 DEF RowKept, LifeTyped
  <2>2. At({"crew"}, p)'
    BY <1>3, <1>4 DEF At
  <2> QED
    BY <1>6, <1>7, <2>1, <2>2 DEF RowKept
<1>10. HelmKept(h)'
  BY <1>2, <1>3, <1>4, <1>7 DEF HelmKept, Undisturbed, Founding, Telling
<1>11. \A k \in Helms : helm[k].kind \in OfProjects => helm[k].of # p
  BY <1>5 DEF LifeInv, HelmKept
<1>12. (\A q \in ProjectIds : RowKept(q)') /\ (\A k \in Helms : HelmKept(k)')
  <2>1. ASSUME NEW q \in ProjectIds, q # p PROVE RowKept(q)'
    <3>1. RowKept(q) /\ project'[q] = project[q] /\ meant'[q] = meant[q]
      BY <1>1, <1>2, <2>1 DEF LifeInv, LifeTyped
    <3>2. \A k \in Helms : helm[k].kind \in {"crew"} \cup Telling => k # h
      BY <1>5
    <3> QED
      BY <1>4, <1>5, <3>1, <3>2, RowStays
  <2>2. ASSUME NEW k \in Helms, k # h PROVE HelmKept(k)'
    <3>1. HelmKept(k) /\ StaysAt(helm[k], helm'[k])
      BY <1>4, <2>2 DEF LifeInv
    <3>2. ASSUME NEW q, helm[k].kind \in OfProjects, q = helm[k].of
          PROVE  project'[q] = project[q] /\ project[q] # NotYet /\ Exists(q)' = Exists(q)
      BY <1>2, <1>11, <3>1, <3>2 DEF HelmKept, Exists
    <3> QED
      BY <1>1, <1>5, <3>1, <3>2, HelmStays
  <2> QED
    BY <1>9, <1>10, <2>1, <2>2
<1>13. LifeTyped'
  <2>1. project' \in [ProjectIds -> {NotYet, Deleted} \cup ProjectRow]
    BY <1>1, <1>2, <1>6 DEF LifeTyped
  <2>2. \A q \in ProjectIds : Exists(q) => Exists(q)'
    BY <1>1, <1>2, <1>7 DEF LifeTyped, Exists
  <2>3. meant' \in [ProjectIds -> LifeStates \cup {"none"}]
    BY <1>1, <1>2 DEF LifeTyped
  <2> QED
    BY <1>1, <1>4, <1>5, <2>1, <2>2, <2>3 DEF LifeTyped
<1> QED
  BY <1>12, <1>13 DEF LifeInv

LEMMA AddFounderKeeps ==
  ASSUME LifeInv, NEW h \in Helms, AddFounder(h)
  PROVE  LifeInv'
<1>1. LifeTyped /\ helm[h].kind = "crew" /\ helm[h] \in Courses /\ HelmKept(h)
  BY DEF LifeInv, AddFounder, LifeTyped
<1>2. PICK p \in ProjectIds, titles \in SUBSET {"owner", "editor"} :
        p = helm[h].of /\ titles = helm[h].roles
  BY <1>1, CourseOf DEF CourseIs, OfProjects
<1>3. RowKept(p)
  BY DEF LifeInv
<1>4. PICK role, rest :
        /\ role = IF "owner" \in titles THEN "owner" ELSE "editor"
        /\ rest = titles \ {role}
  OBVIOUS
<1>5. /\ crew' = IF Exists(p) THEN [crew EXCEPT ![p] = @ \cup {role}] ELSE crew
      /\ Turns(h, IF Exists(p) /\ rest # {} THEN [helm[h] EXCEPT !.roles = rest] ELSE Adrift)
      /\ UNCHANGED <<project, wish, told, farewell, meant, amiss, rounds>>
  BY <1>2, <1>4 DEF AddFounder
<1>6. PICK r \in Courses :
        /\ Turns(h, r)
        /\ \/ r = Adrift
           \/ Exists(p) /\ r.kind = "crew" /\ r.of = p /\ r.roles = rest
  <2>1. helm[h] \in [kind : {"crew"}, of : ProjectIds, roles : SUBSET {"owner", "editor"}]
    BY <1>1 DEF Courses, Adrift
  <2>2. [helm[h] EXCEPT !.roles = rest]
          \in [kind : {"crew"}, of : ProjectIds, roles : SUBSET {"owner", "editor"}]
    BY <2>1, <1>2, <1>4
  <2>3. [helm[h] EXCEPT !.roles = rest] \in Courses
    BY <2>2 DEF Courses
  <2>4. /\ [helm[h] EXCEPT !.roles = rest].kind = "crew" /\ [helm[h] EXCEPT !.roles = rest].of = p
        /\ [helm[h] EXCEPT !.roles = rest].roles = rest
    BY <2>1, <1>2
  <2>5. CASE Exists(p) /\ rest # {}
    BY <1>5, <2>3, <2>4, <2>5
  <2>6. CASE ~ (Exists(p) /\ rest # {})
    BY <1>5, <2>6 DEF Courses
  <2> QED
    BY <2>5, <2>6
<1>7. /\ helm' \in [Helms -> Courses] /\ helm'[h] = r
      /\ \A k \in Helms : k # h => StaysAt(helm[k], helm'[k])
  BY <1>1, <1>6, OthersStay
<1>8. /\ crew' \in [ProjectIds -> SUBSET {"owner", "editor"}]
      /\ Exists(p) => crew'[p] = crew[p] \cup {role}
      /\ ~ Exists(p) => crew' = crew
      /\ \A q \in ProjectIds : q # p => crew'[q] = crew[q]
  BY <1>1, <1>4, <1>5 DEF LifeTyped
<1>9. Exists(p) /\ "crew" \notin amiss[p] => "owner" \in crew'[p]
  BY <1>1, <1>2, <1>4, <1>8 DEF HelmKept, Founding
<1>10. Exists(p)' = Exists(p)
  BY <1>5 DEF Exists
<1>11. RowKept(p)'
  <2>1. ASSUME NEW k \in Helms, Owes(helm[k], p) PROVE Owes(helm[k], p)'
    <3>1. k # h
      BY <1>1, <2>1 DEF Owes, Telling
    <3> QED
      BY <1>5, <1>7, <2>1, <3>1 DEF Owes, StaysAt, OfProjects, Telling
  <2> QED
    BY <1>3, <1>5, <1>9, <1>10, <2>1 DEF RowKept
<1>12. HelmKept(h)'
  <2>1. CASE r = Adrift
    BY <1>7, <2>1 DEF HelmKept, Adrift, OfProjects, Undisturbed, Founding
  <2>2. CASE Exists(p) /\ r.kind = "crew" /\ r.of = p
    BY <1>1, <1>2, <1>5, <1>7, <1>9, <2>2 DEF HelmKept, Undisturbed, Founding, OfProjects
  <2> QED
    BY <1>6, <2>1, <2>2
<1>13. (\A q \in ProjectIds : RowKept(q)') /\ (\A k \in Helms : HelmKept(k)')
  <2>1. project[p] # NotYet
    BY <1>1, <1>2 DEF HelmKept, OfProjects
  <2>2. ~ Exists(p)' \/ (Exists(p) /\ crew[p] \subseteq crew'[p])
    BY <1>8, <1>10
  <2> QED
    BY <1>2, <1>5, <1>7, <1>8, <1>11, <1>12, <2>1, <2>2, OneProject
<1>14. LifeTyped'
  <2>1. \A q \in ProjectIds : ~ Exists(q)' => crew'[q] = {}
    BY <1>1, <1>5, <1>8 DEF LifeTyped, Exists
  <2> QED
    BY <1>1, <1>5, <1>7, <1>8, <2>1 DEF LifeTyped, Exists
<1> QED
  BY <1>13, <1>14 DEF LifeInv

LEMMA OwersStay ==
  ASSUME NEW h \in Helms, NEW p, ~ Owes(helm[h], p),
         \A k \in Helms : k # h => StaysAt(helm[k], helm'[k]),
         project'[p].visibility = project[p].visibility,
         \E k \in Helms : Owes(helm[k], p)
  PROVE  (\E k \in Helms : Owes(helm[k], p))'
<1>1. PICK k \in Helms : Owes(helm[k], p)
  OBVIOUS
<1>2. Owes(helm[k], p)'
  BY <1>1 DEF Owes, StaysAt, OfProjects, Telling
<1> QED
  BY <1>2

LEMMA FoundersStay ==
  ASSUME NEW h \in Helms, NEW p, helm[h].kind # "crew",
         \A k \in Helms : k # h => StaysAt(helm[k], helm'[k]), At({"crew"}, p)
  PROVE  At({"crew"}, p)'
<1>1. PICK k \in Helms : helm[k].kind = "crew" /\ helm[k].of = p
  BY DEF At
<1>2. helm'[k].kind = "crew" /\ helm'[k].of = p
  BY <1>1 DEF StaysAt, OfProjects
<1> QED
  BY <1>2 DEF At

LEMMA SaveProjectKeeps ==
  ASSUME LifeInv, NEW h \in Helms, SaveProject(h)
  PROVE  LifeInv'
<1>1. LifeTyped /\ helm[h].kind = "save" /\ helm[h] \in Courses /\ HelmKept(h)
  BY DEF LifeInv, SaveProject, LifeTyped
<1>0. PICK x : x = helm[h]
  OBVIOUS
<1>2. PICK p \in ProjectIds, row \in ProjectRow :
        /\ x = helm[h] /\ p = x.of /\ row = x.row /\ x.new \in SUBSET Visibilities
        /\ x.clean \in BOOLEAN
  BY <1>0, <1>1, CourseOf DEF CourseIs, OfProjects, Telling
<1>3. RowKept(p)
  BY DEF LifeInv
<1>4. /\ project' = [project EXCEPT ![p] = row]
      /\ meant' = IF x.named THEN [meant EXCEPT ![p] = row.status] ELSE meant
      /\ amiss' = IF x.clean THEN amiss
                  ELSE [amiss EXCEPT ![p] = @ \cup {"status", "visibility"}
                                                \cup IF Exists(p) THEN {} ELSE {"crew"}]
      /\ Wrote(h, AfterSave(x), p)
      /\ UNCHANGED <<crew, wish, told, farewell, rounds>>
  BY <1>2 DEF SaveProject
<1>5. PICK r \in Courses :
        /\ r = AfterSave(x)
        /\ r = Adrift \/ (r.kind = "settings" /\ r.of = p /\ r.old = row.visibility)
  <2>1. CASE x.new = {}
    BY <2>1 DEF AfterSave, Courses
  <2>2. CASE x.new # {}
    <3>1. AfterSave(x) = [kind |-> "settings", of |-> p, clean |-> TRUE,
                          old |-> row.visibility, new |-> x.new]
      BY <1>2, <2>2 DEF AfterSave
    <3>2. row.visibility \in Visibilities
      BY DEF ProjectRow
    <3>3. AfterSave(x) \in [kind : {"settings"}, of : ProjectIds, clean : BOOLEAN,
                            old : Visibilities, new : SUBSET Visibilities]
      BY <1>2, <3>1, <3>2
    <3>4. AfterSave(x) \in Courses
      BY <3>3 DEF Courses
    <3> QED
      BY <3>1, <3>4
  <2> QED
    BY <2>1, <2>2
<1>6. /\ helm' \in [Helms -> Courses] /\ helm'[h] = r
      /\ \A k \in Helms : k # h => StaysAt(helm[k], helm'[k])
      /\ \A k \in Helms : k # h /\ helm[k].kind \in {"save"} \cup Telling /\ helm[k].of = p =>
           ~ helm'[k].clean
  BY <1>1, <1>4, <1>5, OthersAfter
<1>7. /\ project'[p] = row /\ \A q \in ProjectIds : q # p => project'[q] = project[q]
      /\ project' \in [ProjectIds -> {NotYet, Deleted} \cup ProjectRow]
  BY <1>1, <1>4 DEF LifeTyped
<1>8. Exists(p)' /\ row # NotYet /\ row # Deleted
  BY <1>7, RowsExist
<1>9. /\ meant'[p] = IF x.named THEN row.status ELSE meant[p]
      /\ \A q \in ProjectIds : q # p => meant'[q] = meant[q]
      /\ meant' \in [ProjectIds -> LifeStates \cup {"none"}]
  BY <1>1, <1>4 DEF LifeTyped, ProjectRow
<1>10. /\ amiss'[p] = IF x.clean THEN amiss[p]
                      ELSE amiss[p] \cup {"status", "visibility"}
                                    \cup IF Exists(p) THEN {} ELSE {"crew"}
       /\ \A q \in ProjectIds : q # p => amiss'[q] = amiss[q]
       /\ amiss' \in [ProjectIds -> SUBSET Spoilt]
  BY <1>1, <1>4 DEF LifeTyped, Spoilt
<1>11. x.clean => /\ Exists(p) /\ row.visibility = project[p].visibility
                  /\ x.named \/ row.status = project[p].status
  BY <1>1, <1>2 DEF HelmKept, Undisturbed
<1>12. RowKept(p)'
  <2>1. "status" \notin amiss'[p] => row.status = meant'[p]
    BY <1>3, <1>9, <1>10, <1>11 DEF RowKept
  <2>2. ASSUME "visibility" \notin amiss'[p], row.visibility # told'[p]
        PROVE  (\E k \in Helms : Owes(helm[k], p))'
    <3>1. x.clean /\ "visibility" \notin amiss[p]
      BY <1>10, <2>2
    <3>2. \E k \in Helms : Owes(helm[k], p)
      BY <1>3, <1>4, <1>11, <2>2, <3>1 DEF RowKept
    <3>3. ~ Owes(helm[h], p) /\ project'[p].visibility = project[p].visibility
      BY <1>1, <1>7, <1>11, <3>1 DEF Owes, Telling
    <3> QED
      BY <1>6, <3>2, <3>3, OwersStay
  <2>3. ASSUME "crew" \notin amiss'[p], "owner" \notin crew'[p] PROVE At({"crew"}, p)'
    <3>1. Exists(p) /\ "crew" \notin amiss[p]
      BY <1>10, <1>11, <2>3
    <3>2. At({"crew"}, p)
      BY <1>3, <1>4, <2>3, <3>1 DEF RowKept
    <3> QED
      BY <1>1, <1>6, <3>2, FoundersStay
  <2> QED
    BY <1>7, <1>8, <2>1, <2>2, <2>3 DEF RowKept
<1>13. HelmKept(h)'
  <2>1. CASE r = Adrift
    BY <1>6, <2>1 DEF HelmKept, Adrift, OfProjects, Undisturbed, Founding
  <2>2. CASE r.kind = "settings" /\ r.of = p /\ r.old = row.visibility
    BY <1>6, <1>7, <1>8, <2>2 DEF HelmKept, Undisturbed, Founding, OfProjects
  <2> QED
    BY <1>5, <2>1, <2>2
<1>14. (\A q \in ProjectIds : RowKept(q)') /\ (\A k \in Helms : HelmKept(k)')
  <2>1. ~ Exists(p)' \/ (Exists(p) /\ crew[p] \subseteq crew'[p]) \/ "crew" \in amiss'[p]
    BY <1>4, <1>10, <1>11
  <2> QED
    BY <1>1, <1>2, <1>4, <1>6, <1>7, <1>8, <1>9, <1>10, <1>12, <1>13, <2>1, OneProject
<1>15. LifeTyped'
  <2>1. \A q \in ProjectIds : Exists(q) => Exists(q)'
    BY <1>7, <1>8 DEF Exists
  <2> QED
    BY <1>1, <1>4, <1>6, <1>7, <1>9, <1>10, <2>1 DEF LifeTyped
<1> QED
  BY <1>14, <1>15 DEF LifeInv

LEMMA SaveSettingsKeeps ==
  ASSUME LifeInv, NEW h \in Helms, SaveSettings(h)
  PROVE  LifeInv'
<1>1. LifeTyped /\ helm[h].kind = "settings" /\ helm[h] \in Courses /\ HelmKept(h)
  BY DEF LifeInv, SaveSettings, LifeTyped
<1>0. PICK x : x = helm[h]
  OBVIOUS
<1>2. PICK p \in ProjectIds :
        /\ x = helm[h] /\ p = x.of /\ x.new \in SUBSET Visibilities
        /\ x.clean \in BOOLEAN /\ x.old \in Visibilities
  BY <1>0, <1>1, CourseOf DEF CourseIs, OfProjects, Telling
<1>3. RowKept(p)
  BY DEF LifeInv
<1>4. UNCHANGED <<crew, wish, told, farewell, rounds, meant>>
  BY DEF SaveSettings
<1>5. CASE /\ ~ Exists(p) /\ Turns(h, Adrift) /\ UNCHANGED <<project, amiss>>
  <2>1. /\ helm' \in [Helms -> Courses] /\ helm'[h] = Adrift
        /\ \A k \in Helms : k # h => StaysAt(helm[k], helm'[k])
    BY <1>1, <1>5, AdriftIsQuiet, OthersStay
  <2>2. ~ Exists(p)'
    BY <1>5 DEF Exists
  <2>3. RowKept(p)'
    BY <1>3, <1>4, <1>5, <2>2 DEF RowKept
  <2>4. HelmKept(h)'
    BY <2>1 DEF HelmKept, Adrift, OfProjects, Undisturbed, Founding
  <2>5. project[p] # NotYet
    BY <1>1, <1>2 DEF HelmKept, OfProjects
  <2>6. (\A q \in ProjectIds : RowKept(q)') /\ (\A k \in Helms : HelmKept(k)')
    BY <1>2, <1>4, <1>5, <2>1, <2>2, <2>3, <2>4, <2>5, OneProject
  <2> QED
    BY <1>1, <1>4, <1>5, <2>1, <2>6 DEF LifeInv, LifeTyped, Exists
<1>6. ASSUME NEW v \in x.new, Exists(p), project' = [project EXCEPT ![p].visibility = v],
             amiss' = IF x.clean THEN amiss ELSE [amiss EXCEPT ![p] = @ \cup {"visibility"}],
             Wrote(h, [kind |-> "reread", of |-> p, clean |-> TRUE, old |-> x.old], p)
      PROVE  LifeInv'
  <2>1. PICK r \in Courses : r = [kind |-> "reread", of |-> p, clean |-> TRUE, old |-> x.old]
    BY <1>2 DEF Courses
  <2>2. /\ helm' \in [Helms -> Courses] /\ helm'[h] = r
        /\ \A k \in Helms : k # h => StaysAt(helm[k], helm'[k])
        /\ \A k \in Helms : k # h /\ helm[k].kind \in {"save"} \cup Telling /\ helm[k].of = p =>
             ~ helm'[k].clean
    BY <1>1, <1>6, <2>1, OthersAfter
  <2>3. project[p] \in ProjectRow
    BY <1>1, <1>6, RowOf
  <2>4. /\ project'[p] = [project[p] EXCEPT !.visibility = v]
        /\ \A q \in ProjectIds : q # p => project'[q] = project[q]
    BY <1>1, <1>6 DEF LifeTyped
  <2>5. /\ project'[p] \in ProjectRow /\ project'[p].visibility = v
        /\ project'[p].status = project[p].status
    BY <1>2, <2>3, <2>4 DEF ProjectRow
  <2>6. Exists(p)' /\ project'[p] # NotYet /\ project'[p] # Deleted
    BY <2>5, RowsExist
  <2>7. /\ amiss'[p] = IF x.clean THEN amiss[p] ELSE amiss[p] \cup {"visibility"}
        /\ \A q \in ProjectIds : q # p => amiss'[q] = amiss[q]
        /\ amiss' \in [ProjectIds -> SUBSET Spoilt]
    BY <1>1, <1>6 DEF LifeTyped, Spoilt
  <2>8. RowKept(p)'
    <3>1. "status" \notin amiss'[p] => project'[p].status = meant'[p]
      BY <1>3, <1>4, <1>6, <2>5, <2>7 DEF RowKept
    <3>2. ASSUME "visibility" \notin amiss'[p], v # told'[p]
          PROVE  (\E k \in Helms : Owes(helm[k], p))'
      <4>1. x.clean /\ "visibility" \notin amiss[p]
        BY <2>7, <3>2
      <4>2. x.old = project[p].visibility
        BY <1>1, <1>2, <4>1 DEF HelmKept, Undisturbed
      <4>3. CASE v = x.old
        <5>1. \E k \in Helms : Owes(helm[k], p)
          BY <1>3, <1>4, <1>6, <3>2, <4>1, <4>2, <4>3 DEF RowKept
        <5>2. ~ Owes(helm[h], p)
          BY <1>1 DEF Owes
        <5>3. project'[p].visibility = project[p].visibility
          BY <2>5, <4>2, <4>3
        <5> QED
          BY <2>2, <5>1, <5>2, <5>3, OwersStay
      <4>4. CASE v # x.old
        <5>1. Owes(helm[h], p)'
          BY <2>1, <2>2, <2>5, <4>4 DEF Owes, Telling
        <5> QED
          BY <5>1
      <4> QED
        BY <4>3, <4>4
    <3>3. ASSUME "crew" \notin amiss'[p], "owner" \notin crew'[p] PROVE At({"crew"}, p)'
      <4>1. At({"crew"}, p)
        BY <1>3, <1>4, <1>6, <2>7, <3>3 DEF RowKept
      <4> QED
        BY <1>1, <2>2, <4>1, FoundersStay
    <3> QED
      BY <2>5, <2>6, <3>1, <3>2, <3>3 DEF RowKept
  <2>9. HelmKept(h)'
    BY <2>1, <2>2, <2>6 DEF HelmKept, Undisturbed, Founding, OfProjects
  <2>10. (\A q \in ProjectIds : RowKept(q)') /\ (\A k \in Helms : HelmKept(k)')
    BY <1>2, <1>4, <1>6, <2>2, <2>4, <2>6, <2>7, <2>8, <2>9, OneProject
  <2>11. LifeTyped'
    <3>1. \A q \in ProjectIds : Exists(q) => Exists(q)'
      BY <2>4, <2>6 DEF Exists
    <3>2. project' \in [ProjectIds -> {NotYet, Deleted} \cup ProjectRow]
      BY <1>1, <1>6, <2>4, <2>5 DEF LifeTyped
    <3> QED
      BY <1>1, <1>4, <2>2, <2>7, <3>1, <3>2 DEF LifeTyped
  <2> QED
    BY <2>10, <2>11 DEF LifeInv
<1> QED
  BY <1>2, <1>5, <1>6 DEF SaveSettings

LEMMA RereadProjectKeeps ==
  ASSUME LifeInv, NEW h \in Helms, RereadProject(h)
  PROVE  LifeInv'
<1>1. LifeTyped /\ helm[h].kind = "reread" /\ helm[h] \in Courses /\ HelmKept(h)
  BY DEF LifeInv, RereadProject, LifeTyped
<1>0. PICK x : x = helm[h]
  OBVIOUS
<1>2. PICK p \in ProjectIds :
        x = helm[h] /\ p = x.of /\ x.clean \in BOOLEAN /\ x.old \in Visibilities
  BY <1>0, <1>1, CourseOf DEF CourseIs, OfProjects, Telling
<1>3. RowKept(p) /\ project[p] # NotYet
  BY <1>1, <1>2 DEF LifeInv, HelmKept, OfProjects
<1>4. UNCHANGED <<project, crew, wish, told, farewell, rounds, meant, amiss>>
  BY DEF RereadProject
<1>5. PICK r \in Courses :
        /\ Turns(h, r)
        /\ IF Exists(p) /\ project[p].visibility # x.old
           THEN r.kind = "tell" /\ r.of = p /\ r.clean = x.clean /\ r.new = project[p].visibility
           ELSE r = Adrift
  <2>1. CASE Exists(p) /\ project[p].visibility # x.old
    <3>1. project[p].visibility \in Visibilities
      BY <1>1, <2>1, RowOf DEF ProjectRow
    <3>2. PICK r : r = [kind |-> "tell", of |-> p, clean |-> x.clean,
                        new |-> project[p].visibility]
      OBVIOUS
    <3>3. r \in [kind : {"tell"}, of : ProjectIds, clean : BOOLEAN, new : Visibilities]
      BY <1>2, <3>1, <3>2
    <3>4. Turns(h, r)
      BY <1>2, <2>1, <3>2 DEF RereadProject
    <3>5. r \in Courses
      BY <3>3 DEF Courses
    <3> QED
      BY <2>1, <3>2, <3>4, <3>5
  <2>2. CASE ~ (Exists(p) /\ project[p].visibility # x.old)
    <3>1. Turns(h, Adrift)
      BY <1>2, <2>2 DEF RereadProject
    <3> QED
      BY <2>2, <3>1, AdriftIsQuiet
  <2> QED
    BY <2>1, <2>2
<1>6. /\ helm' \in [Helms -> Courses] /\ helm'[h] = r
      /\ \A k \in Helms : k # h => StaysAt(helm[k], helm'[k])
  BY <1>1, <1>5, OthersStay
<1>7. Exists(p)' = Exists(p)
  BY <1>4 DEF Exists
<1>8. RowKept(p)'
  <2>1. ASSUME Exists(p), "visibility" \notin amiss[p], project[p].visibility # told[p]
        PROVE  (\E k \in Helms : Owes(helm[k], p))'
    <3>1. \E k \in Helms : Owes(helm[k], p)
      BY <1>3, <2>1 DEF RowKept
    <3>2. CASE project[p].visibility # x.old
      <4>1. Owes(helm[h], p)'
        BY <1>5, <1>6, <2>1, <3>2 DEF Owes, Telling
      <4> QED
        BY <4>1
    <3>3. CASE project[p].visibility = x.old
      <4>1. ~ Owes(helm[h], p)
        BY <1>1, <1>2, <3>3 DEF Owes
      <4> QED
        BY <1>4, <1>6, <3>1, <4>1, OwersStay
    <3> QED
      BY <3>2, <3>3
  <2>2. At({"crew"}, p) => At({"crew"}, p)'
    BY <1>1, <1>6, FoundersStay
  <2> QED
    BY <1>3, <1>4, <1>7, <2>1, <2>2 DEF RowKept
<1>9. HelmKept(h)'
  <2>1. CASE r = Adrift
    BY <1>6, <2>1 DEF HelmKept, Adrift, OfProjects, Undisturbed, Founding
  <2>2. CASE r # Adrift
    BY <1>3, <1>4, <1>5, <1>6, <2>2 DEF HelmKept, Undisturbed, Founding
  <2> QED
    BY <2>1, <2>2
<1>10. (\A q \in ProjectIds : RowKept(q)') /\ (\A k \in Helms : HelmKept(k)')
  <2>1. ~ Exists(p)' \/ (Exists(p) /\ crew[p] \subseteq crew'[p])
    BY <1>4, <1>7
  <2> QED
    BY <1>2, <1>3, <1>4, <1>6, <1>8, <1>9, <2>1, OneProject
<1> QED
  BY <1>1, <1>4, <1>6, <1>10 DEF LifeInv, LifeTyped, Exists

LEMMA TellVisibilityKeeps ==
  ASSUME LifeInv, NEW h \in Helms, TellVisibility(h)
  PROVE  LifeInv'
<1>1. LifeTyped /\ helm[h].kind = "tell" /\ helm[h] \in Courses /\ HelmKept(h)
  BY DEF LifeInv, TellVisibility, LifeTyped
<1>0. PICK x : x = helm[h]
  OBVIOUS
<1>2. PICK p \in ProjectIds :
        x = helm[h] /\ p = x.of /\ x.clean \in BOOLEAN /\ x.new \in Visibilities
  BY <1>0, <1>1, CourseOf DEF CourseIs, OfProjects, Telling
<1>3. RowKept(p) /\ project[p] # NotYet
  BY <1>1, <1>2 DEF LifeInv, HelmKept, OfProjects
<1>4. /\ UNCHANGED <<project, crew, wish, farewell, rounds, meant>>
      /\ told' = [told EXCEPT ![p] = x.new] /\ Turns(h, Adrift)
      /\ amiss' = IF x.clean THEN amiss ELSE [amiss EXCEPT ![p] = @ \cup {"visibility"}]
  BY <1>2 DEF TellVisibility
<1>5. /\ helm' \in [Helms -> Courses] /\ helm'[h] = Adrift
      /\ \A k \in Helms : k # h => StaysAt(helm[k], helm'[k])
  BY <1>1, <1>4, AdriftIsQuiet, OthersStay
<1>6. Exists(p)' = Exists(p)
  BY <1>4 DEF Exists
<1>7. /\ told' \in [ProjectIds -> Visibilities] /\ told'[p] = x.new
      /\ \A q \in ProjectIds : q # p => told'[q] = told[q]
  BY <1>1, <1>2, <1>4 DEF LifeTyped
<1>8. /\ amiss'[p] = IF x.clean THEN amiss[p] ELSE amiss[p] \cup {"visibility"}
      /\ \A q \in ProjectIds : q # p => amiss'[q] = amiss[q]
      /\ amiss' \in [ProjectIds -> SUBSET Spoilt]
  BY <1>1, <1>4 DEF LifeTyped, Spoilt
<1>9. RowKept(p)'
  <2>1. "visibility" \notin amiss'[p] => project[p].visibility = told'[p]
    BY <1>1, <1>2, <1>7, <1>8 DEF HelmKept, Undisturbed
  <2>2. At({"crew"}, p) => At({"crew"}, p)'
    BY <1>1, <1>5, FoundersStay
  <2> QED
    BY <1>3, <1>4, <1>6, <1>8, <2>1, <2>2 DEF RowKept
<1>10. HelmKept(h)'
  BY <1>5 DEF HelmKept, Adrift, OfProjects, Undisturbed, Founding
<1>11. (\A q \in ProjectIds : RowKept(q)') /\ (\A k \in Helms : HelmKept(k)')
  <2>1. ~ Exists(p)' \/ (Exists(p) /\ crew[p] \subseteq crew'[p])
    BY <1>4, <1>6
  <2> QED
    BY <1>2, <1>3, <1>4, <1>5, <1>7, <1>8, <1>9, <1>10, <2>1, OneProject
<1> QED
  BY <1>1, <1>4, <1>5, <1>7, <1>8, <1>11 DEF LifeInv, LifeTyped, Exists

LEMMA SaveStatusKeeps ==
  ASSUME LifeInv, NEW h \in Helms, SaveStatus(h)
  PROVE  LifeInv'
<1>1. LifeTyped /\ helm[h].kind = "status" /\ helm[h] \in Courses /\ HelmKept(h)
  BY DEF LifeInv, SaveStatus, LifeTyped
<1>2. PICK p \in ProjectIds, s \in LifeStates : p = helm[h].of /\ s = helm[h].to
  BY <1>1, CourseOf DEF CourseIs, OfProjects, LifeStates
<1>3. RowKept(p) /\ project[p] # NotYet
  BY <1>1, <1>2 DEF LifeInv, HelmKept, OfProjects
<1>4. UNCHANGED <<crew, wish, told, farewell, rounds, amiss>>
  BY DEF SaveStatus
<1>5. CASE ~ Exists(p) /\ Turns(h, Adrift) /\ UNCHANGED <<project, meant>>
  <2>1. helm[h].kind \notin {"crew"} \cup Telling /\ Adrift.kind = "adrift"
    BY <1>1 DEF Telling, Adrift
  <2>2. \A w \in Wishes : wish'[w] # NoWish => wish[w] # NoWish /\ wish'[w].of = wish[w].of
    BY <1>4
  <2>3. /\ farewell' \subseteq ProjectIds /\ rounds' \in 0 .. MaxRounds
        /\ wish' \in [Wishes -> {NoWish} \cup [state : {"open", "closed"}, of : ProjectIds]]
    BY <1>1, <1>4 DEF LifeTyped
  <2> QED
    BY <1>4, <1>5, <2>1, <2>2, <2>3, AdriftIsQuiet, QuietKeeps
<1>6. CASE /\ Exists(p) /\ project' = [project EXCEPT ![p].status = s]
           /\ meant' = [meant EXCEPT ![p] = s] /\ Wrote(h, Adrift, p)
  <2>1. /\ helm' \in [Helms -> Courses] /\ helm'[h] = Adrift
        /\ \A k \in Helms : k # h => StaysAt(helm[k], helm'[k])
        /\ \A k \in Helms : k # h /\ helm[k].kind \in {"save"} \cup Telling /\ helm[k].of = p =>
             ~ helm'[k].clean
    BY <1>1, <1>6, AdriftIsQuiet, OthersAfter
  <2>2. project[p] \in ProjectRow
    BY <1>1, <1>6, RowOf
  <2>3. /\ project'[p] = [project[p] EXCEPT !.status = s]
        /\ \A q \in ProjectIds : q # p => project'[q] = project[q]
    BY <1>1, <1>6 DEF LifeTyped
  <2>4. /\ project'[p] \in ProjectRow /\ project'[p].status = s
        /\ project'[p].visibility = project[p].visibility
    BY <2>2, <2>3 DEF ProjectRow
  <2>5. Exists(p)' /\ project'[p] # NotYet /\ project'[p] # Deleted
    BY <2>4, RowsExist
  <2>6. /\ meant'[p] = s /\ \A q \in ProjectIds : q # p => meant'[q] = meant[q]
        /\ meant' \in [ProjectIds -> LifeStates \cup {"none"}]
    BY <1>1, <1>6 DEF LifeTyped
  <2>7. RowKept(p)'
    <3>1. ASSUME "visibility" \notin amiss'[p], project'[p].visibility # told'[p]
          PROVE  (\E k \in Helms : Owes(helm[k], p))'
      <4>1. \E k \in Helms : Owes(helm[k], p)
        BY <1>3, <1>4, <1>6, <2>4, <3>1 DEF RowKept
      <4>2. ~ Owes(helm[h], p)
        BY <1>1 DEF Owes, Telling
      <4> QED
        BY <2>1, <2>4, <4>1, <4>2, OwersStay
    <3>2. ASSUME "crew" \notin amiss'[p], "owner" \notin crew'[p] PROVE At({"crew"}, p)'
      <4>1. At({"crew"}, p)
        BY <1>3, <1>4, <1>6, <3>2 DEF RowKept
      <4> QED
        BY <1>1, <2>1, <4>1, FoundersStay
    <3> QED
      BY <2>4, <2>5, <2>6, <3>1, <3>2 DEF RowKept
  <2>8. HelmKept(h)'
    BY <2>1 DEF HelmKept, Adrift, OfProjects, Undisturbed, Founding
  <2>9. (\A q \in ProjectIds : RowKept(q)') /\ (\A k \in Helms : HelmKept(k)')
    BY <1>1, <1>2, <1>4, <1>6, <2>1, <2>3, <2>5, <2>6, <2>7, <2>8, OneProject
  <2>10. LifeTyped'
    <3>1. \A q \in ProjectIds : Exists(q) => Exists(q)'
      BY <2>3, <2>5 DEF Exists
    <3>2. project' \in [ProjectIds -> {NotYet, Deleted} \cup ProjectRow]
      BY <1>1, <1>6, <2>3, <2>4 DEF LifeTyped
    <3> QED
      BY <1>1, <1>4, <2>1, <2>6, <3>1, <3>2 DEF LifeTyped
  <2> QED
    BY <2>9, <2>10 DEF LifeInv
<1> QED
  BY <1>2, <1>5, <1>6 DEF SaveStatus

LEMMA DeleteProjectKeeps ==
  ASSUME LifeInv, NEW h \in Helms, DeleteProject(h)
  PROVE  LifeInv'
<1>1. LifeTyped /\ helm[h].kind = "delete" /\ helm[h] \in Courses /\ HelmKept(h)
  BY DEF LifeInv, DeleteProject, LifeTyped
<1>2. PICK p \in ProjectIds : p = helm[h].of
  BY <1>1, CourseOf DEF CourseIs, OfProjects
<1>3. /\ project' = [project EXCEPT ![p] = Deleted] /\ crew' = [crew EXCEPT ![p] = {}]
      /\ wish' = [w \in Wishes |-> IF wish[w] # NoWish /\ wish[w].of = p THEN NoWish ELSE wish[w]]
      /\ Wrote(h, Adrift, p) /\ UNCHANGED <<told, farewell, meant, amiss, rounds>>
      /\ p \in farewell
  BY <1>1, <1>2 DEF DeleteProject, HelmKept
<1>4. /\ helm' \in [Helms -> Courses] /\ helm'[h] = Adrift
      /\ \A k \in Helms : k # h => StaysAt(helm[k], helm'[k])
      /\ \A k \in Helms : k # h /\ helm[k].kind \in {"save"} \cup Telling /\ helm[k].of = p =>
           ~ helm'[k].clean
  BY <1>1, <1>3, AdriftIsQuiet, OthersAfter
<1>5. /\ project'[p] = Deleted /\ \A q \in ProjectIds : q # p => project'[q] = project[q]
      /\ crew'[p] = {} /\ \A q \in ProjectIds : q # p => crew'[q] = crew[q]
  BY <1>1, <1>3 DEF LifeTyped
<1>6. ~ Exists(p)' /\ Deleted # NotYet
  BY <1>5 DEF Exists, Deleted, NotYet, LifeStates
<1>7. RowKept(p)' /\ HelmKept(h)'
  BY <1>3, <1>4, <1>5, <1>6 DEF RowKept, HelmKept, Adrift, OfProjects, Undisturbed, Founding
<1>8. (\A q \in ProjectIds : RowKept(q)') /\ (\A k \in Helms : HelmKept(k)')
  <2>1. helm[h].kind \notin {"crew"} \cup Telling
    BY <1>1 DEF Telling
  <2>2. /\ \A q \in ProjectIds : q # p =>
              /\ project'[q] = project[q] /\ crew'[q] = crew[q] /\ told'[q] = told[q]
              /\ meant'[q] = meant[q] /\ amiss'[q] = amiss[q]
        /\ farewell \subseteq farewell' /\ project'[p] # NotYet /\ amiss[p] \subseteq amiss'[p]
    BY <1>3, <1>5, <1>6
  <2> QED
    BY <1>4, <1>6, <1>7, <2>1, <2>2, OneProject
<1>9. LifeTyped'
  <2>1. \A q \in ProjectIds : q # p => Exists(q)' = Exists(q)
    BY <1>5 DEF Exists
  <2>2. \A q \in ProjectIds : ~ Exists(q)' => crew'[q] = {}
    BY <1>1, <1>5, <2>1 DEF LifeTyped
  <2>3. /\ wish' \in [Wishes -> {NoWish} \cup [state : {"open", "closed"}, of : ProjectIds]]
        /\ \A w \in Wishes : wish'[w] # NoWish =>
             wish[w] # NoWish /\ wish'[w] = wish[w] /\ wish[w].of # p /\ wish[w].of \in ProjectIds
    BY <1>1, <1>3 DEF LifeTyped
  <2>4. \A w \in Wishes : wish'[w] # NoWish => \A q \in ProjectIds : q = wish'[w].of => Exists(q)'
    BY <1>1, <2>1, <2>3 DEF LifeTyped
  <2>5. \A w \in Wishes : (wish[w] # NoWish => Exists(wish[w].of))'
    BY <2>3, <2>4 DEF Exists
  <2>6. /\ project' \in [ProjectIds -> {NotYet, Deleted} \cup ProjectRow]
        /\ crew' \in [ProjectIds -> SUBSET {"owner", "editor"}]
    BY <1>1, <1>3 DEF LifeTyped
  <2> QED
    BY <1>1, <1>3, <1>4, <2>2, <2>3, <2>5, <2>6 DEF LifeTyped
<1> QED
  BY <1>8, <1>9 DEF LifeInv

LEMMA AskForPeopleKeeps ==
  ASSUME LifeInv, NEW p \in ProjectIds, NEW w \in Wishes, AskForPeople(p, w)
  PROVE  LifeInv'
<1>1. LifeTyped
  BY DEF LifeInv
<1>2. /\ Exists(p) /\ wish' = [wish EXCEPT ![w] = [state |-> "open", of |-> p]]
      /\ UNCHANGED <<project, crew, told, farewell, helm, meant, amiss, rounds>>
  BY DEF AskForPeople
<1>3. \A q : Exists(q)' = Exists(q)
  BY <1>2 DEF Exists
<1>4. /\ wish' \in [Wishes -> {NoWish} \cup [state : {"open", "closed"}, of : ProjectIds]]
      /\ \A v \in Wishes : wish'[v] # NoWish => Exists(wish'[v].of)
  <2>1. ASSUME NEW v \in Wishes, v # w PROVE wish'[v] = wish[v]
    BY <1>1, <1>2, <2>1 DEF LifeTyped
  <2>2. wish'[w].of = p
    BY <1>1, <1>2 DEF LifeTyped
  <2>3. wish' \in [Wishes -> {NoWish} \cup [state : {"open", "closed"}, of : ProjectIds]]
    BY <1>1, <1>2 DEF LifeTyped
  <2> QED
    BY <1>1, <1>2, <2>1, <2>2, <2>3 DEF LifeTyped
<1>5. LifeTyped'
  BY <1>1, <1>2, <1>4 DEF LifeTyped, Exists
<1>6. \A q \in ProjectIds : RowKept(q)'
  BY <1>2, <1>3 DEF LifeInv, RowKept, Owes, At
<1>7. \A k \in Helms : HelmKept(k)'
  BY <1>2, <1>3 DEF LifeInv, HelmKept, Undisturbed, Founding, Exists
<1> QED
  BY <1>5, <1>6, <1>7 DEF LifeInv

LEMMA LifeCrashKeeps ==
  ASSUME LifeInv, LifeCrash
  PROVE  LifeInv'
<1>1. LifeTyped
  BY DEF LifeInv
<1>2. /\ helm' = [h \in Helms |-> Adrift]
      /\ UNCHANGED <<project, crew, wish, told, farewell, meant, rounds>>
  BY DEF LifeCrash
<1>3. \A p : Exists(p)' = Exists(p)
  BY <1>2 DEF Exists
<1>4. \A p \in ProjectIds :
        /\ amiss[p] \subseteq amiss'[p] /\ amiss'[p] \in SUBSET Spoilt
        /\ "status" \in amiss'[p] => "status" \in amiss[p]
        /\ At({"crew"}, p) => "crew" \in amiss'[p]
        /\ (\E h \in Helms : Owes(helm[h], p)) => "visibility" \in amiss'[p]
  <2> SUFFICES ASSUME NEW p \in ProjectIds
               PROVE  /\ amiss[p] \subseteq amiss'[p] /\ amiss'[p] \in SUBSET Spoilt
                      /\ "status" \in amiss'[p] => "status" \in amiss[p]
                      /\ At({"crew"}, p) => "crew" \in amiss'[p]
                      /\ (\E h \in Helms : Owes(helm[h], p)) => "visibility" \in amiss'[p]
    OBVIOUS
  <2>1. amiss'[p] = amiss[p] \cup {x \in {"crew", "visibility"} :
          \E h \in Helms : /\ helm[h].kind \in IF x = "crew" THEN {"crew"} ELSE Telling
                           /\ helm[h].of = p}
    BY DEF LifeCrash
  <2>2. At({"crew"}, p) => "crew" \in amiss'[p]
    BY <2>1 DEF At
  <2>3. (\E h \in Helms : Owes(helm[h], p)) => "visibility" \in amiss'[p]
    BY <2>1 DEF Owes
  <2>4. amiss'[p] \in SUBSET Spoilt
    BY <1>1, <2>1 DEF LifeTyped, Spoilt
  <2> QED
    BY <2>1, <2>2, <2>3, <2>4
<1>5. amiss' = [p \in ProjectIds |-> amiss'[p]]
  BY DEF LifeCrash
<1>6. amiss' \in [ProjectIds -> SUBSET Spoilt] /\ helm' \in [Helms -> Courses]
  BY <1>2, <1>4, <1>5 DEF Courses
<1>7. LifeTyped'
  BY <1>1, <1>2, <1>6 DEF LifeTyped, Exists
<1>8. \A p \in ProjectIds : RowKept(p)'
  BY <1>2, <1>3, <1>4 DEF LifeInv, RowKept
<1>9. \A k \in Helms : HelmKept(k)'
  BY <1>2 DEF HelmKept, Adrift, OfProjects, Undisturbed, Founding
<1> QED
  BY <1>7, <1>8, <1>9 DEF LifeInv

LEMMA LifeStep == LifeInv /\ [LifeNext]_pvars => LifeInv'
<1> SUFFICES ASSUME LifeInv, [LifeNext]_pvars PROVE LifeInv'
  OBVIOUS
<1>1. CASE LifeNext
  BY <1>1, DraftKeeps, LoadKeeps, LoadForStatusKeeps, TellDeletionKeeps, AddFounderKeeps,
     SaveProjectKeeps, SaveSettingsKeeps, RereadProjectKeeps, TellVisibilityKeeps, SaveStatusKeeps,
     DeleteProjectKeeps, CloseWishKeeps, AskForPeopleKeeps, LoadWishKeeps, LifeCrashKeeps
     DEF LifeNext
<1>2. CASE UNCHANGED pvars
  BY <1>2 DEF pvars, LifeInv, LifeTyped, RowKept, HelmKept, Undisturbed, Founding, Owes, At, Exists
<1> QED
  BY <1>1, <1>2

LEMMA LifeInvTold == LifeInv => LifeTold
BY DEF LifeInv, RowKept, LifeTold, At, Owes

(* The rows, the members that creation gives, the requests for people and the       *)
(* threads are of their kinds whatever overlaps or dies, and nothing hangs off a     *)
(* project that is not there (ProjectListView, ProjectDetailView and the views of    *)
(* archiving, restoring and requests).                                               *)
THEOREM LifeTypeCorrect == LifeSpec => []LifeTyped
<1>1. LifeInv => LifeTyped
  BY DEF LifeInv
<1> QED
  BY <1>1, LifeBegins, LifeStep, PTL DEF LifeSpec

(* For any number of projects, threads and visibilities: a row says the status that  *)
(* was named last and the visibility that the trail tells last, and has its owner    *)
(* among the members, unless a PATCH whose row was written under it or a crash       *)
(* spoilt it; and no project is deleted before the trail tells it.                   *)
THEOREM LifeAlwaysTold == LifeSpec => []LifeTold
BY LifeBegins, LifeStep, LifeInvTold, PTL DEF LifeSpec

HIDE LifeAssumption

--------------------------------------------------------------------------------
(* The services together *)

(* The services share no variable: a step of one is a stuttering step of the others. *)
LEMMA OthersStandStill ==
  ASSUME [Next]_<<tvars, bvars, avars, cvars, qvars, svars, uvars, fvars, pvars, focus>>
  PROVE  /\ [TasksNext]_tvars /\ [BoardsNext]_bvars /\ [RunsNext]_avars /\ [RoomsNext]_cvars
         /\ [QuestionsNext]_qvars /\ [StorageNext]_svars /\ [AccountsNext]_uvars
         /\ [FeedsNext]_fvars /\ [LifeNext]_pvars
<1>1. TasksNext \/ UNCHANGED tvars
  BY Zenon DEF Next
<1>2. BoardsNext \/ UNCHANGED bvars
  BY Zenon DEF Next
<1>3. RunsNext \/ UNCHANGED avars
  BY Zenon DEF Next
<1>4. RoomsNext \/ UNCHANGED cvars
  BY Zenon DEF Next
<1>5. QuestionsNext \/ UNCHANGED qvars
  BY Zenon DEF Next
<1>6. StorageNext \/ UNCHANGED svars
  BY Zenon DEF Next, FilesMove, ProvidersMove
<1>7. AccountsNext \/ UNCHANGED uvars
  BY Zenon DEF Next
<1>8. FeedsNext \/ UNCHANGED fvars
  BY Zenon DEF Next
<1>9. LifeNext \/ UNCHANGED pvars
  BY Zenon DEF Next
<1> QED
  BY <1>1, <1>2, <1>3, <1>4, <1>5, <1>6, <1>7, <1>8, <1>9

(* Whatever the services do beside one another, each of them does what its own       *)
(* specification allows, the fair executions of AI runs included: what is proved of  *)
(* one alone holds of it among the others.                                           *)
THEOREM ServicesCompose ==
  Spec => /\ TasksSpec /\ BoardsSpec /\ RunsSpec /\ RoomsSpec /\ QuestionsSpec
          /\ StorageSpec /\ AccountsSpec /\ FeedsSpec /\ LifeSpec
<1>1. Init => /\ TasksInit /\ BoardsInit /\ RunsInit /\ RoomsInit /\ QuestionsInit
              /\ StorageInit /\ AccountsInit /\ FeedsInit /\ LifeInit
  BY DEF Init
<1>2. [Next]_<<tvars, bvars, avars, cvars, qvars, svars, uvars, fvars, pvars, focus>>
        => /\ [TasksNext]_tvars /\ [BoardsNext]_bvars /\ [RunsNext]_avars /\ [RoomsNext]_cvars
           /\ [QuestionsNext]_qvars /\ [StorageNext]_svars /\ [AccountsNext]_uvars
           /\ [FeedsNext]_fvars /\ [LifeNext]_pvars
  BY OthersStandStill
<1> QED
  BY <1>1, <1>2, PTL DEF Spec, TasksSpec, BoardsSpec, RunsSpec, RoomsSpec, QuestionsSpec,
     StorageSpec, AccountsSpec, FeedsSpec, LifeSpec

(* Beside one another the services keep their states what their handlers can write. *)
THEOREM ServicesTypeCorrect == Spec => []AllTyped
<1>1. TasksTyped /\ BoardsTyped /\ RunsTyped /\ RoomsTyped /\ QuestionsTyped /\ StorageTyped
        /\ AccountsTyped /\ FeedsTyped /\ LifeTyped => AllTyped
  BY Zenon DEF AllTyped
<1> QED
  BY <1>1, ServicesCompose, TasksTypeCorrect, BoardsTypeCorrect, RunsTypeCorrect,
     RoomsTypeCorrect, QuestionsTypeCorrect, StorageTypeCorrect, AccountsTypeCorrect,
     FeedsTypeCorrect, LifeTypeCorrect, PTL

(* Nor do they spoil one another's promises: all that is proved of the chats, the    *)
(* tasks, the runs, the files, the accounts, the lists and the projects, at once.    *)
THEOREM ServicesKeepPromises ==
  Spec => /\ [](StreamExplains /\ WalkExact /\ BoardsInOrder /\ RunTold /\ FeedExact)
          /\ [](OwnerRemains /\ RateKept /\ AnswersStand /\ LifeTold)
          /\ [](RowHasObject /\ DefaultSettles /\ RootsStay) /\ QuotaKept /\ PromotedStay
BY ServicesCompose, StreamAlwaysExplains, WalkAlwaysExact, BoardsStayInOrder, RunAlwaysTold,
   FeedAlwaysExact, AnOwnerRemains, RatesKept, AnswersAlwaysStand, LifeAlwaysTold,
   RowsHaveObjects, DefaultAlwaysSettles, RootsAlwaysStay, QuotaAlwaysKept, PromotedAlwaysStay, PTL

================================================================================
