------------------------------ MODULE DepartmentTeam ------------------------------
(***************************************************************************)
(* Who works in and who heads the departments of one organization          *)
(* (OrgUnitMember rows), the bundle of department-scoped grants that comes *)
(* with heading one, and the employees' career log.  Four groups of        *)
(* endpoints write the same rows: the company admin's lead endpoint, the   *)
(* org-units endpoint, the department workspace and the career service;    *)
(* each keeps its own subset of rows, bundle and log in step.              *)
(*                                                                         *)
(* The module is about sequences of complete requests: a request is one    *)
(* step, except that the workspace's removal revokes before it removes and *)
(* may stop in between.  What overlapping requests do to this read-then-   *)
(* write pattern is the subject of ProjectTeam.  writers, chosen at the    *)
(* start and never changed, names the kinds of request an organization     *)
(* uses; the code offers all of Kinds, and a property that only some of    *)
(* them keep says which.                                                   *)
(*                                                                         *)
(* Abstracted: positions, the audit trail, who may call what, and events   *)
(* that only narrate (transferred, left, position changed): the log is the *)
(* set of open spells that _close_prior_events closes.                     *)
(***************************************************************************)
CONSTANTS
  Users, SuperAdmins, Departments,
  Regimes   \* the values of writers

Kinds == {"admin_lead", "admin_clear", "org_units", "workspace_add",
          "workspace_remove", "assign", "transfer", "remove"}

ASSUME TeamConstants == SuperAdmins \subseteq Users /\ Regimes \subseteq SUBSET Kinds

\* Every writer but those of the career service that can appoint a second head.
Appointing == Kinds \ {"assign", "transfer"}
\* The writers that know of the head's bundle.
BundleKeepers == {"admin_lead", "admin_clear", "workspace_remove"}
\* The writers that change rows only through the career service.
CareerService == {"assign", "transfer", "remove", "workspace_remove"}

Seats == {"none", "member", "head"}     \* no row, is_lead false, is_lead true
Spells == {"joined", "led"}             \* the events that open a spell

VARIABLES
  writers,  \* the kinds of request in use
  seat,     \* seat[d][u]: u's OrgUnitMember row in d
  bundles,  \* <<u, d>>: u holds active grants noted as the bundle of d's head
  open      \* <<spell, u, d>>: an open joined_department or
            \* became_department_lead event

vars == <<writers, seat, bundles, open>>

Heads(d) == {u \in Users : seat[d][u] = "head"}
Staff(d) == {u \in Users : seat[d][u] # "none"}

As(lead) == IF lead THEN "head" ELSE "member"

\* The rows of a department after everyone but u stopped heading it.
OnlyHead(row, u) ==
  [v \in Users |-> IF v # u /\ row[v] = "head" THEN "member" ELSE row[v]]

--------------------------------------------------------------------------------
(* The career service, as it changes one employee's row and log *)

\* Mutant: stepping down does not close the spell as head.
AssignedSpells_StaysOpen(row, spells, u, d, lead) ==
  IF row[u] = "none"
  THEN spells \cup {<<"joined", u, d>>} \cup (IF lead THEN {<<"led", u, d>>} ELSE {})
  ELSE IF lead /\ row[u] # "head" THEN spells \cup {<<"led", u, d>>} ELSE spells

\* assign_to_department over rows and spells as they are: a new row opens its
\* spells; a changed is_lead opens or closes the spell as head.
AssignedSpells(row, spells, u, d, lead) ==
  IF row[u] = "none"
  THEN spells \cup {<<"joined", u, d>>} \cup (IF lead THEN {<<"led", u, d>>} ELSE {})
  ELSE IF lead THEN IF row[u] = "head" THEN spells ELSE spells \cup {<<"led", u, d>>}
       ELSE IF row[u] = "head" THEN spells \ {<<"led", u, d>>} ELSE spells

\* remove_from_department closes the joined spell, and the spell as head if the
\* row says the employee was one.
RemovedSpells(row, spells, u, d) ==
  spells \ ({<<"joined", u, d>>} \cup (IF row[u] = "head" THEN {<<"led", u, d>>} ELSE {}))

--------------------------------------------------------------------------------
(* Requests *)

\* Mutant: the previous heads keep is_lead.
AdminLead_KeepsHeads(u, d, new) ==
  \E prev \in IF Heads(d) = {} THEN {u} ELSE Heads(d) :
    /\ seat' = [seat EXCEPT ![d][u] = "head"]
    /\ bundles' = (bundles \ {<<prev, d>>, <<u, d>>}) \cup (IF new THEN {<<u, d>>} ELSE {})
    /\ UNCHANGED open

\* POST lead: the previous head's bundle is revoked, everyone else's is_lead
\* cleared, the user made head, their own earlier bundle revoked and the new one
\* issued.  When there are several heads, only the first one's bundle is.
AdminLead(u, d, new) ==
  \E prev \in IF Heads(d) = {} THEN {u} ELSE Heads(d) :
    /\ seat' = [seat EXCEPT ![d] = [OnlyHead(seat[d], u) EXCEPT ![u] = "head"]]
    /\ bundles' = (bundles \ {<<prev, d>>, <<u, d>>}) \cup (IF new THEN {<<u, d>>} ELSE {})
    /\ UNCHANGED open

\* Mutant: the head is cleared and the bundle left.
AdminClear_KeepsBundle(u, d) ==
  /\ seat[d][u] = "head"
  /\ seat' = [seat EXCEPT ![d][u] = "member"]
  /\ UNCHANGED <<bundles, open>>

\* DELETE lead, of the first head.
AdminClear(u, d) ==
  /\ seat[d][u] = "head"
  /\ seat' = [seat EXCEPT ![d][u] = "member"]
  /\ bundles' = bundles \ {<<u, d>>}
  /\ UNCHANGED open

\* POST /org-units/<pk>/members: clears is_lead of all others if the user is to
\* head the department; no bundle and no event.
OrgUnitsUpsert(u, d, lead) ==
  /\ seat' = [seat EXCEPT ![d] =
                [(IF lead THEN OnlyHead(seat[d], u) ELSE seat[d]) EXCEPT ![u] = As(lead)]]
  /\ UNCHANGED <<bundles, open>>

\* POST /departments/<pk>/employees: as AdminLead does if the user is to head the
\* department, then the career service; refused whole for a super admin.
WorkspaceAdd(u, d, lead) ==
  /\ u \notin SuperAdmins
  /\ \E prev \in IF lead /\ Heads(d) # {} THEN Heads(d) ELSE {u} :
       bundles' = IF prev = u THEN bundles ELSE bundles \ {<<prev, d>>}
  /\ seat' = [seat EXCEPT ![d] =
                [(IF lead THEN OnlyHead(seat[d], u) ELSE seat[d]) EXCEPT ![u] = As(lead)]]
  /\ open' = AssignedSpells(seat[d], open, u, d, lead)

\* DELETE /departments/<pk>/employees/<id>: a head's bundle is revoked first, in
\* transactions of its own; the removal after it may fail, and does for a super
\* admin.
WorkspaceRemove(u, d) ==
  /\ seat[d][u] # "none"
  /\ bundles' = IF seat[d][u] = "head" THEN bundles \ {<<u, d>>} ELSE bundles
  /\ \/ UNCHANGED <<seat, open>>
     \/ /\ u \notin SuperAdmins
        /\ seat' = [seat EXCEPT ![d][u] = "none"]
        /\ open' = RemovedSpells(seat[d], open, u, d)

\* POST /employees/<id>/assignments/org-unit, mode assign: the other heads of the
\* department and the bundles are not looked at.
CareerAssign(u, d, lead) ==
  /\ u \notin SuperAdmins
  /\ seat' = [seat EXCEPT ![d][u] = As(lead)]
  /\ open' = AssignedSpells(seat[d], open, u, d, lead)
  /\ UNCHANGED bundles

\* Mode transfer: removed from every other department first.
CareerTransfer(u, d, lead) ==
  LET others == {e \in Departments \ {d} : u \in Staff(e)}
      removed == {s \in open : \E e \in others :
                                 s \notin RemovedSpells(seat[e], open, u, e)}
  IN /\ u \notin SuperAdmins
     /\ seat' = [e \in Departments |->
                   IF e = d THEN [seat[e] EXCEPT ![u] = As(lead)]
                   ELSE [seat[e] EXCEPT ![u] = "none"]]
     /\ open' = AssignedSpells(seat[d], open \ removed, u, d, lead)
     /\ UNCHANGED bundles

\* DELETE /employees/<id>/assignments/org-unit/<id>.
CareerRemove(u, d) ==
  /\ u \notin SuperAdmins
  /\ seat[d][u] # "none"
  /\ seat' = [seat EXCEPT ![d][u] = "none"]
  /\ open' = RemovedSpells(seat[d], open, u, d)
  /\ UNCHANGED bundles

--------------------------------------------------------------------------------
Init ==
  /\ writers \in Regimes
  /\ seat = [d \in Departments |-> [u \in Users |-> "none"]]
  /\ bundles = {} /\ open = {}

Step ==
  \E u \in Users, d \in Departments :
    \/ "admin_clear" \in writers /\ AdminClear(u, d)
    \/ "workspace_remove" \in writers /\ WorkspaceRemove(u, d)
    \/ "remove" \in writers /\ CareerRemove(u, d)
    \/ \E flag \in BOOLEAN :
         \/ "admin_lead" \in writers /\ AdminLead(u, d, flag)
         \/ "org_units" \in writers /\ OrgUnitsUpsert(u, d, flag)
         \/ "workspace_add" \in writers /\ WorkspaceAdd(u, d, flag)
         \/ "assign" \in writers /\ CareerAssign(u, d, flag)
         \/ "transfer" \in writers /\ CareerTransfer(u, d, flag)

Next == Step /\ UNCHANGED writers

Spec == Init /\ [][Next]_vars

--------------------------------------------------------------------------------
(* Properties *)

\* Rows, bundles and spells are those of the organization's users and
\* departments.
TypeOK ==
  /\ writers \in Regimes
  /\ seat \in [Departments -> [Users -> Seats]]
  /\ bundles \in SUBSET (Users \X Departments)
  /\ open \in SUBSET (Spells \X Users \X Departments)

SingleHead == \A d \in Departments : \A u, v \in Heads(d) : u = v
BundleOfHead == \A b \in bundles : seat[b[2]][b[1]] = "head"
LogInStep ==
  \A u \in Users, d \in Departments :
    /\ <<"joined", u, d>> \in open <=> seat[d][u] # "none"
    /\ <<"led", u, d>> \in open <=> seat[d][u] = "head"

\* No sequence of the endpoints that clear the other heads first leaves a
\* department two.
OneHead == writers \subseteq Appointing => SingleHead

\* Among the writers that know of it, the bundle is in force only for the head it
\* was issued to, whoever heads the department in between.
BundleWithHead == writers \subseteq BundleKeepers => BundleOfHead

\* While rows are changed only through the career service, the open spells of the
\* career log say who works where and who heads what.
LogMatches == writers \subseteq CareerService => LogInStep

\* The documented rule of changing heads in the code: when one head takes over
\* from another, the bundle of the one before is revoked.
HandoverRevokes ==
  [][\A d \in Departments, u, v \in Users :
       /\ u \in Heads(d) /\ u \notin Heads(d)'
       /\ v \notin Heads(d) /\ v \in Heads(d)'
       => <<u, d>> \notin bundles']_vars
==================================================================================
