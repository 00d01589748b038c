----------------------------- MODULE AccessDecision -----------------------------
(***************************************************************************)
(* apps.access.resolver.has_permission for one user and one permission     *)
(* code: a decision taken over six statements, with no transaction around  *)
(* them, while administrators write denies, grants, templates and their    *)
(* assignments.  Rows of other users and codes are filtered out by every   *)
(* query and left out.  A row is written once and then only changes        *)
(* status; DenyIds, GrantIds and AssignmentIds bound how many there are.   *)
(***************************************************************************)
EXTENDS AccessScopes, FiniteSets

CONSTANTS
  Scopes,          \* scopes of rows and of the questions asked
  DenyIds, GrantIds, AssignmentIds, Templates,
  Readers,         \* concurrent has_permission calls
  Expiries, MaxTime

Never == MaxTime + 1

\* PermissionGrant and PermissionDeny, one user and code; RoleTemplateAssignment.
Row == [scope : Scopes, expires : Expiries \cup {Never},
        status : {"active", "revoked", "expired"}]
Assignment == [template : Templates, scope : Scopes, status : {"active", "revoked"}]
Absent == [status |-> "absent"]

ASSUME DecisionConstants ==
  /\ \A s \in Scopes : s.type \in ScopeTypes
  /\ DenyIds \cap GrantIds = {} /\ DenyIds \cap AssignmentIds = {}
  /\ GrantIds \cap AssignmentIds = {}
  /\ MaxTime \in Nat /\ Expiries \subseteq 0 .. MaxTime

VARIABLES
  defined,      \* an active PermissionDefinition for the code exists
  denies, grants, assignments,   \* the tables, Absent where no row was written
  template,     \* RoleTemplate and its RoleTemplatePermission for the code:
                \* template[t].active, template[t].enabled
  reader,       \* reader[r]: where the call is, what it asks, what it has read
  watch,        \* history: what held throughout the call, and what spoke against it
  now

tables == <<defined, denies, grants, assignments, template, now>>
vars == <<defined, denies, grants, assignments, template, reader, watch, now>>

Covers(row, q) == ScopeCovers(row.scope, q)
Written(table) == {i \in DOMAIN table : table[i].status # "absent"}
Standing(table) == {i \in Written(table) : table[i].status = "active"}

\* What the resolver means by in force: active, and expires_at not strictly past.
Overdue(table) == {i \in Standing(table) : table[i].expires < now}
InForce(table) == Standing(table) \ Overdue(table)

\* _template_grants_for: active assignments of active templates, and those of
\* them whose template has the code enabled.
ActiveAssignments ==
  {a \in Standing(assignments) : template[assignments[a].template].active}
TemplateSources ==
  {a \in ActiveAssignments : template[assignments[a].template].enabled}

CoveringDenies(q) == {d \in InForce(denies) : Covers(denies[d], q)}
CoveringSources(q) ==
  IF defined THEN {g \in InForce(grants) : Covers(grants[g], q)}
                  \cup {a \in TemplateSources : Covers(assignments[a], q)}
  ELSE {}

\* The UPDATE that _fresh_denies_qs and _fresh_grants_qs begin with.
Marked(table) ==
  [i \in DOMAIN table |->
     IF i \in Overdue(table) THEN [table[i] EXCEPT !.status = "expired"] ELSE table[i]]

--------------------------------------------------------------------------------
(* The call.  A step that ends it puts it at "done" with the answer. *)

Idle == [at |-> "idle"]

Running(r) == reader[r].at \notin {"idle", "done"}

Answer(r, b) ==
  reader' = [reader EXCEPT ![r] = [at |-> "done", q |-> reader[r].q, answer |-> b]]

GoOn(r, to) ==
  reader' = [reader EXCEPT ![r] = [at |-> to, q |-> reader[r].q]]

\* The definition is looked up first; without an active one the answer is no.
Ask(r) ==
  /\ reader[r].at = "idle"
  /\ \E q \in Scopes :
       reader' = [reader EXCEPT ![r] =
         IF defined THEN [at |-> "mark_denies", q |-> q]
         ELSE [at |-> "done", q |-> q, answer |-> FALSE]]
  /\ UNCHANGED tables

MarkDenies(r) ==
  /\ reader[r].at = "mark_denies"
  /\ denies' = Marked(denies)
  /\ GoOn(r, "denies")
  /\ UNCHANGED <<defined, grants, assignments, template, now>>

\* Mutant: the deny must be for exactly the scope asked about.
ReadDenies_ExactScope(r) ==
  /\ reader[r].at = "denies"
  /\ IF \E d \in Standing(denies) : denies[d].scope = reader[r].q
     THEN Answer(r, FALSE) ELSE GoOn(r, "assignments")
  /\ UNCHANGED tables

\* The rows are selected by status alone, after the marking.
ReadDenies(r) ==
  /\ reader[r].at = "denies"
  /\ IF \E d \in Standing(denies) : Covers(denies[d], reader[r].q)
     THEN Answer(r, FALSE) ELSE GoOn(r, "assignments")
  /\ UNCHANGED tables

\* Mutant: a user without assignments is refused here.
ReadAssignments_NoneMeansNo(r) ==
  /\ reader[r].at = "assignments"
  /\ IF ActiveAssignments = {} THEN Answer(r, FALSE)
     ELSE reader' = [reader EXCEPT ![r] =
            [at |-> "items", q |-> reader[r].q, seen |-> ActiveAssignments]]
  /\ UNCHANGED tables

\* One query joins assignments and templates; a second one, if there is any
\* assignment, reads the templates' items.
ReadAssignments(r) ==
  /\ reader[r].at = "assignments"
  /\ IF ActiveAssignments = {} THEN GoOn(r, "mark_grants")
     ELSE reader' = [reader EXCEPT ![r] =
            [at |-> "items", q |-> reader[r].q, seen |-> ActiveAssignments]]
  /\ UNCHANGED tables

ReadItems(r) ==
  /\ reader[r].at = "items"
  /\ IF \E a \in reader[r].seen : /\ template[assignments[a].template].enabled
                                  /\ Covers(assignments[a], reader[r].q)
     THEN Answer(r, TRUE) ELSE GoOn(r, "mark_grants")
  /\ UNCHANGED tables

MarkGrants(r) ==
  /\ reader[r].at = "mark_grants"
  /\ grants' = Marked(grants)
  /\ GoOn(r, "grants")
  /\ UNCHANGED <<defined, denies, assignments, template, now>>

ReadGrants(r) ==
  /\ reader[r].at = "grants"
  /\ Answer(r, \E g \in Standing(grants) : Covers(grants[g], reader[r].q))
  /\ UNCHANGED tables

\* The next call.
Forget(r) ==
  /\ reader[r].at = "done"
  /\ reader' = [reader EXCEPT ![r] = Idle]
  /\ UNCHANGED tables

--------------------------------------------------------------------------------
(* The writers *)

\* deny_permission: refused while the definition is missing or inactive.
CreateDeny ==
  /\ defined
  /\ \E d \in DenyIds \ Written(denies), s \in Scopes, e \in Expiries \cup {Never} :
       denies' = [denies EXCEPT ![d] = [scope |-> s, expires |-> e, status |-> "active"]]
  /\ UNCHANGED <<defined, grants, assignments, template, reader, now>>

\* revoke_deny, also of a deny that has expired.
RevokeDeny ==
  /\ \E d \in Written(denies) :
       /\ denies[d].status # "revoked"
       /\ denies' = [denies EXCEPT ![d].status = "revoked"]
  /\ UNCHANGED <<defined, grants, assignments, template, reader, now>>

\* The grant table, as AccessGrants lets this user's rows change: a new row, a
\* revocation, an overdue row expired.
WriteGrant ==
  /\ \/ \E g \in GrantIds \ Written(grants), s \in Scopes, e \in Expiries \cup {Never} :
          grants' = [grants EXCEPT ![g] = [scope |-> s, expires |-> e, status |-> "active"]]
     \/ \E g \in Written(grants) :
          /\ grants[g].status # "revoked"
          /\ grants' = [grants EXCEPT ![g].status = "revoked"]
     \/ \E g \in Written(grants) :
          /\ grants[g].status = "active" /\ grants[g].expires <= now
          /\ grants' = [grants EXCEPT ![g].status = "expired"]
  /\ UNCHANGED <<defined, denies, assignments, template, reader, now>>

\* assign_role_template: the template must be active.
AssignTemplate ==
  /\ \E a \in AssignmentIds \ Written(assignments), t \in Templates, s \in Scopes :
       /\ template[t].active
       /\ assignments' = [assignments EXCEPT ![a] =
            [template |-> t, scope |-> s, status |-> "active"]]
  /\ UNCHANGED <<defined, denies, grants, template, reader, now>>

\* remove_role_template.
RemoveTemplate ==
  /\ \E a \in Standing(assignments) :
       assignments' = [assignments EXCEPT ![a].status = "revoked"]
  /\ UNCHANGED <<defined, denies, grants, template, reader, now>>

\* PATCH /role-templates/<id> (is_active), POST /role-templates/<id>/permissions
\* (the code's item is dropped, enabled or disabled).
EditTemplate ==
  /\ \E t \in Templates :
       \/ template' = [template EXCEPT ![t].active = ~ @]
       \/ template' = [template EXCEPT ![t].enabled = ~ @]
  /\ UNCHANGED <<defined, denies, grants, assignments, reader, now>>

\* PATCH /permissions/<id>: is_active.
ToggleDefinition ==
  /\ defined' = ~ defined
  /\ UNCHANGED <<denies, grants, assignments, template, reader, now>>

Tick ==
  /\ now < MaxTime
  /\ now' = now + 1
  /\ UNCHANGED <<defined, denies, grants, assignments, template, reader>>

--------------------------------------------------------------------------------
Init ==
  /\ defined = TRUE
  /\ denies = [d \in DenyIds |-> Absent]
  /\ grants = [g \in GrantIds |-> Absent]
  /\ assignments = [a \in AssignmentIds |-> Absent]
  /\ template = [t \in Templates |-> [active |-> TRUE, enabled |-> TRUE]]
  /\ reader = [r \in Readers |-> Idle]
  /\ watch = [r \in Readers |-> Idle]
  /\ now = 0

Call == \E r \in Readers :
  \/ Ask(r) \/ MarkDenies(r) \/ ReadDenies(r) \/ ReadAssignments(r)
  \/ ReadItems(r) \/ MarkGrants(r) \/ ReadGrants(r) \/ Forget(r)

Write == \/ CreateDeny \/ RevokeDeny \/ WriteGrant \/ AssignTemplate
         \/ RemoveTemplate \/ EditTemplate \/ ToggleDefinition \/ Tick

\* The history of a call, over the states it passes through: the covering denies
\* and sources that were there all along, and every deny that was in force or
\* written meanwhile.
Watching(q) ==
  [denied |-> CoveringDenies(q), sources |-> CoveringSources(q),
   against |-> CoveringDenies(q)]

Watched(w, q) ==
  [denied |-> w.denied \cap CoveringDenies(q)',
   sources |-> w.sources \cap CoveringSources(q)',
   against |-> w.against \cup CoveringDenies(q)' \cup (Written(denies)' \ Written(denies))]

Watch ==
  watch' = [r \in Readers |->
    IF reader'[r].at = "idle" THEN Idle
    ELSE IF reader[r].at = "idle" THEN Watching(reader'[r].q)
    ELSE IF Running(r) THEN Watched(watch[r], reader[r].q)
    ELSE watch[r]]

Next == (Call \/ Write) /\ Watch

Spec == Init /\ [][Next]_vars

--------------------------------------------------------------------------------
(* Properties *)

Calls ==
  [at : {"idle"}]
  \cup [at : {"mark_denies", "denies", "assignments", "mark_grants", "grants"}, q : Scopes]
  \cup [at : {"items"}, q : Scopes, seen : SUBSET AssignmentIds]
  \cup [at : {"done"}, q : Scopes, answer : BOOLEAN]

\* Every table holds rows of its model, and every call is at one of its statements.
TypeOK ==
  /\ defined \in BOOLEAN /\ now \in 0 .. MaxTime
  /\ denies \in [DenyIds -> Row \cup {Absent}]
  /\ grants \in [GrantIds -> Row \cup {Absent}]
  /\ assignments \in [AssignmentIds -> Assignment \cup {Absent}]
  /\ template \in [Templates -> [active : BOOLEAN, enabled : BOOLEAN]]
  /\ reader \in [Readers -> Calls]

Answered(r, b) == reader[r].at = "done" /\ reader[r].answer = b

\* A deny that covers the question and stands from the first to the last
\* statement of a call decides it, whatever is granted meanwhile.
SteadyDenyWins ==
  \A r \in Readers : Answered(r, TRUE) => watch[r].denied = {}

\* A source that covers the question all through a call is found, if no
\* deny stood or was written and the definition stayed active meanwhile: assigning,
\* editing and expiring other rows does not hide it.
SteadySourceWins ==
  \A r \in Readers :
    Answered(r, FALSE) => watch[r].against # {} \/ watch[r].sources = {}
==================================================================================
