------------------------------ MODULE AccessGrants ------------------------------
(***************************************************************************)
(* The grant table of apps.access and everything that writes to it.        *)
(*                                                                         *)
(* Web workers serve POST /grants and POST /grants/<id>/revoke; each reads *)
(* and checks first and writes in a transaction of its own later, so the   *)
(* check (StartGrant, LoadRevoke) and the write (InsertGrant,              *)
(* CommitRevoke) are two steps with any step of anyone else in between.    *)
(* The expire_access_grants command lists the overdue rows and then saves  *)
(* them one by one (SweepList, SweepSave), and every permission query      *)
(* expires its user's overdue rows first (ResolverExpire).  Transactions   *)
(* run at READ COMMITTED without row locks: a commit is one step, and what *)
(* the request read before it may be stale.                                *)
(*                                                                         *)
(* Abstracted: the audit rows and notes (no property is about them); the   *)
(* reads of one validation, which take one step; allow_narrower_scope of a *)
(* rule, which stays as seeded, TRUE, and which only can_delegate reads.   *)
(* Bounds: MaxGrants rows, a clock up to MaxTime, one request per worker   *)
(* at a time.                                                              *)
(***************************************************************************)
EXTENDS AccessScopes, Sequences, FiniteSets

CONSTANTS
  Users, Codes, Scopes,  \* Scopes: a set of [type, id]
  Managers,        \* Managers[c]: who may issue and revoke grants of c as an administrator
  Definitions0,    \* the seeded PermissionDefinition rows, [code, active, delegable, scopes]
  DefinitionRows,  \* the rows POST and PATCH /permissions may write
  Rules0,          \* the seeded DelegationRule rows, [code, from, to, allow, sameOnly, depth]
  RuleRows,        \* the rows PATCH /delegation-rules may write
  Workers,         \* web workers
  Expiries,        \* the expires_at values requests carry, besides none
  MaxTime, MaxGrants

Never == MaxTime + 1      \* expires_at = None: beyond the clock
Statuses == {"active", "revoked", "expired"}

Definition == [code : Codes, active : BOOLEAN, delegable : BOOLEAN,
               scopes : SUBSET ScopeTypes]
Rule == [code : Codes, from : ScopeTypes, to : ScopeTypes,
         allow : BOOLEAN, sameOnly : BOOLEAN, depth : Nat]

ASSUME ConstantsAssumption ==
  /\ Scopes \subseteq [type : ScopeTypes, id : {s.id : s \in Scopes}]
  /\ Managers \in [Codes -> SUBSET Users]
  /\ Definitions0 \subseteq Definition /\ DefinitionRows \subseteq Definition
  /\ Rules0 \subseteq Rule /\ RuleRows \subseteq Rule
  /\ MaxTime \in Nat /\ MaxGrants \in Nat
  /\ Expiries \subseteq 0 .. MaxTime

\* A PermissionGrant row.  parent = 0 is parent_grant = None: the source is
\* "manual" then and "delegation" otherwise.
Grant == [employee : Users, code : Codes, scope : Scopes, mode : Modes,
          by : Users, expires : Expiries \cup {Never}, parent : 0 .. MaxGrants,
          status : Statuses]

\* What a worker carries from its check to its write.
Idle == [kind |-> "idle"]
Request == {Idle} \cup [kind : {"grant"}, row : Grant]
                  \cup [kind : {"revoke"}, id : 1 .. MaxGrants]

VARIABLES
  grants,       \* the table: a row's primary key is its position
  definitions,  \* the permission catalog
  rules,        \* the delegation rules
  req,          \* req[w]: the request worker w has checked and not yet written
  sweep,        \* the ids a running expire_access_grants has listed and not saved
  now,          \* the clock
  late          \* history: the delegated rows whose parent was not active when
                \* they were inserted

vars == <<grants, definitions, rules, req, sweep, now, late>>

Ids == 1 .. Len(grants)
Active(g) == grants[g].status = "active"
Overdue(g) == grants[g].expires <= now

--------------------------------------------------------------------------------
(* The parent chain and the cascade, as least closed sets of rows. *)

ParentClosed(S) == \A g \in S : grants[g].parent # 0 => grants[g].parent \in S

\* g and every grant its parent_grant chain reaches.
Chain(g) ==
  {a \in Ids : \A S \in SUBSET Ids : g \in S /\ ParentClosed(S) => a \in S}

ChildClosed(S) == \A g \in Ids : Active(g) /\ grants[g].parent \in S => g \in S

\* Mutant: the cascade stops at the direct children.
Cascade_OneLevel(g) ==
  {c \in Ids : c = g \/ (Active(c) /\ grants[c].parent = g)}

\* g and what revoke_permission's recursion reaches from it: a child is
\* visited only while its status is active.
Cascade(g) ==
  {c \in Ids : \A S \in SUBSET Ids : g \in S /\ ChildClosed(S) => c \in S}

\* Mutant: a status that is not one of STATUS_CHOICES (save() does not check).
WithStatus_Unlisted(S, status) ==
  [g \in Ids |-> IF g \in S THEN [grants[g] EXCEPT !.status = "inactive"]
                 ELSE grants[g]]

\* Saving status, and nothing else, of some rows.
WithStatus(S, status) ==
  [g \in Ids |-> IF g \in S THEN [grants[g] EXCEPT !.status = status]
                 ELSE grants[g]]

--------------------------------------------------------------------------------
(* Validation: what grant_permission checks before it opens a transaction. *)

DefinitionAllows(row) ==
  \E d \in definitions :
    /\ d.code = row.code
    /\ d.active
    /\ d.scopes = {} \/ row.scope.type \in d.scopes
    /\ row.mode = "use_and_delegate" => d.delegable

\* Mutant: the depth walk starts counting at 0.
RuleAllows_DepthFromZero(row, parent) ==
  LET matching == {r \in rules : /\ r.code = row.code
                                 /\ r.from = parent.scope.type
                                 /\ r.to = row.scope.type}
  IN \A r \in matching :
       r.depth # 0 => Cardinality(Chain(row.parent)) - 1 <= r.depth

\* The matching DelegationRule, if there is one, admits the new link; without
\* one only the same scope type is admitted.  The depth counts the links that
\* the chain would have.
RuleAllows(row, parent) ==
  LET matching == {r \in rules : /\ r.code = row.code
                                 /\ r.from = parent.scope.type
                                 /\ r.to = row.scope.type}
      sameType == parent.scope.type = row.scope.type
  IN /\ matching = {} => sameType
     /\ \A r \in matching :
          /\ r.allow
          /\ r.sameOnly => sameType
          /\ r.depth # 0 => Cardinality(Chain(row.parent)) <= r.depth

\* Mutant: the child's expires_at is not compared with the parent's.
DelegationAllowed_Outlives(row) ==
  LET parent == grants[row.parent]
  IN /\ parent.status = "active"
     /\ ~ parent.expires <= now
     /\ Within([row EXCEPT !.expires = parent.expires], parent)
     /\ RuleAllows(row, parent)

DelegationAllowed(row) ==
  LET parent == grants[row.parent]
  IN /\ parent.status = "active"
     /\ ~ parent.expires <= now
     /\ Within(row, parent)
     /\ RuleAllows(row, parent)

\* Mutant: holding any grant is enough to pass it on to a project.
ProjectDelegation_AnyParent(row) ==
  /\ row.parent # 0
  /\ grants[row.parent].employee = row.by
  /\ row.scope.type = "project"

\* GrantsView.post: a project grant may be passed on within projects by its
\* holder; anything else is an administrator's request.
ProjectDelegation(row) ==
  /\ row.parent # 0
  /\ grants[row.parent].employee = row.by
  /\ grants[row.parent].scope.type = "project"
  /\ row.scope.type = "project"

\* Mutant: without a rule nothing can be passed on.
CanDelegate_RuleNeeded(u, code, scope) ==
  /\ \E d \in definitions : d.code = code /\ d.active /\ d.delegable
  /\ \E g \in Ids :
       /\ Active(g) /\ ~ grants[g].expires < now
       /\ grants[g].employee = u /\ grants[g].code = code
       /\ grants[g].mode = "use_and_delegate"
       /\ ScopeWithin(scope, grants[g].scope)
       /\ \E r \in rules : /\ r.code = code
                           /\ r.from = grants[g].scope.type /\ r.to = scope.type
                           /\ r.allow /\ (r.sameOnly => r.from = r.to)

\* can_delegate, the resolver's own answer to who may pass on what, over direct grants.
\* It takes a grant at its very instant of expiry for fresh, and has no eye for depth.
CanDelegate(u, code, scope) ==
  /\ \E d \in definitions : d.code = code /\ d.active /\ d.delegable
  /\ \E g \in Ids :
       /\ Active(g) /\ ~ grants[g].expires < now
       /\ grants[g].employee = u /\ grants[g].code = code
       /\ grants[g].mode = "use_and_delegate"
       /\ ScopeWithin(scope, grants[g].scope)
       /\ LET from == grants[g].scope.type
              matching == {r \in rules : r.code = code /\ r.from = from /\ r.to = scope.type}
          IN \/ matching = {} /\ from = scope.type
             \/ \E r \in matching : r.allow /\ (r.sameOnly => from = scope.type)

MayIssue(row) == ProjectDelegation(row) \/ row.by \in Managers[row.code]

Requested ==
  [employee : Users, code : Codes, scope : Scopes, mode : Modes, by : Users,
   expires : Expiries \cup {Never}, parent : {0} \cup Ids, status : {"active"}]

--------------------------------------------------------------------------------
Init ==
  /\ grants = << >>
  /\ definitions = Definitions0
  /\ rules = Rules0
  /\ req = [w \in Workers |-> Idle]
  /\ sweep = {}
  /\ now = 0
  /\ late = {}

\* grant_permission, up to the end of its validation.  A refused request
\* changes nothing but the audit tables.
StartGrant(w) ==
  /\ req[w] = Idle
  /\ \E row \in Requested :
       /\ MayIssue(row)
       /\ DefinitionAllows(row)
       /\ row.parent # 0 => DelegationAllowed(row)
       /\ req' = [req EXCEPT ![w] = [kind |-> "grant", row |-> row]]
  /\ UNCHANGED <<grants, definitions, rules, sweep, now, late>>

\* Mutant: update_or_create on (employee, code, scope) instead of create.
InsertGrant_Upsert(w) ==
  /\ req[w].kind = "grant"
  /\ LET row == req[w].row
         same == {g \in Ids : /\ grants[g].employee = row.employee
                              /\ grants[g].code = row.code
                              /\ grants[g].scope = row.scope}
     IN grants' = IF same = {} THEN Append(grants, row)
                  ELSE [g \in Ids |-> IF g \in same THEN row ELSE grants[g]]
  /\ Len(grants') <= MaxGrants
  /\ req' = [req EXCEPT ![w] = Idle]
  /\ UNCHANGED <<definitions, rules, sweep, now, late>>

\* _grant_permission_atomic: a pure write of what was validated.
InsertGrant(w) ==
  /\ req[w].kind = "grant"
  /\ Len(grants) < MaxGrants
  /\ LET row == req[w].row
     IN /\ grants' = Append(grants, row)
        /\ late' = IF row.parent # 0 /\ ~ Active(row.parent)
                   THEN late \cup {Len(grants) + 1} ELSE late
  /\ req' = [req EXCEPT ![w] = Idle]
  /\ UNCHANGED <<definitions, rules, sweep, now>>

\* The caller of revoke_permission has loaded a row; a row loaded as revoked
\* makes the call return at once.
LoadRevoke(w) ==
  /\ req[w] = Idle
  /\ \E g \in Ids :
       /\ grants[g].status # "revoked"
       /\ req' = [req EXCEPT ![w] = [kind |-> "revoke", id |-> g]]
  /\ UNCHANGED <<grants, definitions, rules, sweep, now, late>>

\* The transaction of revoke_permission, whatever became of the row since.
CommitRevoke(w) ==
  /\ req[w].kind = "revoke"
  /\ grants' = WithStatus(Cascade(req[w].id), "revoked")
  /\ req' = [req EXCEPT ![w] = Idle]
  /\ UNCHANGED <<definitions, rules, sweep, now, late>>

\* The worker dies, or its transaction fails and rolls back.
Abandon(w) ==
  /\ req[w] # Idle
  /\ req' = [req EXCEPT ![w] = Idle]
  /\ UNCHANGED <<grants, definitions, rules, sweep, now, late>>

\* _fresh_grants_qs: one UPDATE of the user's rows, strictly past their time.
ResolverExpire(u) ==
  LET stale == {g \in Ids : /\ Active(g) /\ grants[g].employee = u
                            /\ grants[g].expires < now}
  IN /\ stale # {}
     /\ grants' = WithStatus(stale, "expired")
     /\ UNCHANGED <<definitions, rules, req, sweep, now, late>>

\* Mutant: the command compares with < where the check uses <=.
SweepList_Strict ==
  /\ sweep = {}
  /\ sweep' = {g \in Ids : Active(g) /\ grants[g].expires < now}
  /\ sweep' # {}
  /\ UNCHANGED <<grants, definitions, rules, req, now, late>>

\* expire_access_grants reads the overdue rows, earliest first, all of them or
\* the first --limit.
SweepList ==
  /\ sweep = {}
  /\ LET due == {g \in Ids : Active(g) /\ Overdue(g)}
     IN \E S \in SUBSET due :
          /\ S # {}
          /\ \A g \in S, h \in due \ S : grants[g].expires <= grants[h].expires
          /\ sweep' = S
  /\ UNCHANGED <<grants, definitions, rules, req, now, late>>

\* It saves the next listed row, from the object it read then.
SweepSave ==
  /\ \E g \in sweep :
       /\ \A h \in sweep : grants[g].expires <= grants[h].expires
       /\ grants' = WithStatus({g}, "expired")
       /\ sweep' = sweep \ {g}
  /\ UNCHANGED <<definitions, rules, req, now, late>>

Tick ==
  /\ now < MaxTime
  /\ now' = now + 1
  /\ UNCHANGED <<grants, definitions, rules, req, sweep, late>>

\* POST and PATCH /permissions: a row is added or rewritten; code is unique.
WriteDefinition ==
  /\ \E old \in {{}} \cup {{d} : d \in definitions}, new \in DefinitionRows :
       /\ \A d \in definitions \ old : d.code # new.code
       /\ definitions' = (definitions \ old) \cup {new}
  /\ UNCHANGED <<grants, rules, req, sweep, now, late>>

\* PATCH /delegation-rules: a row is rewritten, the transition it is about
\* included; (code, from, to) is unique.
PatchRule ==
  /\ \E old \in rules, new \in RuleRows :
       /\ \A r \in rules \ {old} :
            <<r.code, r.from, r.to>> # <<new.code, new.from, new.to>>
       /\ rules' = (rules \ {old}) \cup {new}
  /\ UNCHANGED <<grants, definitions, req, sweep, now, late>>

Next ==
  \/ \E w \in Workers : \/ StartGrant(w) \/ InsertGrant(w)
                        \/ LoadRevoke(w) \/ CommitRevoke(w)
                        \/ Abandon(w)
  \/ \E u \in Users : ResolverExpire(u)
  \/ SweepList \/ SweepSave \/ Tick
  \/ WriteDefinition \/ PatchRule

Spec == Init /\ [][Next]_vars

\* expire_access_grants is run periodically and a started run goes on.
FairSpec == Spec /\ WF_vars(SweepList) /\ WF_vars(SweepSave)

--------------------------------------------------------------------------------
(* Properties *)

\* Rows, catalog, rules, requests and the command's list hold what the code puts
\* there: a status of STATUS_CHOICES, a key that was handed out.
TypeOK ==
  /\ grants \in Seq(Grant) /\ Len(grants) <= MaxGrants
  /\ definitions \subseteq Definition
  /\ rules \subseteq Rule
  /\ req \in [Workers -> Request]
  /\ sweep \subseteq Ids
  /\ now \in 0 .. MaxTime
  /\ late \subseteq Ids

\* A delegated grant keeps within its parent and within everything its parent
\* chain reaches: it is for the same permission, ends no later, and its scope
\* is no broader; and the chain only leads back to older rows.  This is what
\* _assert_delegation_allowed checks, link by link and before the write.
ChainIntegrity ==
  \A g \in Ids :
    /\ grants[g].parent # 0 => /\ grants[g].parent < g
                               /\ Within(grants[g], grants[grants[g].parent])
    /\ \A a \in Chain(g) :
         /\ grants[g].code = grants[a].code
         /\ grants[g].expires <= grants[a].expires
         /\ Breadth[grants[g].scope.type] >= Breadth[grants[a].scope.type]

\* The cascade of revoke_permission and the expiry bound together leave no
\* delegated grant in force under a parent that is not, but for one that was
\* written after its parent had gone: a request validated before the parent
\* was revoked is the only way in.
OnlyLateOrphans ==
  \A g \in Ids :
    /\ grants[g].parent # 0 /\ ~ Active(grants[g].parent)
    /\ Active(g) /\ ~ Overdue(g)
    => g \in late

\* Whoever is not an administrator for a permission issues it only by passing
\* on a project grant, and along the chain the very same project leads back to
\* a grant an administrator issued (GrantsView.post and the service together).
AdministratorRoot ==
  \A g \in Ids :
    grants[g].by \notin Managers[grants[g].code] =>
      /\ grants[g].scope.type = "project"
      /\ \E a \in Chain(g) : /\ grants[a].by \in Managers[grants[a].code]
                             /\ grants[a].scope = grants[g].scope

\* While the rules stay as seeded, no chain is longer than the rule for its
\* last link allows (max_delegate_depth, 0 meaning no limit).
DepthWithinRules ==
  \A g \in Ids, r \in rules :
    /\ grants[g].parent # 0
    /\ r.code = grants[g].code /\ r.to = grants[g].scope.type
    /\ r.from = grants[grants[g].parent].scope.type
    /\ r.depth # 0
    => Cardinality(Chain(g)) - 1 <= r.depth

\* The resolver hides nothing the service would allow: whoever gets a grant to pass on
\* through the validation of a delegation is answered yes by can_delegate, whatever
\* has become of grants, definitions and rules.  (It may promise more: a chain too
\* deep, a parent at its instant of expiry.  And of a permission that cannot be
\* delegated the service lets one pass on the use.)
OffersCover ==
  \A row \in Requested :
    /\ row.parent # 0 /\ row.mode = "use_and_delegate"
    /\ DefinitionAllows(row) /\ DelegationAllowed(row)
    => CanDelegate(row.by, row.code, row.scope)

\* The table implements the ledger: rows are never rewritten or removed, a
\* grant that has stopped being active is never active again, and every
\* delegated row is within an earlier one.
Ledger ==
  INSTANCE AccessLedger WITH
    GrantRow <- [employee : Users, code : Codes, scope : Scopes, mode : Modes,
                 by : Users, expires : Expiries \cup {Never},
                 parent : 0 .. MaxGrants],
    rows <- [g \in Ids |->
               [employee |-> grants[g].employee, code |-> grants[g].code,
                scope |-> grants[g].scope, mode |-> grants[g].mode,
                by |-> grants[g].by, expires |-> grants[g].expires,
                parent |-> grants[g].parent]],
    live <- {g \in Ids : Active(g)}

ImplementsLedger == Ledger!LedgerSpec

\* A grant whose time has come stops being active, whichever of the command,
\* the resolver and a revocation gets there first (expire_access_grants run
\* periodically).
OverdueRetired ==
  \A g \in 1 .. MaxGrants :
    (g \in Ids /\ Overdue(g)) ~> (g \in Ids /\ ~ Active(g))
==================================================================================
