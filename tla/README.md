# Verification of the ATOM backend

TLA+ models, TLC runs and TLAPS proofs for the Django backend in `src/`. The
backend is a set of Django apps (`src/apps/*`) over one Postgres database, served
by several worker processes. Every definition of the modules is translated from
the source lines that `PROJECT.json` names for it under `map`.

Three facts about the deployment shape everything here:

- Requests run in autocommit mode at READ COMMITTED. There is no
  `ATOMIC_REQUESTS` and no `select_for_update`, so a request that reads, decides
  and then writes takes at least two steps, with any step of another worker
  between them. A `transaction.atomic` block makes its writes visible together
  and rolls them back together; it does not make what it read stay true.
- Some state is not in the database at all: `/api/tasks` and `/api/workspace`
  keep lists and dictionaries in the memory of a worker process, without a lock,
  and its threads interleave on them.
- Nothing runs in the background but the `expire_access_grants` management
  command. Everything else happens inside a request.

## 1. Inventory

### Access (`apps.access`)

| | |
|---|---|
| State | `PermissionDefinition` (the catalog), `DelegationRule`, `RoleTemplate` and its items, `RoleTemplateAssignment`, `PermissionGrant`, `PermissionDeny`, audit rows |
| Operations | issue a grant, as an administrator or by delegating one's own (`service.grant_permission`); revoke with a cascade over the children (`revoke_permission`); deny and undo; assign, remove and edit templates; edit the catalog and the rules; expire overdue rows lazily (`resolver._fresh_grants_qs`) or by the command; decide (`has_permission`, `can_delegate`, `list_effective_permissions`); the policy ladders (`policies.py`) and the capability bridge |
| Interacts with | every other app asks `has_permission`, a ladder or the bridge; projects and departments issue and revoke grants for their heads through `service` |
| Hard | validation outside the transaction that writes; the cascade against concurrent inserts; three places that expire rows, with different comparisons; a decision that takes six statements; one right computed in several places |
| Correct when | a delegated grant never exceeds anything on its parent chain; it dies with its parent; only administrators start chains; overdue rows are retired; a decision reflects denies and sources that were there; what is offered is accepted; lists, flags and gates agree; withdrawing a right never gives one |

### Projects (`apps.projects`)

| | |
|---|---|
| State | `Project` rows with their settings; `ProjectMember` rows: role, `is_active`, `is_lead`; the bundle of project grants issued to a head, recognised by its note; resource requests; documents |
| Operations | create, PATCH, archive, restore and delete a project; `assign_project_lead`, `clear_project_lead`; upsert, PATCH and delete of a member; `assign_to_project` and `remove_from_project` of the career service; upload |
| Hard | previous heads are read first and deposed later; PATCH is a full save of a row loaded earlier; no transaction around what belongs together; five writers with different ideas of heading a project |
| Correct when | one head at most; the bundle stays with the head; who is deposed is deposed in flag and role; the row says what was asked for and the trail tells it |

### Departments and careers (`apps.orgstructure`)

| | |
|---|---|
| State | `OrgUnit` (a tree by `parent`, soft-deleted by `is_active`), `OrgUnitMember` (member or head), the bundle of department grants of a head, `EmployeeCareerEvent` (the log, whose open rows are `effective_to IS NULL`) |
| Operations | create, PATCH and delete a department; appoint and dismiss heads through four groups of endpoints; assign, transfer and remove through the career service; change a system role; upload |
| Hard | check-then-act on the tree and on emptiness; each group of endpoints keeps a different subset of row, bundle and log in step |
| Correct when | the tree stays a tree; only empty departments are deleted; one head; the bundle follows the head; the log matches the rows |

### Chats, AI runs and the gateway (`apps.chats`, `apps.ai`, `apps.llm_gateway`)

| | |
|---|---|
| State | chats, members with roles, messages, attachments; `AiRun` rows; providers, models, profiles and the request log; the rate counters in the cache |
| Operations | create a chat; add, change and remove members; say something; put a question to the AI; create and execute a run; route, ask, retry and fall back; switch a provider on or off |
| Interacts with | a question in a chat asks the gateway; a project's rights open its chats; attachments are stored files |
| Hard | the last owner is protected by check-then-act, and the POST upsert passes the protection; nothing looks at a run's status before it is executed; a failing audit turns a completed run into a failed one; a timeout is looked at after the answer; counters and rows may fail one by one |
| Correct when | a chat keeps an owner; a run tells what was asked and answered; a run does not hang; questions stay within the limits; answers stand with their questions |

### Storage (`apps.storage`)

| | |
|---|---|
| State | providers with one default, quotas, rows of stored files in four apps, the objects themselves |
| Operations | upload (admit, put, create the row), delete an attachment, create, PATCH, activate and delete a provider, set a quota |
| Hard | quota checked before the upload; object and row written separately; the default is repaired after it is broken |
| Correct when | usage stays within quotas; a row has its object; an active default while any provider is active |

### Task boards and contract views (`apps.workspaces`, `apps.core`)

| | |
|---|---|
| State | the tasks of `/api/tasks` with their log, the personal boards, columns and trails, the employee ids made up for users, event feeds |
| Operations | create, PATCH, bulk change, delete, comment, list in pages; file a profile, a quick task, a move; read a feed |
| Hard | fields are written before they are validated; a move is remove-then-insert among threads; stamps that go backwards under a paging reader |
| Correct when | the log explains the tasks; a task is on one board in one group, the one its column says; a walk serves what was there, once |

### Accounts and firms (`apps.identity`, `apps.organizations`)

| | |
|---|---|
| State | users (`is_active`, password), `UserRole` rows, `OrganizationMember` rows |
| Operations | invite, disable, enable, set and change passwords, replace roles, the company administrator's change of role, the career service's change of system role, the list of users |
| Hard | several role rows per user, rewritten one, all of a scope, or all of some codes at a time; the protection of super admins is check-then-act |
| Correct when | nobody takes role, account or password from a super admin |

`apps.audit` is rows that are added and read in pages; it is one of the event
feeds.

`PROJECT.json` lists every component with its sources and status, and under
`hazards` each place of this kind, at its line, with the properties that cover it
or the reason none does. A status of "partly" says in its note what is left out.

## 2. Plan

Done, in order of importance to the system:

1. *Access grants*: `AccessScopes`, `AccessLedger` (what the table promises),
   `AccessGrants` (the table, refines the ledger), with `can_delegate` beside the
   service's own check; proofs.
2. *Access decisions*: `AccessDecision`; proofs.
3. *Project leads*: `ProjectTeam`; proofs.
4. *Departments*: `DepartmentTree`, `DepartmentTeam`; proofs.
5. *The policy ladders*: `AccessPolicies`; proofs.
6. *The services*: `ContractTasks`, `WorkspaceTasks`, `AiRuns`, `ChatRooms`,
   `ChatQuestions`, `Storage`, `Accounts`, `EventFeeds`, `ProjectLife`, composed
   in `MCServices`; proofs about each of them and about the composition.

Left, in order:

1. *The career service in two steps*: overlapping assign, transfer and remove of
   one employee, composed with `DepartmentTeam`.
2. *The replacement of a role template's items* as its statements, within
   `AccessDecision`.
3. *Proofs that follow from the two*: the career log and the open events of one
   employee under overlapping requests; a template's edit as one of the writers
   that `SteadyDecisions` is about.

## 3. Modules

| Module | Models | State |
|---|---|---|
| `AccessScopes` | `access/models.py` scopes and breadth, `resolver.scope_covers`, the comparisons of `_assert_delegation_allowed` | none: operators |
| `AccessLedger` | the promise of the grant table: rows are appended within earlier rows, and go from live to not live | `rows`, `live` |
| `AccessGrants` | `access/service.py`, `access/api/views.py`, `resolver.can_delegate`, the lazy expiry of `resolver.py`, the command | `grants`, `definitions`, `rules`, `req` (requests between check and write), `sweep` (the command's list), `now`, and the history `late` |
| `AccessDecision` | `resolver.has_permission`, one statement a step, against every writer | the tables as they concern one user and one code, `reader`, `now`, and the history `watch` |
| `AccessPolicies` | `access/policies.py`, the capability bridge, `project_permissions.py`, the visibility of departments and employees: the ladders as operators over one viewer's rows | `shape` (the situation examined), the viewer's roles, facts, membership, seat and access rows |
| `ProjectTeam` | `projects/project_lead.py`, the member endpoints, `assign_to_project`, `remove_from_project` | `serial`, `member`, `bundles`, `req`, key counters, and the history `left` |
| `ProjectLife` | `projects/api/views.py`: rows, settings, resource requests, and what the trail tells | `project`, `crew`, `wish`, `told`, `farewell`, `helm`, and the histories `meant`, `amiss` |
| `DepartmentTree` | `department_serializers.py`, PATCH and DELETE of a department, creation, what joins it | `serial`, `unit`, `staffed`, `hosting`, `req` |
| `DepartmentTeam` | the four groups of endpoints over members and heads, and the career log | `writers`, `seat`, `bundles`, `open` |
| `ContractTasks` | `/api/tasks` of `core/api/parallel_contract_views.py`, its log and its cursor | the tasks, their events, threads under way, one walk |
| `WorkspaceTasks` | `workspaces/data.py` and its views: profiles and personal boards | `employeeOf`, `boards`, `column`, `trail`, `call` |
| `EventFeeds` | growing lists read in pages, by number or by cursor | `feed`, `pen` (events on their way), `scan` (the walk) |
| `AiRuns` | `ai/api/views.py` (create, execute) with `llm_gateway/services.py` | `run`, `exe`, `asked` (the request log), `active` |
| `ChatRooms` | chats and their members in `chats/api/views.py` | `chat`, `rank`, `plain`, `desk` |
| `ChatQuestions` | questions in a chat, messages, rate limits | `post`, `line`, `used`, and the histories `said`, `passed` |
| `Storage` | `storage/` and the upload handlers of projects, departments and chats | `provider`, `limit`, `doc`, `objects`, `hand`, and the histories `torn`, `cut` |
| `Accounts` | `identity/api/super_admin_views.py`, the company administrator's users, `change_system_role` | `account`, `roles`, `staff`, `secret`, `clerk` |
| `MC…` | instances for TLC; `MCServices` composes the nine services | `focus` |
| `…Proofs` | theorems about the module of that name | |
| `CollaborationProofs` | theorems about `ChatRooms`, `ChatQuestions`, `AiRuns`, `WorkspaceTasks`, `ContractTasks` and `EventFeeds` | |
| `ServicesProofs` | theorems about `Accounts`, `Storage`, `ProjectLife` and the composition `MCServices` | |

How state and actions correspond to the code:

- A request that checks first and writes later is two actions or more, named for
  what they do (`StartGrant`/`InsertGrant`, `CheckDelete`/`CommitDelete`,
  `Admits`/`PutObject`/`CreateRow`). What it read sits in the thread's record
  (`req`, `hand`, `clerk`, `desk`, `line`, …) between them, stale or not.
  `Abandon` and `FailRequest` are the error paths: a request that raises writes
  nothing more, and in the modules with a crash (`Restart`, `Crash`, `Outage`,
  `CabinetCrash`, …) every thread forgets what it was in the middle of while
  rows and objects stay.
- A transaction's writes are one step, since no other request sees half of them;
  writes without a transaction are a step each.
- A full `save()` writes the whole loaded row; a `save(update_fields=…)` writes
  the named fields over whatever is there now, and fails if the row is gone.
- The expire command is `SweepList` (the queryset is evaluated) and one
  `SweepSave` per row.
- In `AccessDecision` a lazy expiry (`MarkDenies`, `MarkGrants`) is an action of
  the reader itself, since asking is what expires rows.
- `AccessPolicies` has no requests: its ladders are operators of the state, its
  actions the changes other operations make to the viewer's rows, and its
  properties compare what the ladders say, at one state or before and after.
- History variables (`late`, `watch`, `left`, `passed`, `meant`, `amiss`, …) and
  the flag `clean` of a thread, FALSE once what it found out is out of date, are
  read by properties; where a guard reads `clean` (`SaveSystemRole`), it stands
  for the row as it was loaded.

Abstracted everywhere: audit rows (but for what `ProjectLife` and `EventFeeds`
say of them), notes and messages, names and titles, and authentication.
`DepartmentTeam` takes requests whole: its subject is which endpoints keep which
rows in step; what overlapping does to the same pattern is `ProjectTeam`'s
subject. Each module's header names what it abstracts and every bound.

### Regimes

The code serialises no request against another. `ProjectTeam` and
`DepartmentTree` have a variable `serial`, the kinds of request that are not let
overlap, and `DepartmentTeam` has `writers`, the kinds of request in use; the
service modules have `overlap` (`WorkspaceTasks`: requests of one process overlap
or do not) and `plain` (`ChatRooms`: POST only brings in newcomers). They are
chosen by `Init` and never change, so that one run covers several regimes, and a
property that needs one says so (`LeadWriters \subseteq serial => …`). With
`serial = {}`, `writers = Kinds`, `overlap` and not `plain` the module is the code
as deployed. A property that is conditional on a narrower regime says what a lock,
or a discipline of the callers, would have to cover, and that the rest of the
code, the unserialised writers included, then keeps the property in every order;
it says nothing more of the code as deployed. What that code does then is below,
under *What fails outside the regimes*.

`QuotaKept`, `PromotedStay` and `DefaultSettles` are conditional in another way:
they except the one step, or the time, at which something had come between a
check and its write, and hold of the deployed code in every order.

## 4. Runs

Passing runs:

| Run | Checks | Shows |
|---|---|---|
| `AccessGrants_chains` | `AdministratorRoot`, `DepthWithinRules` | chains of up to three grants over a company and two projects lead back to an administrator, within the same project, and are at most as long as the rule allows |
| `AccessGrants_races` | `TypeOK`, `OnlyLateOrphans` | with two workers, the clock, lazy expiry and the command interleaved, the only live child of a dead parent is one written after the parent died |
| `AccessGrants_catalog` | `ChainIntegrity`, `OffersCover`, `ImplementsLedger`, `OverdueRetired` | editing the catalog and the rules under requests in flight breaks no chain, `can_delegate` offers whatever the service would accept, the table refines the ledger, and overdue grants stop being active |
| `AccessDecision_answers` | `SteadyDenyWins`, `SteadySourceWins` | a deny that covers the question throughout a call refuses it; else a source that is there throughout allows it |
| `AccessPolicies_ladders` | `ListedOpens`, `FlagsHonoured`, `BulkAgrees`, `TaskIsolation`, `PrivateContent`, `WithdrawalNeverRaises` | over every combination of up to three rows, lists, flags, gates and ladders agree, private content stays private, and no withdrawal raises a level |
| `ProjectTeam_regimes` | `OneLead`, `BundleWithLead`, `DeposedWhole` | serialising assignments, clearings and PATCHes is enough for one head with its bundle; with all requests serialised, losing the flag means losing the legacy role |
| `DepartmentTree_regimes` | `Acyclic`, `DeletedEmpty` | serialising PATCHes is enough for a forest; with all requests serialised only empty departments are deleted |
| `DepartmentTeam_regimes` | `OneHead`, `BundleWithHead`, `LogMatches` | the endpoints that clear other heads never leave two; the company admin's endpoints and the workspace's removal keep bundle and head together; the endpoints that write rows only through the career service keep rows and open spells equal |
| `Services` | see below | what each service keeps in two places agrees, in every interleaving of its requests, with failures and crashes |

`Services` composes nine modules that share no state in the code. The variable
`focus` names the one that moves in a behaviour, the others standing still at
their start, so that the state spaces add up and do not multiply: for systems
without common variables this loses no behaviour of any of them. `Storage` has two
values of `focus`: *files* (every kind of upload under quotas, few requests about
providers) and *providers* (one attachment, more requests about providers, no
quotas). Its properties:

| Property | Of | Says |
|---|---|---|
| `AllTyped` | all | the type invariants of the parts |
| `StreamExplains` | `ContractTasks` | replaying a task's log gives the task, unless a refused PATCH left something behind |
| `WalkExact` | `ContractTasks` | a walk with the cursor serves every task that stood still, once, whatever moved meanwhile |
| `BoardsInOrder` | `WorkspaceTasks` | no task gets into two groups, in any interleaving; between requests that do not overlap, columns, trails and boards agree and no two users share a board |
| `RunTold`, `RunSettles` | `AiRuns` | whatever a run says was answered in time as the last thing asked, and the log shows the order of routes and retries; a run does not stay RUNNING unless the server died |
| `OwnerRemains` | `ChatRooms` | an open chat has an owner, as long as POST is for newcomers |
| `RateKept`, `AnswersStand` | `ChatQuestions` | no more get past a counter than its limit; an answer stands after its one question, and only the question that failed is withdrawn |
| `QuotaKept`, `DefaultSettles`, `RowHasObject` | `Storage` | no upload exceeds a quota unless another came between; a request about a provider that met no other leaves an active default; a row has its object |
| `RootsStay`, `PromotedStay` | `Accounts` | nobody takes role, account or password from the first super admins, nor, but by what was out of date, from those they made |
| `FeedExact` | `EventFeeds` | a finished walk has served what was there at its start; with a cursor, once |
| `LifeTold` | `ProjectLife` | status, visibility and owner are what was asked for and told, unless a PATCH's row was written under it or the server died; no project goes without the trail telling of it |

Violation runs, each against a sentence of the repository (quoted in `findings`):

| Run | Property | What happens |
|---|---|---|
| `AccessPolicies_uploads` | `OwnWorkspaceTakesUploads` | the policy refuses every upload to a workspace, the owner's too |
| `ChatRooms_unlisted` | `ManagersSee` | who manages a chat by role does not find it in the list |
| `DepartmentTeam_handover` | `HandoverRevokes` | the org-units endpoint changes heads and leaves the bundle |

### What fails outside the regimes

Known of the code as deployed, each the reason for a condition in a property:

- A delegated grant may be inserted after its parent was revoked (the exception
  `late` of `OnlyLateOrphans`).
- `can_delegate` may offer what the service refuses: a chain that is too deep, a
  parent at its very instant of expiry (`OffersCover` is one direction only).
- Flags computed in bulk ignore denies and wider grants (the exceptions of
  `BulkAgrees`), and so does `list_effective_permissions`.
- Two overlapping assignments leave a project two heads; two overlapping moves of
  departments close a cycle, on which the next move's walk does not end; a member
  removed while heading a project leaves its bundle.
- The POST upsert of a chat's member demotes its last owner.
- A refused PATCH of a task has changed it, unlogged; overlapping requests on a
  board may leave a task of column "done" in another group, or two users with one
  board.
- Two uploads admitted together may exceed a quota; overlapping requests about
  providers may leave no default until the next one.
- A run executed twice is overwritten, and a failed audit makes it FAILED with
  its answer still in place.
- A PATCH of a project takes back what was written since it loaded the row.

### Bounds and why they are enough

- *Users*: one administrator and one employee in `AccessGrants_chains`, one user
  who manages everything in the other two runs of `AccessGrants`, since any user
  may issue to, delegate to and receive from any other, themselves included. Two
  users are enough for two heads of a project, with every row of both in every
  state; `DepartmentTeam` has two employees and a super admin, whom the career
  service refuses. Runs with more than one interchangeable user or worker use
  symmetry; none of the symmetric runs checks liveness.
- *Scopes*: a company and two projects give a broader scope, a narrower one, and
  two of one type that do not cover each other, which is all that
  `scope_covers` and the delegation check distinguish.
- *Rows*: `MaxGrants = 3` allows a chain root, middle, leaf, so that the cascade
  has a grandchild to reach. `MaxRows` and `MaxBundles` of `ProjectTeam` allow a
  row to be deleted and created again and a bundle to be reissued. In
  `AccessPolicies` a rung is decided by one row, or by one and a deny, and a
  disagreement of two ladders by a row each: three rows, two of them access rows.
- *Workers*: two, so that every pair of requests may overlap. The hazards listed
  are races of two.
- *Clock*: `AccessGrants_races` has one instant before, one at and one after the
  expiry (`MaxTime = 2`, expiry 1), since the comparisons differ at the instant
  itself; the catalog run has the first two, the decision run the last two (its
  expiry is 0 and strict, so that only the later instant is past it).
- *Departments*: three, the shortest cycle that is not two departments swapping
  parents, and a child below a parent below a root.
- *Services*: two threads of each kind. Two tasks and pages of one give a walk
  with a cursor to go on from and a task to overtake it; three events and pages of
  one do the same for feeds, and `MaxTick = 1` lets two events carry one time.
  Two user names with one slug are what it takes to share a board. Three
  providers: the primary, the fallback, and one without an adapter; two tries of
  each. Two people suffice for the founder and the other owner of a chat. Two
  askers, one of them no member of the chat, limits of one and three messages let
  a question be admitted, answered and refused. Two
  stores are a default and its successor; sizes and limits of one make the second
  upload the one too many. One root and one person to promote and turn on him,
  with four requests, reach a promotion, two overlapping checks and a write by
  what is out of date. One project with three requests allows a PATCH with two
  writes under it.
- *Deadlock* is not checked in the runs whose cfg says so: tables with bounded
  keys and a bounded clock do stop, and so does a system nobody calls.

### Fairness

Two properties are liveness properties.

`OverdueRetired`: `FairSpec` assumes weak fairness of `SweepList` and
`SweepSave`: the command is scheduled periodically, and a run that started goes
on through its list. Nothing is assumed of web requests, which users may stop
sending at any time, nor of `ResolverExpire`, which happens only when someone
asks.

`RunSettles`: `RunsFairness` assumes weak fairness of `Continue(e)`, the next
step of an execution under way: a thread goes on with its request, and the
adapters have a timeout of their own, so that asking a provider ends. Nothing is
assumed of new requests; a crash ends an execution for good, and the property
excepts the runs it was executing.

## 5. Proofs

Every theorem holds for all values of the constants, under the named
assumptions of the modules (`ConstantsAssumption`, `DecisionConstants`,
`PolicyConstants`, `TreeConstants`, `TeamConstants`, and one of each service:
`RoomAssumption`, `QuestionsAssumption`, `GatewayAssumption`, `BoardsAssumption`,
`TasksAssumption`, `FeedsAssumption`, `AccountsAssumption`, `StorageAssumption`,
`LifeAssumption`), which only say of which sets the constants are and which TLC
evaluates in each run. A theorem about a service is about the specification of
that service alone (`StorageSpec`, `RunsSpec`, …), with as many threads, rows and
requests as you like; `ServicesCompose` carries it over to `MCServices!Spec`.

| Theorem | States | Argument |
|---|---|---|
| `TypeCorrect` | `[]TypeOK` of `AccessGrants` | inductive |
| `ChainsKept` | `[]ChainIntegrity` | `Links` (each link is within its parent and older) and `Pending` (a validated request still points at a row of the same shape, for rows are never rewritten but for status) are inductive; the property about whole chains follows by `Within` being transitive along `Chain` |
| `CascadeComplete` | `[]OnlyLateOrphans` | adds `Due`: a row the command listed is overdue, so its children are; a child in force under a parent that just died was in the cascade, or `late` |
| `AdministratorRooted` | `[]AdministratorRoot` | adds `PendingRoot`, the same of the row a request is about to insert |
| `DepthsKept` | `[]DepthWithinRules`, while no rule is rewritten (`RuleRows = {}`) | `PendingDepth`: what a validation counted is still the length of its parent's chain, for the chain above a row never changes (`ChainFixed`); a new row's chain is one longer (`NewChainLength`) |
| `OffersCovered` | `[]OffersCover` | state by state: each condition of the resolver follows from the service's, given that grants are typed |
| `GrantsImplementLedger` | `Spec => ImplementsLedger` | initial states map to initial states; `InsertGrant` maps to `Issue`, revocation and every expiry to `Retire`, the rest to stutters |
| `DecisionTypeCorrect` | `[]TypeOK` of `AccessDecision` | inductive |
| `SteadyDecisions` | `[](SteadyDenyWins /\ SteadySourceWins)` | `Trail`: while a call is at a given statement, what held throughout it so far and what it has read are related as the code before that statement makes them; `SourcesDecide` is its second half |
| `Typing`, `ListsOpen`, `GatesHonourFlags`, `BulkAgreement`, `TasksIsolated`, `ContentPrivate` | `TypeOK` and the five invariants of `AccessPolicies` | state by state, ladder by ladder, from the types alone |
| `WithdrawalsLower` | `WithdrawalNeverRaises` | each condition of a ladder is monotone in the rows, and a lower rung is never guarded by the failure of a higher one that a withdrawal could cause |
| `OneHeadWithBundle` | `[](OneLead /\ BundleWithLead)` | `Exclusive` (one such request at a time) and `Fresh` (what it read is what is there, but for deleted rows); `BundlesFollowLeads` is its second half |
| `ProjectTeamTypeCorrect` | `[]TypeOK` of `ProjectTeam`, every regime | inductive |
| `DeposedAreWhole` | `DeposedWhole` | `Calm`: with one request in flight, the rows it read are those of the table or were deleted, so the role it saw is the one it writes over |
| `TreeStaysATree` | `[]Acyclic` | `Checked`: a set of departments closed under parents and without the department separates it from the parent it is about to get, until it gets it; then a cycle through the new link would, within that set, have been a cycle before |
| `TreeTypeCorrect` | `[]TypeOK` of `DepartmentTree`, every regime | inductive with `Named`: the rows a request names exist, for none is ever removed |
| `OnlyEmptyDeleted` | `DeletedEmpty` | `Calm`: with one request in flight, what a deletion found empty stays empty |
| `TeamTypeCorrect`, `HeadIsUnique` | `[]TypeOK`; `[]OneHead` (without the career service's assign and transfer) | inductive with `TypeOK` |
| `BundleFollowsHead` | `[]BundleWithHead`, for the company admin's endpoints and the workspace's removal | needs `OneHead`: a change of heads revokes one bundle |
| `CareerLogMatches` | `[]LogMatches`, for the endpoints that write only through the career service | one department's log after one assignment, then all the others', which a transfer empties of the employee |
| `RoomsTypeCorrect`, `AnOwnerRemains` | `[]RoomsTyped`; `[]OwnerRemains` | no owner is protected by the check that another exists, since two may go at once; what stays is the founder's row: `FounderSpared` (no request under way takes it) and `FounderStays` |
| `QuestionsTypeCorrect`, `AnswersAlwaysStand` | `[]QuestionsTyped`; `[]AnswersStand` | `QuestionsOpen`: the question a thread holds is there, unanswered, and no other thread's |
| `RatesKept` | `[]RateKept` | `RatesInv`: what got past a counter is at most what it stands at |
| `RunsTypeCorrect`, `RunAlwaysTold` | `[]RunsTyped`; `[]RunTold` | `LogKept`: the log of an execution is some entries about the first candidate and then some about the fallback, errors all but the last, and where the execution is says how many of which; `AnswersKept`: who is about to write an answer, and who wrote the one a run has, ended with that provider's success |
| `BoardsTypeCorrect`, `BoardsStayInOrder` | `[]BoardsTyped`; `[]BoardsInOrder` | `IdsInRow`: ids are given out once. Without overlap `OneAtATime`: what the one request under way has found is still so, and every other task is where its column says |
| `TasksTypeCorrect`, `StreamAlwaysExplains` | `[]TasksTyped`; `[]StreamExplains` | `StreamKept`: what the events do not say yet of a field, a PATCH under way that has written will (`WillTell`) |
| `WalkAlwaysExact` | `[]WalkExact` | `WalkKept`: a task that stood still has been served, once, if the cursor is past it and not at all if it is not. A page is the first tasks beyond the cursor in a strict total order, so that what follows the page is beyond the next cursor |
| `FeedsTypeCorrect`, `FeedAlwaysExact` | `[]FeedsTyped`; `[]FeedExact` | `NumbersKept`: no number is used twice, among the events on their way either. `ScanKept`: with a cursor, what was there and has not been seen comes after it; with pages, it has at least the pages read so far ahead of it (`Ahead`, a cardinality), which only grows |
| `StorageTypeCorrect`, `RowsHaveObjects` | `[]StorageTyped`; `[]RowHasObject` | `FileKept`: an upload has its id for itself, and its object is there when it is about to write the row; a deletion is of a row there is or was. `OneDefault` says without counting that one provider at most is the default |
| `DefaultAlwaysSettles` | `[]DefaultSettles` | `ProviderKept`: a request that met no other is the only one under way, and whom it is about to promote is active while there is no default |
| `QuotaAlwaysKept` | `QuotaKept` | `UploadKept`: an upload that nothing came between is the only one, and what it is about to add still fits; only its row adds to a usage, and by its size (`CreateRowUses`) |
| `LifeTypeCorrect`, `LifeAlwaysTold` | `[]LifeTyped`; `[]LifeTold` | `RowKept`: what the trail does not say yet of a row, a request under way will (`Owes`); `Undisturbed`: a PATCH whose row nobody wrote under it still has what the table has; `Founding`: the owner's row is written first |
| `AccountsTypeCorrect` | `[]AccountsTyped` | with `MembersHaveAccounts`: who is a member of a firm has an account |
| `RootsAlwaysStay`, `PromotedAlwaysStay` | `[]RootsStay`; `PromotedStay` | `Cautious`: a request about a root, and one that is up to date about any super admin, is of a kind that takes nothing from him; it was refused otherwise when it looked, and a root cannot have become super admin only since |
| `ServicesCompose` | `Spec => TasksSpec /\ … /\ LifeSpec` of `MCServices` | no variable is shared: a step of one service is a stuttering step of the others, and the fairness assumed is that of the runs |
| `ServicesTypeCorrect`, `ServicesKeepPromises` | `Spec => []AllTyped`; `Spec =>` all the other properties of the `Services` run but `RunSettles` | from the theorems about each, by `ServicesCompose` |

Each strengthening was checked as an invariant of a bounded instance, or follows
the property's own run, before it was proved. Invariants are needed beyond the
properties because a property speaks of the tables while the step that could
break it is decided by what a request read earlier: `Pending`, `Due`, `Trail`,
`Fresh`, `Calm`, `Checked`, `PendingDepth`, `FounderSpared`, `QuestionsOpen`,
`Cautious`, `StillFound`, `FileKept`, `ProviderKept`, `UploadKept` and
`Undisturbed` all say what that stale information is still good for; `StreamKept`
and `RowKept` say what a request under way still owes.

Acyclicity is stated without paths, as "every non-empty set of departments has a
member whose parent is outside it", so that no induction over walks is needed;
TLC checks the same formula. Where a proof needs an induction over data it takes a
least counterexample instead: that numbers have a least one (`LeastThere`) is the
library's theorem that the order of the naturals is well-founded. So a set of
firms or of active providers has a first (`LeastOf`), and so a usage, which is a
sum over a set of rows, is a natural number that does not depend on the order of
its terms and grows by the size of a row that is added (`AdderThere`,
`AdderTakes`, `SizeGrows`, for any finite set of rows).

Only model-checked:

- `OverdueRetired` and `RunSettles`: liveness under fairness is out of the
  prover's reach, as are `ENABLED` and what a recursive definition computes for
  every input; modules with theorems write `Chain`, `Cascade` and `Above` without
  recursion.
- Every violation.

## 6. Not modelled

Behaviour left out, and why:

- *Overlapping requests of the career service*: `DepartmentTeam` takes them
  whole (plan item 1). *The statements of a template's edit*: `AccessDecision`
  takes it whole (plan item 2).
- *Uploads to a workspace*: no module goes past the policy's refusal, since
  nothing ever does.
- *Ending a user's sessions* (`force_logout`): it imports the token model of an
  application that is not installed, and fails before it changes anything.
- *Departments listed by a grant*: `_department_ids_from_grants` names `Q`, which
  its module does not import, the error is swallowed, and the list is empty.
  `AccessPolicies` has it empty; the rest of the function is not modelled.
- *A bucket or credentials changed under stored files*: `Storage` keeps them
  fixed. A PATCH of the bucket makes the files stored before unreachable without
  touching a row, which is a matter of one assignment and not of order.
- *Files that count against no quota*: `compute_storage_usage` sums the documents
  of projects and workspaces, and neither chat attachments nor department
  documents; `Storage` counts what it counts.
- *Notifications*: computed from the latest 400 rows before they are filtered; a
  list without state of its own.
- *Invitations and tenants of the contract views*: dictionaries that only grow,
  with no reader that decides anything by them.
- Audit rows beyond the two modules named, exports, statistics, static payloads
  and dashboards, formatting, pagination of static lists, authentication and
  sessions, file contents, prices, prompts and contexts, and the HTTP adapters of
  the language models: input and output around the state above.

Whether an endpoint asks for the right permission is policy: `AccessPolicies`
says how the answers hang together, not which one is right. Seed data enters only
as the initial catalog, rules and models. The database is taken as it is
documented: unique constraints hold, a committed transaction is seen whole, and
`update_or_create` locks the row it finds.
