------------------------------ MODULE ContractTasks ------------------------------
(***************************************************************************)
(* The tasks of /api/tasks (core/api/parallel_contract_views.py): a list   *)
(* in the memory of one server process, served by its threads.             *)
(*                                                                         *)
(* A PATCH writes its fields into the shared task and only then validates  *)
(* the result and asks the database for permissions (StartPatch,           *)
(* FinishPatch), and a bulk request asks before each task, under the time  *)
(* it read at the start (StartBulk, BulkNext): other threads run in        *)
(* between.  The remaining handlers write in one stretch without a query   *)
(* and are one step.  A reader walks the list with a cursor, page by page, *)
(* while all this goes on.                                                 *)
(*                                                                         *)
(* Abstracted: rights and active members are fixed parameters (they have   *)
(* modules of their own) and every user is known; title, description,      *)
(* priority, department and due date go the way of status; of the activity *)
(* stream only what replaying it tells of a task is kept.  isoformat omits *)
(* the fraction of a whole second, where the text order of stamps is not   *)
(* the order in time: no two instants here are that close.  Bounds:        *)
(* MaxTasks ids, MaxRequests writing requests, a clock up to MaxTime, one  *)
(* request per thread, one walk, FieldSets for what a PATCH may hold.      *)
(***************************************************************************)
EXTENDS Naturals, FiniteSets, Sequences

CONSTANTS
  Users, Projects, NoProject, Statuses,
  Rights,     \* the <<user, code, project>> for which can_project_task_action holds
  Members,    \* Members[p]: the active members of project p
  Seeds,      \* the tasks the process starts with
  FieldSets,  \* the sets of fields a PATCH may hold
  Threads, Reader, PageSize, MaxTasks, MaxTime, MaxRequests

Codes == {"view", "create", "edit", "assign"}
TaskIds == 1 .. MaxTasks
Fields == {"status", "project", "assignee"}
Content == [status : Statuses, project : Projects \cup {NoProject}, assignee : Users]
Absent == [here |-> FALSE]
Task == {Absent} \cup [here : {TRUE}, is : Content, stamp : 0 .. MaxTime]

ASSUME TasksAssumption ==
  /\ NoProject \notin Projects
  /\ Rights \subseteq Users \X Codes \X Projects
  /\ Members \in [Projects -> SUBSET Users]
  /\ FieldSets \subseteq SUBSET Fields
  /\ MaxTasks \in Nat /\ MaxTime \in Nat /\ MaxRequests \in Nat /\ PageSize \in Nat \ {0}
  /\ Reader \in Users
  /\ Seeds \in Seq(Content) /\ Len(Seeds) <= MaxTasks

Quiet == [kind |-> "quiet"]
PatchRequest == [kind : {"patch"}, by : Users, id : TaskIds, set : FieldSets,
                 before : Content, to : Content]
BulkRequest == [kind : {"bulk"}, by : Users, field : {"status", "assignee"},
                value : Statuses \cup Users, stamp : 0 .. MaxTime, ids : Seq(TaskIds)]

VARIABLES
  task,     \* TASK_ITEMS, by id
  nextId,   \* _task_seq
  logged,   \* history: a task's fields as replaying TASK_ACTIVITY_EVENTS gives them
  slips,    \* history: the tasks that kept what a refused PATCH had written
  req,      \* req[h]: what thread h is in the middle of
  walk,     \* the reader's walk: where it is, what it was served, what stood still
  time,     \* the clock
  left      \* how many writing requests are still to come

tvars == <<task, nextId, logged, slips, req, walk, time, left>>

Here(i) == task[i].here

\* _require_project_task_permission: a task of no project is nobody's business;
\* the first of the two that has a project decides.
Can(u, code, t, fallback) ==
  LET p == IF t.project # NoProject THEN t.project ELSE fallback.project
  IN p # NoProject => <<u, code, p>> \in Rights

Sees(u, i) == Here(i) /\ Can(u, "view", task[i].is, task[i].is)

\* _validate_task_relations.
Valid(t) == t.project # NoProject => t.assignee \in Members[t.project]

\* _required_task_patch_permissions, of the fields the payload holds.
RequiredCodes(set, before, to) ==
  LET changed == {c \in {"assign"} : "assignee" \in set /\ to.assignee # before.assignee}
      edited == {c \in {"edit"} : set \cap {"status", "project"} # {}}
  IN IF changed \cup edited = {} THEN {"edit"} ELSE changed \cup edited

\* What the checks at the end of a PATCH make of the task as it is by then.
PatchAllowed(r, now) ==
  /\ Valid(now)
  /\ \/ r.set = {"status"} /\ r.before.assignee = r.by
     \/ \A code \in RequiredCodes(r.set, r.before, r.to) : Can(r.by, code, now, r.before)
  /\ "project" \in r.set => Can(r.by, "edit", r.before, r.before)

\* A task that is written is no longer one that stood still under the walk.
Spend == left > 0 /\ left' = left - 1

Disturb(ids) == walk' = [walk EXCEPT !.steady = @ \ ids]

--------------------------------------------------------------------------------
TasksInit ==
  /\ task = [i \in TaskIds |-> IF i \in DOMAIN Seeds
                               THEN [here |-> TRUE, is |-> Seeds[i], stamp |-> 0]
                               ELSE Absent]
  /\ nextId = Len(Seeds) + 1
  /\ logged = [i \in DOMAIN Seeds |-> Seeds[i]]
  /\ slips = {}
  /\ req = [h \in Threads |-> Quiet]
  /\ walk = [at |-> "before", cursor |-> <<>>, seen |-> {}, twice |-> {}, steady |-> {}]
  /\ time = 0
  /\ left = MaxRequests

\* TasksView.post.  A refused request only uses up an id, which nobody can tell.
CreateTask(u) ==
  /\ Spend
  /\ nextId <= MaxTasks
  /\ \E c \in Content :
       /\ Valid(c)
       /\ Can(u, "create", c, c)
       /\ c.assignee # u => Can(u, "assign", c, c)
       /\ task' = [task EXCEPT ![nextId] = [here |-> TRUE, is |-> c, stamp |-> time]]
       /\ logged' = [i \in DOMAIN logged \cup {nextId} |->
                       IF i = nextId THEN c ELSE logged[i]]
  /\ nextId' = nextId + 1
  /\ UNCHANGED <<slips, req, walk, time>>

\* TaskDetailView.patch, up to the loop that writes the payload into the task.
\* to is the task as the payload would have it, before the task as it was.
StartPatch(h, u, i) ==
  /\ Spend
  /\ req[h] = Quiet
  /\ Sees(u, i)
  /\ \E set \in FieldSets, to \in Content :
       /\ \A f \in Fields \ set : to[f] = task[i].is[f]
       /\ req' = [req EXCEPT ![h] = [kind |-> "patch", by |-> u, id |-> i, set |-> set,
                                     before |-> task[i].is, to |-> to]]
       /\ task' = [task EXCEPT ![i].is = to]
       /\ Disturb({i})
  /\ UNCHANGED <<nextId, logged, slips, time>>

\* Mutant: the payload is logged, not what has become of the task.
FinishPatch_LogsPayload(h) ==
  /\ req[h].kind = "patch"
  /\ LET r == req[h]
     IN /\ Here(r.id) /\ PatchAllowed(r, task[r.id].is)
        /\ task' = [task EXCEPT ![r.id].stamp = time]
        /\ logged' = [logged EXCEPT ![r.id] =
                        [f \in Fields |-> IF r.before[f] # r.to[f]
                                          THEN r.to[f] ELSE logged[r.id][f]]]
        /\ Disturb({r.id})
  /\ req' = [req EXCEPT ![h] = Quiet]
  /\ UNCHANGED <<nextId, slips, time, left>>

\* The rest of it: the checks, then the stamp and an event with the differences
\* between the task as it was and as it is.  A refused request undoes nothing.
\* Of a task deleted meanwhile nothing remains to be changed.
FinishPatch(h) ==
  /\ req[h].kind = "patch"
  /\ LET r == req[h]
         now == task[r.id].is
     IN \/ /\ Here(r.id) /\ PatchAllowed(r, now)
           /\ task' = [task EXCEPT ![r.id].stamp = time]
           /\ logged' = [logged EXCEPT ![r.id] =
                           [f \in Fields |-> IF r.before[f] # now[f]
                                             THEN now[f] ELSE logged[r.id][f]]]
           /\ Disturb({r.id})
           /\ UNCHANGED slips
        \/ /\ Here(r.id) /\ ~ PatchAllowed(r, now)
           /\ slips' = slips \cup {i \in {r.id} : r.to # r.before}
           /\ UNCHANGED <<task, logged, walk>>
        \/ ~ Here(r.id) /\ UNCHANGED <<task, logged, slips, walk>>
  /\ req' = [req EXCEPT ![h] = Quiet]
  /\ UNCHANGED <<nextId, time, left>>

\* TaskDetailView.delete.
DeleteTask(u, i) ==
  /\ Spend
  /\ Sees(u, i)
  /\ Can(u, "edit", task[i].is, task[i].is)
  /\ task' = [task EXCEPT ![i] = Absent]
  /\ Disturb({i})
  /\ UNCHANGED <<nextId, logged, slips, req, time>>

\* TasksBulkStatusView.patch and TasksBulkAssignView.patch, up to the loop.
StartBulk(h, u) ==
  /\ Spend
  /\ req[h] = Quiet
  /\ \E field \in {"status", "assignee"}, ids \in [1 .. 2 -> TaskIds] :
     \E value \in IF field = "status" THEN Statuses ELSE Users :
       /\ ids[1] # ids[2]
       /\ req' = [req EXCEPT ![h] = [kind |-> "bulk", by |-> u, field |-> field,
                                     value |-> value, stamp |-> time, ids |-> ids]]
  /\ UNCHANGED <<task, nextId, logged, slips, walk, time>>

\* One round of the loop.  A task that is gone or hidden is reported as not found;
\* the first refusal ends the request and keeps what it has done.
BulkNext(h) ==
  /\ req[h].kind = "bulk"
  /\ LET r == req[h]
         i == Head(r.ids)
         rest == IF Len(r.ids) = 1 THEN Quiet ELSE [r EXCEPT !.ids = Tail(@)]
         now == task[i].is
         code == IF r.field = "status" THEN "edit" ELSE "assign"
     IN \/ ~ Sees(r.by, i) /\ req' = [req EXCEPT ![h] = rest]
           /\ UNCHANGED <<task, logged, walk>>
        \/ Sees(r.by, i) /\ ~ Can(r.by, code, now, now) /\ req' = [req EXCEPT ![h] = Quiet]
           /\ UNCHANGED <<task, logged, walk>>
        \/ /\ Sees(r.by, i) /\ Can(r.by, code, now, now)
           /\ task' = [task EXCEPT ![i] = [here |-> TRUE, stamp |-> r.stamp,
                                           is |-> [now EXCEPT ![r.field] = r.value]]]
           /\ logged' = [logged EXCEPT ![i][r.field] = r.value]
           /\ req' = [req EXCEPT ![h] = rest]
           /\ Disturb({i})
  /\ UNCHANGED <<nextId, slips, time, left>>

\* TaskActivityView.post: a comment or an attachment touches the task.
AddActivity(u, i) ==
  /\ Spend
  /\ Sees(u, i)
  /\ task' = [task EXCEPT ![i].stamp = time]
  /\ Disturb({i})
  /\ UNCHANGED <<nextId, logged, slips, req, time>>

--------------------------------------------------------------------------------
(* Reading with a cursor. *)

\* The list is served latest first, by (updated_at, id).
Key(i) == <<task[i].stamp, i>>
Later(k, l) == k[1] > l[1] \/ (k[1] = l[1] /\ k[2] > l[2])

\* Mutant: the cursor compares stamps only.
Beyond_StampOnly(i) == walk.cursor # <<>> => task[i].stamp < walk.cursor[1]

\* What _cursor_paginate_tasks keeps of the list for the request's cursor.
Beyond(i) == walk.cursor # <<>> => Later(walk.cursor, Key(i))

Remaining == {i \in TaskIds : Sees(Reader, i) /\ Beyond(i)}

StartWalk ==
  /\ walk.at = "before"
  /\ walk' = [walk EXCEPT !.at = "under way", !.steady = {i \in TaskIds : Sees(Reader, i)}]
  /\ UNCHANGED <<task, nextId, logged, slips, req, time, left>>

\* TasksView.get in cursor mode: the first PageSize of what remains; only a full
\* page comes with a cursor to go on from.
NextPage ==
  /\ walk.at = "under way"
  /\ \E page \in SUBSET Remaining :
       /\ \A i \in page, j \in Remaining \ page : Later(Key(i), Key(j))
       /\ Cardinality(page) <= PageSize
       /\ Cardinality(page) < PageSize => page = Remaining
       /\ walk' = [walk EXCEPT !.seen = @ \cup page,
                               !.twice = @ \cup (walk.seen \cap page),
                               !.at = IF Cardinality(page) < PageSize THEN "done" ELSE @,
                               !.cursor = IF Cardinality(page) < PageSize THEN @
                                 ELSE CHOOSE k \in {Key(i) : i \in page} :
                                        \A i \in page : k = Key(i) \/ Later(Key(i), k)]
  /\ UNCHANGED <<task, nextId, logged, slips, req, time, left>>

TimePasses ==
  /\ time < MaxTime
  /\ time' = time + 1
  /\ UNCHANGED <<task, nextId, logged, slips, req, walk, left>>

TasksNext ==
  \/ \E u \in Users : CreateTask(u)
  \/ \E u \in Users, i \in TaskIds : DeleteTask(u, i) \/ AddActivity(u, i)
  \/ \E h \in Threads, u \in Users, i \in TaskIds : StartPatch(h, u, i)
  \/ \E h \in Threads, u \in Users : StartBulk(h, u)
  \/ \E h \in Threads : FinishPatch(h) \/ BulkNext(h)
  \/ StartWalk \/ NextPage \/ TimePasses

TasksSpec == TasksInit /\ [][TasksNext]_tvars

--------------------------------------------------------------------------------
(* Properties *)

\* The process's memory holds what the handlers put there.
TasksTyped ==
  /\ task \in [TaskIds -> Task]
  /\ nextId \in 1 .. MaxTasks + 1
  /\ logged \in [1 .. nextId - 1 -> Content]
  /\ slips \subseteq TaskIds
  /\ req \in [Threads -> {Quiet} \cup PatchRequest \cup BulkRequest]
  /\ walk.seen \cup walk.twice \cup walk.steady \subseteq 1 .. nextId - 1
  /\ time \in 0 .. MaxTime /\ left \in 0 .. MaxRequests

\* The activity stream explains every task: with no PATCH of it under way, what a
\* replay of its events gives is what the task holds, however requests for it
\* overlapped - unless a refused PATCH has left something behind.
StreamExplains ==
  \A i \in TaskIds :
    /\ Here(i) /\ i \notin slips
    /\ \A h \in Threads : req[h].kind = "patch" => req[h].id # i
    => logged[i] = task[i].is

\* A walk with the cursor, finished, has served every task that stood still and was
\* visible throughout, and served it once, whatever came, went and moved meanwhile
\* ("stable ordering", CURSOR_MODE_DESCRIPTION).
WalkExact ==
  walk.at = "done" => walk.steady \subseteq walk.seen \ walk.twice
==================================================================================
