----------------------------- MODULE WorkspaceTasks -----------------------------
(***************************************************************************)
(* The personal task boards of /api/workspace (workspaces/data.py, served  *)
(* by workspaces/api/views.py): dictionaries in the memory of one server   *)
(* process, without a lock.                                                *)
(*                                                                         *)
(* A user's first request makes up an employee id from the user name and   *)
(* then files a profile and an empty board under it (StartProfile,         *)
(* FinishProfile).  A PATCH finds the task's group, writes the column and  *)
(* decides on a move, then moves (StartPatch, FinishPatch); a DELETE logs  *)
(* and then removes (StartDelete, FinishDelete).  Either no two requests   *)
(* overlap, or any do (overlap).                                           *)
(*                                                                         *)
(* Abstracted: whether the policy lets a request through (AccessPolicies); *)
(* a refused one changes nothing.  Titles, priorities, due dates, the text *)
(* of comments and checklists: what remains of them is their entry in the  *)
(* task's trail.  Bounds: MaxBoardTasks ids, one request per thread.       *)
(***************************************************************************)
EXTENDS Naturals, FiniteSets

CONSTANTS
  Names,          \* user names
  Slug,           \* Slug[n]: what _slug_username makes of a name
  BoardThreads, MaxBoardTasks

ASSUME BoardsAssumption == MaxBoardTasks \in Nat /\ DOMAIN Slug = Names /\ IsFiniteSet(Names)

BoardIds == 1 .. MaxBoardTasks
Groups == {"overdue", "today", "this_week", "later", "done"}
Columns == {"todo", "in_progress", "done"}
Employees == {Slug[n] : n \in Names} \X (1 .. Cardinality(Names) + 1)
Nobody == <<>>
Idle == [kind |-> "idle"]

VARIABLES
  overlap,     \* whether requests overlap
  employeeOf,  \* USERNAME_TO_EMPLOYEE
  boards,      \* EMPLOYEE_VERTICAL_TASKS: boards[e][g], for every employee id made up
  column,      \* the column of every task ever made
  trail,       \* _TASK_THREADS: the kinds of entries in a task's audit
  call         \* call[h]: what thread h is in the middle of

bvars == <<overlap, employeeOf, boards, column, trail, call>>

Made == DOMAIN column
OnBoard(e, i) == \E g \in Groups : i \in boards[e][g]
EmptyBoard == [g \in Groups |-> {}]

\* A thread takes a request only if no other is being served, or if they overlap.
Takes(h) == call[h] = Idle /\ (overlap \/ \A k \in BoardThreads : call[k] = Idle)

Logs(i, entry) == trail' = [trail EXCEPT ![i] = @ \cup {entry}]

BoardsInit ==
  /\ overlap \in BOOLEAN
  /\ employeeOf = [n \in Names |-> Nobody]
  /\ boards = [e \in {} |-> EmptyBoard]
  /\ column = [i \in {} |-> "todo"]
  /\ trail = [i \in {} |-> {}]
  /\ call = [h \in BoardThreads |-> Idle]

\* _ensure_dynamic_employee_profile: the first id for the slug not in use.
StartProfile(h, n) ==
  /\ Takes(h)
  /\ employeeOf[n] = Nobody
  /\ \E e \in Employees \ DOMAIN boards :
       /\ e[1] = Slug[n]
       /\ \A k \in 1 .. e[2] - 1 : <<e[1], k>> \in DOMAIN boards
       /\ call' = [call EXCEPT ![h] = [kind |-> "profile", name |-> n, as |-> e]]
  /\ UNCHANGED <<overlap, employeeOf, boards, column, trail>>

\* Its last lines: a fresh board is filed under the id, whatever is there.
FinishProfile(h) ==
  /\ call[h].kind = "profile"
  /\ boards' = [e \in DOMAIN boards \cup {call[h].as} |->
                  IF e = call[h].as THEN EmptyBoard ELSE boards[e]]
  /\ employeeOf' = [employeeOf EXCEPT ![call[h].name] = call[h].as]
  /\ call' = [call EXCEPT ![h] = Idle]
  /\ UNCHANGED <<overlap, column, trail>>

\* A new task of column c, filed in group g, with the entry its view logs.
Files(n, c, g) ==
  LET i == Cardinality(Made) + 1
  IN /\ boards' = [boards EXCEPT ![employeeOf[n]][g] = @ \cup {i}]
     /\ column' = [k \in Made \cup {i} |-> IF k = i THEN c ELSE column[k]]
     /\ trail' = [k \in Made \cup {i} |-> IF k = i THEN {"created"} ELSE trail[k]]

\* WorkspaceQuickTasksView: a quick task is to do and goes where the user says.
CreateQuickTask(h, n) ==
  /\ Takes(h)
  /\ Cardinality(Made) < MaxBoardTasks /\ employeeOf[n] # Nobody
  /\ \E slot \in {"today", "this_week", "later"} : Files(n, "todo", slot)
  /\ UNCHANGED <<overlap, employeeOf, call>>

\* WorkspaceTasksAliasView.post: "done" if it is done, "today" otherwise.
CreateBoardTask(h, n) ==
  /\ Takes(h)
  /\ Cardinality(Made) < MaxBoardTasks /\ employeeOf[n] # Nobody
  /\ \E c \in Columns : Files(n, c, IF c = "done" THEN "done" ELSE "today")
  /\ UNCHANGED <<overlap, employeeOf, call>>

\* What is added to a task on one's own board, or changed or removed there.
Annotates(h, n, i, entry) ==
  /\ Takes(h)
  /\ employeeOf[n] # Nobody /\ OnBoard(employeeOf[n], i)
  /\ Logs(i, entry)
  /\ UNCHANGED <<overlap, employeeOf, boards, column, call>>

Comment(h, n, i) == Annotates(h, n, i, "commented")
Checklist(h, n, i) == Annotates(h, n, i, "updated")

\* Where patch_workspace_task wants a task of group found and column c.
Target(found, c) == IF found # "done" /\ c = "done" THEN "done"
                    ELSE IF found = "done" /\ c # "done" THEN "today"
                    ELSE found

\* patch_workspace_task up to its decision; a payload without a column leaves the
\* column as it is.
StartPatchBoard(h, n, i) ==
  /\ Takes(h)
  /\ employeeOf[n] # Nobody
  /\ \E g \in Groups, c \in Columns :
       /\ i \in boards[employeeOf[n]][g]
       /\ column' = [column EXCEPT ![i] = c]
       /\ call' = [call EXCEPT ![h] = [kind |-> "patch", on |-> employeeOf[n], id |-> i,
                                       found |-> g, to |-> Target(g, c)]]
  /\ UNCHANGED <<overlap, employeeOf, boards, trail>>

\* Mutant: the task is put in its new group even if it has left the old one.
FinishPatchBoard_InsertsAnyway(h) ==
  /\ call[h].kind = "patch"
  /\ LET r == call[h]
     IN /\ boards' = [boards EXCEPT ![r.on][r.found] = @ \ {r.id},
                                    ![r.on][r.to] = @ \cup {r.id}]
        /\ Logs(r.id, "updated")
  /\ call' = [call EXCEPT ![h] = Idle]
  /\ UNCHANGED <<overlap, employeeOf, column>>

\* The move and the entry in the trail.  list.remove fails on a task that has left
\* the group it was found in, and the entry on one that has left the board.
FinishPatchBoard(h) ==
  /\ call[h].kind = "patch"
  /\ LET r == call[h]
         stays == r.to = r.found
     IN \/ /\ IF stays THEN OnBoard(r.on, r.id) ELSE r.id \in boards[r.on][r.found]
           /\ boards' = IF stays THEN boards
                        ELSE [boards EXCEPT ![r.on][r.found] = @ \ {r.id},
                                            ![r.on][r.to] = @ \cup {r.id}]
           /\ Logs(r.id, "updated")
        \/ /\ ~ IF stays THEN OnBoard(r.on, r.id) ELSE r.id \in boards[r.on][r.found]
           /\ UNCHANGED <<boards, trail>>
  /\ call' = [call EXCEPT ![h] = Idle]
  /\ UNCHANGED <<overlap, employeeOf, column>>

\* WorkspaceTaskAliasDetailView.delete: the entry first, while the task is there.
StartDeleteBoard(h, n, i) ==
  /\ Takes(h)
  /\ employeeOf[n] # Nobody /\ OnBoard(employeeOf[n], i)
  /\ Logs(i, "deleted")
  /\ call' = [call EXCEPT ![h] = [kind |-> "delete", on |-> employeeOf[n], id |-> i]]
  /\ UNCHANGED <<overlap, employeeOf, boards, column>>

\* delete_workspace_task: from whatever group the task is in by now.  The thread
\* of comments stays; ids are never used again.
FinishDeleteBoard(h) ==
  /\ call[h].kind = "delete"
  /\ boards' = [boards EXCEPT ![call[h].on] = [g \in Groups |-> @[g] \ {call[h].id}]]
  /\ call' = [call EXCEPT ![h] = Idle]
  /\ UNCHANGED <<overlap, employeeOf, column, trail>>

BoardsNext ==
  \/ \E h \in BoardThreads, n \in Names :
       StartProfile(h, n) \/ CreateQuickTask(h, n) \/ CreateBoardTask(h, n)
  \/ \E h \in BoardThreads, n \in Names, i \in Made :
       \/ Comment(h, n, i) \/ Checklist(h, n, i)
       \/ StartPatchBoard(h, n, i) \/ StartDeleteBoard(h, n, i)
  \/ \E h \in BoardThreads :
       FinishProfile(h) \/ FinishPatchBoard(h) \/ FinishDeleteBoard(h)

BoardsSpec == BoardsInit /\ [][BoardsNext]_bvars

--------------------------------------------------------------------------------
(* Properties *)

Calls ==
  {Idle} \cup [kind : {"profile"}, name : Names, as : Employees]
         \cup [kind : {"patch"}, on : DOMAIN boards, id : Made, found : Groups, to : Groups]
         \cup [kind : {"delete"}, on : DOMAIN boards, id : Made]

\* The dictionaries hold ids that were handed out, and a user's employee has a board.
BoardsTyped ==
  /\ overlap \in BOOLEAN
  /\ DOMAIN boards \subseteq Employees
  /\ employeeOf \in [Names -> DOMAIN boards \cup {Nobody}]
  /\ Made \subseteq BoardIds
  /\ boards \in [DOMAIN boards -> [Groups -> SUBSET Made]]
  /\ column \in [Made -> Columns]
  /\ trail \in [Made -> SUBSET {"created", "updated", "commented", "deleted"}]
  /\ call \in [BoardThreads -> Calls]

\* A task is never in two groups or on two boards.
OneGroup ==
  \A i \in Made : \A e, f \in DOMAIN boards : \A g, k \in Groups :
    i \in boards[e][g] /\ i \in boards[f][k] => e = f /\ g = k

\* The group "done" holds the tasks of column "done" and no others, and a task whose
\* trail says it was deleted is on no board.
DoneMatches ==
  \A e \in DOMAIN boards, g \in Groups : \A i \in boards[e][g] :
    /\ g = "done" <=> column[i] = "done"
    /\ "deleted" \notin trail[i]

\* No two users share an employee id, and so a board, even if their names have one slug.
BoardsApart ==
  \A m, n \in Names : employeeOf[m] = employeeOf[n] /\ employeeOf[m] # Nobody => m = n

\* However requests overlap, no task gets into two groups: list.remove fails in the
\* request that comes too late, before it inserts.  The rest holds between requests
\* as long as they do not overlap.
BoardsInOrder ==
  /\ OneGroup
  /\ ~ overlap /\ (\A h \in BoardThreads : call[h] = Idle) => DoneMatches /\ BoardsApart
==================================================================================
