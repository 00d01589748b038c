------------------------------ MODULE DepartmentTree ------------------------------
(***************************************************************************)
(* The department tree of one organization (OrgUnit rows) and what hangs   *)
(* off a department: its members and the projects it is the primary unit   *)
(* of.                                                                     *)
(*                                                                         *)
(* PATCH /departments/<pk> loads a row, walks up from the requested parent *)
(* and then save()s every column of the loaded row, parent and is_active   *)
(* included; DELETE checks that the department is empty and then clears    *)
(* is_active; a department is created, joined or given a project after its *)
(* row was looked up.  Each is a Load or Check step and a write step, with *)
(* any step of another worker in between and no transaction or lock around *)
(* the two.  serial, chosen at the start and never changed, names the      *)
(* kinds of request that are not let overlap: none in the code; a property *)
(* that needs some of them serialised says which.                          *)
(*                                                                         *)
(* Abstracted: names, codes and descriptions (a PATCH that changes nothing *)
(* here stands for one of those); who may call what; who the members and   *)
(* projects of a department are.  Bounds: the set Units of rows there may  *)
(* be, one request per worker at a time.                                   *)
(***************************************************************************)
EXTENDS Naturals, FiniteSets

CONSTANTS
  Units, Root, Workers,
  Regimes   \* the values of serial

Kinds == {"patch", "delete", "create", "join"}

ASSUME TreeConstants == Root \notin Units /\ Regimes \subseteq SUBSET Kinds

States == {"active", "inactive"}
Row == [parent : Units \cup {Root}, state : States]
Missing == [parent |-> Root, state |-> "missing"]   \* no row yet

Request ==
  [kind : {"idle"}]
  \cup [kind : {"patch"}, unit : Units, row : Row]   \* row: with the edits made
  \cup [kind : {"delete"}, unit : Units]
  \cup [kind : {"create"}, parent : Units \cup {Root}]
  \cup [kind : {"join"}, unit : Units]

VARIABLES
  serial,   \* the kinds of request that are not let overlap
  unit,     \* unit[d]: the OrgUnit row d
  staffed,  \* the departments with members
  hosting,  \* the departments with a project that is not archived
  req       \* req[w]: the request worker w has checked and not yet written

vars == <<serial, unit, staffed, hosting, req>>

Idle == [kind |-> "idle"]
Exists(d) == unit[d].state # "missing"
IsActive(d) == unit[d].state = "active"
ActiveChildren(d) == {c \in Units : IsActive(c) /\ unit[c].parent = d}
Empty(d) == ActiveChildren(d) = {} /\ d \notin staffed /\ d \notin hosting

MayStart(w, kind) ==
  /\ req[w] = Idle
  /\ kind \in serial => \A v \in Workers : req[v].kind \notin serial

Begin(w, r) ==
  /\ MayStart(w, r.kind)
  /\ req' = [req EXCEPT ![w] = r]
  /\ UNCHANGED <<unit, staffed, hosting>>

Finish(w) == req' = [req EXCEPT ![w] = Idle]

--------------------------------------------------------------------------------
(* validate_parent_id *)

ParentClosed(S) == \A d \in S : unit[d].parent # Root => unit[d].parent \in S

\* The departments the walk up from p passes through, p included.
Above(p) ==
  {a \in Units : \A S \in SUBSET Units : p \in S /\ ParentClosed(S) => a \in S}

\* Mutant: only the department itself is refused as its parent.
ParentAllowed_NoWalk(d, p) == p # Root => Exists(p) /\ p # d

\* Any row of the organization will do as a parent, an inactive one too, unless
\* the walk from it meets d.
ParentAllowed(d, p) == p # Root => Exists(p) /\ d \notin Above(p)

--------------------------------------------------------------------------------
(* Operations *)

\* PATCH: load and validate.  A parent that is not in the body is not checked.
LoadPatch(w, d, parent, state) ==
  /\ IsActive(d)
  /\ parent # unit[d].parent => ParentAllowed(d, parent)
  /\ Begin(w, [kind |-> "patch", unit |-> d,
               row |-> [parent |-> parent, state |-> state]])

\* PATCH: the full save.
SavePatch(w) ==
  /\ req[w].kind = "patch"
  /\ unit' = [unit EXCEPT ![req[w].unit] = req[w].row]
  /\ Finish(w)
  /\ UNCHANGED <<staffed, hosting>>

\* Mutant: the check for active children is missing.
CheckDelete_ChildrenIgnored(w, d) ==
  /\ IsActive(d) /\ d \notin staffed /\ d \notin hosting
  /\ Begin(w, [kind |-> "delete", unit |-> d])

CheckDelete(w, d) ==
  /\ IsActive(d) /\ Empty(d)
  /\ Begin(w, [kind |-> "delete", unit |-> d])

CommitDelete(w) ==
  /\ req[w].kind = "delete"
  /\ unit' = [unit EXCEPT ![req[w].unit].state = "inactive"]
  /\ Finish(w)
  /\ UNCHANGED <<staffed, hosting>>

\* POST: the parent, if any, is looked up among the active departments.
CheckCreate(w, parent) ==
  /\ parent # Root => IsActive(parent)
  /\ Begin(w, [kind |-> "create", parent |-> parent])

CommitCreate(w, d) ==
  /\ req[w].kind = "create"
  /\ ~ Exists(d)
  /\ unit' = [unit EXCEPT ![d] = [parent |-> req[w].parent, state |-> "active"]]
  /\ Finish(w)
  /\ UNCHANGED <<staffed, hosting>>

\* A member joins or a project is attached, by the endpoints that accept active
\* departments only (departments/<pk>/employees) ...
LoadJoin(w, d) ==
  /\ IsActive(d)
  /\ Begin(w, [kind |-> "join", unit |-> d])

CommitJoin(w) ==
  /\ req[w].kind = "join"
  /\ staffed' = staffed \cup {req[w].unit}
  /\ Finish(w)
  /\ UNCHANGED <<unit, hosting>>

\* ... and by those that accept any row (org-units/<pk>/members, the career
\* service, a project's primary_org_unit).
JoinAny(d) ==
  /\ Exists(d)
  /\ "join" \in serial => \A v \in Workers : req[v].kind \notin serial
  /\ \/ staffed' = staffed \cup {d} /\ UNCHANGED hosting
     \/ hosting' = hosting \cup {d} /\ UNCHANGED staffed
  /\ UNCHANGED <<unit, req>>

\* The last member leaves, or the last open project is archived or moved.
Vacate(d) ==
  /\ \/ d \in staffed /\ staffed' = staffed \ {d} /\ UNCHANGED hosting
     \/ d \in hosting /\ hosting' = hosting \ {d} /\ UNCHANGED staffed
  /\ UNCHANGED <<unit, req>>

\* A request that fails validation later, or dies, writes nothing.
FailRequest(w) ==
  /\ req[w] # Idle
  /\ Finish(w)
  /\ UNCHANGED <<unit, staffed, hosting>>

--------------------------------------------------------------------------------
Init ==
  /\ serial \in Regimes
  /\ unit = [d \in Units |-> Missing]
  /\ staffed = {} /\ hosting = {}
  /\ req = [w \in Workers |-> Idle]

Step ==
  \/ \E w \in Workers, d \in Units :
       \/ \E parent \in Units \cup {Root}, state \in States : LoadPatch(w, d, parent, state)
       \/ CheckDelete(w, d)
       \/ LoadJoin(w, d)
       \/ CommitCreate(w, d)
  \/ \E w \in Workers, parent \in Units \cup {Root} : CheckCreate(w, parent)
  \/ \E w \in Workers :
       SavePatch(w) \/ CommitDelete(w) \/ CommitJoin(w) \/ FailRequest(w)
  \/ \E d \in Units : JoinAny(d) \/ Vacate(d)

Next == Step /\ UNCHANGED serial

Spec == Init /\ [][Next]_vars

--------------------------------------------------------------------------------
(* Properties *)

\* Every row's parent is a row of the organization or none; what has members or
\* projects is a row; requests carry what the code reads.
TypeOK ==
  /\ serial \in Regimes
  /\ unit \in [Units -> Row \cup {Missing}]
  /\ \A d \in Units : unit[d].parent # Root => Exists(unit[d].parent)
  /\ staffed \in SUBSET Units /\ hosting \in SUBSET Units
  /\ req \in [Workers -> Request]

\* The tree of the code's hierarchy: no department is above itself.  No set of
\* departments has all its parents inside it.  (On a cycle the walk of the next
\* PATCH would not end.)
Forest ==
  \A S \in SUBSET Units : S # {} => \E d \in S : unit[d].parent \notin S

\* If PATCHes do not overlap there is no cycle, whatever PATCHes, deletions and
\* creations there are: the check of one PATCH is not undone by another write.
Acyclic == "patch" \in serial => Forest

\* If no two requests overlap, DELETE does what its refusals promise: a department
\* is not deleted while it has active subdepartments, members or open projects.
DeletedEmpty ==
  [][serial = Kinds => \A w \in Workers : CommitDelete(w) => Empty(req[w].unit)]_vars
==================================================================================
