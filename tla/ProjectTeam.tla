------------------------------- MODULE ProjectTeam -------------------------------
(***************************************************************************)
(* The team of one project: the ProjectMember rows, who heads it (is_lead) *)
(* and the bundle of project-scoped grants an assignment issues to the     *)
(* head, recognised later by its note (project_lead_scoped:proj=<id>).     *)
(*                                                                         *)
(* assign_project_lead and clear_project_lead run in one READ COMMITTED    *)
(* transaction without row locks: what they read first (the previous heads *)
(* and their bundles) may be stale when they write.  PATCH of a member is  *)
(* a load and a full save() of the loaded row, assign_to_project a load    *)
(* and a save of the fields it changed.  Each is a Start or Load step and  *)
(* a later Save or Commit step, with any step of another worker between;   *)
(* a request may also fail and roll back in between.                       *)
(*                                                                         *)
(* serial, chosen at the start and never changed, names the kinds of       *)
(* request that are not let overlap.  The code serialises none of them     *)
(* (serial = {}); a property that needs some of them serialised says which.*)
(* Abstracted: who may call what (AccessDecision); the career events;      *)
(* titles and weights; every role other than lead is "editor".             *)
(* Bounds: MaxRows primary keys, MaxBundles bundles.                       *)
(***************************************************************************)
EXTENDS Naturals, FiniteSets

CONSTANTS
  Users,        \* active members of the project's organization
  SuperAdmins,  \* those whom the career service refuses to touch
  Workers, MaxRows, MaxBundles,
  Regimes       \* the values of serial

Roles == {"lead", "editor"}
Flags == {"active", "lead"}     \* is_active and is_lead
Kinds == {"assign", "clear", "patch", "career", "upsert"}

\* Assignments, removals and PATCH, whose full save() writes is_lead back.
LeadWriters == {"assign", "clear", "patch"}

ASSUME TeamConstants ==
  /\ Regimes \subseteq SUBSET Kinds /\ SuperAdmins \subseteq Users
  /\ MaxRows \in Nat /\ MaxBundles \in Nat

Absent == [pk |-> 0, role |-> "none", is |-> {}]
Row == [pk : 1 .. MaxRows, role : Roles, is : SUBSET Flags]
Bundle == [user : Users, id : 1 .. MaxBundles]

\* A request in flight and what it has read: the rows it is going to save and
\* the bundles it is going to revoke.  new is the bundle to issue, or none.
Request ==
  [kind : {"idle"}]
  \cup [kind : {"assign"}, user : Users, new : {"bundle", "none"},
        prev : [Users -> Row \cup {Absent}], listed : SUBSET Bundle]
  \cup [kind : {"clear"}, user : Users, row : Row, listed : SUBSET Bundle]
  \cup [kind : {"patch"}, user : Users, row : Row]
  \cup [kind : {"career"}, user : Users, row : Row \cup {Absent}]

VARIABLES
  serial,   \* the kinds of request that are not let overlap
  member,   \* member[u]: u's ProjectMember row, or Absent
  bundles,  \* the active bundles
  keys,     \* primary keys used
  issued,   \* bundles issued
  req,      \* req[w]: the request worker w has started and not finished
  left      \* history: users whose row was deleted while they headed the project

vars == <<serial, member, bundles, keys, issued, req, left>>

Idle == [kind |-> "idle"]
Present(u) == member[u] # Absent
Lead(u) == "lead" \in member[u].is
IsActive(u) == "active" \in member[u].is
Leads == {u \in Users : Lead(u)}
BundlesOf(S) == {b \in bundles : b.user \in S}

\* The row read earlier is still the one in the table.
Same(u, row) == member[u].pk = row.pk

MayRun(kind) == kind \in serial => \A v \in Workers : req[v].kind \notin serial
MayStart(w, kind) == req[w] = Idle /\ MayRun(kind)

Finish(w) == req' = [req EXCEPT ![w] = Idle]

\* Deposed(row): what an assignment or a removal writes over row, having read
\* the role in stale.
Deposed(row, stale) ==
  [row EXCEPT !.is = @ \ {"lead"},
              !.role = IF stale.role = "lead" THEN "editor" ELSE @]

\* Writing role and is_active; active is {} or {"active"}.
Edited(row, role, active) ==
  [row EXCEPT !.role = role, !.is = (@ \ {"active"}) \cup active]

NewRow(role, is) == [pk |-> keys + 1, role |-> role, is |-> is]

--------------------------------------------------------------------------------
(* assign_project_lead *)

\* Mutant: only an active head counts as the previous one.
StartAssign_ActiveOnly(w, u, new) ==
  LET prev == {v \in Leads \ {u} : IsActive(v)}
  IN /\ MayStart(w, "assign")
     /\ req' = [req EXCEPT ![w] =
          [kind |-> "assign", user |-> u, new |-> new, listed |-> BundlesOf(prev),
           prev |-> [v \in Users |-> IF v \in prev THEN member[v] ELSE Absent]]]
     /\ UNCHANGED <<member, bundles, keys, issued, left>>

StartAssign(w, u, new) ==
  LET prev == Leads \ {u}
  IN /\ MayStart(w, "assign")
     /\ req' = [req EXCEPT ![w] =
          [kind |-> "assign", user |-> u, new |-> new, listed |-> BundlesOf(prev),
           prev |-> [v \in Users |-> IF v \in prev THEN member[v] ELSE Absent]]]
     /\ UNCHANGED <<member, bundles, keys, issued, left>>

\* The row get_or_create leaves for the new head.
HeadRow(u) ==
  IF Present(u) THEN [member[u] EXCEPT !.is = Flags] ELSE NewRow("editor", Flags)

\* The user's own earlier bundles are listed after their row is saved, so from
\* the current table; save(update_fields) of a deleted row raises.
CommitAssign(w) ==
  LET r == req[w]
      prev == {v \in Users : r.prev[v] # Absent}
  IN /\ r.kind = "assign"
     /\ \A v \in prev : Same(v, r.prev[v])
     /\ Present(r.user) \/ keys < MaxRows
     /\ r.new = "bundle" => issued < MaxBundles
     /\ member' = [v \in Users |->
                     IF v = r.user THEN HeadRow(v)
                     ELSE IF v \in prev THEN Deposed(member[v], r.prev[v]) ELSE member[v]]
     /\ keys' = IF Present(r.user) THEN keys ELSE keys + 1
     /\ issued' = IF r.new = "bundle" THEN issued + 1 ELSE issued
     /\ bundles' = (bundles \ (r.listed \cup BundlesOf({r.user})))
                   \cup (IF r.new = "bundle" THEN {[user |-> r.user, id |-> issued + 1]} ELSE {})
     /\ left' = left \ {r.user}
     /\ Finish(w)

--------------------------------------------------------------------------------
(* clear_project_lead *)

StartClear(w, u) ==
  /\ MayStart(w, "clear")
  /\ Lead(u) /\ IsActive(u)
  /\ req' = [req EXCEPT ![w] = [kind |-> "clear", user |-> u, row |-> member[u],
                                listed |-> BundlesOf({u})]]
  /\ UNCHANGED <<member, bundles, keys, issued, left>>

\* Mutant: the bundle is left alone.
CommitClear_KeepsBundle(w) ==
  LET r == req[w]
  IN /\ r.kind = "clear"
     /\ Same(r.user, r.row)
     /\ member' = [member EXCEPT ![r.user] = Deposed(member[r.user], r.row)]
     /\ Finish(w)
     /\ UNCHANGED <<bundles, keys, issued, left>>

\* Mutant: the legacy role is not taken away with the flag.
CommitClear_KeepsRole(w) ==
  LET r == req[w]
  IN /\ r.kind = "clear"
     /\ Same(r.user, r.row)
     /\ bundles' = bundles \ r.listed
     /\ member' = [member EXCEPT ![r.user].is = @ \ {"lead"}]
     /\ Finish(w)
     /\ UNCHANGED <<keys, issued, left>>

CommitClear(w) ==
  LET r == req[w]
  IN /\ r.kind = "clear"
     /\ Same(r.user, r.row)
     /\ bundles' = bundles \ r.listed
     /\ member' = [member EXCEPT ![r.user] = Deposed(member[r.user], r.row)]
     /\ Finish(w)
     /\ UNCHANGED <<keys, issued, left>>

--------------------------------------------------------------------------------
(* The other writers of the table *)

\* PATCH /projects/<pk>/members/<id>, by a manager or by the invited employee.
LoadPatch(w, u) ==
  /\ MayStart(w, "patch")
  /\ Present(u)
  /\ req' = [req EXCEPT ![w] = [kind |-> "patch", user |-> u, row |-> member[u]]]
  /\ UNCHANGED <<member, bundles, keys, issued, left>>

\* serializer.save() writes every column of the loaded row.  When the row is gone
\* the UPDATE matches nothing and Django INSERTs it again; when another row of
\* the user has taken its place the unique constraint refuses (FailRequest).
SavePatch(w, role, active) ==
  LET r == req[w]
  IN /\ r.kind = "patch"
     /\ Present(r.user) => Same(r.user, r.row)
     /\ member' = [member EXCEPT ![r.user] = Edited(r.row, role, active)]
     /\ Finish(w)
     /\ UNCHANGED <<bundles, keys, issued, left>>

\* POST /projects/<pk>/members: update_or_create locks the row it finds.
UpsertMember(u, role, active) ==
  /\ MayRun("upsert")
  /\ Present(u) \/ keys < MaxRows
  /\ member' = [member EXCEPT ![u] =
                  IF Present(u) THEN Edited(member[u], role, active)
                                ELSE NewRow(role, active)]
  /\ keys' = IF Present(u) THEN keys ELSE keys + 1
  /\ UNCHANGED <<bundles, issued, req, left>>

\* DELETE /projects/<pk>/members/<id> and the career service's
\* remove_from_project: the row goes, the bundle stays.
RemoveMember(u) ==
  /\ Present(u)
  /\ member' = [member EXCEPT ![u] = Absent]
  /\ left' = IF Lead(u) THEN left \cup {u} ELSE left
  /\ UNCHANGED <<bundles, keys, issued, req>>

\* The career service's assign_to_project.
LoadCareer(w, u) ==
  /\ MayStart(w, "career")
  /\ u \notin SuperAdmins
  /\ req' = [req EXCEPT ![w] = [kind |-> "career", user |-> u, row |-> member[u]]]
  /\ UNCHANGED <<member, bundles, keys, issued, left>>

\* Creates the row if there was none (the unique constraint refuses a second
\* one), else saves the fields that differ from those it read.
SaveCareer(w, role) ==
  LET r == req[w]
      stale == r.row
      changed == [member[r.user] EXCEPT
                    !.role = IF role # stale.role THEN role ELSE @,
                    !.is = IF "active" \in stale.is THEN @ ELSE @ \cup {"active"}]
  IN /\ r.kind = "career"
     /\ Same(r.user, stale)
     /\ stale = Absent => keys < MaxRows
     /\ member' = [member EXCEPT ![r.user] =
                     IF stale = Absent THEN NewRow(role, {"active"}) ELSE changed]
     /\ keys' = IF stale = Absent THEN keys + 1 ELSE keys
     /\ Finish(w)
     /\ UNCHANGED <<bundles, issued, left>>

\* A request that raises - a grant refused, a row gone, a unique constraint, a
\* deadlock - rolls back whole.
FailRequest(w) ==
  /\ req[w] # Idle
  /\ Finish(w)
  /\ UNCHANGED <<member, bundles, keys, issued, left>>

--------------------------------------------------------------------------------
Init ==
  /\ serial \in Regimes
  /\ member = [u \in Users |-> Absent]
  /\ bundles = {} /\ keys = 0 /\ issued = 0 /\ left = {}
  /\ req = [w \in Workers |-> Idle]

Step ==
  \/ \E w \in Workers, u \in Users :
       \/ \E new \in {"bundle", "none"} : StartAssign(w, u, new)
       \/ StartClear(w, u)
       \/ LoadPatch(w, u)
       \/ LoadCareer(w, u)
  \/ \E w \in Workers :
       \/ CommitAssign(w)
       \/ CommitClear(w)
       \/ \E role \in Roles, active \in SUBSET {"active"} : SavePatch(w, role, active)
       \/ \E role \in Roles : SaveCareer(w, role)
       \/ FailRequest(w)
  \/ \E u \in Users, role \in Roles, active \in SUBSET {"active"} : UpsertMember(u, role, active)
  \/ \E u \in Users : RemoveMember(u)

Next == Step /\ UNCHANGED serial

Spec == Init /\ [][Next]_vars

--------------------------------------------------------------------------------
(* Properties *)

\* Rows, bundles and requests have the shapes the code gives them; primary keys
\* and bundle ids are never ahead of their counters.
TypeOK ==
  /\ serial \in Regimes
  /\ member \in [Users -> Row \cup {Absent}]
  /\ bundles \in SUBSET Bundle
  /\ keys \in 0 .. MaxRows /\ issued \in 0 .. MaxBundles
  /\ req \in [Workers -> Request]
  /\ left \in SUBSET Users

SingleLead == \A u, v \in Users : Lead(u) /\ Lead(v) => u = v
BundleHeld == \A b \in bundles : Lead(b.user) \/ b.user \in left

\* If the requests that write is_lead do not overlap, at most one member row
\* carries it, whatever deactivations, invitations, removals and career changes
\* come between two assignments.
OneLead == LeadWriters \subseteq serial => SingleLead

\* ... and a head's bundle is in force only while its holder heads the project,
\* or was deleted from the team while heading it (no code path revokes it then).
BundleWithLead == LeadWriters \subseteq serial => BundleHeld

\* If no two requests on the team overlap, who stops heading the project and stays
\* in the team does not remain its head by the legacy role (is_project_lead
\* accepts either).
DeposedWhole ==
  [][serial = Kinds =>
       \A u \in Users : Lead(u) /\ ~Lead(u)' /\ Present(u)' => member'[u].role # "lead"]_vars
==================================================================================
