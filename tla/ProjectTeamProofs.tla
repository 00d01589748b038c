---------------------------- MODULE ProjectTeamProofs ----------------------------
(***************************************************************************)
(* If the requests that write is_lead are not let overlap, a project has   *)
(* one head and the head's bundle stays with the head, for any number of   *)
(* users, workers and rows, whatever member edits, removals and career     *)
(* changes run in between.  The shapes are kept in every regime; if no two *)
(* requests overlap, who stops being the head loses the legacy role too.   *)
(***************************************************************************)
EXTENDS ProjectTeam, TLAPS

(* At most one request of a serialised kind is in flight. *)
Exclusive ==
  \A v, w \in Workers : req[v].kind \in serial /\ req[w].kind \in serial => v = w

(* What such a request has read still covers the table. *)
AssignFresh(r) ==
  r.kind = "assign" =>
    /\ \A u \in Users : Lead(u) => u = r.user \/ r.prev[u] # Absent
    /\ \A b \in bundles : r.prev[b.user] # Absent => b \in r.listed

ClearFresh(r) ==
  r.kind = "clear" => \A b \in bundles : b.user = r.user => b \in r.listed

PatchFresh(r) ==
  r.kind = "patch" =>
    /\ "lead" \in r.row.is => \A u \in Users : Lead(u) => u = r.user
    /\ "lead" \notin r.row.is => ~ Lead(r.user)

Fresh == \A w \in Workers : /\ AssignFresh(req[w])
                            /\ ClearFresh(req[w])
                            /\ PatchFresh(req[w])

Inv == TypeOK /\ SingleLead /\ BundleHeld /\ Exclusive /\ Fresh

--------------------------------------------------------------------------------
(* Starting or finishing a request keeps Exclusive.  *)
LEMMA StartExclusive ==
  ASSUME Exclusive, NEW w \in Workers, NEW r, req \in [Workers -> Request],
         MayStart(w, r.kind), req' = [req EXCEPT ![w] = r], UNCHANGED serial
  PROVE  Exclusive'
<1> SUFFICES ASSUME NEW x \in Workers, NEW y \in Workers,
                    req'[x].kind \in serial, req'[y].kind \in serial
             PROVE  x = y
  BY DEF Exclusive
<1>1. req'[w] = r /\ \A v \in Workers \ {w} : req'[v] = req[v]
  OBVIOUS
<1>2. r.kind \in serial => \A v \in Workers : req[v].kind \notin serial
  BY DEF MayStart, MayRun
<1> QED BY <1>1, <1>2 DEF Exclusive

LEMMA FinishExclusive ==
  ASSUME Exclusive, NEW w \in Workers, req \in [Workers -> Request], Finish(w),
         serial \in Regimes, UNCHANGED serial
  PROVE  Exclusive'
<1>1. req'[w].kind \notin serial
  BY TeamConstants DEF Finish, Idle, Kinds
<1>2. \A v \in Workers \ {w} : req'[v] = req[v]
  BY DEF Finish
<1> QED BY <1>1, <1>2 DEF Exclusive

(* A step that makes nobody a head and issues no bundle leaves what the      *)
(* requests in flight have read valid.                                       *)
LEMMA QuietFresh ==
  ASSUME Fresh, NEW w \in Workers, req'[w] = req[w],
         \A u \in Users : Lead(u)' => Lead(u), bundles' \subseteq bundles,
         TypeOK
  PROVE  AssignFresh(req[w])' /\ ClearFresh(req[w])' /\ PatchFresh(req[w])'
<1>1. AssignFresh(req[w]) /\ ClearFresh(req[w]) /\ PatchFresh(req[w])
  BY DEF Fresh
<1>2. AssignFresh(req[w])'
  BY <1>1 DEF AssignFresh
<1>3. ClearFresh(req[w])'
  BY <1>1 DEF ClearFresh
<1>4. PatchFresh(req[w])'
  <2>1. req[w].kind = "patch" => req[w].user \in Users
    BY DEF TypeOK, Request
  <2> QED BY <1>1, <2>1 DEF PatchFresh
<1> QED BY <1>2, <1>3, <1>4

(* ... and keeps the properties, if whoever stops being the head is in left. *)
LEMMA QuietStep ==
  ASSUME Inv, \A u \in Users : Lead(u)' => Lead(u), bundles' = bundles,
         left \subseteq left', \A u \in Users : Lead(u) => Lead(u)' \/ u \in left'
  PROVE  SingleLead' /\ BundleHeld'
<1>1. SingleLead'
  BY DEF Inv, SingleLead
<1>2. \A b \in bundles : b.user \in Users
  BY DEF Inv, TypeOK, Bundle
<1>3. BundleHeld'
  BY <1>2 DEF Inv, BundleHeld
<1> QED BY <1>1, <1>3

(* A request of a kind that writes is_lead is the only one in flight.  *)
LEMMA Alone ==
  ASSUME Inv, LeadWriters \subseteq serial, NEW w \in Workers, Finish(w),
         req[w].kind \in LeadWriters
  PROVE  Fresh'
<1> SUFFICES ASSUME NEW v \in Workers
             PROVE  (AssignFresh(req[v]) /\ ClearFresh(req[v]) /\ PatchFresh(req[v]))'
  BY DEF Fresh
<1>1. req'[v].kind \notin LeadWriters
  <2>1. CASE v = w
    <3>1. req'[v] = Idle
      BY <2>1 DEF Finish, Inv, TypeOK
    <3> QED BY <3>1 DEF Idle, LeadWriters
  <2>2. CASE v # w
    <3>1. req'[v] = req[v]
      BY <2>2 DEF Finish, Inv, TypeOK
    <3> QED BY <2>2, <3>1 DEF Inv, Exclusive
  <2> QED BY <2>1, <2>2
<1> QED BY <1>1 DEF AssignFresh, ClearFresh, PatchFresh, LeadWriters

(* A step of no request leaves every request's reading valid; a finished     *)
(* request has none.                                                         *)
LEMMA QuietFinish ==
  ASSUME Inv, NEW w \in Workers, Finish(w),
         \A u \in Users : Lead(u)' => Lead(u), bundles' = bundles
  PROVE  Fresh'
<1> SUFFICES ASSUME NEW v \in Workers
             PROVE  (AssignFresh(req[v]) /\ ClearFresh(req[v]) /\ PatchFresh(req[v]))'
  BY DEF Fresh
<1>1. CASE v = w
  <2>1. req'[v].kind = "idle"
    BY <1>1 DEF Finish, Inv, TypeOK, Idle
  <2> QED BY <2>1 DEF AssignFresh, ClearFresh, PatchFresh
<1>2. CASE v # w
  <2>1. req'[v] = req[v]
    BY <1>2 DEF Finish, Inv, TypeOK
  <2> QED BY <2>1, QuietFresh DEF Inv
<1> QED BY <1>1, <1>2

--------------------------------------------------------------------------------
(* Steps that start a request *)

LEMMA StartStep ==
  ASSUME Inv, NEW w \in Workers, NEW r \in Request, MayStart(w, r.kind),
         req' = [req EXCEPT ![w] = r],
         UNCHANGED <<member, bundles, keys, issued, left>>,
         AssignFresh(r), ClearFresh(r), PatchFresh(r), UNCHANGED serial
  PROVE  Inv'
<1>1. TypeOK'
  BY DEF Inv, TypeOK
<1>2. SingleLead' /\ BundleHeld'
  BY QuietStep DEF Lead
<1>3. Exclusive'
  BY StartExclusive DEF Inv, TypeOK
<1>4. ASSUME NEW v \in Workers
      PROVE  (AssignFresh(req[v]) /\ ClearFresh(req[v]) /\ PatchFresh(req[v]))'
  <2>1. CASE v = w
    <3>1. req'[v] = r
      BY <2>1 DEF Inv, TypeOK
    <3> QED BY <3>1 DEF AssignFresh, ClearFresh, PatchFresh, Lead
  <2>2. CASE v # w
    <3>1. req'[v] = req[v]
      BY <2>2 DEF Inv, TypeOK
    <3> QED BY <3>1, QuietFresh DEF Inv, Lead
  <2> QED BY <2>1, <2>2
<1> QED BY <1>1, <1>2, <1>3, <1>4 DEF Inv, Fresh

LEMMA StartAssignStep ==
  ASSUME Inv, NEW w \in Workers, NEW u \in Users, NEW new \in {"bundle", "none"},
         StartAssign(w, u, new), UNCHANGED serial
  PROVE  Inv'
<1> DEFINE prev == Leads \ {u}
           r == [kind |-> "assign", user |-> u, new |-> new, listed |-> BundlesOf(prev),
                 prev |-> [v \in Users |-> IF v \in prev THEN member[v] ELSE Absent]]
<1>1. /\ MayStart(w, r.kind) /\ req' = [req EXCEPT ![w] = r]
      /\ UNCHANGED <<member, bundles, keys, issued, left>>
  BY DEF StartAssign
<1>2. r.prev \in [Users -> Row \cup {Absent}]
  BY DEF Inv, TypeOK
<1>3. r.listed \in SUBSET Bundle
  BY DEF Inv, TypeOK, BundlesOf
<1>4. r \in Request
  BY <1>2, <1>3 DEF Request
<1>5. \A v \in Users : Lead(v) => v = u \/ r.prev[v] # Absent
  BY DEF Leads, Lead, Absent
<1>6. \A b \in bundles : r.prev[b.user] # Absent => b \in r.listed
  BY DEF Inv, TypeOK, Bundle, BundlesOf
<1>7. AssignFresh(r) /\ ClearFresh(r) /\ PatchFresh(r)
  BY <1>5, <1>6 DEF AssignFresh, ClearFresh, PatchFresh
<1> QED BY <1>1, <1>4, <1>7, StartStep

LEMMA StartClearStep ==
  ASSUME Inv, NEW w \in Workers, NEW u \in Users, StartClear(w, u),
         UNCHANGED serial
  PROVE  Inv'
<1> DEFINE r == [kind |-> "clear", user |-> u, row |-> member[u], listed |-> BundlesOf({u})]
<1>1. /\ MayStart(w, r.kind) /\ req' = [req EXCEPT ![w] = r]
      /\ UNCHANGED <<member, bundles, keys, issued, left>>
  BY DEF StartClear
<1>2. r.row \in Row
  BY DEF StartClear, Inv, TypeOK, Lead, Absent
<1>3. r.listed \in SUBSET Bundle
  BY DEF Inv, TypeOK, BundlesOf
<1>4. r \in Request
  BY <1>2, <1>3 DEF Request
<1>5. AssignFresh(r) /\ ClearFresh(r) /\ PatchFresh(r)
  BY DEF AssignFresh, ClearFresh, PatchFresh, BundlesOf
<1> QED BY <1>1, <1>4, <1>5, StartStep

LEMMA LoadPatchStep ==
  ASSUME Inv, NEW w \in Workers, NEW u \in Users, LoadPatch(w, u),
         UNCHANGED serial
  PROVE  Inv'
<1> DEFINE r == [kind |-> "patch", user |-> u, row |-> member[u]]
<1>1. /\ MayStart(w, r.kind) /\ req' = [req EXCEPT ![w] = r]
      /\ UNCHANGED <<member, bundles, keys, issued, left>>
  BY DEF LoadPatch
<1>2. r.row \in Row
  BY DEF LoadPatch, Inv, TypeOK, Present
<1>3. r \in Request
  BY <1>2 DEF Request
<1>4. AssignFresh(r) /\ ClearFresh(r) /\ PatchFresh(r)
  BY DEF AssignFresh, ClearFresh, PatchFresh, Lead, Inv, SingleLead
<1> QED BY <1>1, <1>3, <1>4, StartStep

LEMMA LoadCareerStep ==
  ASSUME Inv, NEW w \in Workers, NEW u \in Users, LoadCareer(w, u),
         UNCHANGED serial
  PROVE  Inv'
<1> DEFINE r == [kind |-> "career", user |-> u, row |-> member[u]]
<1>1. /\ MayStart(w, r.kind) /\ req' = [req EXCEPT ![w] = r]
      /\ UNCHANGED <<member, bundles, keys, issued, left>>
  BY DEF LoadCareer
<1>2. r \in Request
  BY DEF Request, Inv, TypeOK
<1>3. AssignFresh(r) /\ ClearFresh(r) /\ PatchFresh(r)
  BY DEF AssignFresh, ClearFresh, PatchFresh
<1> QED BY <1>1, <1>2, <1>3, StartStep

--------------------------------------------------------------------------------
(* Steps that write *)

(* What a request in flight is made of.  *)
LEMMA RequestParts ==
  ASSUME TypeOK, NEW w \in Workers
  PROVE  /\ req[w].kind = "assign" =>
              /\ req[w].user \in Users /\ req[w].listed \in SUBSET Bundle
              /\ req[w].prev \in [Users -> Row \cup {Absent}]
         /\ req[w].kind = "clear" =>
              /\ req[w].user \in Users /\ req[w].row \in Row
              /\ req[w].listed \in SUBSET Bundle
         /\ req[w].kind = "patch" => req[w].user \in Users /\ req[w].row \in Row
         /\ req[w].kind = "career" =>
              req[w].user \in Users /\ req[w].row \in Row \cup {Absent}
BY DEF TypeOK, Request

(* A finished request leaves the table of requests well typed.  *)
LEMMA FinishTyped ==
  ASSUME TypeOK, NEW w \in Workers, Finish(w)
  PROVE  req' \in [Workers -> Request]
BY DEF TypeOK, Finish, Idle, Request

LEMMA DeposedRow ==
  ASSUME NEW row \in Row, NEW stale
  PROVE  /\ Deposed(row, stale) \in Row
         /\ "lead" \notin Deposed(row, stale).is
BY DEF Deposed, Row, Roles, Flags

LEMMA EditedRow ==
  ASSUME NEW row \in Row, NEW role \in Roles, NEW active \in SUBSET {"active"}
  PROVE  /\ Edited(row, role, active) \in Row
         /\ "lead" \in Edited(row, role, active).is <=> "lead" \in row.is
BY DEF Edited, Row, Flags

LEMMA NewRowTyped ==
  ASSUME TypeOK, keys < MaxRows, NEW role \in Roles, NEW is \in SUBSET Flags
  PROVE  /\ NewRow(role, is) \in Row /\ NewRow(role, is).is = is
         /\ keys + 1 \in 0 .. MaxRows
BY TeamConstants DEF TypeOK, NewRow, Row

(* What a request that saves rows leaves in the table, in every regime. *)
LEMMA SaveCareerRows ==
  ASSUME TypeOK, NEW w \in Workers, NEW role \in Roles, SaveCareer(w, role)
  PROVE  /\ member' \in [Users -> Row \cup {Absent}] /\ keys' \in 0 .. MaxRows
         /\ \A v \in Users : Lead(v)' <=> Lead(v)
<1> DEFINE u == req[w].user
           stale == req[w].row
<1>1. member \in [Users -> Row \cup {Absent}]
  BY DEF TypeOK
<1>2. req[w].kind = "career" /\ u \in Users /\ stale \in Row \cup {Absent}
  BY RequestParts DEF SaveCareer
<1>3. /\ member'[u] \in Row /\ keys' \in 0 .. MaxRows
      /\ "lead" \in member'[u].is <=> Lead(u)
  <2>1. CASE stale = Absent
    <3>1. member[u].pk = 0
      BY <2>1 DEF SaveCareer, Same, Absent
    <3>2. ~ Lead(u)
      BY <1>1, <1>2, <3>1 DEF Row, Absent, Lead
    <3>3. member'[u] = NewRow(role, {"active"}) /\ keys' = keys + 1 /\ keys < MaxRows
      BY <1>1, <1>2, <2>1 DEF SaveCareer
    <3>4. {"active"} \in SUBSET Flags
      BY DEF Flags
    <3> QED BY <3>2, <3>3, <3>4, NewRowTyped
  <2>2. CASE stale # Absent
    <3>1. stale \in Row /\ member[u].pk = stale.pk
      BY <1>2, <2>2 DEF SaveCareer, Same
    <3>2. member[u] \in Row
      BY <1>1, <1>2, <3>1 DEF Row, Absent
    <3>3. /\ member'[u] = [member[u] EXCEPT
                             !.role = IF role # stale.role THEN role ELSE @,
                             !.is = IF "active" \in stale.is THEN @ ELSE @ \cup {"active"}]
          /\ keys' = keys
      BY <1>1, <1>2, <2>2 DEF SaveCareer
    <3>4. member'[u] \in Row
      BY <3>2, <3>3 DEF Row, Flags
    <3>5. "lead" \in member'[u].is <=> "lead" \in member[u].is
      BY <3>2, <3>3 DEF Row
    <3> QED BY <3>3, <3>4, <3>5 DEF Lead, TypeOK
  <2> QED BY <2>1, <2>2
<1>4. \A v \in Users \ {u} : member'[v] = member[v]
  BY <1>1 DEF SaveCareer
<1>5. member' \in [Users -> Row \cup {Absent}]
  BY <1>1, <1>3, <1>4 DEF SaveCareer
<1> QED BY <1>3, <1>4, <1>5 DEF Lead

LEMMA UpsertRows ==
  ASSUME TypeOK, NEW u \in Users, NEW role \in Roles, NEW active \in SUBSET {"active"},
         UpsertMember(u, role, active)
  PROVE  /\ member' \in [Users -> Row \cup {Absent}] /\ keys' \in 0 .. MaxRows
         /\ \A v \in Users : Lead(v)' <=> Lead(v)
<1>1. member \in [Users -> Row \cup {Absent}]
  BY DEF TypeOK
<1>2. /\ member'[u] \in Row /\ keys' \in 0 .. MaxRows
      /\ "lead" \in member'[u].is <=> Lead(u)
  <2>1. CASE Present(u)
    <3>1. member[u] \in Row
      BY <1>1, <2>1 DEF Present
    <3>2. member'[u] = Edited(member[u], role, active) /\ keys' = keys
      BY <1>1, <2>1 DEF UpsertMember
    <3> QED BY <3>1, <3>2, EditedRow DEF Lead, TypeOK
  <2>2. CASE ~ Present(u)
    <3>1. member'[u] = NewRow(role, active) /\ keys' = keys + 1 /\ keys < MaxRows
      BY <1>1, <2>2 DEF UpsertMember
    <3>2. active \in SUBSET Flags
      BY DEF Flags
    <3>3. ~ Lead(u)
      BY <2>2 DEF Present, Lead, Absent
    <3> QED BY <3>1, <3>2, <3>3, NewRowTyped
  <2> QED BY <2>1, <2>2
<1>3. \A v \in Users \ {u} : member'[v] = member[v]
  BY <1>1 DEF UpsertMember
<1>4. member' \in [Users -> Row \cup {Absent}]
  BY <1>1, <1>2, <1>3 DEF UpsertMember
<1> QED BY <1>2, <1>3, <1>4 DEF Lead

LEMMA SavePatchRows ==
  ASSUME TypeOK, NEW w \in Workers, NEW role \in Roles, NEW active \in SUBSET {"active"},
         SavePatch(w, role, active)
  PROVE  /\ req[w].user \in Users /\ req[w].row \in Row
         /\ member' \in [Users -> Row \cup {Absent}]
         /\ \A v \in Users \ {req[w].user} : member'[v] = member[v]
         /\ "lead" \in member'[req[w].user].is <=> "lead" \in req[w].row.is
<1>1. member \in [Users -> Row \cup {Absent}]
  BY DEF TypeOK
<1>2. PICK u \in Users : u = req[w].user /\ req[w].row \in Row
  BY RequestParts DEF SavePatch
<1>3. member'[u] = Edited(req[w].row, role, active)
  BY <1>1, <1>2 DEF SavePatch
<1>4. \A v \in Users \ {u} : member'[v] = member[v]
  BY <1>1, <1>2 DEF SavePatch
<1>5. member'[u] \in Row /\ ("lead" \in member'[u].is <=> "lead" \in req[w].row.is)
  BY <1>2, <1>3, EditedRow
<1>6. member' \in [Users -> Row \cup {Absent}]
  BY <1>1, <1>4, <1>5 DEF SavePatch
<1> QED BY <1>2, <1>4, <1>5, <1>6

LEMMA CommitClearRows ==
  ASSUME TypeOK, NEW w \in Workers, CommitClear(w)
  PROVE  /\ req[w].user \in Users /\ req[w].row \in Row
         /\ member[req[w].user] \in Row
         /\ member' \in [Users -> Row \cup {Absent}]
         /\ \A v \in Users \ {req[w].user} : member'[v] = member[v]
         /\ member'[req[w].user] = Deposed(member[req[w].user], req[w].row)
<1>1. member \in [Users -> Row \cup {Absent}]
  BY DEF TypeOK
<1>2. PICK u \in Users : u = req[w].user /\ req[w].row \in Row
  BY RequestParts DEF CommitClear
<1>3. member[u] \in Row
  BY <1>1, <1>2 DEF CommitClear, Same, Row, Absent
<1>4. /\ member'[u] = Deposed(member[u], req[w].row)
      /\ \A v \in Users \ {u} : member'[v] = member[v]
  BY <1>1, <1>2 DEF CommitClear
<1>5. member'[u] \in Row
  BY <1>3, <1>4, DeposedRow
<1>6. member' \in [Users -> Row \cup {Absent}]
  BY <1>1, <1>4, <1>5 DEF CommitClear
<1> QED BY <1>2, <1>3, <1>4, <1>6

LEMMA CommitAssignTyped ==
  ASSUME TypeOK, NEW w \in Workers, CommitAssign(w)
  PROVE  /\ req[w].user \in Users /\ req[w].prev \in [Users -> Row \cup {Absent}]
         /\ member' \in [Users -> Row \cup {Absent}] /\ keys' \in 0 .. MaxRows
         /\ "lead" \in member'[req[w].user].is
         /\ \A v \in Users \ {req[w].user} :
              IF req[w].prev[v] = Absent THEN member'[v] = member[v]
              ELSE member[v] \in Row /\ member'[v] = Deposed(member[v], req[w].prev[v])
<1> DEFINE prev == {v \in Users : req[w].prev[v] # Absent}
<1>1. member \in [Users -> Row \cup {Absent}]
  BY DEF TypeOK
<1>2. PICK u \in Users : u = req[w].user /\ req[w].prev \in [Users -> Row \cup {Absent}]
  BY RequestParts DEF CommitAssign
<1>3. member' = [v \in Users |->
                   IF v = u THEN HeadRow(v)
                   ELSE IF v \in prev THEN Deposed(member[v], req[w].prev[v]) ELSE member[v]]
  BY <1>2 DEF CommitAssign
<1>4. HeadRow(u) \in Row /\ "lead" \in HeadRow(u).is
  <2>1. CASE Present(u)
    <3>1. member[u] \in Row
      BY <1>1, <1>2, <2>1 DEF Present
    <3> QED BY <2>1, <3>1 DEF HeadRow, Row, Flags
  <2>2. CASE ~ Present(u)
    <3>1. keys < MaxRows /\ "editor" \in Roles /\ Flags \in SUBSET Flags
      BY <1>2, <2>2 DEF CommitAssign, Roles
    <3>2. HeadRow(u) = NewRow("editor", Flags)
      BY <2>2 DEF HeadRow
    <3>3. "lead" \in Flags
      BY DEF Flags
    <3> QED BY <3>1, <3>2, <3>3, NewRowTyped
  <2> QED BY <2>1, <2>2
<1>5. ASSUME NEW v \in Users \ {u}
      PROVE  /\ member'[v] \in Row \cup {Absent}
             /\ IF req[w].prev[v] = Absent THEN member'[v] = member[v]
                ELSE member[v] \in Row /\ member'[v] = Deposed(member[v], req[w].prev[v])
  <2>1. CASE v \in prev
    <3>1. member[v].pk = req[w].prev[v].pk /\ req[w].prev[v] \in Row
      BY <1>2, <2>1 DEF CommitAssign, Same
    <3>2. member[v] \in Row
      BY <1>1, <3>1 DEF Row, Absent
    <3>3. member'[v] = Deposed(member[v], req[w].prev[v])
      BY <1>3, <2>1
    <3> QED BY <2>1, <3>2, <3>3, DeposedRow
  <2>2. CASE v \notin prev
    BY <1>1, <1>3, <2>2
  <2> QED BY <2>1, <2>2
<1>6. member' \in [Users -> Row \cup {Absent}]
  BY <1>3, <1>4, <1>5
<1>7. keys' \in 0 .. MaxRows
  BY TeamConstants DEF CommitAssign, TypeOK
<1>8. "lead" \in member'[u].is
  BY <1>3, <1>4
<1> QED BY <1>2, <1>5, <1>6, <1>7, <1>8

LEMMA FailRequestStep ==
  ASSUME Inv, NEW w \in Workers, FailRequest(w), UNCHANGED serial
  PROVE  Inv'
<1>1. TypeOK'
  BY FinishTyped DEF FailRequest, Inv, TypeOK
<1>2. SingleLead' /\ BundleHeld'
  BY QuietStep DEF FailRequest, Lead
<1>3. Exclusive'
  BY FinishExclusive DEF FailRequest, Inv, TypeOK
<1>4. Fresh'
  BY QuietFinish DEF FailRequest, Lead
<1> QED BY <1>1, <1>2, <1>3, <1>4 DEF Inv

LEMMA UpsertStep ==
  ASSUME Inv, NEW u \in Users, NEW role \in Roles, NEW active \in SUBSET {"active"},
         UpsertMember(u, role, active), UNCHANGED serial
  PROVE  Inv'
<1>1. /\ member' \in [Users -> Row \cup {Absent}] /\ keys' \in 0 .. MaxRows
      /\ \A v \in Users : Lead(v)' <=> Lead(v)
  BY UpsertRows DEF Inv
<1>2. TypeOK'
  BY <1>1 DEF UpsertMember, Inv, TypeOK
<1>3. SingleLead' /\ BundleHeld'
  BY <1>1, QuietStep DEF UpsertMember
<1>4. Exclusive'
  BY DEF UpsertMember, Inv, Exclusive
<1>5. Fresh'
  BY <1>1, QuietFresh DEF UpsertMember, Inv, Fresh
<1> QED BY <1>2, <1>3, <1>4, <1>5 DEF Inv

LEMMA RemoveStep ==
  ASSUME Inv, NEW u \in Users, RemoveMember(u), UNCHANGED serial
  PROVE  Inv'
<1>1. member \in [Users -> Row \cup {Absent}]
  BY DEF Inv, TypeOK
<1>2. /\ member'[u] = Absent
      /\ \A v \in Users \ {u} : member'[v] = member[v]
  BY <1>1 DEF RemoveMember
<1>3. \A v \in Users : Lead(v)' <=> v # u /\ Lead(v)
  BY <1>2 DEF Lead, Absent
<1>4. TypeOK'
  BY <1>1 DEF RemoveMember, Inv, TypeOK
<1>5. left \subseteq left' /\ \A v \in Users : Lead(v) => Lead(v)' \/ v \in left'
  BY <1>3 DEF RemoveMember
<1>6. SingleLead' /\ BundleHeld'
  BY <1>3, <1>5, QuietStep DEF RemoveMember
<1>7. Exclusive'
  BY DEF RemoveMember, Inv, Exclusive
<1>8. Fresh'
  BY <1>3, QuietFresh DEF RemoveMember, Inv, Fresh
<1> QED BY <1>4, <1>6, <1>7, <1>8 DEF Inv

LEMMA SaveCareerStep ==
  ASSUME Inv, NEW w \in Workers, NEW role \in Roles, SaveCareer(w, role),
         UNCHANGED serial
  PROVE  Inv'
<1>1. /\ member' \in [Users -> Row \cup {Absent}] /\ keys' \in 0 .. MaxRows
      /\ \A v \in Users : Lead(v)' <=> Lead(v)
  BY SaveCareerRows DEF Inv
<1>2. TypeOK'
  BY <1>1, FinishTyped DEF SaveCareer, Inv, TypeOK
<1>3. SingleLead' /\ BundleHeld'
  BY <1>1, QuietStep DEF SaveCareer
<1>4. Exclusive'
  BY FinishExclusive DEF SaveCareer, Inv, TypeOK
<1>5. Fresh'
  BY <1>1, QuietFinish DEF SaveCareer
<1> QED BY <1>2, <1>3, <1>4, <1>5 DEF Inv

(* SavePatch writes is_lead back as it was loaded: PatchFresh says it is     *)
(* still so, or that the row was deleted and nobody heads the project.       *)
LEMMA SavePatchStep ==
  ASSUME Inv, LeadWriters \subseteq serial, NEW w \in Workers, NEW role \in Roles,
         NEW active \in SUBSET {"active"}, SavePatch(w, role, active),
         UNCHANGED serial
  PROVE  Inv'
<1>u. PICK u \in Users : req[w].kind = "patch" /\ u = req[w].user
  BY RequestParts DEF Inv, SavePatch
<1> DEFINE row == req[w].row
<1>2. /\ req[w].kind = "patch" /\ u = req[w].user /\ row \in Row
      /\ member' \in [Users -> Row \cup {Absent}]
      /\ \A v \in Users \ {u} : member'[v] = member[v]
      /\ Lead(u)' <=> "lead" \in row.is
  BY <1>u, SavePatchRows DEF Inv, Lead
<1>3. PatchFresh(req[w])
  BY DEF Inv, Fresh
<1>7. TypeOK'
  BY <1>2, FinishTyped DEF SavePatch, Inv, TypeOK
<1>8. \A v \in Users \ {u} : Lead(v)' <=> Lead(v)
  BY <1>2 DEF Lead
<1>9. SingleLead'
  <2>1. CASE "lead" \in row.is
    <3>1. \A v \in Users : Lead(v) => v = u
      BY <1>2, <1>3, <2>1 DEF PatchFresh
    <3> QED BY <1>8, <3>1 DEF SingleLead
  <2>2. CASE "lead" \notin row.is
    BY <1>2, <1>8, <2>2 DEF SingleLead, Inv
  <2> QED BY <2>1, <2>2
<1>10. \A v \in Users : Lead(v) => Lead(v)'
  BY <1>2, <1>3, <1>8 DEF PatchFresh
<1>11. BundleHeld'
  <2>1. \A b \in bundles : b.user \in Users
    BY DEF Inv, TypeOK, Bundle
  <2> QED BY <1>10, <2>1 DEF SavePatch, Inv, BundleHeld
<1>12. Exclusive'
  BY FinishExclusive DEF SavePatch, Inv, TypeOK
<1>13. Fresh'
  BY <1>2, Alone DEF LeadWriters, SavePatch
<1> QED BY <1>7, <1>9, <1>11, <1>12, <1>13 DEF Inv

LEMMA CommitClearStep ==
  ASSUME Inv, LeadWriters \subseteq serial, NEW w \in Workers, CommitClear(w),
         UNCHANGED serial
  PROVE  Inv'
<1>u. PICK u \in Users : req[w].kind = "clear" /\ u = req[w].user
  BY RequestParts DEF Inv, CommitClear
<1> DEFINE row == req[w].row
<1>2. req[w].kind = "clear" /\ u = req[w].user /\ row \in Row
  BY <1>u, CommitClearRows DEF Inv
<1>3. \A b \in bundles : b.user = u => b \in req[w].listed
  BY <1>2 DEF Inv, Fresh, ClearFresh
<1>4. /\ member' \in [Users -> Row \cup {Absent}]
      /\ \A v \in Users \ {u} : member'[v] = member[v]
      /\ member[u] \in Row /\ member'[u] = Deposed(member[u], row)
  BY <1>u, CommitClearRows DEF Inv
<1>6. ~ Lead(u)'
  BY <1>4, DeposedRow DEF Lead
<1>8. TypeOK'
  BY <1>4, FinishTyped DEF CommitClear, Inv, TypeOK
<1>9. \A v \in Users \ {u} : Lead(v)' <=> Lead(v)
  BY <1>4 DEF Lead
<1>10. SingleLead'
  BY <1>6, <1>9 DEF Inv, SingleLead
<1>11. BundleHeld'
  <2> SUFFICES ASSUME NEW b \in bundles'
               PROVE  Lead(b.user)' \/ b.user \in left'
    BY DEF BundleHeld
  <2>1. b \in bundles /\ b \notin req[w].listed
    BY DEF CommitClear
  <2>2. b.user \in Users \ {u}
    BY <1>3, <2>1 DEF Inv, TypeOK, Bundle
  <2> QED BY <1>9, <2>1, <2>2 DEF CommitClear, Inv, BundleHeld
<1>12. Exclusive'
  BY FinishExclusive DEF CommitClear, Inv, TypeOK
<1>13. Fresh'
  BY <1>2, Alone DEF LeadWriters, CommitClear
<1> QED BY <1>8, <1>10, <1>11, <1>12, <1>13 DEF Inv

(* CommitAssign makes the user the head and nobody else: AssignFresh says    *)
(* that whoever headed the project is the user or was read as a previous     *)
(* head, and that the previous heads' bundles were all listed.               *)
LEMMA CommitAssignRows ==
  ASSUME Inv, NEW w \in Workers, CommitAssign(w), NEW u, u = req[w].user
  PROVE  /\ Lead(u)' /\ member' \in [Users -> Row \cup {Absent}]
         /\ keys' \in 0 .. MaxRows
         /\ \A v \in Users \ {u} : ~ Lead(v)'
<1>1. /\ "lead" \in member'[u].is
      /\ member' \in [Users -> Row \cup {Absent}] /\ keys' \in 0 .. MaxRows
      /\ \A v \in Users \ {u} :
           IF req[w].prev[v] = Absent THEN member'[v] = member[v]
           ELSE member[v] \in Row /\ member'[v] = Deposed(member[v], req[w].prev[v])
  BY CommitAssignTyped DEF Inv
<1>2. ASSUME NEW v \in Users \ {u} PROVE "lead" \notin member'[v].is
  <2>1. CASE req[w].prev[v] = Absent
    BY <1>1, <2>1 DEF CommitAssign, Inv, Fresh, AssignFresh, Lead
  <2>2. CASE req[w].prev[v] # Absent
    BY <1>1, <2>2, DeposedRow
  <2> QED BY <2>1, <2>2
<1> QED BY <1>1, <1>2 DEF Lead

LEMMA CommitAssignStep ==
  ASSUME Inv, LeadWriters \subseteq serial, NEW w \in Workers, CommitAssign(w),
         UNCHANGED serial
  PROVE  Inv'
<1>1. PICK u : u = req[w].user
  OBVIOUS
<1>2. req[w].kind = "assign" /\ u \in Users /\ req[w].listed \in SUBSET Bundle
  BY <1>1, RequestParts DEF Inv, CommitAssign
<1>3. /\ Lead(u)' /\ member' \in [Users -> Row \cup {Absent}]
      /\ keys' \in 0 .. MaxRows /\ \A v \in Users \ {u} : ~ Lead(v)'
  BY <1>1, CommitAssignRows
<1>4. PICK new \in SUBSET {[user |-> u, id |-> issued + 1]} :
        /\ bundles' = (bundles \ (req[w].listed \cup BundlesOf({u}))) \cup new
        /\ new # {} => issued < MaxBundles
  BY <1>1 DEF CommitAssign
<1>5. new \in SUBSET Bundle
  BY <1>2, <1>4, TeamConstants DEF Inv, TypeOK, Bundle
<1>6. issued' \in 0 .. MaxBundles
  BY TeamConstants DEF CommitAssign, Inv, TypeOK
<1>7. TypeOK'
  BY <1>3, <1>4, <1>5, <1>6, FinishTyped DEF CommitAssign, Inv, TypeOK
<1>8. SingleLead'
  BY <1>3 DEF SingleLead
<1>9. BundleHeld'
  <2> SUFFICES ASSUME NEW b \in bundles'
               PROVE  Lead(b.user)' \/ b.user \in left'
    BY DEF BundleHeld
  <2>1. CASE b \in new
    <3>1. b.user = u
      BY <2>1
    <3> QED BY <1>3, <3>1
  <2>2. CASE b \notin new
    <3>1. b \in bundles /\ b \notin req[w].listed /\ b \notin BundlesOf({u})
      BY <1>4, <2>2
    <3>2. b.user \in Users \ {u}
      BY <3>1 DEF BundlesOf, Inv, TypeOK, Bundle
    <3>3. req[w].prev[b.user] = Absent
      BY <1>2, <3>1 DEF Inv, Fresh, AssignFresh
    <3>4. ~ Lead(b.user)
      BY <1>1, <1>2, <3>2, <3>3 DEF Inv, Fresh, AssignFresh
    <3>5. b.user \in left
      BY <3>1, <3>4 DEF Inv, BundleHeld
    <3> QED BY <1>1, <3>2, <3>5 DEF CommitAssign
  <2> QED BY <2>1, <2>2
<1>10. Exclusive'
  BY FinishExclusive DEF CommitAssign, Inv, TypeOK
<1>11. Fresh'
  BY <1>2, Alone DEF LeadWriters, CommitAssign
<1> QED BY <1>7, <1>8, <1>9, <1>10, <1>11 DEF Inv

--------------------------------------------------------------------------------
LEMMA InvInit == Init => Inv
<1> SUFFICES ASSUME Init PROVE Inv
  OBVIOUS
<1>1. TypeOK
  BY TeamConstants DEF Init, TypeOK, Idle, Request
<1>2. SingleLead /\ BundleHeld
  BY DEF Init, SingleLead, BundleHeld, Lead, Absent
<1>3. Exclusive /\ Fresh
  BY TeamConstants DEF Init, Exclusive, Fresh, AssignFresh, ClearFresh, PatchFresh, Idle, Kinds
<1> QED BY <1>1, <1>2, <1>3 DEF Inv

LEMMA InvStep ==
  ASSUME LeadWriters \subseteq serial, Inv, Next
  PROVE  Inv'
<1> UNCHANGED serial
  BY DEF Next
<1>2. ASSUME NEW w \in Workers, NEW u \in Users,
             \/ \E new \in {"bundle", "none"} : StartAssign(w, u, new)
             \/ StartClear(w, u) \/ LoadPatch(w, u) \/ LoadCareer(w, u)
      PROVE  Inv'
  BY <1>2, StartAssignStep, StartClearStep, LoadPatchStep, LoadCareerStep
<1>3. ASSUME NEW w \in Workers,
             \/ CommitAssign(w) \/ CommitClear(w)
             \/ \E role \in Roles, active \in SUBSET {"active"} : SavePatch(w, role, active)
             \/ \E role \in Roles : SaveCareer(w, role)
             \/ FailRequest(w)
      PROVE  Inv'
  BY <1>3, CommitAssignStep, CommitClearStep, SavePatchStep, SaveCareerStep, FailRequestStep
<1>4. ASSUME NEW u \in Users,
             \/ \E role \in Roles, active \in SUBSET {"active"} : UpsertMember(u, role, active)
             \/ RemoveMember(u)
      PROVE  Inv'
  BY <1>4, UpsertStep, RemoveStep
<1> QED BY <1>2, <1>3, <1>4 DEF Next, Step

(* If assignments, removals and patches of a project's members do not        *)
(* overlap, the project has at most one head, and a head's bundle is held    *)
(* by the head or by somebody deleted from the team while heading it.        *)
THEOREM OneHeadWithBundle == Spec => [](OneLead /\ BundleWithLead)
<1> DEFINE Guarded == LeadWriters \subseteq serial => Inv
<1>1. Init => Guarded
  BY InvInit
<1>2. Guarded /\ [Next]_vars => Guarded'
  <2> SUFFICES ASSUME Guarded, [Next]_vars, LeadWriters \subseteq serial'
               PROVE  Inv'
    OBVIOUS
  <2>1. CASE Next
    <3>1. serial' = serial
      BY <2>1 DEF Next
    <3> QED BY <2>1, <3>1, InvStep
  <2>2. CASE UNCHANGED vars
    BY <2>2 DEF vars, Inv, TypeOK, SingleLead, BundleHeld, Exclusive, Fresh, AssignFresh,
       ClearFresh, PatchFresh, Lead
  <2> QED BY <2>1, <2>2
<1>3. Guarded => OneLead /\ BundleWithLead
  BY DEF Inv, OneLead, BundleWithLead
<1> QED BY <1>1, <1>2, <1>3, PTL DEF Spec

(* The second half by itself: nobody but the head keeps a head's bundle, except who *)
(* was deleted while heading the project (revoke_project_lead_scoped_grants).       *)
THEOREM BundlesFollowLeads == Spec => []BundleWithLead
BY OneHeadWithBundle, PTL

--------------------------------------------------------------------------------
(* Types, in every regime *)

LEMMA TypeStep == TypeOK /\ [Next]_vars => TypeOK'
<1> SUFFICES ASSUME TypeOK, [Next]_vars PROVE TypeOK'
  OBVIOUS
<1>0. UNCHANGED serial
  BY DEF Next, vars
<1> USE <1>0
<1>1. ASSUME NEW w \in Workers, NEW u \in Users,
             \/ \E new \in {"bundle", "none"} : StartAssign(w, u, new)
             \/ StartClear(w, u) \/ LoadPatch(w, u) \/ LoadCareer(w, u)
      PROVE  TypeOK'
  <2>1. member[u] \in Row \cup {Absent} /\ \A S : BundlesOf(S) \in SUBSET Bundle
    BY DEF TypeOK, BundlesOf
  <2>2. \E r \in Request : req' = [req EXCEPT ![w] = r]
    <3>1. ASSUME NEW new \in {"bundle", "none"}, StartAssign(w, u, new)
          PROVE  \E r \in Request : req' = [req EXCEPT ![w] = r]
      <4> DEFINE prev == Leads \ {u}
                 read == [v \in Users |-> IF v \in prev THEN member[v] ELSE Absent]
                 r == [kind |-> "assign", user |-> u, new |-> new, listed |-> BundlesOf(prev),
                       prev |-> read]
      <4>1. read \in [Users -> Row \cup {Absent}]
        BY DEF TypeOK
      <4>2. r \in Request
        BY <2>1, <4>1 DEF Request
      <4> QED BY <3>1, <4>2 DEF StartAssign
    <3>2. ASSUME StartClear(w, u) PROVE \E r \in Request : req' = [req EXCEPT ![w] = r]
      <4> DEFINE r == [kind |-> "clear", user |-> u, row |-> member[u],
                       listed |-> BundlesOf({u})]
      <4>1. member[u] \in Row
        BY <2>1, <3>2 DEF StartClear, Lead, Absent
      <4>2. r \in Request
        BY <2>1, <4>1 DEF Request
      <4> QED BY <3>2, <4>2 DEF StartClear
    <3>3. ASSUME LoadPatch(w, u) PROVE \E r \in Request : req' = [req EXCEPT ![w] = r]
      <4> DEFINE r == [kind |-> "patch", user |-> u, row |-> member[u]]
      <4>1. r \in Request
        BY <2>1, <3>3 DEF LoadPatch, Present, Request
      <4> QED BY <3>3, <4>1 DEF LoadPatch
    <3>4. ASSUME LoadCareer(w, u) PROVE \E r \in Request : req' = [req EXCEPT ![w] = r]
      <4> DEFINE r == [kind |-> "career", user |-> u, row |-> member[u]]
      <4>1. r \in Request
        BY <2>1 DEF Request
      <4> QED BY <3>4, <4>1 DEF LoadCareer
    <3> QED BY <1>1, <3>1, <3>2, <3>3, <3>4
  <2>3. UNCHANGED <<member, bundles, keys, issued, left>>
    BY <1>1 DEF StartAssign, StartClear, LoadPatch, LoadCareer
  <2> QED BY <2>2, <2>3 DEF TypeOK
<1>2. ASSUME NEW w \in Workers, CommitAssign(w) PROVE TypeOK'
  <2>1. PICK u : u = req[w].user
    OBVIOUS
  <2>2. /\ u \in Users /\ req[w].listed \in SUBSET Bundle
        /\ member' \in [Users -> Row \cup {Absent}] /\ keys' \in 0 .. MaxRows
    BY <1>2, <2>1, RequestParts, CommitAssignTyped DEF CommitAssign
  <2>3. PICK new \in SUBSET {[user |-> u, id |-> issued + 1]} :
          /\ bundles' = (bundles \ (req[w].listed \cup BundlesOf({u}))) \cup new
          /\ new # {} => issued < MaxBundles
    BY <1>2, <2>1 DEF CommitAssign
  <2>4. new \in SUBSET Bundle
    BY <2>2, <2>3, TeamConstants DEF TypeOK, Bundle
  <2>5. issued' \in 0 .. MaxBundles
    BY <1>2, TeamConstants DEF CommitAssign, TypeOK
  <2>6. req' \in [Workers -> Request]
    BY <1>2, FinishTyped DEF CommitAssign
  <2> QED BY <1>2, <2>2, <2>3, <2>4, <2>5, <2>6 DEF CommitAssign, TypeOK
<1>3. ASSUME NEW w \in Workers, CommitClear(w) PROVE TypeOK'
  BY <1>3, CommitClearRows, FinishTyped DEF CommitClear, TypeOK
<1>4. ASSUME NEW w \in Workers, NEW role \in Roles, NEW active \in SUBSET {"active"},
             SavePatch(w, role, active)
      PROVE  TypeOK'
  BY <1>4, SavePatchRows, FinishTyped DEF SavePatch, TypeOK
<1>5. ASSUME NEW w \in Workers, NEW role \in Roles, SaveCareer(w, role) PROVE TypeOK'
  BY <1>5, SaveCareerRows, FinishTyped DEF SaveCareer, TypeOK
<1>6. ASSUME NEW w \in Workers, FailRequest(w) PROVE TypeOK'
  BY <1>6, FinishTyped DEF FailRequest, TypeOK
<1>7. ASSUME NEW u \in Users, NEW role \in Roles, NEW active \in SUBSET {"active"},
             UpsertMember(u, role, active)
      PROVE  TypeOK'
  BY <1>7, UpsertRows DEF UpsertMember, TypeOK
<1>8. ASSUME NEW u \in Users, RemoveMember(u) PROVE TypeOK'
  BY <1>8 DEF RemoveMember, TypeOK
<1>9. CASE UNCHANGED vars
  BY <1>9 DEF vars, TypeOK
<1> QED BY <1>1, <1>2, <1>3, <1>4, <1>5, <1>6, <1>7, <1>8, <1>9 DEF Next, Step

(* In every regime, and so in the code as it is deployed: rows, bundles and what  *)
(* requests have read keep their shapes, and no key is ahead of its counter.      *)
THEOREM ProjectTeamTypeCorrect == Spec => []TypeOK
<1>1. Init => TypeOK
  BY InvInit DEF Inv
<1> QED BY <1>1, TypeStep, PTL DEF Spec

--------------------------------------------------------------------------------
(* Who stops being the head, when no requests overlap *)

Lone == \A v, w \in Workers : req[v] # Idle /\ req[w] # Idle => v = w

(* The rows a request has read are the rows of the table, unless they were deleted. *)
Current(r) ==
  /\ r.kind = "assign" =>
       \A v \in Users : r.prev[v] # Absent => member[v] \in {r.prev[v], Absent}
  /\ r.kind \in {"clear", "patch"} => member[r.user] \in {r.row, Absent}

Calm == serial = Kinds => Lone /\ \A w \in Workers : Current(req[w])

LEMMA CalmStep == TypeOK /\ Calm /\ [Next]_vars => Calm'
<1> SUFFICES ASSUME TypeOK, Calm, [Next]_vars, serial = Kinds
             PROVE  Lone' /\ \A w \in Workers : Current(req[w])'
  BY DEF Next, vars, Calm
<1>0. req \in [Workers -> Request] /\ Lone
  BY DEF TypeOK, Calm
<1>1. ASSUME NEW w \in Workers, NEW r, MayStart(w, r.kind), r.kind \in Kinds, Current(r),
             req' = [req EXCEPT ![w] = r], UNCHANGED member
      PROVE  Lone' /\ \A v \in Workers : Current(req[v])'
  <2>1. \A v \in Workers : req[v] = Idle
    BY <1>0, <1>1 DEF MayStart, MayRun, Kinds, Request, Idle
  <2>2. \A v \in Workers \ {w} : req'[v] = Idle
    BY <1>0, <1>1, <2>1
  <2>3. ASSUME NEW v \in Workers PROVE Current(req[v])'
    <3>1. CASE v = w
      <4>1. req'[v] = r
        BY <1>0, <1>1, <3>1
      <4> QED BY <1>1, <4>1 DEF Current
    <3>2. CASE v # w
      <4>1. req'[v] = Idle
        BY <2>2, <3>2
      <4> QED BY <4>1 DEF Current, Idle
    <3> QED BY <3>1, <3>2
  <2> QED BY <2>2, <2>3 DEF Lone
<1>2. ASSUME NEW w \in Workers, req[w] # Idle, Finish(w)
      PROVE  Lone' /\ \A v \in Workers : Current(req[v])'
  <2>1. \A v \in Workers : req'[v] = Idle
    BY <1>0, <1>2 DEF Finish, Lone
  <2> QED BY <2>1 DEF Lone, Current, Idle
<1>3. ASSUME NEW w \in Workers, NEW u \in Users, NEW new \in {"bundle", "none"},
             StartAssign(w, u, new)
      PROVE  Lone' /\ \A v \in Workers : Current(req[v])'
  <2> DEFINE prev == Leads \ {u}
             r == [kind |-> "assign", user |-> u, new |-> new, listed |-> BundlesOf(prev),
                   prev |-> [v \in Users |-> IF v \in prev THEN member[v] ELSE Absent]]
  <2>1. MayStart(w, r.kind) /\ req' = [req EXCEPT ![w] = r] /\ UNCHANGED member
    BY <1>3 DEF StartAssign
  <2>2. r.kind \in Kinds /\ Current(r)
    BY DEF Kinds, Current
  <2> HIDE DEF r
  <2> QED BY <1>1, <2>1, <2>2
<1>4. ASSUME NEW w \in Workers, NEW u \in Users, StartClear(w, u)
      PROVE  Lone' /\ \A v \in Workers : Current(req[v])'
  <2> DEFINE r == [kind |-> "clear", user |-> u, row |-> member[u], listed |-> BundlesOf({u})]
  <2>1. MayStart(w, r.kind) /\ req' = [req EXCEPT ![w] = r] /\ UNCHANGED member
    BY <1>4 DEF StartClear
  <2>2. r.kind \in Kinds /\ Current(r)
    BY DEF Kinds, Current
  <2> HIDE DEF r
  <2> QED BY <1>1, <2>1, <2>2
<1>5. ASSUME NEW w \in Workers, NEW u \in Users, LoadPatch(w, u)
      PROVE  Lone' /\ \A v \in Workers : Current(req[v])'
  <2> DEFINE r == [kind |-> "patch", user |-> u, row |-> member[u]]
  <2>1. MayStart(w, r.kind) /\ req' = [req EXCEPT ![w] = r] /\ UNCHANGED member
    BY <1>5 DEF LoadPatch
  <2>2. r.kind \in Kinds /\ Current(r)
    BY DEF Kinds, Current
  <2> HIDE DEF r
  <2> QED BY <1>1, <2>1, <2>2
<1>6. ASSUME NEW w \in Workers, NEW u \in Users, LoadCareer(w, u)
      PROVE  Lone' /\ \A v \in Workers : Current(req[v])'
  <2> DEFINE r == [kind |-> "career", user |-> u, row |-> member[u]]
  <2>1. MayStart(w, r.kind) /\ req' = [req EXCEPT ![w] = r] /\ UNCHANGED member
    BY <1>6 DEF LoadCareer
  <2>2. r.kind \in Kinds /\ Current(r)
    BY DEF Kinds, Current
  <2> HIDE DEF r
  <2> QED BY <1>1, <2>1, <2>2
<1>7. ASSUME NEW w \in Workers,
             \/ CommitAssign(w) \/ CommitClear(w)
             \/ \E role \in Roles, active \in SUBSET {"active"} : SavePatch(w, role, active)
             \/ \E role \in Roles : SaveCareer(w, role)
             \/ FailRequest(w)
      PROVE  Lone' /\ \A v \in Workers : Current(req[v])'
  <2>1. CASE FailRequest(w)
    BY <1>2, <2>1 DEF FailRequest
  <2>2. CASE CommitAssign(w) \/ CommitClear(w)
    <3>1. req[w].kind # "idle" /\ Finish(w)
      BY <2>2 DEF CommitAssign, CommitClear
    <3> QED BY <1>2, <3>1 DEF Idle
  <2>3. ASSUME NEW role \in Roles, NEW active \in SUBSET {"active"}, SavePatch(w, role, active)
        PROVE  req[w].kind # "idle" /\ Finish(w)
    BY <2>3 DEF SavePatch
  <2>4. ASSUME NEW role \in Roles, SaveCareer(w, role)
        PROVE  req[w].kind # "idle" /\ Finish(w)
    BY <2>4 DEF SaveCareer
  <2> QED BY <1>2, <1>7, <2>1, <2>2, <2>3, <2>4 DEF Idle
<1>8. ASSUME NEW u \in Users, NEW role \in Roles, NEW active \in SUBSET {"active"},
             UpsertMember(u, role, active)
      PROVE  Lone' /\ \A v \in Workers : Current(req[v])'
  <2>1. \A v \in Workers : req[v].kind \notin Kinds
    BY <1>8 DEF UpsertMember, MayRun, Kinds
  <2> QED BY <1>0, <1>8, <2>1 DEF UpsertMember, Kinds, Lone, Current
<1>9. ASSUME NEW u \in Users, RemoveMember(u)
      PROVE  Lone' /\ \A v \in Workers : Current(req[v])'
  <2>1. member' = [member EXCEPT ![u] = Absent] /\ UNCHANGED req
    BY <1>9 DEF RemoveMember
  <2>2. \A v \in Users : member'[v] \in {member[v], Absent}
    BY <2>1 DEF TypeOK
  <2>3. ASSUME NEW w \in Workers PROVE Current(req[w])'
    <3>1. Current(req[w])
      BY DEF Calm
    <3>2. req[w].kind \in {"clear", "patch"} => req[w].user \in Users
      BY RequestParts
    <3> QED BY <2>1, <2>2, <3>1, <3>2 DEF Current
  <2> QED BY <1>0, <2>1, <2>3 DEF Lone
<1>10. CASE UNCHANGED vars
  BY <1>0, <1>10 DEF vars, Calm, Lone, Current
<1> QED
  BY <1>3, <1>4, <1>5, <1>6, <1>7, <1>8, <1>9, <1>10 DEF Next, Step

(* If no two requests overlap, who stops heading the project and stays in the     *)
(* team does not keep the legacy role of its head: the role the assignment or the *)
(* removal read is the one it writes over.                                        *)
THEOREM DeposedAreWhole == Spec => DeposedWhole
<1> DEFINE Whole == serial = Kinds =>
             \A u \in Users : Lead(u) /\ ~Lead(u)' /\ Present(u)' => member'[u].role # "lead"
<1>1. Init => TypeOK /\ Calm
  BY InvInit DEF Inv, Init, Calm, Lone, Current, Idle
<1>2. TypeOK /\ Calm /\ [Next]_vars => TypeOK' /\ Calm'
  BY TypeStep, CalmStep
<1>3. TypeOK /\ Calm /\ [Next]_vars => [Whole]_vars
  <2> SUFFICES ASSUME TypeOK, Calm, Next, serial = Kinds, NEW u \in Users,
                      Lead(u), ~Lead(u)', Present(u)'
               PROVE  member'[u].role # "lead"
    OBVIOUS
  <2>0. member[u] \in Row
    BY DEF TypeOK, Lead, Absent
  <2>1. ASSUME NEW stale, member'[u] = Deposed(member[u], stale), stale = member[u]
        PROVE  member'[u].role # "lead"
    BY <2>0, <2>1 DEF Deposed, Row
  <2>2. ASSUME NEW w \in Workers, CommitAssign(w) PROVE member'[u].role # "lead"
    <3>1. u # req[w].user
      BY <2>2, CommitAssignTyped DEF Lead
    <3>2. req[w].prev[u] # Absent /\ member'[u] = Deposed(member[u], req[w].prev[u])
      BY <2>2, <3>1, CommitAssignTyped DEF Lead
    <3>3. req[w].prev[u] = member[u]
      BY <2>0, <2>2, <3>2 DEF Calm, Current, CommitAssign, Lead, Absent
    <3> QED BY <2>1, <3>2, <3>3
  <2>3. ASSUME NEW w \in Workers, CommitClear(w) PROVE member'[u].role # "lead"
    <3>1. u = req[w].user /\ member'[u] = Deposed(member[u], req[w].row)
      BY <2>3, CommitClearRows DEF Lead
    <3>2. req[w].row = member[u]
      BY <2>3, <3>1 DEF Calm, Current, CommitClear, Lead, Absent
    <3> QED BY <2>1, <3>1, <3>2
  <2>4. ASSUME NEW w \in Workers, NEW role \in Roles, NEW active \in SUBSET {"active"},
               SavePatch(w, role, active)
        PROVE  FALSE
    <3>1. u = req[w].user /\ "lead" \notin req[w].row.is
      BY <2>4, SavePatchRows DEF Lead
    <3>2. req[w].row = member[u]
      BY <2>4, <3>1 DEF Calm, Current, SavePatch, Lead, Absent
    <3> QED BY <3>1, <3>2 DEF Lead
  <2>5. ASSUME NEW w \in Workers, NEW role \in Roles, SaveCareer(w, role) PROVE FALSE
    BY <2>5, SaveCareerRows
  <2>6. ASSUME NEW v \in Users, NEW role \in Roles, NEW active \in SUBSET {"active"},
               UpsertMember(v, role, active)
        PROVE  FALSE
    BY <2>6, UpsertRows
  <2>7. ASSUME NEW v \in Users, RemoveMember(v) PROVE FALSE
    BY <2>7 DEF RemoveMember, TypeOK, Lead, Present
  <2>8. ASSUME UNCHANGED member PROVE FALSE
    BY <2>8 DEF Lead
  <2>9. ASSUME NEW w \in Workers,
               \/ \E v \in Users, new \in {"bundle", "none"} : StartAssign(w, v, new)
               \/ \E v \in Users : StartClear(w, v) \/ LoadPatch(w, v) \/ LoadCareer(w, v)
               \/ FailRequest(w)
        PROVE  FALSE
    BY <2>8, <2>9 DEF StartAssign, StartClear, LoadPatch, LoadCareer, FailRequest
  <2> QED
    BY <2>2, <2>3, <2>4, <2>5, <2>6, <2>7, <2>9 DEF Next, Step
<1> QED BY <1>1, <1>2, <1>3, PTL DEF Spec, DeposedWhole
==================================================================================
