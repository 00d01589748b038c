-------------------------- MODULE DepartmentTreeProofs --------------------------
(***************************************************************************)
(* If the PATCHes of an organization's departments do not overlap, no      *)
(* sequence of them, of deletions and of creations closes a cycle, for any *)
(* number of departments and workers.  The shapes are kept in every        *)
(* regime; if no two requests overlap, only empty departments are deleted. *)
(***************************************************************************)
EXTENDS DepartmentTree, TLAPS

(* The rows a request in flight names exist; the code never deletes one. *)
Named(r) ==
  /\ r.kind \in {"patch", "delete", "join"} => Exists(r.unit)
  /\ r.kind = "create" => (r.parent # Root => Exists(r.parent))
  /\ r.kind = "patch" => (r.row.parent # Root => Exists(r.row.parent))

(* The parent a PATCH is about to write is the one in the table, or the walk   *)
(* from it still does not meet the department: some closed set separates them. *)
Separated(d, p) == \E S \in SUBSET Units : p \in S /\ ParentClosed(S) /\ d \notin S

Checked(r) ==
  r.kind = "patch" => \/ r.row.parent = unit[r.unit].parent
                      \/ r.row.parent = Root
                      \/ Separated(r.unit, r.row.parent)

(* At most one PATCH is in flight. *)
OnePatch ==
  \A v, w \in Workers : req[v].kind = "patch" /\ req[w].kind = "patch" => v = w

Inv ==
  /\ TypeOK /\ Forest /\ OnePatch
  /\ \A w \in Workers : Named(req[w]) /\ Checked(req[w])

--------------------------------------------------------------------------------
(* Setting one parent that is separated from its child closes no cycle: what   *)
(* a cycle through the new link had in common with the separating set would    *)
(* be a cycle before.                                                          *)
LEMMA LinkKeepsForest ==
  ASSUME TypeOK, Forest, NEW d \in Units, NEW p \in Units \cup {Root},
         p = Root \/ Separated(d, p),
         unit'[d].parent = p, \A c \in Units \ {d} : unit'[c].parent = unit[c].parent
  PROVE  Forest'
<1> SUFFICES ASSUME NEW S \in SUBSET Units, S # {}, \A x \in S : unit'[x].parent \in S
             PROVE  FALSE
  BY DEF Forest
<1>1. CASE d \notin S
  BY <1>1 DEF Forest
<1>2. CASE d \in S
  <2>1. p \in S
    BY <1>2
  <2>2. p # Root
    BY <2>1, TreeConstants
  <2>3. PICK C \in SUBSET Units : p \in C /\ ParentClosed(C) /\ d \notin C
    BY <2>2 DEF Separated
  <2>4. p \in S \cap C
    BY <2>1, <2>3
  <2>5. \A x \in S \cap C : unit[x].parent \in S
    BY <2>3
  <2>6. \A x \in S \cap C : unit[x].parent \in C
    BY <2>3, <2>5, TreeConstants DEF ParentClosed
  <2>7. PICK x \in S \cap C : unit[x].parent \notin S \cap C
    BY <2>4 DEF Forest
  <2> QED BY <2>5, <2>6, <2>7
<1> QED BY <1>1, <1>2

(* A row of its own: nothing has the new row as its parent.  *)
LEMMA NewRowKeepsSeparated ==
  ASSUME TypeOK, NEW c \in Units, ~ Exists(c), NEW d \in Units, NEW p \in Units, Exists(p),
         \A x \in Units \ {c} : unit'[x].parent = unit[x].parent,
         Separated(d, p)
  PROVE  Separated(d, p)'
<1>1. PICK S \in SUBSET Units : p \in S /\ ParentClosed(S) /\ d \notin S
  BY DEF Separated
<1>2. p \in S \ {c} /\ d \notin S \ {c}
  BY <1>1
<1>3. ASSUME NEW x \in S \ {c}, unit'[x].parent # Root
      PROVE  unit'[x].parent \in S \ {c}
  <2>1. unit[x].parent = unit'[x].parent
    BY <1>3
  <2>2. unit[x].parent \in S /\ Exists(unit[x].parent)
    BY <1>1, <1>3, <2>1 DEF ParentClosed, TypeOK
  <2> QED BY <2>1, <2>2
<1>4. ParentClosed(S \ {c})'
  BY <1>3 DEF ParentClosed
<1> QED BY <1>2, <1>4 DEF Separated

(* A department that the new row is not above anything separates from its row. *)
LEMMA NewRowSeparated ==
  ASSUME TypeOK, NEW c \in Units, ~ Exists(c), NEW p \in Units, Exists(p)
  PROVE  Separated(c, p)
<1>1. p \in Units \ {c} /\ c \notin Units \ {c}
  OBVIOUS
<1>2. ParentClosed(Units \ {c})
  BY DEF ParentClosed, TypeOK, Row, Missing
<1> QED BY <1>1, <1>2 DEF Separated

LEMMA SameParents ==
  ASSUME \A x \in Units : unit'[x].parent = unit[x].parent
  PROVE  /\ Forest => Forest'
         /\ \A d, p : Separated(d, p) => Separated(d, p)'
<1>1. Forest => Forest'
  BY DEF Forest
<1>2. \A S \in SUBSET Units : ParentClosed(S) => ParentClosed(S)'
  BY DEF ParentClosed
<1> QED BY <1>1, <1>2 DEF Separated

--------------------------------------------------------------------------------
(* Steps *)

LEMMA RequestParts ==
  ASSUME TypeOK, NEW w \in Workers
  PROVE  /\ req[w].kind = "patch" => req[w].unit \in Units /\ req[w].row \in Row
         /\ req[w].kind = "delete" => req[w].unit \in Units
         /\ req[w].kind = "create" => req[w].parent \in Units \cup {Root}
         /\ req[w].kind = "join" => req[w].unit \in Units
BY DEF TypeOK, Request

(* Starting a request changes no row; a PATCH starts only when no other is in  *)
(* flight.                                                                     *)
LEMMA BeginStep ==
  ASSUME Inv, "patch" \in serial, NEW w \in Workers, NEW r \in Request, Begin(w, r),
         Named(r), Checked(r), UNCHANGED serial
  PROVE  Inv'
<1>1. TypeOK'
  BY DEF Begin, Inv, TypeOK, Exists
<1>2. Forest'
  BY DEF Begin, Inv, Forest
<1>3. req'[w] = r /\ \A v \in Workers \ {w} : req'[v] = req[v]
  BY DEF Begin, Inv, TypeOK
<1>4. OnePatch'
  <2>1. r.kind = "patch" => \A v \in Workers : req[v].kind # "patch"
    BY DEF Begin, MayStart
  <2> QED BY <1>3, <2>1 DEF Inv, OnePatch
<1>5. ASSUME NEW v \in Workers PROVE (Named(req[v]) /\ Checked(req[v]))'
  <2>1. UNCHANGED unit
    BY DEF Begin
  <2>2. Named(req'[v]) /\ Checked(req'[v])
    BY <1>3 DEF Inv
  <2> QED BY <2>1, <2>2 DEF Named, Checked, Exists, Separated, ParentClosed
<1> QED BY <1>1, <1>2, <1>4, <1>5 DEF Inv

LEMMA LoadPatchStep ==
  ASSUME Inv, "patch" \in serial, NEW w \in Workers, NEW d \in Units,
         NEW parent \in Units \cup {Root}, NEW state \in States,
         LoadPatch(w, d, parent, state), UNCHANGED serial
  PROVE  Inv'
<1> DEFINE r == [kind |-> "patch", unit |-> d, row |-> [parent |-> parent, state |-> state]]
<1>1. r \in Request /\ Begin(w, r)
  BY DEF LoadPatch, Request, Row
<1>2. Exists(d)
  BY DEF LoadPatch, IsActive, Exists
<1>3. CASE parent = unit[d].parent
  <2>1. Named(r)
    BY <1>2, <1>3 DEF Named, Inv, TypeOK
  <2>2. Checked(r)
    BY <1>3 DEF Checked
  <2> QED BY <1>1, <2>1, <2>2, BeginStep
<1>4. CASE parent # unit[d].parent
  <2>1. parent # Root => Exists(parent) /\ d \notin Above(parent)
    BY <1>4 DEF LoadPatch, ParentAllowed
  <2>2. parent # Root => Separated(d, parent)
    BY <2>1 DEF Above, Separated
  <2>3. Named(r)
    BY <1>2, <2>1 DEF Named
  <2>4. Checked(r)
    BY <2>2 DEF Checked
  <2> QED BY <1>1, <2>3, <2>4, BeginStep
<1> QED BY <1>3, <1>4

LEMMA OtherBegins ==
  ASSUME Inv, "patch" \in serial, NEW w \in Workers, UNCHANGED serial
  PROVE  /\ \A d \in Units : CheckDelete(w, d) \/ LoadJoin(w, d) => Inv'
         /\ \A parent \in Units \cup {Root} : CheckCreate(w, parent) => Inv'
<1>1. ASSUME NEW d \in Units, CheckDelete(w, d) PROVE Inv'
  <2> DEFINE r == [kind |-> "delete", unit |-> d]
  <2>1. r \in Request /\ Begin(w, r)
    BY <1>1 DEF CheckDelete, Request
  <2>2. Named(r) /\ Checked(r)
    BY <1>1 DEF CheckDelete, Named, Checked, IsActive, Exists
  <2> QED BY <2>1, <2>2, BeginStep
<1>2. ASSUME NEW d \in Units, LoadJoin(w, d) PROVE Inv'
  <2> DEFINE r == [kind |-> "join", unit |-> d]
  <2>1. r \in Request /\ Begin(w, r)
    BY <1>2 DEF LoadJoin, Request
  <2>2. Named(r) /\ Checked(r)
    BY <1>2 DEF LoadJoin, Named, Checked, IsActive, Exists
  <2> QED BY <2>1, <2>2, BeginStep
<1>3. ASSUME NEW parent \in Units \cup {Root}, CheckCreate(w, parent) PROVE Inv'
  <2> DEFINE r == [kind |-> "create", parent |-> parent]
  <2>1. r \in Request /\ Begin(w, r)
    BY <1>3 DEF CheckCreate, Request
  <2>2. Named(r) /\ Checked(r)
    BY <1>3 DEF CheckCreate, Named, Checked, IsActive, Exists
  <2> QED BY <2>1, <2>2, BeginStep
<1> QED BY <1>1, <1>2, <1>3

(* A finished request carries nothing; the others are as they were.  *)
LEMMA FinishFacts ==
  ASSUME Inv, NEW w \in Workers, Finish(w)
  PROVE  /\ req' \in [Workers -> Request] /\ OnePatch'
         /\ Named(req[w])' /\ Checked(req[w])'
         /\ \A v \in Workers \ {w} : req'[v] = req[v]
<1>1. req' \in [Workers -> Request]
  BY DEF Finish, Inv, TypeOK, Idle, Request
<1>2. req'[w] = Idle /\ \A v \in Workers \ {w} : req'[v] = req[v]
  BY DEF Finish, Inv, TypeOK
<1>3. OnePatch'
  BY <1>2 DEF Inv, OnePatch, Idle
<1>4. req'[w].kind = "idle"
  BY <1>2 DEF Idle
<1> QED BY <1>1, <1>2, <1>3, <1>4 DEF Named, Checked

(* A step that keeps every row and every parent keeps what requests know.  *)
LEMMA KnownKept ==
  ASSUME Inv, NEW v \in Workers, req'[v] = req[v],
         \A x \in Units : unit'[x].parent = unit[x].parent,
         \A x \in Units : Exists(x) => Exists(x)'
  PROVE  (Named(req[v]) /\ Checked(req[v]))'
<1>1. Named(req[v]) /\ Checked(req[v])
  BY DEF Inv
<1>2. Named(req'[v]) /\ Checked(req'[v])
  BY <1>1
<1>3. Named(req[v])'
  <2>1. /\ req[v].kind \in {"patch", "delete", "join"} => req[v].unit \in Units
        /\ req[v].kind = "create" => req[v].parent \in Units \cup {Root}
        /\ req[v].kind = "patch" => req[v].row.parent \in Units \cup {Root}
    BY RequestParts DEF Inv, Row
  <2> QED BY <1>1, <2>1 DEF Named
<1>4. Checked(req[v])'
  <2>1. req[v].kind = "patch" => req[v].unit \in Units
    BY RequestParts DEF Inv
  <2> QED BY <1>1, <2>1, SameParents DEF Checked
<1> QED BY <1>3, <1>4

LEMMA SavePatchStep ==
  ASSUME Inv, NEW w \in Workers, SavePatch(w), UNCHANGED serial
  PROVE  Inv'
<1>1. PICK d \in Units, row \in Row :
        /\ req[w].kind = "patch" /\ d = req[w].unit /\ row = req[w].row
        /\ Exists(d) /\ (row.parent # Root => Exists(row.parent))
        /\ row.parent = unit[d].parent \/ row.parent = Root \/ Separated(d, row.parent)
  BY RequestParts DEF SavePatch, Inv, Named, Checked
<1>2. unit \in [Units -> Row \cup {Missing}]
  BY DEF Inv, TypeOK
<1>3. unit'[d] = row /\ \A x \in Units \ {d} : unit'[x] = unit[x]
  BY <1>1, <1>2 DEF SavePatch
<1>4. \A x \in Units : Exists(x) => Exists(x)'
  BY <1>3 DEF Exists, Row, States
<1>5. TypeOK'
  <2>1. unit' \in [Units -> Row \cup {Missing}]
    BY <1>1, <1>2, <1>3 DEF SavePatch
  <2>2. \A x \in Units : unit'[x].parent # Root => Exists(unit'[x].parent)
    BY <1>1, <1>3 DEF Inv, TypeOK
  <2>3. \A x \in Units : unit'[x].parent \in Units \cup {Root}
    BY <2>1 DEF Row, Missing
  <2>4. \A x \in Units : (unit[x].parent # Root => Exists(unit[x].parent))'
    BY <1>4, <2>2, <2>3 DEF Exists
  <2> QED BY <2>1, <2>4, FinishFacts DEF SavePatch, Inv, TypeOK
<1>6. Forest'
  <2>1. CASE row.parent = unit[d].parent
    <3>1. \A x \in Units : unit'[x].parent = unit[x].parent
      BY <1>3, <2>1
    <3> QED BY <3>1, SameParents DEF Inv
  <2>2. CASE row.parent # unit[d].parent
    <3>1. row.parent \in Units \cup {Root}
      BY DEF Row
    <3> QED BY <1>1, <1>3, <2>2, <3>1, LinkKeepsForest DEF Inv
  <2> QED BY <2>1, <2>2
<1>7. ASSUME NEW v \in Workers PROVE (Named(req[v]) /\ Checked(req[v]))'
  <2>1. CASE v = w
    BY <2>1, FinishFacts DEF SavePatch
  <2>2. CASE v # w
    <3>1. req'[v] = req[v] /\ req[v].kind # "patch"
      BY <1>1, <2>2, FinishFacts DEF SavePatch, Inv, OnePatch
    <3>2. Named(req[v])
      BY DEF Inv
    <3>3. /\ req[v].kind \in {"delete", "join"} => req[v].unit \in Units
          /\ req[v].kind = "create" => req[v].parent \in Units \cup {Root}
      BY RequestParts DEF Inv
    <3> QED BY <1>4, <3>1, <3>2, <3>3 DEF Named, Checked
  <2> QED BY <2>1, <2>2
<1> QED BY <1>5, <1>6, <1>7, FinishFacts DEF Inv, SavePatch

LEMMA CommitDeleteStep ==
  ASSUME Inv, NEW w \in Workers, CommitDelete(w), UNCHANGED serial
  PROVE  Inv'
<1>1. PICK d \in Units : req[w].kind = "delete" /\ d = req[w].unit /\ Exists(d)
  BY RequestParts DEF CommitDelete, Inv, Named
<1>2. unit \in [Units -> Row \cup {Missing}] /\ unit[d] \in Row
  BY <1>1 DEF Inv, TypeOK, Exists, Missing
<1>3. /\ unit'[d] = [unit[d] EXCEPT !.state = "inactive"]
      /\ \A x \in Units \ {d} : unit'[x] = unit[x]
  BY <1>1, <1>2 DEF CommitDelete
<1>4. unit'[d] \in Row /\ unit'[d].parent = unit[d].parent
  BY <1>2, <1>3 DEF Row, States
<1>5. \A x \in Units : unit'[x].parent = unit[x].parent
  BY <1>3, <1>4
<1>6. \A x \in Units : Exists(x) => Exists(x)'
  BY <1>3, <1>4 DEF Exists, Row, States
<1>7. TypeOK'
  <2>1. unit' \in [Units -> Row \cup {Missing}]
    BY <1>1, <1>2, <1>3, <1>4 DEF CommitDelete
  <2>2. \A x \in Units : unit'[x].parent \in Units \cup {Root}
    BY <2>1 DEF Row, Missing
  <2>3. \A x \in Units : (unit[x].parent # Root => Exists(unit[x].parent))'
    BY <1>5, <1>6, <2>2 DEF Inv, TypeOK
  <2> QED BY <2>1, <2>3, FinishFacts DEF CommitDelete, Inv, TypeOK
<1>8. ASSUME NEW v \in Workers PROVE (Named(req[v]) /\ Checked(req[v]))'
  BY <1>5, <1>6, KnownKept, FinishFacts DEF CommitDelete
<1> QED BY <1>5, <1>7, <1>8, SameParents, FinishFacts DEF Inv, CommitDelete

LEMMA CommitCreateStep ==
  ASSUME Inv, NEW w \in Workers, NEW c \in Units, CommitCreate(w, c),
         UNCHANGED serial
  PROVE  Inv'
<1>1. PICK p \in Units \cup {Root} :
        req[w].kind = "create" /\ p = req[w].parent /\ (p # Root => Exists(p))
  BY RequestParts DEF CommitCreate, Inv, Named
<1>2. unit \in [Units -> Row \cup {Missing}] /\ ~ Exists(c)
  BY DEF Inv, TypeOK, CommitCreate
<1>3. /\ unit'[c] = [parent |-> p, state |-> "active"]
      /\ \A x \in Units \ {c} : unit'[x] = unit[x]
  BY <1>1, <1>2 DEF CommitCreate
<1>4. unit'[c] \in Row
  BY <1>3 DEF Row, States
<1>5. \A x \in Units : Exists(x) => Exists(x)'
  BY <1>3 DEF Exists
<1>6. TypeOK'
  <2>1. unit' \in [Units -> Row \cup {Missing}]
    BY <1>2, <1>3, <1>4 DEF CommitCreate
  <2>2. \A x \in Units : unit'[x].parent \in Units \cup {Root}
    BY <2>1 DEF Row, Missing
  <2>3. \A x \in Units : unit'[x].parent # Root => Exists(unit'[x].parent)
    BY <1>1, <1>3 DEF Inv, TypeOK
  <2>4. \A x \in Units : (unit[x].parent # Root => Exists(unit[x].parent))'
    BY <1>5, <2>2, <2>3
  <2> QED BY <2>1, <2>4, FinishFacts DEF CommitCreate, Inv, TypeOK
<1>7. Forest'
  <2>1. p = Root \/ Separated(c, p)
    BY <1>1, <1>2, NewRowSeparated DEF Inv
  <2> QED BY <1>3, <2>1, LinkKeepsForest DEF Inv
<1>8. ASSUME NEW v \in Workers PROVE (Named(req[v]) /\ Checked(req[v]))'
  <2>1. CASE v = w
    BY <2>1, FinishFacts DEF CommitCreate
  <2>2. CASE v # w
    <3>1. req'[v] = req[v] /\ Named(req[v]) /\ Checked(req[v])
      BY <2>2, FinishFacts DEF CommitCreate, Inv
    <3>2. /\ req[v].kind \in {"patch", "delete", "join"} => req[v].unit \in Units
          /\ req[v].kind = "create" => req[v].parent \in Units \cup {Root}
          /\ req[v].kind = "patch" => req[v].row.parent \in Units \cup {Root}
      BY RequestParts DEF Inv, Row
    <3>3. Named(req[v])'
      BY <1>5, <3>1, <3>2 DEF Named
    <3>4. ASSUME req[v].kind = "patch", req[v].row.parent # Root,
                 Separated(req[v].unit, req[v].row.parent)
          PROVE  Separated(req[v].unit, req[v].row.parent)'
      <4>1. PICK d \in Units, q \in Units : d = req[v].unit /\ q = req[v].row.parent
        BY <3>2, <3>4
      <4>2. Exists(q) /\ Separated(d, q)
        BY <3>1, <3>4, <4>1 DEF Named
      <4>3. Separated(d, q)'
        BY <1>2, <1>3, <4>2, NewRowKeepsSeparated DEF Inv
      <4> QED BY <3>1, <4>1, <4>3
    <3>5. req[v].kind = "patch" => unit'[req[v].unit].parent = unit[req[v].unit].parent
      BY <1>2, <1>3, <3>1, <3>2 DEF Named
    <3>6. Checked(req[v])'
      BY <3>1, <3>4, <3>5 DEF Checked
    <3> QED BY <3>3, <3>6
  <2> QED BY <2>1, <2>2
<1> QED BY <1>6, <1>7, <1>8, FinishFacts DEF Inv, CommitCreate

(* The other steps change no row.  *)
LEMMA QuietStep ==
  ASSUME Inv, UNCHANGED unit,
         \/ UNCHANGED req
         \/ \E w \in Workers : Finish(w),
         staffed' \in SUBSET Units, hosting' \in SUBSET Units, UNCHANGED serial
  PROVE  Inv'
<1>1. CASE UNCHANGED req
  <2>1. TypeOK' /\ Forest' /\ OnePatch'
    BY <1>1 DEF Inv, TypeOK, Forest, OnePatch, Exists
  <2>2. ASSUME NEW v \in Workers PROVE (Named(req[v]) /\ Checked(req[v]))'
    BY <1>1, KnownKept DEF Exists
  <2> QED BY <2>1, <2>2 DEF Inv
<1>2. ASSUME NEW w \in Workers, Finish(w) PROVE Inv'
  <2>1. TypeOK' /\ Forest' /\ OnePatch'
    BY <1>2, FinishFacts DEF Inv, TypeOK, Forest, Exists
  <2>2. ASSUME NEW v \in Workers PROVE (Named(req[v]) /\ Checked(req[v]))'
    <3>1. CASE v = w
      BY <1>2, <3>1, FinishFacts
    <3>2. CASE v # w
      <4>1. req'[v] = req[v]
        BY <1>2, <3>2, FinishFacts
      <4> QED BY <4>1, KnownKept DEF Exists
    <3> QED BY <3>1, <3>2
  <2> QED BY <2>1, <2>2 DEF Inv
<1> QED BY <1>1, <1>2

--------------------------------------------------------------------------------
LEMMA InvInit == Init => Inv
<1> SUFFICES ASSUME Init PROVE Inv
  OBVIOUS
<1>1. TypeOK
  BY DEF Init, TypeOK, Idle, Request, Missing
<1>2. Forest
  BY TreeConstants DEF Init, Forest, Missing
<1>3. OnePatch /\ \A w \in Workers : Named(req[w]) /\ Checked(req[w])
  BY DEF Init, OnePatch, Named, Checked, Idle
<1> QED BY <1>1, <1>2, <1>3 DEF Inv

LEMMA InvStep ==
  ASSUME "patch" \in serial, Inv, Next
  PROVE  Inv'
<1> UNCHANGED serial
  BY DEF Next
<1>2. ASSUME NEW w \in Workers, NEW d \in Units,
             \/ \E parent \in Units \cup {Root}, state \in States :
                  LoadPatch(w, d, parent, state)
             \/ CheckDelete(w, d) \/ LoadJoin(w, d) \/ CommitCreate(w, d)
      PROVE  Inv'
  BY <1>2, LoadPatchStep, OtherBegins, CommitCreateStep
<1>3. ASSUME NEW w \in Workers, NEW parent \in Units \cup {Root}, CheckCreate(w, parent)
      PROVE  Inv'
  BY <1>3, OtherBegins
<1>4. ASSUME NEW w \in Workers, SavePatch(w) \/ CommitDelete(w)
      PROVE  Inv'
  BY <1>4, SavePatchStep, CommitDeleteStep
<1>5. ASSUME NEW w \in Workers, CommitJoin(w)
      PROVE  Inv'
  <2>1. req[w].unit \in Units
    BY <1>5, RequestParts DEF CommitJoin, Inv
  <2> QED BY <1>5, <2>1, QuietStep DEF CommitJoin, Inv, TypeOK
<1>6. ASSUME NEW w \in Workers, FailRequest(w)
      PROVE  Inv'
  BY <1>6, QuietStep DEF FailRequest, Inv, TypeOK
<1>7. ASSUME NEW d \in Units, JoinAny(d) \/ Vacate(d)
      PROVE  Inv'
  BY <1>7, QuietStep DEF JoinAny, Vacate, Inv, TypeOK
<1> QED BY <1>2, <1>3, <1>4, <1>5, <1>6, <1>7 DEF Next, Step

(* If PATCHes of departments do not overlap, the department tree never has a *)
(* cycle.                                                                    *)
THEOREM TreeStaysATree == Spec => []Acyclic
<1> DEFINE Guarded == "patch" \in serial => Inv
<1>1. Init => Guarded
  BY InvInit
<1>2. Guarded /\ [Next]_vars => Guarded'
  <2> SUFFICES ASSUME Guarded, [Next]_vars, "patch" \in serial'
               PROVE  Inv'
    OBVIOUS
  <2>1. CASE Next
    <3>1. serial' = serial
      BY <2>1 DEF Next
    <3> QED BY <2>1, <3>1, InvStep
  <2>2. CASE UNCHANGED vars
    BY <2>2, QuietStep DEF vars, Inv, TypeOK
  <2> QED BY <2>1, <2>2
<1>3. Guarded => Acyclic
  BY DEF Inv, Acyclic
<1> QED BY <1>1, <1>2, <1>3, PTL DEF Spec

--------------------------------------------------------------------------------
(* Types, however requests overlap: what a request in flight names stays there. *)
Typed == TypeOK /\ \A w \in Workers : Named(req[w])

(* Starting a request about rows that exist. *)
LEMMA BeginTyped ==
  ASSUME Typed, NEW w \in Workers, NEW r \in Request, Begin(w, r), Named(r), UNCHANGED serial
  PROVE  Typed'
<1>1. TypeOK'
  BY DEF Begin, Typed, TypeOK, Exists
<1>2. ASSUME NEW v \in Workers PROVE Named(req[v])'
  <2>1. UNCHANGED unit /\ (req'[v] = r \/ req'[v] = req[v])
    BY DEF Begin, Typed, TypeOK
  <2>2. Named(req'[v])
    BY <2>1 DEF Typed
  <2> QED BY <2>1, <2>2 DEF Named, Exists
<1> QED BY <1>1, <1>2 DEF Typed

(* A finished one carries nothing, and the rows the others name are still rows. *)
LEMMA FinishTyped ==
  ASSUME Typed, NEW w \in Workers, Finish(w), UNCHANGED serial,
         unit' \in [Units -> Row \cup {Missing}],
         \A d \in Units : Exists(d) => Exists(d)',
         \A d \in Units : unit'[d].parent # Root => Exists(unit[d].parent)',
         staffed' \in SUBSET Units, hosting' \in SUBSET Units
  PROVE  Typed'
<1>1. req' \in [Workers -> Request]
  BY DEF Finish, Typed, TypeOK, Idle, Request
<1>2. TypeOK'
  BY <1>1 DEF Typed, TypeOK
<1>3. ASSUME NEW v \in Workers PROVE Named(req[v])'
  <2>1. req'[v] = Idle \/ req'[v] = req[v]
    BY DEF Finish, Typed, TypeOK
  <2>2. CASE req'[v] = Idle
    BY <2>2 DEF Named, Idle
  <2>3. CASE req'[v] = req[v]
    <3>1. /\ req[v].kind \in {"patch", "delete", "join"} => req[v].unit \in Units
          /\ req[v].kind = "create" => req[v].parent \in Units \cup {Root}
          /\ req[v].kind = "patch" => req[v].row.parent \in Units \cup {Root}
      BY RequestParts DEF Typed, Row
    <3> QED BY <2>3, <3>1 DEF Typed, Named
  <2> QED BY <2>1, <2>2, <2>3
<1> QED BY <1>2, <1>3 DEF Typed

LEMMA TypedStep == Typed /\ [Next]_vars => Typed'
<1> SUFFICES ASSUME Typed, [Next]_vars PROVE Typed'
  OBVIOUS
<1>0. UNCHANGED serial
  BY DEF Next, vars
<1> USE <1>0
<1>1. ASSUME NEW w \in Workers, NEW d \in Units, NEW parent \in Units \cup {Root},
             NEW state \in States, LoadPatch(w, d, parent, state)
      PROVE  Typed'
  <2> DEFINE r == [kind |-> "patch", unit |-> d, row |-> [parent |-> parent, state |-> state]]
  <2>1. r \in Request /\ Begin(w, r)
    BY <1>1 DEF LoadPatch, Request, Row
  <2>2. Named(r)
    BY <1>1 DEF LoadPatch, ParentAllowed, Named, IsActive, Exists, Typed, TypeOK
  <2> QED BY <2>1, <2>2, BeginTyped
<1>2. ASSUME NEW w \in Workers, NEW d \in Units, CheckDelete(w, d) PROVE Typed'
  <2> DEFINE r == [kind |-> "delete", unit |-> d]
  <2>1. r \in Request /\ Begin(w, r) /\ Named(r)
    BY <1>2 DEF CheckDelete, Request, Named, IsActive, Exists
  <2> QED BY <2>1, BeginTyped
<1>3. ASSUME NEW w \in Workers, NEW d \in Units, LoadJoin(w, d) PROVE Typed'
  <2> DEFINE r == [kind |-> "join", unit |-> d]
  <2>1. r \in Request /\ Begin(w, r) /\ Named(r)
    BY <1>3 DEF LoadJoin, Request, Named, IsActive, Exists
  <2> QED BY <2>1, BeginTyped
<1>4. ASSUME NEW w \in Workers, NEW parent \in Units \cup {Root}, CheckCreate(w, parent)
      PROVE  Typed'
  <2> DEFINE r == [kind |-> "create", parent |-> parent]
  <2>1. r \in Request /\ Begin(w, r) /\ Named(r)
    BY <1>4 DEF CheckCreate, Request, Named, IsActive, Exists
  <2> QED BY <2>1, BeginTyped
<1>5. ASSUME NEW w \in Workers, NEW d \in Units, CommitCreate(w, d) PROVE Typed'
  <2>1. req[w].parent \in Units \cup {Root} /\ (req[w].parent # Root => Exists(req[w].parent))
    BY <1>5, RequestParts DEF CommitCreate, Typed, Named
  <2>2. unit' = [unit EXCEPT ![d] = [parent |-> req[w].parent, state |-> "active"]]
    BY <1>5 DEF CommitCreate
  <2>3. unit' \in [Units -> Row \cup {Missing}]
    BY <2>1, <2>2 DEF Typed, TypeOK, Row, States
  <2>4. \A c \in Units : Exists(c) => Exists(c)'
    BY <2>2 DEF Exists, Typed, TypeOK
  <2>5. ASSUME NEW c \in Units, unit'[c].parent # Root PROVE Exists(unit[c].parent)'
    <3>1. unit'[c].parent \in Units /\ Exists(unit'[c].parent)
      BY <2>1, <2>2, <2>5 DEF Typed, TypeOK, Row, Missing
    <3> QED BY <2>4, <3>1 DEF Exists
  <2> QED BY <1>5, <2>3, <2>4, <2>5, FinishTyped DEF CommitCreate, Typed, TypeOK
<1>6. ASSUME NEW w \in Workers, SavePatch(w) PROVE Typed'
  <2> DEFINE d == req[w].unit
  <2>1. /\ d \in Units /\ req[w].row \in Row
        /\ req[w].row.parent # Root => Exists(req[w].row.parent)
    BY <1>6, RequestParts DEF SavePatch, Typed, Named
  <2>2. unit' = [unit EXCEPT ![d] = req[w].row]
    BY <1>6 DEF SavePatch
  <2>3. unit' \in [Units -> Row \cup {Missing}]
    BY <2>1, <2>2 DEF Typed, TypeOK
  <2>4. \A c \in Units : Exists(c) => Exists(c)'
    BY <2>1, <2>2 DEF Exists, Typed, TypeOK, Row, States
  <2>5. ASSUME NEW c \in Units, unit'[c].parent # Root PROVE Exists(unit[c].parent)'
    <3>1. unit'[c].parent \in Units /\ Exists(unit'[c].parent)
      BY <2>1, <2>2, <2>5 DEF Typed, TypeOK, Row, Missing
    <3> QED BY <2>4, <3>1 DEF Exists
  <2> QED BY <1>6, <2>3, <2>4, <2>5, FinishTyped DEF SavePatch, Typed, TypeOK
<1>7. ASSUME NEW w \in Workers, CommitDelete(w) PROVE Typed'
  <2> DEFINE d == req[w].unit
  <2>1. d \in Units /\ unit[d].state # "missing" /\ unit[d] \in Row
    BY <1>7, RequestParts DEF CommitDelete, Typed, TypeOK, Named, Exists, Missing
  <2>2. unit' = [unit EXCEPT ![d].state = "inactive"]
    BY <1>7 DEF CommitDelete
  <2>3. unit' \in [Units -> Row \cup {Missing}]
    BY <2>1, <2>2 DEF Typed, TypeOK, Row, States
  <2>4. \A c \in Units : (Exists(c) => Exists(c)') /\ unit'[c].parent = unit[c].parent
    BY <2>1, <2>2 DEF Exists, Typed, TypeOK, Row, States
  <2>5. ASSUME NEW c \in Units, unit'[c].parent # Root PROVE Exists(unit[c].parent)'
    <3>1. unit'[c].parent \in Units /\ Exists(unit'[c].parent)
      BY <2>4, <2>5 DEF Typed, TypeOK, Row, Missing
    <3> QED BY <2>4, <3>1 DEF Exists
  <2> QED BY <1>7, <2>3, <2>4, <2>5, FinishTyped DEF CommitDelete, Typed, TypeOK
<1>8. ASSUME NEW w \in Workers, CommitJoin(w) \/ FailRequest(w) PROVE Typed'
  <2>1. /\ UNCHANGED unit /\ Finish(w)
        /\ staffed' \in SUBSET Units /\ hosting' \in SUBSET Units
    BY <1>8, RequestParts DEF CommitJoin, FailRequest, Typed, TypeOK
  <2> QED BY <2>1, FinishTyped DEF Typed, TypeOK, Exists
<1>9. ASSUME UNCHANGED <<unit, req>>, staffed' \in SUBSET Units, hosting' \in SUBSET Units
      PROVE  Typed'
  BY <1>9 DEF Typed, TypeOK, Named, Exists
<1>10. ASSUME NEW d \in Units, JoinAny(d) \/ Vacate(d) PROVE Typed'
  BY <1>9, <1>10 DEF JoinAny, Vacate, Typed, TypeOK
<1>11. CASE UNCHANGED vars
  BY <1>9, <1>11 DEF vars, Typed, TypeOK
<1> QED
  BY <1>1, <1>2, <1>3, <1>4, <1>5, <1>6, <1>7, <1>8, <1>10, <1>11 DEF Next, Step

(* In every regime, and so in the code as it is deployed: a department's parent is a *)
(* row or none, and what requests in flight hold has the shape the code reads.       *)
THEOREM TreeTypeCorrect == Spec => []TypeOK
<1>1. Init => Typed
  BY InvInit DEF Inv, Typed
<1>2. Typed => TypeOK
  BY DEF Typed
<1> QED BY <1>1, <1>2, TypedStep, PTL DEF Spec

--------------------------------------------------------------------------------
(* Deletions, when no requests overlap *)

Lone == \A v, w \in Workers : req[v] # Idle /\ req[w] # Idle => v = w

(* What a deletion found empty stays so until it is done. *)
Calm == serial = Kinds =>
          Lone /\ \A w \in Workers : req[w].kind = "delete" => Empty(req[w].unit)

LEMMA CalmStep == Typed /\ Calm /\ [Next]_vars => Calm'
<1> SUFFICES ASSUME Typed, Calm, [Next]_vars, serial = Kinds
             PROVE  Lone' /\ \A w \in Workers : req'[w].kind = "delete" => Empty(req[w].unit)'
  BY DEF Next, vars, Calm
<1>0. req \in [Workers -> Request] /\ Lone
  BY DEF Typed, TypeOK, Calm
<1>1. ASSUME NEW w \in Workers, NEW r \in Request, Begin(w, r), r.kind \in Kinds,
             r.kind = "delete" => Empty(r.unit)
      PROVE  Lone' /\ \A v \in Workers : req'[v].kind = "delete" => Empty(req[v].unit)'
  <2>1. \A v \in Workers : req[v] = Idle
    BY <1>0, <1>1 DEF Begin, MayStart, Kinds, Request, Idle
  <2>2. req' = [req EXCEPT ![w] = r] /\ UNCHANGED <<unit, staffed, hosting>>
    BY <1>1 DEF Begin
  <2>3. Lone'
    BY <1>0, <2>1, <2>2 DEF Lone, Idle
  <2>4. ASSUME NEW v \in Workers, req'[v].kind = "delete" PROVE Empty(req[v].unit)'
    <3>1. v = w /\ req'[v] = r
      BY <1>0, <2>1, <2>2, <2>4 DEF Idle
    <3>2. Empty(r.unit)
      BY <1>1, <2>4, <3>1
    <3> QED BY <2>2, <3>1, <3>2 DEF Empty, ActiveChildren, IsActive
  <2> QED BY <2>3, <2>4
<1>2. ASSUME NEW w \in Workers, req[w] # Idle, Finish(w)
      PROVE  Lone' /\ \A v \in Workers : req'[v].kind = "delete" => Empty(req[v].unit)'
  <2>1. \A v \in Workers : req'[v] = Idle
    BY <1>0, <1>2 DEF Finish, Lone
  <2> QED BY <2>1 DEF Lone, Idle
<1>3. ASSUME NEW d \in Units, JoinAny(d)
      PROVE  Lone' /\ \A v \in Workers : req'[v].kind = "delete" => Empty(req[v].unit)'
  <2>1. /\ UNCHANGED req /\ \A v \in Workers : req[v].kind # "delete"
    BY <1>3 DEF JoinAny, Kinds
  <2> QED BY <1>0, <2>1 DEF Lone
<1>4. ASSUME UNCHANGED <<unit, req>>, staffed' \subseteq staffed, hosting' \subseteq hosting
      PROVE  Lone' /\ \A v \in Workers : req'[v].kind = "delete" => Empty(req[v].unit)'
  <2>1. ASSUME NEW v \in Workers, req'[v].kind = "delete" PROVE Empty(req[v].unit)'
    <3>1. Empty(req[v].unit)
      BY <1>4, <2>1 DEF Calm
    <3> QED BY <1>4, <3>1 DEF Empty, ActiveChildren, IsActive
  <2> QED BY <1>0, <1>4, <2>1 DEF Lone
<1>5. ASSUME NEW w \in Workers, NEW d \in Units,
             \/ \E parent \in Units \cup {Root}, state \in States : LoadPatch(w, d, parent, state)
             \/ CheckDelete(w, d) \/ LoadJoin(w, d)
             \/ \E parent \in Units \cup {Root} : CheckCreate(w, parent)
      PROVE  \E r \in Request : /\ Begin(w, r) /\ r.kind \in Kinds
                                /\ r.kind = "delete" => Empty(r.unit)
  <2>1. ASSUME NEW parent \in Units \cup {Root}, NEW state \in States, LoadPatch(w, d, parent, state)
        PROVE  \E r \in Request : Begin(w, r) /\ r.kind = "patch"
    <3> DEFINE r == [kind |-> "patch", unit |-> d, row |-> [parent |-> parent, state |-> state]]
    <3>1. r \in Request /\ Begin(w, r) /\ r.kind = "patch"
      BY <2>1 DEF LoadPatch, Request, Row
    <3> QED BY <3>1
  <2>2. ASSUME CheckDelete(w, d)
        PROVE  \E r \in Request : Begin(w, r) /\ r.kind = "delete" /\ Empty(r.unit)
    <3> DEFINE r == [kind |-> "delete", unit |-> d]
    <3>1. r \in Request /\ Begin(w, r) /\ r.kind = "delete" /\ Empty(r.unit)
      BY <2>2 DEF CheckDelete, Request
    <3> QED BY <3>1
  <2>3. ASSUME LoadJoin(w, d) PROVE \E r \in Request : Begin(w, r) /\ r.kind = "join"
    <3> DEFINE r == [kind |-> "join", unit |-> d]
    <3>1. r \in Request /\ Begin(w, r) /\ r.kind = "join"
      BY <2>3 DEF LoadJoin, Request
    <3> QED BY <3>1
  <2>4. ASSUME NEW parent \in Units \cup {Root}, CheckCreate(w, parent)
        PROVE  \E r \in Request : Begin(w, r) /\ r.kind = "create"
    <3> DEFINE r == [kind |-> "create", parent |-> parent]
    <3>1. r \in Request /\ Begin(w, r) /\ r.kind = "create"
      BY <2>4 DEF CheckCreate, Request
    <3> QED BY <3>1
  <2> QED BY <1>5, <2>1, <2>2, <2>3, <2>4 DEF Kinds
<1>6. ASSUME NEW w \in Workers,
             \/ \E d \in Units : CommitCreate(w, d)
             \/ SavePatch(w) \/ CommitDelete(w) \/ CommitJoin(w) \/ FailRequest(w)
      PROVE  req[w] # Idle /\ Finish(w)
  BY <1>6 DEF CommitCreate, SavePatch, CommitDelete, CommitJoin, FailRequest, Idle
<1>7. ASSUME NEW w \in Workers, NEW parent \in Units \cup {Root}, CheckCreate(w, parent)
      PROVE  Lone' /\ \A v \in Workers : req'[v].kind = "delete" => Empty(req[v].unit)'
  <2> DEFINE r == [kind |-> "create", parent |-> parent]
  <2>1. r \in Request /\ Begin(w, r) /\ r.kind \in Kinds /\ r.kind # "delete"
    BY <1>7 DEF CheckCreate, Request, Kinds
  <2> QED BY <1>1, <2>1
<1>8. ASSUME NEW d \in Units, Vacate(d)
      PROVE  Lone' /\ \A v \in Workers : req'[v].kind = "delete" => Empty(req[v].unit)'
  BY <1>4, <1>8 DEF Vacate
<1>9. CASE UNCHANGED vars
  BY <1>4, <1>9 DEF vars
<1> QED
  BY <1>1, <1>2, <1>3, <1>5, <1>6, <1>7, <1>8, <1>9 DEF Next, Step

(* If no two requests overlap, a department that is deleted has no active            *)
(* subdepartments, members or open projects at the moment its row is written.        *)
THEOREM OnlyEmptyDeleted == Spec => DeletedEmpty
<1>1. Init => Typed /\ Calm
  BY InvInit DEF Inv, Typed, Init, Calm, Lone, Idle
<1>2. Typed /\ Calm /\ [Next]_vars => Typed' /\ Calm'
  BY TypedStep, CalmStep
<1>3. Typed /\ Calm /\ [Next]_vars =>
        [serial = Kinds => \A w \in Workers : CommitDelete(w) => Empty(req[w].unit)]_vars
  BY DEF Calm, CommitDelete
<1> QED BY <1>1, <1>2, <1>3, PTL DEF Spec, DeletedEmpty
==================================================================================
