--------------------------- MODULE AccessGrantsProofs ---------------------------
(***************************************************************************)
(* Proofs about AccessGrants for every value of its constants.             *)
(***************************************************************************)
EXTENDS AccessGrants, FiniteSetTheorems, TLAPS

USE ConstantsAssumption DEF Never

(* Saving a status changes the status of the rows saved and nothing else. *)
LEMMA WithStatusLemma ==
  ASSUME grants \in Seq(Grant), NEW S, NEW st \in Statuses
  PROVE  /\ WithStatus(S, st) \in Seq(Grant)
         /\ Len(WithStatus(S, st)) = Len(grants)
         /\ \A g \in Ids :
              WithStatus(S, st)[g] = IF g \in S THEN [grants[g] EXCEPT !.status = st]
                                     ELSE grants[g]
<1>1. \A g \in Ids : grants[g] \in Grant
  BY DEF Ids
<1>2. \A g \in Ids : [grants[g] EXCEPT !.status = st] \in Grant
  BY <1>1 DEF Grant
<1>3. WithStatus(S, st) \in [1 .. Len(grants) -> Grant]
  BY <1>1, <1>2 DEF WithStatus, Ids
<1> QED
  BY <1>3 DEF WithStatus, Ids

(* The steps that write no row: the table keeps its rows, and no row becomes active. *)
RowsKept ==
  /\ grants' \in Seq(Grant)
  /\ Len(grants') = Len(grants)
  /\ \A g \in Ids :
       /\ grants'[g].employee = grants[g].employee
       /\ grants'[g].code = grants[g].code
       /\ grants'[g].scope = grants[g].scope
       /\ grants'[g].mode = grants[g].mode
       /\ grants'[g].by = grants[g].by
       /\ grants'[g].expires = grants[g].expires
       /\ grants'[g].parent = grants[g].parent
       /\ grants'[g].status = "active" => grants[g].status = "active"

LEMMA StatusSavedKeepsRows ==
  ASSUME grants \in Seq(Grant), NEW S, NEW st \in {"revoked", "expired"},
         grants' = WithStatus(S, st)
  PROVE  RowsKept
<1>1. \A g \in Ids : grants[g] \in Grant
  BY DEF Ids
<1>2. /\ WithStatus(S, st) \in Seq(Grant)
      /\ Len(WithStatus(S, st)) = Len(grants)
      /\ \A g \in Ids :
           WithStatus(S, st)[g] = IF g \in S THEN [grants[g] EXCEPT !.status = st]
                                  ELSE grants[g]
  BY WithStatusLemma DEF Statuses
<1> QED
  BY <1>1, <1>2 DEF RowsKept, Grant

(* Grants, rules, definitions and requests in flight keep the shapes the code *)
(* gives them (TypeOK), whatever is written, expired or edited in between.    *)
THEOREM TypeCorrect == Spec => []TypeOK
<1>1. Init => TypeOK
  BY DEF Init, TypeOK, Request, Ids
<1>2. TypeOK /\ [Next]_vars => TypeOK'
  <2> SUFFICES ASSUME TypeOK, [Next]_vars PROVE TypeOK'
    OBVIOUS
  <2> USE DEF TypeOK, Ids
  <2>1. ASSUME NEW w \in Workers, StartGrant(w) PROVE TypeOK'
    <3>1. PICK row \in Requested :
            req' = [req EXCEPT ![w] = [kind |-> "grant", row |-> row]]
      BY <2>1 DEF StartGrant
    <3>2. row \in Grant
      BY DEF Requested, Grant, Statuses
    <3>3. [kind |-> "grant", row |-> row] \in Request
      BY <3>2 DEF Request
    <3> QED
      BY <3>1, <3>3, <2>1 DEF StartGrant
  <2>2. ASSUME NEW w \in Workers, InsertGrant(w) PROVE TypeOK'
    <3>1. req[w].row \in Grant
      BY <2>2 DEF InsertGrant, Request, Idle
    <3>2. Append(grants, req[w].row) \in Seq(Grant)
          /\ Len(Append(grants, req[w].row)) = Len(grants) + 1
      BY <3>1
    <3>3. Idle \in Request
      BY DEF Request
    <3> QED
      BY <3>2, <3>3, <2>2 DEF InsertGrant
  <2>3. ASSUME NEW w \in Workers, LoadRevoke(w) PROVE TypeOK'
    <3>1. PICK g \in Ids : req' = [req EXCEPT ![w] = [kind |-> "revoke", id |-> g]]
      BY <2>3 DEF LoadRevoke
    <3>2. [kind |-> "revoke", id |-> g] \in Request
      BY <3>1 DEF Request
    <3> QED
      BY <3>1, <3>2, <2>3 DEF LoadRevoke
  <2>4. ASSUME NEW w \in Workers, CommitRevoke(w) PROVE TypeOK'
    <3>1. RowsKept
      BY <2>4, StatusSavedKeepsRows DEF CommitRevoke
    <3>2. Idle \in Request
      BY DEF Request
    <3> QED
      BY <3>1, <3>2, <2>4 DEF CommitRevoke, RowsKept
  <2>5. ASSUME NEW w \in Workers, Abandon(w) PROVE TypeOK'
    BY <2>5 DEF Abandon, Request
  <2>6. ASSUME NEW u \in Users, ResolverExpire(u) PROVE TypeOK'
    <3>1. RowsKept
      BY <2>6, StatusSavedKeepsRows DEF ResolverExpire
    <3> QED
      BY <3>1, <2>6 DEF ResolverExpire, RowsKept
  <2>7. CASE SweepList
    BY <2>7 DEF SweepList
  <2>8. CASE SweepSave
    <3>1. RowsKept
      BY <2>8, StatusSavedKeepsRows DEF SweepSave
    <3> QED
      BY <3>1, <2>8 DEF SweepSave, RowsKept
  <2>9. CASE Tick
    BY <2>9 DEF Tick
  <2>10. CASE WriteDefinition
    BY <2>10 DEF WriteDefinition
  <2>11. CASE PatchRule
    BY <2>11 DEF PatchRule
  <2>12. CASE UNCHANGED vars
    BY <2>12 DEF vars
  <2> QED
    BY <2>1, <2>2, <2>3, <2>4, <2>5, <2>6, <2>7, <2>8, <2>9, <2>10, <2>11, <2>12
    DEF Next
<1> QED
  BY <1>1, <1>2, PTL DEF Spec

--------------------------------------------------------------------------------
(* The inductive invariant.  Links and Pending say that the written links and  *)
(* those a worker is about to write stay within their parents; Due says that   *)
(* only rows past their time are expired or listed by the command.             *)

Links ==
  \A g \in Ids : grants[g].parent # 0 =>
    /\ grants[g].parent < g
    /\ Within(grants[g], grants[grants[g].parent])

Pending ==
  \A w \in Workers : req[w].kind = "grant" =>
    /\ req[w].row.status = "active"
    /\ req[w].row.parent # 0 =>
         /\ req[w].row.parent \in Ids
         /\ Within(req[w].row, grants[req[w].row.parent])

Due ==
  /\ \A g \in Ids : grants[g].status = "expired" => Overdue(g)
  /\ \A g \in sweep : Overdue(g)

(* Every row of the table is a grant, and its numbers are numbers. *)
LEMMA RowTyped ==
  ASSUME TypeOK
  PROVE  \A g \in Ids : /\ grants[g] \in Grant
                        /\ grants[g].parent \in Nat
                        /\ grants[g].expires \in Nat
<1>1. \A g \in Ids : grants[g] \in Grant
  BY DEF TypeOK, Ids
<1>2. 0 .. MaxGrants \subseteq Nat /\ Expiries \cup {Never} \subseteq Nat
  OBVIOUS
<1> QED
  BY <1>1, <1>2 DEF Grant

(* A step either keeps the rows or writes the one a worker has validated. *)
LEMMA StepKinds ==
  ASSUME TypeOK, [Next]_vars
  PROVE  RowsKept \/ \E w \in Workers : InsertGrant(w)
<1>0. grants \in Seq(Grant)
  BY DEF TypeOK
<1>1. grants' = grants => RowsKept
  BY <1>0 DEF RowsKept
<1>2. ASSUME NEW w \in Workers, CommitRevoke(w) PROVE RowsKept
  BY <1>0, <1>2, StatusSavedKeepsRows DEF CommitRevoke
<1>3. ASSUME NEW u \in Users, ResolverExpire(u) PROVE RowsKept
  BY <1>0, <1>3, StatusSavedKeepsRows DEF ResolverExpire
<1>4. SweepSave => RowsKept
  BY <1>0, StatusSavedKeepsRows DEF SweepSave
<1> QED
  BY <1>1, <1>2, <1>3, <1>4 DEF Next, StartGrant, LoadRevoke, Abandon, SweepList,
     Tick, WriteDefinition, PatchRule, vars

(* What InsertGrant appends. *)
LEMMA InsertedRow ==
  ASSUME TypeOK, NEW w \in Workers, InsertGrant(w)
  PROVE  /\ req[w].row \in Grant
         /\ Len(grants') = Len(grants) + 1
         /\ grants'[Len(grants) + 1] = req[w].row
         /\ \A g \in Ids : grants'[g] = grants[g]
         /\ Ids' = Ids \cup {Len(grants) + 1}
<1>1. req[w].row \in Grant
  BY DEF TypeOK, InsertGrant, Request, Idle
<1> QED
  BY <1>1 DEF TypeOK, InsertGrant, Ids

(* The links that a step leaves or adds stay within their parents. *)
LEMMA LinksStep ==
  ASSUME TypeOK, Links, Pending, [Next]_vars
  PROVE  Links'
<1>1. CASE RowsKept
  <2>1. Ids' = Ids
    BY <1>1 DEF RowsKept, Ids
  <2>2. \A g \in Ids : grants[g].parent \in Nat
    BY RowTyped
  <2> SUFFICES ASSUME NEW g \in Ids, grants'[g].parent # 0
               PROVE  /\ grants'[g].parent < g
                      /\ Within(grants'[g], grants'[grants'[g].parent])
    BY <2>1 DEF Links
  <2>3. grants[g].parent \in Ids
    BY <1>1, <2>2 DEF RowsKept, Links, Ids
  <2> QED
    BY <1>1, <2>3 DEF RowsKept, Links, Within
<1>2. ASSUME NEW w \in Workers, InsertGrant(w) PROVE Links'
  <2>1. /\ req[w].kind = "grant"
        /\ \A g \in Ids : grants'[g] = grants[g]
        /\ grants'[Len(grants) + 1] = req[w].row
        /\ Ids' = Ids \cup {Len(grants) + 1}
    BY <1>2, InsertedRow DEF InsertGrant
  <2>2. \A g \in Ids : grants[g].parent \in Nat
    BY RowTyped
  <2> SUFFICES ASSUME NEW g \in Ids', grants'[g].parent # 0
               PROVE  /\ grants'[g].parent < g
                      /\ Within(grants'[g], grants'[grants'[g].parent])
    BY DEF Links
  <2>3. CASE g \in Ids
    <3>1. grants[g].parent \in Ids
      BY <2>1, <2>2, <2>3 DEF Links, Ids
    <3> QED
      BY <2>1, <2>3, <3>1 DEF Links
  <2>4. CASE g = Len(grants) + 1
    BY <2>1, <2>4 DEF Pending, Ids, TypeOK
  <2> QED
    BY <2>1, <2>3, <2>4
<1> QED
  BY <1>1, <1>2, StepKinds

(* A worker's validated request stays valid as to what no write changes. *)
LEMMA PendingStep ==
  ASSUME TypeOK, Pending, [Next]_vars
  PROVE  Pending'
<1>1. ASSUME NEW w \in Workers, req'[w] = req[w], req[w].kind = "grant",
             req[w].row.parent # 0
      PROVE  /\ req[w].row.parent \in Ids'
             /\ Within(req[w].row, grants'[req[w].row.parent])
  <2>1. /\ req[w].row.parent \in Ids
        /\ Within(req[w].row, grants[req[w].row.parent])
    BY <1>1 DEF Pending
  <2>2. CASE RowsKept
    BY <2>1, <2>2 DEF RowsKept, Ids, Within
  <2>3. CASE \E v \in Workers : InsertGrant(v)
    BY <2>1, <2>3, InsertedRow
  <2> QED
    BY <2>2, <2>3, StepKinds
<1>2. \A w \in Workers : req'[w] = req[w] =>
        (req'[w].kind = "grant" =>
          /\ req'[w].row.status = "active"
          /\ req'[w].row.parent # 0 =>
               /\ req'[w].row.parent \in Ids'
               /\ Within(req'[w].row, grants'[req'[w].row.parent]))
  BY <1>1 DEF Pending
<1>3. ASSUME NEW w \in Workers, StartGrant(w) PROVE Pending'
  <2>1. PICK row \in Requested :
          /\ row.parent # 0 => DelegationAllowed(row)
          /\ req' = [req EXCEPT ![w] = [kind |-> "grant", row |-> row]]
          /\ grants' = grants
    BY <1>3 DEF StartGrant
  <2>2. /\ row.status = "active"
        /\ row.parent # 0 => row.parent \in Ids /\ Within(row, grants[row.parent])
    BY <2>1 DEF Requested, DelegationAllowed
  <2>3. \A v \in Workers : v # w => req'[v] = req[v]
    BY <2>1 DEF TypeOK
  <2>4. req'[w] = [kind |-> "grant", row |-> row]
    BY <2>1 DEF TypeOK
  <2> QED
    BY <1>2, <2>1, <2>2, <2>3, <2>4 DEF Pending, Ids
<1>4. ASSUME NEW w \in Workers, NEW r, r.kind # "grant",
             req' = [req EXCEPT ![w] = r]
      PROVE  Pending'
  BY <1>2, <1>4 DEF Pending, TypeOK
<1>5. ASSUME NEW w \in Workers,
             InsertGrant(w) \/ LoadRevoke(w) \/ CommitRevoke(w) \/ Abandon(w)
      PROVE  Pending'
  <2>1. \/ req' = [req EXCEPT ![w] = Idle]
        \/ \E g \in Ids : req' = [req EXCEPT ![w] = [kind |-> "revoke", id |-> g]]
    BY <1>5 DEF InsertGrant, LoadRevoke, CommitRevoke, Abandon
  <2>2. Idle.kind # "grant"
    BY DEF Idle
  <2> QED
    BY <1>4, <2>1, <2>2
<1>6. req' = req => Pending'
  BY <1>2 DEF Pending
<1> QED
  BY <1>3, <1>5, <1>6 DEF Next, vars, ResolverExpire, SweepList, SweepSave, Tick,
     WriteDefinition, PatchRule

--------------------------------------------------------------------------------
(* Chains *)

LEMMA BreadthFacts ==
  /\ Breadth["global"] = 0
  /\ \A t \in ScopeTypes : Breadth[t] \in Nat
BY DEF Breadth, ScopeTypes

(* The parent of a delegated row is a row of the table. *)
LEMMA ParentInTable ==
  ASSUME TypeOK, Links, NEW g \in Ids, grants[g].parent # 0
  PROVE  grants[g].parent \in Ids
BY RowTyped DEF Links, Ids

(* What holds of a link holds of the whole chain: the rows that stand in the   *)
(* relation to g form a closed set, and Chain(g) is within every such set.     *)
LEMMA LinksGiveChains ==
  ASSUME TypeOK, Links
  PROVE  ChainIntegrity
<1> SUFFICES ASSUME NEW g \in Ids, NEW a \in Chain(g)
             PROVE  /\ grants[g].code = grants[a].code
                    /\ grants[g].expires <= grants[a].expires
                    /\ Breadth[grants[g].scope.type] >= Breadth[grants[a].scope.type]
  BY DEF ChainIntegrity, Links
<1> DEFINE S == {i \in Ids : /\ grants[g].code = grants[i].code
                             /\ grants[g].expires <= grants[i].expires
                             /\ Breadth[grants[g].scope.type] >= Breadth[grants[i].scope.type]}
<1>1. \A i \in Ids : Breadth[grants[i].scope.type] \in Nat /\ grants[i].expires \in Nat
  BY RowTyped, BreadthFacts DEF Grant
<1>2. g \in S
  BY <1>1
<1>3. ASSUME NEW i \in S, grants[i].parent # 0 PROVE grants[i].parent \in S
  <2> DEFINE p == grants[i].parent
  <2>1. p \in Ids /\ Within(grants[i], grants[p])
    BY <1>3, ParentInTable DEF Links
  <2>2. /\ grants[i].code = grants[p].code
        /\ grants[i].expires <= grants[p].expires
    BY <2>1 DEF Within
  <2>3. Breadth[grants[i].scope.type] >= Breadth[grants[p].scope.type]
    BY <1>1, <2>1, BreadthFacts DEF Within, ScopeWithin
  <2> HIDE DEF p
  <2> QED
    BY <1>1, <2>1, <2>2, <2>3 DEF p
<1>4. ParentClosed(S)
  BY <1>3 DEF ParentClosed
<1>5. S \in SUBSET Ids
  OBVIOUS
<1>6. a \in S
  BY <1>2, <1>4, <1>5 DEF Chain
<1> QED
  BY <1>6

(* A delegated grant keeps within its parent and its whole chain. *)
THEOREM ChainsKept == Spec => []ChainIntegrity
<1>1. Init => Links /\ Pending
  BY DEF Init, Links, Pending, Ids, Idle
<1>2. TypeOK /\ (Links /\ Pending) /\ [Next]_vars => (Links /\ Pending)'
  BY LinksStep, PendingStep
<1>3. TypeOK /\ Links /\ Pending => ChainIntegrity
  BY LinksGiveChains
<1> QED
  BY <1>1, <1>2, <1>3, TypeCorrect, PTL DEF Spec

--------------------------------------------------------------------------------
(* Revocation and expiry *)

(* The cascade takes an active child of whatever it takes. *)
LEMMA CascadeClosed ==
  ASSUME NEW g, NEW c \in Ids, Active(c), grants[c].parent \in Cascade(g)
  PROVE  c \in Cascade(g)
<1> SUFFICES ASSUME NEW S \in SUBSET Ids, g \in S, ChildClosed(S)
             PROVE  c \in S
  BY DEF Cascade
<1>1. grants[c].parent \in S
  BY DEF Cascade
<1> QED
  BY <1>1 DEF ChildClosed

(* Time only passes. *)
LEMMA ClockStep ==
  ASSUME TypeOK, [Next]_vars
  PROVE  now' \in Nat /\ now <= now'
<1>1. now' = now \/ Tick
  BY DEF Next, vars, StartGrant, InsertGrant, LoadRevoke, CommitRevoke, Abandon,
         ResolverExpire, SweepList, SweepSave, WriteDefinition, PatchRule
<1>2. now \in Nat
  BY DEF TypeOK
<1> QED
  BY <1>1, <1>2 DEF Tick

(* Only rows past their time are expired or listed. *)
LEMMA DueStep ==
  ASSUME TypeOK, Pending, Due, [Next]_vars
  PROVE  Due'
<1>0. /\ now \in Nat /\ now' \in Nat /\ now <= now'
      /\ \A g \in Ids : grants[g].expires \in Nat
      /\ grants \in Seq(Grant) /\ sweep \subseteq Ids
  BY ClockStep, RowTyped DEF TypeOK
<1>1. ASSUME RowsKept, sweep' \subseteq sweep,
             \A g \in Ids : grants'[g].status = "expired" =>
               grants[g].status = "expired" \/ Overdue(g)
      PROVE  Due'
  <2>1. Ids' = Ids
    BY <1>1 DEF RowsKept, Ids
  <2>2. ASSUME NEW g \in Ids, Overdue(g)
        PROVE  Overdue(g)'
    <3>1. grants'[g].expires = grants[g].expires
      BY <1>1 DEF RowsKept
    <3>2. grants[g].expires <= now /\ grants[g].expires \in Nat
      BY <1>0, <2>2 DEF Overdue
    <3> QED BY <1>0, <3>1, <3>2 DEF Overdue
  <2>3. \A g \in Ids : grants'[g].status = "expired" => Overdue(g)
    BY <1>1 DEF Due
  <2>4. \A g \in sweep' : g \in Ids /\ Overdue(g)
    BY <1>0, <1>1 DEF Due
  <2> QED BY <2>1, <2>2, <2>3, <2>4 DEF Due
<1>2. ASSUME NEW S, NEW st \in {"revoked", "expired"},
             grants' = WithStatus(S, st), sweep' \subseteq sweep,
             st = "expired" => \A g \in S \cap Ids : Overdue(g)
      PROVE  Due'
  <2>1. RowsKept
    BY <1>0, <1>2, StatusSavedKeepsRows
  <2>2. \A g \in Ids : grants[g] \in Grant
    BY RowTyped
  <2>3. \A g \in Ids : grants'[g] = IF g \in S THEN [grants[g] EXCEPT !.status = st]
                                    ELSE grants[g]
    <3>1. st \in Statuses
      BY DEF Statuses
    <3>2. \A g \in Ids :
            WithStatus(S, st)[g] = IF g \in S THEN [grants[g] EXCEPT !.status = st]
                                   ELSE grants[g]
      BY <1>0, <3>1, WithStatusLemma
    <3> QED BY <1>2, <3>2
  <2>4. \A g \in Ids : grants'[g].status = "expired" =>
          grants[g].status = "expired" \/ Overdue(g)
    <3> SUFFICES ASSUME NEW g \in Ids, grants'[g].status = "expired"
                 PROVE  grants[g].status = "expired" \/ Overdue(g)
      OBVIOUS
    <3>1. CASE g \in S
      <4>1. grants'[g] = [grants[g] EXCEPT !.status = st] /\ grants[g] \in Grant
        BY <2>2, <2>3, <3>1
      <4>2. grants'[g].status = st
        BY <4>1 DEF Grant
      <4> QED BY <1>2, <3>1, <4>2
    <3>2. CASE g \notin S
      BY <2>3, <3>2
    <3> QED BY <3>1, <3>2
  <2> QED
    BY <1>1, <1>2, <2>1, <2>4
<1>3. ASSUME NEW w \in Workers, InsertGrant(w) PROVE Due'
  <2>1. req[w].row.status = "active"
    BY <1>3 DEF InsertGrant, Pending
  <2> QED
    BY <1>0, <1>3, <2>1, InsertedRow DEF Due, InsertGrant, Overdue
<1>4. ASSUME NEW w \in Workers, CommitRevoke(w) PROVE Due'
  BY <1>2, <1>4 DEF CommitRevoke
<1>5. ASSUME NEW u \in Users, ResolverExpire(u) PROVE Due'
  <2> DEFINE stale == {g \in Ids : /\ Active(g) /\ grants[g].employee = u
                                   /\ grants[g].expires < now}
  <2>1. grants' = WithStatus(stale, "expired") /\ sweep' = sweep
    BY <1>5 DEF ResolverExpire
  <2>2. \A g \in stale : Overdue(g)
    BY <1>0 DEF Overdue
  <2> QED
    BY <1>2, <2>1, <2>2
<1>6. CASE SweepSave
  <2>1. PICK g \in sweep : grants' = WithStatus({g}, "expired") /\ sweep' = sweep \ {g}
    BY <1>6 DEF SweepSave
  <2>2. Overdue(g)
    BY <2>1 DEF Due
  <2> QED
    BY <1>2, <2>1, <2>2
<1>7. CASE SweepList
  BY <1>7 DEF SweepList, Due, Ids, Overdue
<1>8. ASSUME grants' = grants, sweep' = sweep PROVE Due'
  BY <1>0, <1>8 DEF Due, Ids, Overdue
<1> QED
  BY <1>3, <1>4, <1>5, <1>6, <1>7, <1>8 DEF Next, vars, StartGrant, LoadRevoke, Abandon,
     Tick, WriteDefinition, PatchRule

(* A parent that stops being active in a step takes its active children along, *)
(* or has reached the time that its children do not outlive.                   *)
LEMMA OrphanStep ==
  ASSUME TypeOK, Links, Pending, Due, Due', OnlyLateOrphans, [Next]_vars
  PROVE  OnlyLateOrphans'
<1>0. /\ now \in Nat /\ now' \in Nat /\ now <= now'
      /\ \A g \in Ids : grants[g] \in Grant /\ grants[g].expires \in Nat
      /\ grants \in Seq(Grant)
  BY ClockStep, RowTyped DEF TypeOK
<1>1. CASE RowsKept
  <2>1. Ids' = Ids
    BY <1>1 DEF RowsKept, Ids
  <2>2. late' = late \/ \E w \in Workers : InsertGrant(w)
    BY DEF Next, vars, StartGrant, LoadRevoke, CommitRevoke, Abandon,
       ResolverExpire, SweepList, SweepSave, Tick, WriteDefinition, PatchRule
  <2>3. late' = late
    BY <1>1, <2>2, InsertedRow DEF RowsKept, TypeOK
  <2> SUFFICES ASSUME NEW g \in Ids, grants'[g].parent # 0,
                      grants'[grants'[g].parent].status # "active",
                      grants'[g].status = "active",
                      ~ grants'[g].expires <= now',
                      grants[grants[g].parent].status = "active"
               PROVE  FALSE
    <3>1. ASSUME NEW g \in Ids, grants'[g].parent # 0,
                 grants'[g].status = "active", ~ grants'[g].expires <= now',
                 grants[grants[g].parent].status # "active"
          PROVE  g \in late'
      BY <1>0, <1>1, <2>3, <3>1 DEF OnlyLateOrphans, RowsKept, Active, Overdue
    <3> QED
      BY <2>1, <3>1 DEF OnlyLateOrphans, Active, Overdue
  <2> DEFINE p == grants[g].parent
  <2>4. /\ p \in Ids /\ grants'[g].parent = p
        /\ Active(g) /\ Active(p) /\ grants'[p].status # "active"
        /\ grants'[g].status = "active"
        /\ Within(grants[g], grants[p])
    <3>1. p # 0 /\ grants'[g].parent = p
      BY <1>1 DEF RowsKept
    <3>2. p \in Ids /\ Within(grants[g], grants[p])
      BY <3>1, ParentInTable DEF Links
    <3> QED
      BY <1>1, <3>1, <3>2 DEF RowsKept, Active
  <2>5. grants'[p].status # "expired"
    <3>1. SUFFICES ASSUME grants'[p].status = "expired" PROVE FALSE
      OBVIOUS
    <3>2. grants'[p].expires <= now'
      BY <2>1, <2>4, <3>1 DEF Due, Overdue
    <3>3. grants[p].expires <= now' /\ grants[g].expires <= grants[p].expires
      BY <1>1, <2>4, <3>2 DEF RowsKept, Within
    <3> QED
      BY <1>0, <1>1, <2>4, <3>3 DEF RowsKept, Overdue
  <2>6. ASSUME NEW S, NEW st, grants' = WithStatus(S, st), st = "expired" PROVE FALSE
    <3>1. grants'[p] = IF p \in S THEN [grants[p] EXCEPT !.status = st] ELSE grants[p]
      BY <1>0, <2>4, <2>6, WithStatusLemma DEF Statuses
    <3> QED
      BY <1>0, <2>4, <2>5, <2>6, <3>1 DEF Active, Grant
  <2>7. ASSUME NEW w \in Workers, CommitRevoke(w) PROVE FALSE
    <3> DEFINE C == Cascade(req[w].id)
    <3>1. grants' = WithStatus(C, "revoked")
      BY <2>7 DEF CommitRevoke
    <3>2. \A i \in Ids : grants'[i] = IF i \in C THEN [grants[i] EXCEPT !.status = "revoked"]
                                      ELSE grants[i]
      BY <1>0, <3>1, WithStatusLemma DEF Statuses
    <3>3. p \in C
      BY <2>4, <3>2 DEF Active
    <3>4. g \in C
      BY <2>4, <3>3, CascadeClosed
    <3> QED
      BY <1>0, <2>4, <3>2, <3>4 DEF Grant
  <2>8. grants' # grants
    BY <2>4 DEF Active
  <2> QED
    <3>1. ~ \E w \in Workers : InsertGrant(w)
      BY <1>1, InsertedRow DEF RowsKept, TypeOK
    <3>2. ~ SweepSave /\ ~ \E u \in Users : ResolverExpire(u)
      BY <2>6 DEF SweepSave, ResolverExpire
    <3> QED
      BY <2>7, <2>8, <3>1, <3>2 DEF Next, vars, StartGrant, LoadRevoke, Abandon,
         SweepList, Tick, WriteDefinition, PatchRule
<1>2. ASSUME NEW w \in Workers, InsertGrant(w) PROVE OnlyLateOrphans'
  <2> DEFINE n == Len(grants) + 1
  <2>1. /\ \A g \in Ids : grants'[g] = grants[g]
        /\ grants'[n] = req[w].row
        /\ Ids' = Ids \cup {n}
        /\ now' = now
        /\ late' = IF req[w].row.parent # 0 /\ ~ Active(req[w].row.parent)
                   THEN late \cup {n} ELSE late
    BY <1>2, InsertedRow DEF InsertGrant
  <2> SUFFICES ASSUME NEW g \in Ids', grants'[g].parent # 0,
                      grants'[grants'[g].parent].status # "active",
                      grants'[g].status = "active",
                      ~ grants'[g].expires <= now'
               PROVE  g \in late'
    BY DEF OnlyLateOrphans, Active, Overdue
  <2>2. CASE g \in Ids
    <3>1. grants[g].parent \in Ids
      BY <2>1, <2>2, ParentInTable
    <3> QED
      BY <2>1, <2>2, <3>1 DEF OnlyLateOrphans, Active, Overdue
  <2>3. CASE g = n
    <3>1. req[w].row.parent # 0 /\ req[w].row.parent \in Ids
      BY <1>2, <2>1, <2>3 DEF Pending, InsertGrant
    <3> QED
      BY <2>1, <2>3, <3>1 DEF Active
  <2> QED
    BY <2>1, <2>2, <2>3
<1> QED
  BY <1>1, <1>2, StepKinds

(* No delegated grant stays in force under a parent that is not, unless it was *)
(* written after its parent had gone.                                          *)
THEOREM CascadeComplete == Spec => []OnlyLateOrphans
<1> DEFINE IInv == Links /\ Pending /\ Due /\ OnlyLateOrphans
<1>1. Init => IInv
  BY DEF Init, Links, Pending, Due, OnlyLateOrphans, Ids, Idle
<1>2. TypeOK /\ IInv /\ [Next]_vars => IInv'
  BY LinksStep, PendingStep, DueStep, OrphanStep
<1>3. IInv => OnlyLateOrphans
  OBVIOUS
<1> QED
  BY <1>1, <1>2, <1>3, TypeCorrect, PTL DEF Spec

--------------------------------------------------------------------------------
(* Administrator roots *)

(* What a request validated for someone who is no administrator carries. *)
PendingRoot ==
  \A w \in Workers : req[w].kind = "grant" =>
    \/ req[w].row.by \in Managers[req[w].row.code]
    \/ /\ req[w].row.parent # 0
       /\ req[w].row.scope.type = "project"
       /\ req[w].row.scope = grants[req[w].row.parent].scope

LEMMA ProjectDelegationScope ==
  ASSUME TypeOK, NEW row \in Requested, ProjectDelegation(row),
         Within(row, grants[row.parent])
  PROVE  row.scope = grants[row.parent].scope /\ row.scope.type = "project"
<1> DEFINE source == grants[row.parent].scope
<1>1. row.parent \in Ids
  BY DEF Requested, ProjectDelegation
<1>2. row.scope \in Scopes /\ source \in Scopes
  BY <1>1, RowTyped DEF Requested, Grant
<1>3. /\ row.scope.type = source.type /\ row.scope.type = "project"
      /\ row.scope.id = source.id
  BY DEF ProjectDelegation, Within, ScopeWithin
<1> HIDE DEF source
<1>4. row.scope \in [type : ScopeTypes, id : {s.id : s \in Scopes}]
      /\ source \in [type : ScopeTypes, id : {s.id : s \in Scopes}]
  BY <1>2
<1>5. \A r \in [type : ScopeTypes, id : {s.id : s \in Scopes}] :
        r = [type |-> r.type, id |-> r.id]
  OBVIOUS
<1>6. row.scope = source
  BY <1>3, <1>4, <1>5
<1> QED
  BY <1>3, <1>6 DEF source

LEMMA PendingRootStep ==
  ASSUME TypeOK, Pending, PendingRoot, [Next]_vars
  PROVE  PendingRoot'
<1>1. ASSUME NEW w \in Workers, req'[w] = req[w], req[w].kind = "grant"
      PROVE  \/ req[w].row.by \in Managers[req[w].row.code]
             \/ /\ req[w].row.parent # 0
                /\ req[w].row.scope.type = "project"
                /\ req[w].row.scope = grants'[req[w].row.parent].scope
  <2> SUFFICES ASSUME req[w].row.by \notin Managers[req[w].row.code]
               PROVE  /\ req[w].row.parent # 0
                      /\ req[w].row.scope.type = "project"
                      /\ req[w].row.scope = grants'[req[w].row.parent].scope
    OBVIOUS
  <2>1. /\ req[w].row.parent # 0 /\ req[w].row.parent \in Ids
        /\ req[w].row.scope.type = "project"
        /\ req[w].row.scope = grants[req[w].row.parent].scope
    BY <1>1 DEF PendingRoot, Pending
  <2>2. CASE RowsKept
    BY <2>1, <2>2 DEF RowsKept
  <2>3. CASE \E v \in Workers : InsertGrant(v)
    BY <2>1, <2>3, InsertedRow
  <2> QED
    BY <2>2, <2>3, StepKinds
<1>2. ASSUME NEW w \in Workers, StartGrant(w) PROVE PendingRoot'
  <2>1. PICK row \in Requested :
          /\ MayIssue(row)
          /\ row.parent # 0 => DelegationAllowed(row)
          /\ req' = [req EXCEPT ![w] = [kind |-> "grant", row |-> row]]
          /\ grants' = grants
    BY <1>2 DEF StartGrant
  <2>2. \/ row.by \in Managers[row.code]
        \/ /\ row.parent # 0
           /\ row.scope.type = "project"
           /\ row.scope = grants[row.parent].scope
    BY <2>1, ProjectDelegationScope DEF MayIssue, DelegationAllowed, ProjectDelegation
  <2>3. /\ \A v \in Workers : v # w => req'[v] = req[v]
        /\ req'[w] = [kind |-> "grant", row |-> row]
    BY <2>1 DEF TypeOK
  <2> QED
    BY <1>1, <2>1, <2>2, <2>3 DEF PendingRoot
<1>3. ASSUME NEW w \in Workers, NEW r, r.kind # "grant",
             req' = [req EXCEPT ![w] = r]
      PROVE  PendingRoot'
  <2>1. req'[w] = r /\ \A v \in Workers : v # w => req'[v] = req[v]
    BY <1>3 DEF TypeOK
  <2> QED
    BY <1>1, <1>3, <2>1 DEF PendingRoot
<1>4. ASSUME NEW w \in Workers,
             InsertGrant(w) \/ LoadRevoke(w) \/ CommitRevoke(w) \/ Abandon(w)
      PROVE  PendingRoot'
  <2>1. \/ req' = [req EXCEPT ![w] = Idle]
        \/ \E g \in Ids : req' = [req EXCEPT ![w] = [kind |-> "revoke", id |-> g]]
    BY <1>4 DEF InsertGrant, LoadRevoke, CommitRevoke, Abandon
  <2>2. Idle.kind # "grant"
    BY DEF Idle
  <2> QED
    BY <1>3, <2>1, <2>2
<1>5. req' = req => PendingRoot'
  BY <1>1 DEF PendingRoot
<1> QED
  BY <1>2, <1>4, <1>5 DEF Next, vars, ResolverExpire, SweepList, SweepSave, Tick,
     WriteDefinition, PatchRule

(* A step never takes a row out of a chain. *)
LEMMA ChainStep ==
  ASSUME TypeOK, Links, [Next]_vars, NEW g \in Ids
  PROVE  Chain(g) \subseteq Chain(g)'
<1>1. /\ Ids \subseteq Ids'
      /\ \A i \in Ids : grants'[i].parent = grants[i].parent
  <2>1. CASE RowsKept
    BY <2>1 DEF RowsKept, Ids
  <2>2. CASE \E w \in Workers : InsertGrant(w)
    BY <2>2, InsertedRow
  <2> QED
    BY <2>1, <2>2, StepKinds
<1> SUFFICES ASSUME NEW a \in Chain(g), NEW S \in SUBSET Ids', g \in S, ParentClosed(S)'
             PROVE  a \in S
  BY <1>1 DEF Chain
<1> DEFINE T == S \cap Ids
<1>2. ParentClosed(T)
  BY <1>1, ParentInTable DEF ParentClosed
<1>3. a \in T
  BY <1>2 DEF Chain
<1> QED
  BY <1>3

(* A new row's chain takes in its parent's. *)
LEMMA NewChain ==
  ASSUME TypeOK, Links, Pending, NEW w \in Workers, InsertGrant(w),
         NEW n, n = Len(grants) + 1, NEW p, p = req[w].row.parent
  PROVE  /\ n \in Chain(n)'
         /\ p # 0 => /\ p \in Ids
                     /\ p \in Chain(p)'
                     /\ Chain(p)' \subseteq Chain(n)'
<1>1. n \in Ids' /\ grants'[n] = req[w].row
  BY InsertedRow
<1>2. n \in Chain(n)'
  BY <1>1 DEF Chain
<1>3. ASSUME p # 0 PROVE /\ p \in Ids /\ p \in Chain(p)'
                         /\ Chain(p)' \subseteq Chain(n)'
  <2>1. p \in Ids
    BY <1>3 DEF Pending, InsertGrant
  <2>2. ASSUME NEW S \in SUBSET Ids', n \in S, ParentClosed(S)' PROVE p \in S
    BY <1>1, <1>3, <2>2 DEF ParentClosed
  <2>3. p \in Ids'
    BY <2>1, InsertedRow
  <2> QED
    BY <2>1, <2>2, <2>3 DEF Chain
<1> QED
  BY <1>2, <1>3

LEMMA RootStep ==
  ASSUME TypeOK, Links, Pending, PendingRoot, AdministratorRoot, [Next]_vars
  PROVE  AdministratorRoot'
<1>1. CASE RowsKept
  <2>1. Ids' = Ids
    BY <1>1 DEF RowsKept, Ids
  <2> SUFFICES ASSUME NEW g \in Ids, grants'[g].by \notin Managers[grants'[g].code]
               PROVE  /\ grants'[g].scope.type = "project"
                      /\ \E a \in Chain(g)' :
                           /\ grants'[a].by \in Managers[grants'[a].code]
                           /\ grants'[a].scope = grants'[g].scope
    BY <2>1 DEF AdministratorRoot
  <2>2. grants[g].by \notin Managers[grants[g].code]
    BY <1>1 DEF RowsKept
  <2>3. PICK a \in Chain(g) : /\ grants[a].by \in Managers[grants[a].code]
                              /\ grants[a].scope = grants[g].scope
    BY <2>2 DEF AdministratorRoot
  <2>4. a \in Ids /\ a \in Chain(g)'
    BY ChainStep DEF Chain
  <2> QED
    BY <1>1, <2>2, <2>3, <2>4 DEF AdministratorRoot, RowsKept
<1>2. ASSUME NEW w \in Workers, InsertGrant(w) PROVE AdministratorRoot'
  <2>0. PICK n, p : n = Len(grants) + 1 /\ p = req[w].row.parent
    OBVIOUS
  <2>1. /\ \A g \in Ids : grants'[g] = grants[g]
        /\ grants'[n] = req[w].row
        /\ Ids' = Ids \cup {n}
    BY <1>2, <2>0, InsertedRow
  <2> SUFFICES ASSUME NEW g \in Ids', grants'[g].by \notin Managers[grants'[g].code]
               PROVE  /\ grants'[g].scope.type = "project"
                      /\ \E a \in Chain(g)' :
                           /\ grants'[a].by \in Managers[grants'[a].code]
                           /\ grants'[a].scope = grants'[g].scope
    BY DEF AdministratorRoot
  <2>2. ASSUME NEW h \in Ids, grants[h].by \notin Managers[grants[h].code]
        PROVE  /\ grants[h].scope.type = "project"
               /\ \E a \in Chain(h)' :
                    /\ a \in Ids
                    /\ grants[a].by \in Managers[grants[a].code]
                    /\ grants[a].scope = grants[h].scope
    <3>1. PICK a \in Chain(h) : /\ grants[a].by \in Managers[grants[a].code]
                                /\ grants[a].scope = grants[h].scope
      BY <2>2 DEF AdministratorRoot
    <3>2. a \in Ids /\ a \in Chain(h)'
      BY ChainStep DEF Chain
    <3> QED
      BY <2>2, <3>1, <3>2 DEF AdministratorRoot
  <2>3. CASE g \in Ids
    BY <2>1, <2>2, <2>3
  <2>4. CASE g = n
    <3>1. /\ p # 0 /\ p \in Ids
          /\ req[w].row.scope.type = "project"
          /\ req[w].row.scope = grants[p].scope
      BY <1>2, <2>0, <2>1, <2>4 DEF PendingRoot, Pending, InsertGrant
    <3>2. p \in Chain(p)' /\ Chain(p)' \subseteq Chain(n)'
      BY <1>2, <2>0, <3>1, NewChain
    <3>3. grants'[n].scope = grants[p].scope /\ grants'[n].scope.type = "project"
      BY <2>0, <2>1, <3>1
    <3>4. CASE grants[p].by \in Managers[grants[p].code]
      BY <2>1, <2>4, <3>1, <3>2, <3>3, <3>4
    <3>5. CASE grants[p].by \notin Managers[grants[p].code]
      <4>1. PICK a \in Chain(p)' : /\ a \in Ids
                                   /\ grants[a].by \in Managers[grants[a].code]
                                   /\ grants[a].scope = grants[p].scope
        BY <2>2, <3>1, <3>5
      <4>2. a \in Chain(n)' /\ grants'[a] = grants[a]
        BY <2>1, <3>2, <4>1
      <4> QED
        BY <2>4, <3>3, <4>1, <4>2
    <3> QED
      BY <3>4, <3>5
  <2> QED
    BY <2>1, <2>3, <2>4
<1> QED
  BY <1>1, <1>2, StepKinds

(* Whoever is no administrator only passes a project grant on, and the same    *)
(* project leads back to an administrator's grant.                             *)
THEOREM AdministratorRooted == Spec => []AdministratorRoot
<1> DEFINE IInv == Links /\ Pending /\ PendingRoot /\ AdministratorRoot
<1>1. Init => IInv
  BY DEF Init, Links, Pending, PendingRoot, AdministratorRoot, Ids, Idle
<1>2. TypeOK /\ IInv /\ [Next]_vars => IInv'
  BY LinksStep, PendingStep, PendingRootStep, RootStep
<1>3. IInv => AdministratorRoot
  OBVIOUS
<1> QED
  BY <1>1, <1>2, <1>3, TypeCorrect, PTL DEF Spec

--------------------------------------------------------------------------------
(* The depth of chains, while the rules stay as seeded *)

DepthAllowed(row, r) ==
  row.parent # 0 /\ r.code = row.code /\ r.to = row.scope.type
    /\ r.from = grants[row.parent].scope.type /\ r.depth # 0
  => Cardinality(Chain(row.parent)) <= r.depth

(* What the validation counted still counts: a parent's chain never grows.     *)
PendingDepth ==
  \A w \in Workers, r \in rules : req[w].kind = "grant" => DepthAllowed(req[w].row, r)

(* A step never lengthens the chain of a row that is there. *)
LEMMA ChainFixed ==
  ASSUME TypeOK, Links, [Next]_vars, NEW g \in Ids
  PROVE  Chain(g)' = Chain(g)
<1>1. /\ Ids \subseteq Ids'
      /\ \A i \in Ids : grants'[i].parent = grants[i].parent
  <2>1. CASE RowsKept
    BY <2>1 DEF RowsKept, Ids
  <2>2. CASE \E w \in Workers : InsertGrant(w)
    BY <2>2, InsertedRow
  <2> QED
    BY <2>1, <2>2, StepKinds
<1>2. ASSUME NEW S \in SUBSET Ids, ParentClosed(S) PROVE S \in SUBSET Ids' /\ ParentClosed(S)'
  BY <1>1, <1>2 DEF ParentClosed
<1>3. ParentClosed(Ids)
  BY ParentInTable DEF ParentClosed
<1>4. ASSUME NEW a \in Chain(g)' PROVE a \in Chain(g)
  <2>1. \A S \in SUBSET Ids : g \in S /\ ParentClosed(S) => a \in S
    BY <1>2 DEF Chain
  <2> QED
    BY <1>3, <2>1 DEF Chain
<1> QED
  BY <1>4, ChainStep

LEMMA ChainFinite ==
  ASSUME TypeOK, NEW g
  PROVE  IsFiniteSet(Chain(g)) /\ Cardinality(Chain(g)) \in Nat
<1>1. IsFiniteSet(Ids)
  BY FS_Interval DEF Ids, TypeOK
<1> QED
  BY <1>1, FS_Subset, FS_CardinalityType DEF Chain

(* A new row's chain is its parent's and itself. *)
LEMMA NewChainLength ==
  ASSUME TypeOK, TypeOK', Links, Pending, NEW w \in Workers, InsertGrant(w),
         NEW n, n = Len(grants) + 1, NEW p, p = req[w].row.parent, p # 0
  PROVE  /\ Cardinality(Chain(n)') <= Cardinality(Chain(p)) + 1
         /\ Cardinality(Chain(n)') \in Nat
<1>1. p \in Ids /\ Ids' = Ids \cup {n} /\ grants'[n].parent = p
  BY InsertedRow DEF Pending, InsertGrant
<1>2. Chain(p)' = Chain(p) /\ p \in Chain(p)'
  BY <1>1, ChainFixed, NewChain DEF Next
<1> PICK S : S = Chain(p)' \cup {n}
  OBVIOUS
<1>3. S \in SUBSET Ids'
  BY <1>1 DEF Chain
<1>4. ASSUME NEW g \in S, grants'[g].parent # 0 PROVE grants'[g].parent \in S
  <2>1. CASE g = n
    BY <1>1, <1>2, <2>1
  <2>2. CASE g \in Chain(p)'
    <3>1. /\ g \in Ids'
          /\ \A T \in SUBSET Ids' : p \in T /\ ParentClosed(T)' => g \in T
      BY <2>2 DEF Chain
    <3>2. grants'[g].parent \in Ids'
      BY <1>1, <1>2, <1>4, <2>2, ParentInTable, InsertedRow DEF Chain
    <3>3. \A T \in SUBSET Ids' : p \in T /\ ParentClosed(T)' => grants'[g].parent \in T
      BY <1>4, <3>1 DEF ParentClosed
    <3> QED
      BY <3>2, <3>3 DEF Chain
  <2> QED
    BY <2>1, <2>2
<1>5. Chain(n)' \subseteq S
  <2>1. n \in S /\ \A g \in S : grants'[g].parent # 0 => grants'[g].parent \in S
    BY <1>4
  <2>2. ParentClosed(S)'
    BY <2>1, <1>2 DEF ParentClosed
  <2> QED
    BY <1>3, <2>1, <2>2 DEF Chain
<1>6. IsFiniteSet(Chain(p)) /\ Cardinality(Chain(p)) \in Nat
  BY ChainFinite
<1>7. Cardinality(Chain(n)') <= Cardinality(S) /\ Cardinality(Chain(n)') \in Nat
  BY <1>2, <1>5, <1>6, FS_AddElement, FS_Subset, FS_CardinalityType
<1>8. Cardinality(S) <= Cardinality(Chain(p)) + 1 /\ Cardinality(S) \in Nat
  <2>1. S = Chain(p) \cup {n}
    BY <1>2
  <2>2. PICK C : C = Chain(p)
    OBVIOUS
  <2>3. IsFiniteSet(C) /\ Cardinality(C) \in Nat /\ S = C \cup {n}
    BY <1>6, <2>1, <2>2
  <2>4. Cardinality(S) = IF n \in C THEN Cardinality(C) ELSE Cardinality(C) + 1
    BY <2>3, FS_AddElement
  <2>5. Cardinality(S) <= Cardinality(C) + 1 /\ Cardinality(S) \in Nat
    BY <2>3, <2>4
  <2> QED
    BY <2>2, <2>5
<1> QED
  BY <1>6, <1>7, <1>8

(* What was allowed as to depth stays so, whatever is written. *)
LEMMA DepthStays ==
  ASSUME TypeOK, Links, [Next]_vars, NEW row, NEW r, NEW p \in Ids, p = row.parent,
         DepthAllowed(row, r)
  PROVE  DepthAllowed(row, r)'
<1>1. grants'[p].scope = grants[p].scope
  BY StepKinds, InsertedRow DEF RowsKept
<1>2. Chain(p)' = Chain(p)
  BY ChainFixed
<1>3. CASE row.parent # 0 /\ r.code = row.code /\ r.to = row.scope.type
             /\ r.from = grants'[p].scope.type /\ r.depth # 0
  <2>1. Cardinality(Chain(p)) <= r.depth
    BY <1>1, <1>3 DEF DepthAllowed
  <2>2. Cardinality(Chain(p)') <= r.depth
    BY <1>2, <2>1
  <2> QED
    BY <2>2 DEF DepthAllowed
<1>4. CASE ~ (row.parent # 0 /\ r.code = row.code /\ r.to = row.scope.type
                /\ r.from = grants'[p].scope.type /\ r.depth # 0)
  BY <1>4 DEF DepthAllowed
<1> QED
  BY <1>3, <1>4

LEMMA PendingDepthStep ==
  ASSUME TypeOK, Links, Pending, PendingDepth, [Next]_vars, rules' = rules
  PROVE  PendingDepth'
<1>1. ASSUME NEW w \in Workers, NEW r \in rules, req'[w] = req[w], req[w].kind = "grant"
      PROVE  DepthAllowed(req[w].row, r)'
  <2>1. PICK row : row = req[w].row
    OBVIOUS
  <2>2. DepthAllowed(row, r)
    BY <1>1, <2>1 DEF PendingDepth
  <2>3. row = req'[w].row
    BY <1>1, <2>1
  <2>4. row.parent # 0 => row.parent \in Ids
    BY <1>1, <2>1 DEF Pending
  <2>5. DepthAllowed(row, r)'
    <3>1. CASE row.parent = 0
      BY <3>1 DEF DepthAllowed
    <3>2. CASE row.parent # 0
      BY <2>2, <2>4, <3>2, DepthStays
    <3> QED
      BY <3>1, <3>2
  <2> QED
    BY <2>3, <2>5
<1>2. ASSUME NEW w \in Workers, StartGrant(w) PROVE PendingDepth'
  <2>1. PICK row \in Requested :
          /\ row.parent # 0 => DelegationAllowed(row)
          /\ req' = [req EXCEPT ![w] = [kind |-> "grant", row |-> row]]
    BY <1>2 DEF StartGrant
  <2>2. /\ \A v \in Workers : v # w => req'[v] = req[v]
        /\ req'[w] = [kind |-> "grant", row |-> row]
    BY <2>1 DEF TypeOK
  <2>3. row.parent # 0 => row.parent \in Ids
    BY DEF Requested
  <2>4. ASSUME NEW r \in rules PROVE DepthAllowed(row, r)
    BY <2>1 DEF DepthAllowed, DelegationAllowed, RuleAllows
  <2>5. ASSUME NEW r \in rules PROVE DepthAllowed(row, r)'
    <3>1. CASE row.parent = 0
      BY <3>1 DEF DepthAllowed
    <3>2. CASE row.parent # 0
      BY <2>3, <2>4, <3>2, DepthStays
    <3> QED
      BY <3>1, <3>2
  <2>6. ASSUME NEW v \in Workers, NEW r \in rules, req'[v].kind = "grant"
        PROVE  DepthAllowed(req[v].row, r)'
    <3>1. CASE v = w
      <4>1. req'[v].row = row
        BY <2>2, <3>1
      <4> QED
        BY <2>5, <4>1
    <3>2. CASE v # w
      BY <1>1, <2>2, <2>6, <3>2
    <3> QED
      BY <3>1, <3>2
  <2> QED
    BY <2>6 DEF PendingDepth
<1>3. ASSUME NEW w \in Workers, NEW q, q.kind # "grant", req' = [req EXCEPT ![w] = q]
      PROVE  PendingDepth'
  <2>1. req'[w] = q /\ \A v \in Workers : v # w => req'[v] = req[v]
    BY <1>3 DEF TypeOK
  <2> QED
    BY <1>1, <1>3, <2>1 DEF PendingDepth
<1>4. ASSUME NEW w \in Workers,
             InsertGrant(w) \/ LoadRevoke(w) \/ CommitRevoke(w) \/ Abandon(w)
      PROVE  PendingDepth'
  <2>1. \/ req' = [req EXCEPT ![w] = Idle]
        \/ \E g \in Ids : req' = [req EXCEPT ![w] = [kind |-> "revoke", id |-> g]]
    BY <1>4 DEF InsertGrant, LoadRevoke, CommitRevoke, Abandon
  <2>2. Idle.kind # "grant"
    BY DEF Idle
  <2> QED
    BY <1>3, <2>1, <2>2
<1>5. req' = req => PendingDepth'
  BY <1>1 DEF PendingDepth
<1> QED
  BY <1>2, <1>4, <1>5 DEF Next, vars, ResolverExpire, SweepList, SweepSave, Tick,
     WriteDefinition, PatchRule

LEMMA DepthStep ==
  ASSUME TypeOK, TypeOK', Links, Pending, PendingDepth, DepthWithinRules, [Next]_vars,
         rules' = rules
  PROVE  DepthWithinRules'
<1>1. ASSUME NEW g \in Ids, NEW r \in rules,
             \A i \in Ids : /\ grants'[i].code = grants[i].code
                           /\ grants'[i].scope = grants[i].scope
                           /\ grants'[i].parent = grants[i].parent,
             grants'[g].parent # 0,
             r.code = grants'[g].code, r.to = grants'[g].scope.type,
             r.from = grants'[grants'[g].parent].scope.type, r.depth # 0
      PROVE  Cardinality(Chain(g)') - 1 <= r.depth
  <2>1. grants[g].parent \in Ids /\ grants'[g].parent = grants[g].parent
    BY <1>1, ParentInTable
  <2>2. Cardinality(Chain(g)) - 1 <= r.depth
    BY <1>1, <2>1 DEF DepthWithinRules
  <2>3. Chain(g)' = Chain(g)
    BY ChainFixed
  <2> QED
    BY <2>2, <2>3
<1>2. CASE RowsKept
  <2>1. Ids' = Ids
    BY <1>2 DEF RowsKept, Ids
  <2>2. \A i \in Ids : /\ grants'[i].code = grants[i].code
                      /\ grants'[i].scope = grants[i].scope
                      /\ grants'[i].parent = grants[i].parent
    BY <1>2 DEF RowsKept
  <2> QED
    BY <1>1, <2>1, <2>2 DEF DepthWithinRules
<1>3. ASSUME NEW w \in Workers, InsertGrant(w) PROVE DepthWithinRules'
  <2>0. PICK n, p : n = Len(grants) + 1 /\ p = req[w].row.parent
    OBVIOUS
  <2>1. /\ \A g \in Ids : grants'[g] = grants[g]
        /\ grants'[n] = req[w].row
        /\ Ids' = Ids \cup {n}
    BY <1>3, <2>0, InsertedRow
  <2>2. ASSUME NEW r \in rules, p # 0, r.code = req[w].row.code,
               r.to = req[w].row.scope.type, r.from = grants'[p].scope.type, r.depth # 0
        PROVE  Cardinality(Chain(n)') - 1 <= r.depth
    <3>1. p \in Ids /\ req[w].kind = "grant"
      BY <1>3, <2>0, <2>2 DEF Pending, InsertGrant
    <3>2. Cardinality(Chain(p)) <= r.depth
      BY <2>0, <2>1, <2>2, <3>1 DEF PendingDepth, DepthAllowed
    <3>3. /\ Cardinality(Chain(n)') <= Cardinality(Chain(p)) + 1
          /\ Cardinality(Chain(n)') \in Nat
      BY <1>3, <2>0, <2>2, NewChainLength
    <3>4. Cardinality(Chain(p)) \in Nat /\ r.depth \in Nat
      BY ChainFinite DEF TypeOK, Rule
    <3> QED
      BY <3>2, <3>3, <3>4
  <2>3. ASSUME NEW g \in Ids', NEW r \in rules, grants'[g].parent # 0,
               r.code = grants'[g].code, r.to = grants'[g].scope.type,
               r.from = grants'[grants'[g].parent].scope.type, r.depth # 0
        PROVE  Cardinality(Chain(g)') - 1 <= r.depth
    <3>1. CASE g \in Ids
      BY <1>1, <2>1, <2>3, <3>1
    <3>2. CASE g = n
      BY <2>0, <2>1, <2>2, <2>3, <3>2
    <3> QED
      BY <2>1, <3>1, <3>2
  <2> QED
    BY <2>3 DEF DepthWithinRules
<1> QED
  BY <1>2, <1>3, StepKinds

(* While no rule is rewritten, no chain of grants outgrows the limit of its    *)
(* last link's rule, however requests overlap: what a validation counted is    *)
(* what the insertion finds, for the chain above a row never changes.          *)
THEOREM DepthsKept ==
  ASSUME RuleRows = {}
  PROVE  Spec => []DepthWithinRules
<1> DEFINE IInv == Links /\ Pending /\ PendingDepth /\ DepthWithinRules
<1>1. Init => IInv
  BY DEF Init, Links, Pending, PendingDepth, DepthWithinRules, Ids, Idle
<1>2. TypeOK /\ TypeOK' /\ IInv /\ [Next]_vars => IInv'
  <2>1. [Next]_vars => rules' = rules
    BY DEF Next, vars, StartGrant, InsertGrant, LoadRevoke, CommitRevoke, Abandon,
       ResolverExpire, SweepList, SweepSave, Tick, WriteDefinition, PatchRule
  <2> QED
    BY <2>1, LinksStep, PendingStep, PendingDepthStep, DepthStep
<1>3. IInv => DepthWithinRules
  OBVIOUS
<1> QED
  BY <1>1, <1>2, <1>3, TypeCorrect, PTL DEF Spec

--------------------------------------------------------------------------------
(* Refinement *)

LedgerRows ==
  [g \in Ids |->
     [employee |-> grants[g].employee, code |-> grants[g].code,
      scope |-> grants[g].scope, mode |-> grants[g].mode,
      by |-> grants[g].by, expires |-> grants[g].expires,
      parent |-> grants[g].parent]]

LEMMA LedgerStep ==
  ASSUME TypeOK, Links, Pending, [Next]_vars
  PROVE  [Ledger!LedgerNext]_(Ledger!ledgerVars)
<1> DEFINE live == {g \in Ids : Active(g)}
           row(r) == [employee |-> r.employee, code |-> r.code, scope |-> r.scope,
                      mode |-> r.mode, by |-> r.by, expires |-> r.expires,
                      parent |-> r.parent]
<1>0. grants \in Seq(Grant)
  BY DEF TypeOK
<1>1. CASE RowsKept
  <2>1. LedgerRows' = LedgerRows
    BY <1>1 DEF RowsKept, LedgerRows, Ids
  <2>2. live' \subseteq live
    BY <1>1 DEF RowsKept, Ids, Active
  <2>3. live' = live \ (live \ live')
    BY <2>2
  <2>4. Ledger!Retire(live \ live')
    BY <2>1, <2>3 DEF Ledger!Retire, LedgerRows
  <2>5. live \ live' \in SUBSET live
    OBVIOUS
  <2> QED
    BY <2>4, <2>5 DEF Ledger!LedgerNext
<1>2. ASSUME NEW w \in Workers, InsertGrant(w) PROVE Ledger!LedgerNext
  <2> DEFINE n == Len(grants) + 1
             r == req[w].row
  <2>1. /\ r \in Grant
        /\ Len(grants') = n
        /\ \A g \in Ids : grants'[g] = grants[g]
        /\ grants'[n] = r
        /\ Ids' = Ids \cup {n}
    BY <1>2, InsertedRow
  <2>2. row(r) \in [employee : Users, code : Codes, scope : Scopes, mode : Modes,
                    by : Users, expires : Expiries \cup {Never},
                    parent : 0 .. MaxGrants]
    BY <2>1 DEF Grant
  <2>3. Len(LedgerRows) = Len(grants) /\ LedgerRows \in Seq({row(x) : x \in Grant})
    <3>1. \A g \in Ids : grants[g] \in Grant
      BY RowTyped
    <3>2. LedgerRows \in [1 .. Len(grants) -> {row(x) : x \in Grant}]
      BY <3>1 DEF LedgerRows, Ids
    <3> QED
      BY <1>0, <3>2
  <2>4. LedgerRows' = Append(LedgerRows, row(r))
    <3>1. \A g \in Ids' : LedgerRows'[g] = Append(LedgerRows, row(r))[g]
      BY <2>1, <2>3 DEF LedgerRows, Ids
    <3> QED
      BY <1>0, <2>1, <2>3, <3>1 DEF LedgerRows, Ids
  <2>5. r.parent # 0 => /\ r.parent \in 1 .. Len(LedgerRows)
                        /\ Within(r, grants[r.parent])
    BY <1>2, <2>3 DEF Pending, InsertGrant, Ids
  <2>6. r.parent # 0 => Ledger!Within(row(r), LedgerRows[r.parent])
    BY <2>3, <2>5 DEF LedgerRows, Ids, Within, ScopeWithin, Breadth, ScopeTypes,
       Ledger!Within, Ledger!ScopeWithin, Ledger!Breadth, Ledger!ScopeTypes
  <2>7. live' = live \cup {n}
    <3>1. r.status = "active"
      BY <1>2 DEF Pending, InsertGrant
    <3> QED
      BY <2>1, <3>1 DEF Active
  <2>8. PICK issued : issued = row(r)
    OBVIOUS
  <2>9. Ledger!Issue(issued)
    BY <2>3, <2>4, <2>5, <2>6, <2>7, <2>8 DEF Ledger!Issue, LedgerRows
  <2> HIDE DEF row
  <2> QED
    BY <2>2, <2>8, <2>9 DEF Ledger!LedgerNext
<1> QED
  BY <1>1, <1>2, StepKinds

(* The grant table implements the ledger. *)
THEOREM GrantsImplementLedger == Spec => ImplementsLedger
<1>1. Init => Ledger!LedgerInit
  BY DEF Init, Ledger!LedgerInit, Ids, Active
<1>2. Init => Links /\ Pending
  BY DEF Init, Links, Pending, Ids, Idle
<1>3. TypeOK /\ (Links /\ Pending) /\ [Next]_vars => (Links /\ Pending)'
  BY LinksStep, PendingStep
<1>4. TypeOK /\ (Links /\ Pending) /\ [Next]_vars => [Ledger!LedgerNext]_(Ledger!ledgerVars)
  BY LedgerStep
<1> QED
  BY <1>1, <1>2, <1>3, <1>4, TypeCorrect, PTL DEF Spec, ImplementsLedger, Ledger!LedgerSpec

--------------------------------------------------------------------------------
(* What the service's validation admits, can_delegate has answered yes to: the *)
(* parent itself is the grant it looks for, and the rule that admitted the     *)
(* link, or its absence, is the one it finds.                                  *)
LEMMA OffersInState == ASSUME TypeOK PROVE OffersCover
<1> SUFFICES ASSUME NEW row \in Requested, row.parent # 0, row.mode = "use_and_delegate",
                    DefinitionAllows(row), DelegationAllowed(row)
             PROVE  CanDelegate(row.by, row.code, row.scope)
  BY DEF OffersCover
<1> DEFINE g == row.parent
           from == grants[g].scope.type
           matching == {r \in rules : r.code = row.code /\ r.from = from /\ r.to = row.scope.type}
<1>1. g \in Ids
  BY DEF Requested
<1>2. /\ Active(g) /\ ~ grants[g].expires <= now
      /\ Within(row, grants[g]) /\ RuleAllows(row, grants[g])
  BY DEF DelegationAllowed, Active
<1>3. ~ grants[g].expires < now
  <2>1. grants[g] \in Grant
    BY <1>1 DEF TypeOK, Ids
  <2>2. grants[g].expires \in Nat /\ now \in Nat
    BY <2>1 DEF Grant, TypeOK
  <2> QED
    BY <1>2, <2>2
<1>4. \/ matching = {} /\ from = row.scope.type
      \/ \E r \in matching : r.allow /\ (r.sameOnly => from = row.scope.type)
  BY <1>2 DEF RuleAllows
<1>5. \E d \in definitions : d.code = row.code /\ d.active /\ d.delegable
  BY DEF DefinitionAllows
<1> QED
  BY <1>1, <1>2, <1>3, <1>4, <1>5 DEF CanDelegate, Within

(* Whatever becomes of grants, definitions and rules, the resolver hides nothing that *)
(* the service would allow.                                                           *)
THEOREM OffersCovered == Spec => []OffersCover
BY TypeCorrect, OffersInState, PTL
==================================================================================
