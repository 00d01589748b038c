-------------------------- MODULE AccessDecisionProofs --------------------------
(***************************************************************************)
(* A decision made over several statements still respects what is steady:  *)
(* for any number of rows, templates, scopes and concurrent calls, a deny  *)
(* or a source that covers the question throughout a call decides it.      *)
(***************************************************************************)
EXTENDS AccessDecision, TLAPS

(* What a call knows at each of its statements, from what it has read.  *)
Trail(r) ==
  /\ reader[r].at = "denies" =>
       \/ watch[r].against # {}
       \/ \A d \in Standing(denies) : ~ Covers(denies[d], reader[r].q)
  /\ Running(r) => CoveringDenies(reader[r].q) \subseteq watch[r].against
  /\ reader[r].at \in {"assignments", "items", "mark_grants", "grants"} =>
       watch[r].denied = {}
  /\ reader[r].at = "items" => watch[r].sources \cap AssignmentIds \subseteq reader[r].seen
  /\ reader[r].at \in {"mark_grants", "grants"} =>
       watch[r].sources \cap AssignmentIds = {}

Trails == \A r \in Readers : Trail(r)

Inv == TypeOK /\ Trails /\ SteadyDenyWins /\ SteadySourceWins

(* The marking changes nothing but the status of rows, and keeps their type.  *)
LEMMA MarkedLemma ==
  ASSUME NEW Ids, NEW t \in [Ids -> Row \cup {Absent}]
  PROVE  /\ Marked(t) \in [Ids -> Row \cup {Absent}]
         /\ \A i \in Standing(Marked(t)) :
              i \in Standing(t) /\ i \notin Overdue(t) /\ Marked(t)[i] = t[i]
<1>1. ASSUME NEW i \in Ids
      PROVE  Marked(t)[i] \in Row \cup {Absent}
  <2>1. CASE i \in Overdue(t)
    <3>1. t[i] \in Row
      BY <2>1 DEF Overdue, Standing, Written, Absent, Row
    <3>2. Marked(t)[i] = [t[i] EXCEPT !.status = "expired"]
      BY <2>1, DOMAIN t = Ids DEF Marked
    <3> QED BY <3>1, <3>2 DEF Row
  <2>2. CASE i \notin Overdue(t)
    BY <2>2 DEF Marked
  <2> QED BY <2>1, <2>2
<1>2. Marked(t) \in [Ids -> Row \cup {Absent}]
  BY <1>1 DEF Marked
<1>3. ASSUME NEW i \in Standing(Marked(t))
      PROVE  i \in Standing(t) /\ i \notin Overdue(t) /\ Marked(t)[i] = t[i]
  <2>1. i \in Ids /\ Marked(t)[i].status = "active"
    BY <1>2 DEF Standing, Written
  <2>2. CASE i \in Overdue(t)
    <3>1. t[i] \in Row
      BY <2>1, <2>2 DEF Overdue, Standing, Written, Absent, Row
    <3>2. Marked(t)[i] = [t[i] EXCEPT !.status = "expired"]
      BY <2>1, <2>2 DEF Marked
    <3>3. Marked(t)[i].status = "expired"
      BY <3>1, <3>2 DEF Row
    <3> QED BY <3>3, <2>1
  <2>3. CASE i \notin Overdue(t)
    <3>1. Marked(t)[i] = t[i]
      BY <2>1, <2>3 DEF Marked
    <3> QED BY <2>1, <2>3, <3>1 DEF Standing, Written
  <2> QED BY <2>2, <2>3
<1> QED BY <1>2, <1>3

(* A row changes status only: the rows of a table, and their scopes, are kept.  *)
LEMMA StatusSaved ==
  ASSUME NEW Ids, NEW t \in [Ids -> Row \cup {Absent}], NEW i \in Written(t),
         NEW s \in {"revoked", "expired"}
  PROVE  /\ [t EXCEPT ![i].status = s] \in [Ids -> Row \cup {Absent}]
         /\ \A j \in Standing([t EXCEPT ![i].status = s]) :
              j \in Standing(t) /\ [t EXCEPT ![i].status = s][j] = t[j]
<1> DEFINE u == [t EXCEPT ![i].status = s]
<1>1. i \in Ids /\ t[i] \in Row
  BY DEF Written, Absent
<1>2. u[i] = [t[i] EXCEPT !.status = s] /\ \A j \in Ids \ {i} : u[j] = t[j]
  BY <1>1
<1>3. u[i] \in Row /\ u[i].status = s
  BY <1>1, <1>2 DEF Row
<1>4. u \in [Ids -> Row \cup {Absent}]
  BY <1>1, <1>3
<1>5. ASSUME NEW j \in Standing(u) PROVE j \in Standing(t) /\ u[j] = t[j]
  <2>1. j \in Ids /\ u[j].status = "active"
    BY <1>4 DEF Standing, Written
  <2>2. j # i
    BY <1>3, <2>1
  <2> QED BY <1>2, <2>1, <2>2 DEF Standing, Written
<1> QED BY <1>4, <1>5

(* A new row keeps the table's type.  *)
LEMMA RowInserted ==
  ASSUME NEW Ids, NEW t \in [Ids -> Row \cup {Absent}], NEW i \in Ids,
         NEW s \in Scopes, NEW e \in Expiries \cup {Never}
  PROVE  [t EXCEPT ![i] = [scope |-> s, expires |-> e, status |-> "active"]]
           \in [Ids -> Row \cup {Absent}]
BY DEF Row

(* Types: each statement of a call and each write keeps them.  *)
LEMMA TypeStep == TypeOK /\ Next => TypeOK'
<1> SUFFICES ASSUME TypeOK, Next PROVE TypeOK'
  OBVIOUS
<1> USE DecisionConstants
<1>0. \A q \in Scopes :
        /\ \A b \in BOOLEAN : [at |-> "done", q |-> q, answer |-> b] \in Calls
        /\ [at |-> "items", q |-> q, seen |-> ActiveAssignments] \in Calls
        /\ \A l \in {"mark_denies", "denies", "assignments", "mark_grants", "grants"} :
             [at |-> l, q |-> q] \in Calls
  <2>1. ActiveAssignments \in SUBSET AssignmentIds
    BY DEF ActiveAssignments, Standing, Written, TypeOK
  <2> QED BY <2>1 DEF Calls
<1>1. ASSUME NEW r \in Readers, Ask(r) PROVE TypeOK'
  <2>1. reader' \in [Readers -> Calls]
    BY <1>0, <1>1 DEF TypeOK, Ask
  <2> QED BY <1>1, <2>1 DEF TypeOK, Ask, tables
<1>2. ASSUME NEW r \in Readers, Running(r) PROVE reader[r].q \in Scopes
  BY <1>2 DEF TypeOK, Running, Calls
<1>a. ASSUME NEW r \in Readers, Running(r), NEW b \in BOOLEAN, Answer(r, b)
      PROVE  reader' \in [Readers -> Calls]
  BY <1>0, <1>2, <1>a DEF TypeOK, Answer
<1>g. ASSUME NEW r \in Readers, Running(r), NEW l \in {"assignments", "mark_grants"}, GoOn(r, l)
      PROVE  reader' \in [Readers -> Calls]
  <2>1. [at |-> l, q |-> reader[r].q] \in Calls
    BY <1>0, <1>2, <1>g
  <2> QED BY <2>1, <1>g DEF TypeOK, GoOn
<1>3. ASSUME NEW r \in Readers, MarkDenies(r) PROVE TypeOK'
  <2>3. Running(r)
    BY <1>3 DEF MarkDenies, Running
  <2>1. denies' \in [DenyIds -> Row \cup {Absent}]
    BY <1>3, MarkedLemma DEF TypeOK, MarkDenies
  <2>2. reader' \in [Readers -> Calls]
    BY <1>0, <1>2, <1>3, <2>3 DEF TypeOK, MarkDenies, GoOn
  <2> QED BY <1>3, <2>1, <2>2 DEF TypeOK, MarkDenies
<1>4. ASSUME NEW r \in Readers, ReadDenies(r) PROVE TypeOK'
  <2>1. Running(r)
    BY <1>4 DEF ReadDenies, Running
  <2>2. reader' \in [Readers -> Calls]
    BY <1>a, <1>g, <1>4, <2>1 DEF ReadDenies
  <2> QED BY <1>4, <2>2 DEF TypeOK, ReadDenies, tables
<1>5. ASSUME NEW r \in Readers, ReadAssignments(r) PROVE TypeOK'
  <2>1. Running(r)
    BY <1>5 DEF ReadAssignments, Running
  <2>2. reader' \in [Readers -> Calls]
    <3>1. CASE ActiveAssignments = {}
      BY <1>g, <1>5, <2>1, <3>1 DEF ReadAssignments
    <3>2. CASE ActiveAssignments # {}
      <4>1. [at |-> "items", q |-> reader[r].q, seen |-> ActiveAssignments] \in Calls
        BY <1>0, <1>2, <1>5, <2>1
      <4>2. reader' = [reader EXCEPT ![r] =
              [at |-> "items", q |-> reader[r].q, seen |-> ActiveAssignments]]
        BY <1>5, <3>2 DEF ReadAssignments
      <4> QED BY <4>1, <4>2 DEF TypeOK
    <3> QED BY <3>1, <3>2
  <2> QED BY <1>5, <2>2 DEF TypeOK, ReadAssignments, tables
<1>6. ASSUME NEW r \in Readers, ReadItems(r) PROVE TypeOK'
  <2>1. Running(r)
    BY <1>6 DEF ReadItems, Running
  <2>2. reader' \in [Readers -> Calls]
    BY <1>a, <1>g, <1>6, <2>1 DEF ReadItems
  <2> QED BY <1>6, <2>2 DEF TypeOK, ReadItems, tables
<1>7. ASSUME NEW r \in Readers, MarkGrants(r) PROVE TypeOK'
  <2>3. Running(r)
    BY <1>7 DEF MarkGrants, Running
  <2>1. grants' \in [GrantIds -> Row \cup {Absent}]
    BY <1>7, MarkedLemma DEF TypeOK, MarkGrants
  <2>2. reader' \in [Readers -> Calls]
    BY <1>0, <1>2, <1>7, <2>3 DEF TypeOK, MarkGrants, GoOn
  <2> QED BY <1>7, <2>1, <2>2 DEF TypeOK, MarkGrants
<1>8. ASSUME NEW r \in Readers, ReadGrants(r) PROVE TypeOK'
  <2>1. Running(r)
    BY <1>8 DEF ReadGrants, Running
  <2>2. reader' \in [Readers -> Calls]
    BY <1>0, <1>2, <1>8, <2>1 DEF TypeOK, ReadGrants, Answer
  <2> QED BY <1>8, <2>2 DEF TypeOK, ReadGrants, tables
<1>9. ASSUME NEW r \in Readers, Forget(r) PROVE TypeOK'
  <2>1. reader' \in [Readers -> Calls]
    BY <1>9 DEF TypeOK, Forget, Idle, Calls
  <2> QED BY <1>9, <2>1 DEF TypeOK, Forget, tables
<1>10. CASE CreateDeny
  <2>1. denies' \in [DenyIds -> Row \cup {Absent}]
    BY <1>10, RowInserted DEF TypeOK, CreateDeny
  <2> QED BY <1>10, <2>1 DEF TypeOK, CreateDeny
<1>11. CASE RevokeDeny
  <2>1. denies' \in [DenyIds -> Row \cup {Absent}]
    <3>1. PICK d \in Written(denies) : denies' = [denies EXCEPT ![d].status = "revoked"]
      BY <1>11 DEF RevokeDeny
    <3> QED BY <3>1, StatusSaved DEF TypeOK
  <2> QED BY <1>11, <2>1 DEF TypeOK, RevokeDeny
<1>12. CASE WriteGrant
  <2>1. grants' \in [GrantIds -> Row \cup {Absent}]
    <3>1. CASE \E g \in GrantIds \ Written(grants), s \in Scopes, e \in Expiries \cup {Never} :
                 grants' = [grants EXCEPT ![g] = [scope |-> s, expires |-> e, status |-> "active"]]
      BY <3>1, RowInserted DEF TypeOK
    <3>2. ASSUME NEW g \in Written(grants), NEW s \in {"revoked", "expired"},
                 grants' = [grants EXCEPT ![g].status = s]
          PROVE  grants' \in [GrantIds -> Row \cup {Absent}]
      BY <3>2, StatusSaved DEF TypeOK
    <3> QED BY <1>12, <3>1, <3>2 DEF WriteGrant
  <2> QED BY <1>12, <2>1 DEF TypeOK, WriteGrant
<1>13. CASE AssignTemplate
  BY <1>13 DEF TypeOK, AssignTemplate, Assignment
<1>14. CASE RemoveTemplate
  <2>1. PICK a \in Standing(assignments) :
          assignments' = [assignments EXCEPT ![a].status = "revoked"]
    BY <1>14 DEF RemoveTemplate
  <2>2. a \in AssignmentIds /\ assignments[a] \in Assignment
    BY DEF Standing, Written, TypeOK, Absent
  <2>3. [assignments[a] EXCEPT !.status = "revoked"] \in Assignment
    BY <2>2 DEF Assignment
  <2>4. assignments' \in [AssignmentIds -> Assignment \cup {Absent}]
    BY <2>1, <2>2, <2>3 DEF TypeOK
  <2> QED BY <1>14, <2>4 DEF TypeOK, RemoveTemplate
<1>15. CASE EditTemplate
  <2>1. template' \in [Templates -> [active : BOOLEAN, enabled : BOOLEAN]]
    <3>1. PICK t \in Templates :
            \/ template' = [template EXCEPT ![t].active = ~ @]
            \/ template' = [template EXCEPT ![t].enabled = ~ @]
      BY <1>15 DEF EditTemplate
    <3>2. template[t] \in [active : BOOLEAN, enabled : BOOLEAN]
      BY DEF TypeOK
    <3>3. /\ [template[t] EXCEPT !.active = ~ @] \in [active : BOOLEAN, enabled : BOOLEAN]
          /\ [template[t] EXCEPT !.enabled = ~ @] \in [active : BOOLEAN, enabled : BOOLEAN]
      BY <3>2
    <3> QED BY <3>1, <3>3 DEF TypeOK
  <2> QED BY <1>15, <2>1 DEF TypeOK, EditTemplate
<1>16. CASE ToggleDefinition
  BY <1>16 DEF TypeOK, ToggleDefinition
<1>17. CASE Tick
  BY <1>17 DEF TypeOK, Tick
<1> QED BY <1>1, <1>3, <1>4, <1>5, <1>6, <1>7, <1>8, <1>9, <1>10, <1>11, <1>12,
           <1>13, <1>14, <1>15, <1>16, <1>17 DEF Next, Call, Write

(* Type correctness, for every value of the constants.  *)
THEOREM DecisionTypeCorrect == Spec => []TypeOK
<1>1. Init => TypeOK
  BY DecisionConstants DEF Init, TypeOK, Idle, Calls
<1>2. TypeOK /\ [Next]_vars => TypeOK'
  BY TypeStep DEF vars, TypeOK
<1> QED BY <1>1, <1>2, PTL DEF Spec

(* Denies: outside the two steps that mark and write them, a row that is active
   after a step was active before it, with the scope it has.  *)
LEMMA DenyStep ==
  ASSUME TypeOK, Next, Written(denies)' \subseteq Written(denies)
  PROVE  \A d \in Standing(denies)' : d \in Standing(denies) /\ denies'[d] = denies[d]
<1>1. CASE denies' = denies
  BY <1>1 DEF Standing, Written
<1>2. CASE denies' = Marked(denies)
  BY <1>2, MarkedLemma DEF TypeOK, Standing, Written
<1>3. CASE CreateDeny
  <2>1. PICK d \in DenyIds \ Written(denies), s \in Scopes, e \in Expiries \cup {Never} :
          denies' = [denies EXCEPT ![d] = [scope |-> s, expires |-> e, status |-> "active"]]
    BY <1>3 DEF CreateDeny
  <2>2. d \in Written(denies)'
    BY <2>1 DEF TypeOK, Written
  <2> QED BY <2>1, <2>2
<1>4. CASE RevokeDeny
  <2>1. PICK d \in Written(denies) : denies' = [denies EXCEPT ![d].status = "revoked"]
    BY <1>4 DEF RevokeDeny
  <2> QED BY <2>1, StatusSaved DEF TypeOK, Standing, Written
<1>5. ASSUME NEW r \in Readers,
             \/ Ask(r) \/ MarkDenies(r) \/ ReadDenies(r) \/ ReadAssignments(r)
             \/ ReadItems(r) \/ MarkGrants(r) \/ ReadGrants(r) \/ Forget(r)
      PROVE  denies' = denies \/ denies' = Marked(denies)
  BY <1>5 DEF Ask, MarkDenies, ReadDenies, ReadAssignments, ReadItems, MarkGrants,
     ReadGrants, Forget, tables
<1>6. CASE WriteGrant \/ AssignTemplate \/ RemoveTemplate \/ EditTemplate
           \/ ToggleDefinition \/ Tick
  BY <1>1, <1>6 DEF WriteGrant, AssignTemplate, RemoveTemplate, EditTemplate,
     ToggleDefinition, Tick
<1> QED BY <1>1, <1>2, <1>3, <1>4, <1>5, <1>6 DEF Next, Call, Write

(* What the history of a running call records of the state a step leads to.  *)
LEMMA WatchStep ==
  ASSUME Watch, NEW r \in Readers, Running(r), reader'[r].at # "idle"
  PROVE  /\ watch'[r].denied \subseteq watch[r].denied
         /\ watch'[r].denied \subseteq CoveringDenies(reader[r].q)'
         /\ watch'[r].sources \subseteq watch[r].sources
         /\ watch'[r].sources \subseteq CoveringSources(reader[r].q)'
         /\ watch[r].against \subseteq watch'[r].against
         /\ CoveringDenies(reader[r].q)' \subseteq watch'[r].against
         /\ Written(denies)' \ Written(denies) \subseteq watch'[r].against
<1>1. watch'[r] = Watched(watch[r], reader[r].q)
  BY DEF Watch, Running
<1> QED BY <1>1 DEF Watched

(* The history of a call begins with the state it is asked in.  *)
LEMMA WatchBegins ==
  ASSUME Watch, NEW r \in Readers, reader[r].at = "idle", reader'[r].at # "idle"
  PROVE  watch'[r] = Watching(reader'[r].q)
BY DEF Watch

(* A step of another call, or a write, leaves a call where it is.  *)
LEMMA Elsewhere ==
  ASSUME TypeOK, Next, NEW r \in Readers
  PROVE  \/ reader'[r] = reader[r]
         \/ /\ \/ Ask(r) \/ MarkDenies(r) \/ ReadDenies(r) \/ ReadAssignments(r)
               \/ ReadItems(r) \/ MarkGrants(r) \/ ReadGrants(r) \/ Forget(r)
<1>1. ASSUME NEW s \in Readers, s # r,
             \/ Ask(s) \/ MarkDenies(s) \/ ReadDenies(s) \/ ReadAssignments(s)
             \/ ReadItems(s) \/ MarkGrants(s) \/ ReadGrants(s) \/ Forget(s)
      PROVE  reader'[r] = reader[r]
  BY <1>1 DEF TypeOK, Ask, MarkDenies, ReadDenies, ReadAssignments, ReadItems,
     MarkGrants, ReadGrants, Forget, GoOn, Answer
<1>2. Write => reader' = reader
  BY DEF Write, CreateDeny, RevokeDeny, WriteGrant, AssignTemplate, RemoveTemplate,
     EditTemplate, ToggleDefinition, Tick
<1> QED BY <1>1, <1>2 DEF Next, Call

(* A call that a step leaves where it is keeps its trail, *)
LEMMA TrailKept ==
  ASSUME TypeOK, Next, NEW r \in Readers, Trail(r), reader'[r] = reader[r]
  PROVE  Trail(r)'
<1>1. CASE ~ Running(r)
  BY <1>1 DEF Trail, Running
<1>2. CASE Running(r)
  <2>1. /\ watch'[r].denied \subseteq watch[r].denied
        /\ watch'[r].sources \subseteq watch[r].sources
        /\ watch[r].against \subseteq watch'[r].against
        /\ CoveringDenies(reader[r].q)' \subseteq watch'[r].against
        /\ Written(denies)' \ Written(denies) \subseteq watch'[r].against
    BY <1>2, WatchStep DEF Next, Running
  <2>2. ASSUME reader'[r].at = "denies", watch'[r].against = {}, NEW d \in Standing(denies)'
        PROVE  ~ Covers(denies'[d], reader'[r].q)
    <3>1. d \in Standing(denies) /\ denies'[d] = denies[d]
      BY <2>1, <2>2, DenyStep
    <3> QED BY <2>1, <2>2, <3>1 DEF Trail
  <2>3. reader'[r].at \in {"assignments", "items", "mark_grants", "grants"} =>
          watch'[r].denied = {}
    BY <2>1 DEF Trail
  <2>4. /\ reader'[r].at = "items" => watch'[r].sources \cap AssignmentIds \subseteq reader'[r].seen
        /\ reader'[r].at \in {"mark_grants", "grants"} =>
             watch'[r].sources \cap AssignmentIds = {}
    BY <2>1 DEF Trail
  <2>5. CoveringDenies(reader[r].q)' \subseteq watch'[r].against
    BY <2>1
  <2> QED BY <2>2, <2>3, <2>4, <2>5 DEF Trail
<1> QED BY <1>1, <1>2

(* and its answer, if it has given one, together with its history.  *)
LEMMA AnswerKept ==
  ASSUME Next, NEW r \in Readers, reader[r].at = "done", reader'[r] = reader[r]
  PROVE  watch'[r] = watch[r]
BY DEF Next, Watch, Running

(* The first statement of a call: no deny is known of yet, and without an active
   definition there is no source to miss.  *)
LEMMA TrailAsked ==
  ASSUME TypeOK, Next, NEW r \in Readers, Ask(r)
  PROVE  Trail(r)' /\ ~ Answered(r, TRUE)'
         /\ (Answered(r, FALSE)' => watch'[r].sources = {})
<1>1. PICK q \in Scopes :
        reader' = [reader EXCEPT ![r] = IF defined THEN [at |-> "mark_denies", q |-> q]
                     ELSE [at |-> "done", q |-> q, answer |-> FALSE]]
  BY DEF Ask
<1>2. denies' = denies /\ now' = now /\ reader[r].at = "idle"
  BY DEF Ask, tables
<1>3. CoveringDenies(reader[r].q)' = CoveringDenies(reader'[r].q)
  BY <1>2 DEF CoveringDenies, InForce, Overdue, Standing, Written
<1>4. CASE defined
  <2>1. reader'[r] = [at |-> "mark_denies", q |-> q]
    BY <1>1, <1>4 DEF TypeOK
  <2>2. watch'[r] = Watching(reader'[r].q)
    BY <1>2, <2>1, WatchBegins DEF Next
  <2>3. watch'[r].against = CoveringDenies(reader'[r].q)
    BY <2>2 DEF Watching
  <2>4. CoveringDenies(reader[r].q)' \subseteq watch'[r].against
    BY <1>3, <2>3
  <2>5. reader'[r].at = "mark_denies"
    BY <2>1
  <2> QED BY <2>4, <2>5 DEF Trail, Answered
<1>5. CASE ~ defined
  <2>1. reader'[r] = [at |-> "done", q |-> q, answer |-> FALSE]
    BY <1>1, <1>5 DEF TypeOK
  <2>2. watch'[r] = Watching(reader'[r].q)
    BY <1>2, <2>1, WatchBegins DEF Next
  <2>3. watch'[r].sources = {}
    BY <1>5, <2>2 DEF Watching, CoveringSources
  <2> QED BY <2>1, <2>3 DEF Trail, Running, Answered
<1> QED BY <1>4, <1>5

(* Marking the overdue denies: those that are left were in force.  *)
LEMMA TrailMarkedDenies ==
  ASSUME TypeOK, Next, NEW r \in Readers, Trail(r), MarkDenies(r)
  PROVE  Trail(r)' /\ reader'[r].at # "done"
<1>1. /\ reader'[r] = [at |-> "denies", q |-> reader[r].q]
      /\ Running(r)
  BY DEF MarkDenies, GoOn, Running, TypeOK
<1>2. denies' = Marked(denies)
  BY DEF MarkDenies
<1>3. /\ watch[r].against \subseteq watch'[r].against
      /\ CoveringDenies(reader[r].q)' \subseteq watch'[r].against
  BY <1>1, WatchStep DEF Next
<1>4. ASSUME NEW d \in Standing(denies)', Covers(denies'[d], reader'[r].q)
      PROVE  watch'[r].against # {}
  <2>1. d \in InForce(denies) /\ denies'[d] = denies[d]
    BY <1>2, MarkedLemma DEF TypeOK, InForce, Standing, Written
  <2>2. d \in CoveringDenies(reader[r].q)
    BY <1>1, <1>4, <2>1 DEF CoveringDenies
  <2>3. d \in watch[r].against
    BY <1>1, <2>2 DEF Trail
  <2> QED BY <1>3, <2>3
<1>5. reader'[r].at = "denies"
  BY <1>1
<1> QED BY <1>3, <1>4, <1>5 DEF Trail

(* Reading the denies: a call that goes on found none that was there all along.  *)
LEMMA TrailReadDenies ==
  ASSUME TypeOK, Next, NEW r \in Readers, Trail(r), ReadDenies(r)
  PROVE  /\ Trail(r)' /\ ~ Answered(r, TRUE)'
         /\ Answered(r, FALSE)' => watch'[r].against # {}
<1>1. Running(r) /\ reader[r].at = "denies" /\ denies' = denies
  BY DEF ReadDenies, Running, tables
<1>2. CASE \E d \in Standing(denies) : Covers(denies[d], reader[r].q)
  <2>1. reader'[r] = [at |-> "done", q |-> reader[r].q, answer |-> FALSE]
    BY <1>2 DEF ReadDenies, Answer, TypeOK
  <2>2. watch[r].against # {}
    BY <1>1, <1>2 DEF Trail
  <2>3. watch[r].against \subseteq watch'[r].against
    BY <1>1, <2>1, WatchStep DEF Next
  <2>4. reader'[r].at = "done" /\ reader'[r].answer = FALSE
    BY <2>1
  <2>5. ~ Running(r)'
    BY <2>4 DEF Running
  <2> QED BY <2>2, <2>3, <2>4, <2>5 DEF Trail, Answered
<1>3. CASE ~ \E d \in Standing(denies) : Covers(denies[d], reader[r].q)
  <2>1. reader'[r] = [at |-> "assignments", q |-> reader[r].q]
    BY <1>3 DEF ReadDenies, GoOn, TypeOK
  <2>2. /\ watch'[r].denied \subseteq CoveringDenies(reader[r].q)'
        /\ CoveringDenies(reader[r].q)' \subseteq watch'[r].against
    BY <1>1, <2>1, WatchStep DEF Next
  <2>3. CoveringDenies(reader[r].q)' = {}
    BY <1>1, <1>3, <2>1 DEF CoveringDenies, InForce, Standing, Written
  <2>4. reader'[r].at = "assignments"
    BY <2>1
  <2>5. watch'[r].denied = {} /\ CoveringDenies(reader[r].q)' \subseteq watch'[r].against
    BY <2>2, <2>3
  <2> QED BY <2>4, <2>5 DEF Trail, Answered
<1> QED BY <1>2, <1>3

(* Reading assignments: every source there was all along that is an assignment
   is among the rows read.  *)
LEMMA TrailReadAssignments ==
  ASSUME TypeOK, Next, NEW r \in Readers, Trail(r), ReadAssignments(r)
  PROVE  Trail(r)' /\ reader'[r].at # "done"
<1>1. /\ Running(r) /\ reader[r].at = "assignments"
      /\ assignments' = assignments /\ template' = template /\ grants' = grants
  BY DEF ReadAssignments, Running, tables
<1>2. /\ reader'[r].at = IF ActiveAssignments = {} THEN "mark_grants" ELSE "items"
      /\ ActiveAssignments # {} => reader'[r].seen = ActiveAssignments
  BY DEF ReadAssignments, GoOn, TypeOK
<1>3. reader'[r].at \in {"mark_grants", "items"}
  BY <1>2
<1>4. /\ watch'[r].denied \subseteq watch[r].denied
      /\ watch'[r].sources \subseteq CoveringSources(reader[r].q)'
      /\ CoveringDenies(reader[r].q)' \subseteq watch'[r].against
  BY <1>1, <1>3, WatchStep DEF Next
<1>5. watch'[r].sources \cap AssignmentIds \subseteq ActiveAssignments
  <2>1. TemplateSources' \subseteq ActiveAssignments
    BY <1>1 DEF TemplateSources, ActiveAssignments, Standing, Written
  <2>2. InForce(grants)' \subseteq GrantIds
    BY <1>1 DEF InForce, Standing, Written, TypeOK
  <2> QED BY <1>4, <2>1, <2>2, DecisionConstants DEF CoveringSources
<1>6. watch'[r].denied = {}
  BY <1>1, <1>4 DEF Trail
<1> QED BY <1>2, <1>3, <1>4, <1>5, <1>6 DEF Trail

(* Reading the items: an assignment that was a source all along is found.  *)
LEMMA TrailReadItems ==
  ASSUME TypeOK, Next, NEW r \in Readers, Trail(r), ReadItems(r)
  PROVE  /\ Trail(r)'
         /\ Answered(r, TRUE)' => watch'[r].denied = {}
         /\ ~ Answered(r, FALSE)'
<1> DEFINE Found == \E a \in reader[r].seen :
                      /\ template[assignments[a].template].enabled
                      /\ Covers(assignments[a], reader[r].q)
<1>1. /\ Running(r) /\ reader[r].at = "items"
      /\ assignments' = assignments /\ template' = template /\ grants' = grants
  BY DEF ReadItems, Running, tables
<1>2. /\ watch[r].denied = {}
      /\ watch[r].sources \cap AssignmentIds \subseteq reader[r].seen
  BY <1>1 DEF Trail
<1>3. CASE Found
  <2>1. reader'[r].at = "done" /\ reader'[r].answer = TRUE
    BY <1>3 DEF ReadItems, Answer, TypeOK
  <2>2. watch'[r].denied = {}
    BY <1>1, <1>2, <2>1, WatchStep DEF Next
  <2>3. ~ Running(r)'
    BY <2>1 DEF Running
  <2> QED BY <2>1, <2>2, <2>3 DEF Trail, Answered
<1>4. CASE ~ Found
  <2>1. reader'[r].at = "mark_grants" /\ reader'[r].q = reader[r].q
    BY <1>4 DEF ReadItems, GoOn, TypeOK
  <2>2. /\ watch'[r].denied = {}
        /\ watch'[r].sources \subseteq watch[r].sources
        /\ watch'[r].sources \subseteq CoveringSources(reader[r].q)'
        /\ CoveringDenies(reader[r].q)' \subseteq watch'[r].against
    BY <1>1, <1>2, <2>1, WatchStep DEF Next
  <2>3. InForce(grants)' \subseteq GrantIds
    BY <1>1 DEF InForce, Standing, Written, TypeOK
  <2>4. ASSUME NEW a \in watch'[r].sources, a \in AssignmentIds PROVE FALSE
    <3>1. a \in reader[r].seen
      BY <1>2, <2>2, <2>4
    <3>2. a \in TemplateSources' /\ Covers(assignments[a], reader[r].q)
      BY <1>1, <2>1, <2>2, <2>3, <2>4, DecisionConstants DEF CoveringSources
    <3>3. template[assignments[a].template].enabled
      BY <1>1, <3>2 DEF TemplateSources
    <3> QED BY <1>4, <3>1, <3>2, <3>3
  <2>5. watch'[r].sources \cap AssignmentIds = {}
    BY <2>4
  <2> QED BY <2>1, <2>2, <2>5 DEF Trail, Answered
<1> QED BY <1>3, <1>4

(* Marking the overdue grants disturbs nothing the call has found.  *)
LEMMA TrailMarkedGrants ==
  ASSUME TypeOK, Next, NEW r \in Readers, Trail(r), MarkGrants(r)
  PROVE  Trail(r)' /\ reader'[r].at # "done"
<1>1. Running(r) /\ reader[r].at = "mark_grants" /\ reader'[r].at = "grants"
  BY DEF MarkGrants, GoOn, Running, TypeOK
<1>2. /\ watch'[r].denied \subseteq watch[r].denied
      /\ watch'[r].sources \subseteq watch[r].sources
      /\ CoveringDenies(reader[r].q)' \subseteq watch'[r].against
  BY <1>1, WatchStep DEF Next
<1>3. watch'[r].denied = {} /\ watch'[r].sources \cap AssignmentIds = {}
  BY <1>1, <1>2 DEF Trail
<1> QED BY <1>1, <1>2, <1>3 DEF Trail

(* Reading the grants: a call that finds none had no steady source left.  *)
LEMMA TrailReadGrants ==
  ASSUME TypeOK, Next, NEW r \in Readers, Trail(r), ReadGrants(r)
  PROVE  /\ Trail(r)'
         /\ Answered(r, TRUE)' => watch'[r].denied = {}
         /\ Answered(r, FALSE)' => watch'[r].sources = {}
<1> DEFINE Found == \E g \in Standing(grants) : Covers(grants[g], reader[r].q)
<1>1. /\ Running(r) /\ reader[r].at = "grants"
      /\ grants' = grants /\ assignments' = assignments
  BY DEF ReadGrants, Running, tables
<1>2. /\ reader'[r].at = "done" /\ reader'[r].q = reader[r].q
      /\ reader'[r].answer = Found
  BY DEF ReadGrants, Answer, TypeOK
<1>3. /\ watch'[r].denied \subseteq watch[r].denied
      /\ watch'[r].sources \subseteq watch[r].sources
      /\ watch'[r].sources \subseteq CoveringSources(reader[r].q)'
  BY <1>1, <1>2, WatchStep DEF Next
<1>4. watch'[r].denied = {} /\ watch'[r].sources \cap AssignmentIds = {}
  BY <1>1, <1>3 DEF Trail
<1>5. ASSUME ~ Found PROVE watch'[r].sources = {}
  <2>1. TemplateSources' \subseteq AssignmentIds
    BY <1>1 DEF TemplateSources, ActiveAssignments, Standing, Written, TypeOK
  <2>2. ASSUME NEW g \in InForce(grants)' PROVE ~ Covers(grants[g], reader[r].q)
    <3>1. g \in Standing(grants)
      BY <1>1 DEF InForce, Standing, Written
    <3> QED BY <1>5, <3>1
  <2>3. CoveringSources(reader[r].q)' \subseteq AssignmentIds
    BY <1>1, <1>2, <2>1, <2>2 DEF CoveringSources
  <2> QED BY <1>3, <1>4, <2>3
<1>6. ~ Running(r)'
  BY <1>2 DEF Running
<1>7. Answered(r, FALSE)' => ~ Found
  BY <1>2 DEF Answered
<1> QED BY <1>2, <1>4, <1>5, <1>6, <1>7 DEF Trail

(* The call is over and its answer forgotten.  *)
LEMMA TrailForgotten ==
  ASSUME TypeOK, NEW r \in Readers, Forget(r)
  PROVE  Trail(r)' /\ reader'[r].at # "done"
<1>1. reader'[r].at = "idle"
  BY DEF Forget, Idle, TypeOK
<1> QED BY <1>1 DEF Trail, Running

(* A deny or a source that is steady decides: the invariant, and from it both
   halves.  *)
THEOREM SteadyDecisions == Spec => [](SteadyDenyWins /\ SteadySourceWins)
<1>1. Init => Inv
  <2>1. Init => TypeOK
    BY DecisionConstants DEF Init, TypeOK, Idle, Calls
  <2>2. Init => \A r \in Readers : reader[r].at = "idle"
    BY DEF Init, Idle
  <2> QED BY <2>1, <2>2 DEF Inv, Trails, Trail, Running, SteadyDenyWins,
             SteadySourceWins, Answered
<1>2. Inv /\ [Next]_vars => Inv'
  <2>1. CASE UNCHANGED vars
    BY <2>1 DEF Inv, TypeOK, Trails, Trail, Running, SteadyDenyWins, SteadySourceWins,
       Answered, vars, CoveringDenies, InForce, Overdue, Standing, Written
  <2>2. ASSUME Inv, Next PROVE Inv'
    <3>1. TypeOK'
      BY <2>2, TypeStep DEF Inv
    <3>2. ASSUME NEW r \in Readers
          PROVE  /\ Trail(r)'
                 /\ Answered(r, TRUE)' => watch'[r].denied = {}
                 /\ Answered(r, FALSE)' => watch'[r].against # {} \/ watch'[r].sources = {}
      <4>1. CASE reader'[r] = reader[r]
        <5>1. Trail(r)'
          BY <2>2, <4>1, TrailKept DEF Inv, Trails
        <5> QED BY <2>2, <4>1, <5>1, AnswerKept DEF Inv, SteadyDenyWins,
                   SteadySourceWins, Answered
      <4>2. CASE reader'[r] # reader[r]
        <5>1. TypeOK /\ Trail(r)
          BY <2>2 DEF Inv, Trails
        <5>2. reader'[r].at # "done" => ~ Answered(r, TRUE)' /\ ~ Answered(r, FALSE)'
          BY DEF Answered
        <5> QED BY <2>2, <4>2, <5>1, <5>2, Elsewhere, TrailAsked, TrailMarkedDenies,
                   TrailReadDenies, TrailReadAssignments, TrailReadItems,
                   TrailMarkedGrants, TrailReadGrants, TrailForgotten
      <4> QED BY <4>1, <4>2
    <3> QED BY <3>1, <3>2 DEF Inv, Trails, SteadyDenyWins, SteadySourceWins
  <2> QED BY <2>1, <2>2
<1>3. Inv => SteadyDenyWins /\ SteadySourceWins
  BY DEF Inv
<1> QED BY <1>1, <1>2, <1>3, PTL DEF Spec

(* The second half by itself: a source that covers the question all through a call  *)
(* of has_permission is found, unless a deny stood or was written or the permission *)
(* was inactive meanwhile, for any number of rows, writers and concurrent calls.    *)
THEOREM SourcesDecide == Spec => []SteadySourceWins
BY SteadyDecisions, PTL
==================================================================================
