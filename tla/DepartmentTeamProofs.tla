--------------------------- MODULE DepartmentTeamProofs ---------------------------
(***************************************************************************)
(* Which groups of endpoints keep a department's rows, the bundle of its   *)
(* head and the career log in step, however many users and departments     *)
(* there are.  Each property names the writers it needs.                   *)
(***************************************************************************)
EXTENDS DepartmentTeam, TLAPS

(* One department's rows after OnlyHead, and after a user's own row is set: at *)
(* most one head again.                                                       *)
LEMMA OnlyHeadSeats ==
  ASSUME NEW row \in [Users -> Seats], NEW u \in Users
  PROVE  /\ OnlyHead(row, u) \in [Users -> Seats]
         /\ \A v \in Users \ {u} : OnlyHead(row, u)[v] # "head"
BY DEF OnlyHead, Seats

LEMMA AsSeats == \A lead \in BOOLEAN : As(lead) \in Seats
BY DEF As, Seats

LEMMA AssignedTyped ==
  ASSUME NEW row, NEW spells \in SUBSET (Spells \X Users \X Departments),
         NEW u \in Users, NEW d \in Departments, NEW lead \in BOOLEAN
  PROVE  AssignedSpells(row, spells, u, d, lead) \in SUBSET (Spells \X Users \X Departments)
<1>1. <<"joined", u, d>> \in Spells \X Users \X Departments
  BY DEF Spells
<1>2. <<"led", u, d>> \in Spells \X Users \X Departments
  BY DEF Spells
<1>3. QED
  BY <1>1, <1>2 DEF AssignedSpells

--------------------------------------------------------------------------------
(* TypeOK, one lemma for the requests that write with is_lead and one for the *)
(* others.                                                                    *)
LEMMA TypedPlain ==
  ASSUME TypeOK, NEW u \in Users, NEW d \in Departments,
         \/ AdminClear(u, d) \/ WorkspaceRemove(u, d) \/ CareerRemove(u, d),
         UNCHANGED writers
  PROVE  TypeOK'
<1>1. CASE AdminClear(u, d)
  BY <1>1 DEF AdminClear, TypeOK, Seats
<1>2. CASE WorkspaceRemove(u, d)
  BY <1>2 DEF WorkspaceRemove, RemovedSpells, TypeOK, Seats
<1>3. CASE CareerRemove(u, d)
  BY <1>3 DEF CareerRemove, RemovedSpells, TypeOK, Seats
<1>4. QED
  BY <1>1, <1>2, <1>3

LEMMA TypedWithFlag ==
  ASSUME TypeOK, NEW u \in Users, NEW d \in Departments, NEW flag \in BOOLEAN,
         \/ AdminLead(u, d, flag) \/ OrgUnitsUpsert(u, d, flag) \/ WorkspaceAdd(u, d, flag)
         \/ CareerAssign(u, d, flag) \/ CareerTransfer(u, d, flag),
         UNCHANGED writers
  PROVE  TypeOK'
<1> DEFINE All == Spells \X Users \X Departments
<1> USE AsSeats
<1>0. /\ seat[d] \in [Users -> Seats]
      /\ OnlyHead(seat[d], u) \in [Users -> Seats]
      /\ open \in SUBSET All
  BY OnlyHeadSeats DEF TypeOK
<1>1. CASE AdminLead(u, d, flag)
  <2>1. [OnlyHead(seat[d], u) EXCEPT ![u] = "head"] \in [Users -> Seats]
    BY <1>0 DEF Seats
  <2>2. QED
    BY <1>1, <2>1 DEF AdminLead, TypeOK
<1>2. ASSUME seat' = [seat EXCEPT ![d] =
                [(IF flag THEN OnlyHead(seat[d], u) ELSE seat[d]) EXCEPT ![u] = As(flag)]]
      PROVE  seat' \in [Departments -> [Users -> Seats]]
  <2>1. [(IF flag THEN OnlyHead(seat[d], u) ELSE seat[d]) EXCEPT ![u] = As(flag)]
          \in [Users -> Seats]
    BY <1>0
  <2>2. QED
    BY <1>2, <2>1 DEF TypeOK
<1>3. CASE OrgUnitsUpsert(u, d, flag)
  BY <1>2, <1>3 DEF OrgUnitsUpsert, TypeOK
<1>4. CASE WorkspaceAdd(u, d, flag)
  <2>1. open' \in SUBSET All
    BY <1>0, <1>4, AssignedTyped DEF WorkspaceAdd
  <2>2. bundles' \in SUBSET (Users \X Departments)
    BY <1>4 DEF WorkspaceAdd, TypeOK
  <2>3. QED
    BY <1>2, <1>4, <2>1, <2>2 DEF WorkspaceAdd, TypeOK
<1>5. CASE CareerAssign(u, d, flag)
  <2>1. open' \in SUBSET All
    BY <1>0, <1>5, AssignedTyped DEF CareerAssign
  <2>2. QED
    BY <1>5, <2>1 DEF CareerAssign, TypeOK
<1>6. CASE CareerTransfer(u, d, flag)
  <2>1. PICK removed : open' = AssignedSpells(seat[d], open \ removed, u, d, flag)
    BY <1>6 DEF CareerTransfer
  <2>2. open' \in SUBSET All
    BY <1>0, <2>1, AssignedTyped
  <2>3. seat' \in [Departments -> [Users -> Seats]]
    <3>1. \A e \in Departments : /\ [seat[e] EXCEPT ![u] = As(flag)] \in [Users -> Seats]
                                 /\ [seat[e] EXCEPT ![u] = "none"] \in [Users -> Seats]
      BY DEF TypeOK, Seats
    <3>2. QED
      BY <1>6, <3>1 DEF CareerTransfer
  <2>4. QED
    BY <1>6, <2>2, <2>3 DEF CareerTransfer, TypeOK
<1>7. QED
  BY <1>1, <1>3, <1>4, <1>5, <1>6

LEMMA Typed == TypeOK /\ [Next]_vars => TypeOK'
<1> SUFFICES ASSUME TypeOK, [Next]_vars PROVE TypeOK'
  OBVIOUS
<1>1. CASE UNCHANGED vars
  BY <1>1 DEF vars, TypeOK
<1>2. CASE Next
  BY <1>2, TypedPlain, TypedWithFlag DEF Next, Step
<1>3. QED
  BY <1>1, <1>2

(* Rows, bundles and spells keep their types under every writer: TypeOK over    *)
(* the endpoints of all four groups.                                            *)
THEOREM TeamTypeCorrect == Spec => []TypeOK
<1>1. Init => TypeOK
  BY DEF Init, TypeOK, Seats
<1>2. QED
  BY <1>1, Typed, PTL DEF Spec

--------------------------------------------------------------------------------
(* One head: every endpoint but the career service's either clears the other   *)
(* heads or makes nobody head.                                                 *)
LEMMA OneHeadPlain ==
  ASSUME TypeOK, SingleHead, NEW u \in Users, NEW d \in Departments,
         \/ AdminClear(u, d) \/ WorkspaceRemove(u, d) \/ CareerRemove(u, d)
  PROVE  SingleHead'
<1>1. \A e \in Departments, v \in Users : seat'[e][v] = "head" => seat[e][v] = "head"
  BY DEF AdminClear, WorkspaceRemove, CareerRemove, TypeOK
<1>2. QED
  BY <1>1 DEF SingleHead, Heads

(* The department written has the user for its head, or has the heads it had.  *)
LEMMA OneHeadWithFlag ==
  ASSUME TypeOK, SingleHead, NEW u \in Users, NEW d \in Departments, NEW flag \in BOOLEAN,
         \/ AdminLead(u, d, flag) \/ OrgUnitsUpsert(u, d, flag) \/ WorkspaceAdd(u, d, flag)
  PROVE  SingleHead'
<1>0. /\ seat[d] \in [Users -> Seats]
      /\ OnlyHead(seat[d], u) \in [Users -> Seats]
      /\ \A v \in Users \ {u} : OnlyHead(seat[d], u)[v] # "head"
  BY OnlyHeadSeats DEF TypeOK
<1>1. \A e \in Departments \ {d} : seat'[e] = seat[e]
  BY DEF AdminLead, OrgUnitsUpsert, WorkspaceAdd, TypeOK
<1>2. \/ \A v \in Users \ {u} : seat'[d][v] # "head"
      \/ \A v \in Users : seat'[d][v] = "head" => seat[d][v] = "head"
  <2>1. CASE AdminLead(u, d, flag)
    <3>1. seat'[d] = [OnlyHead(seat[d], u) EXCEPT ![u] = "head"]
      BY <2>1 DEF AdminLead, TypeOK
    <3>2. QED
      BY <1>0, <3>1
  <2>2. ASSUME seat' = [seat EXCEPT ![d] =
                 [(IF flag THEN OnlyHead(seat[d], u) ELSE seat[d]) EXCEPT ![u] = As(flag)]]
        PROVE  \/ \A v \in Users \ {u} : seat'[d][v] # "head"
               \/ \A v \in Users : seat'[d][v] = "head" => seat[d][v] = "head"
    <3>1. seat'[d] =
            [(IF flag THEN OnlyHead(seat[d], u) ELSE seat[d]) EXCEPT ![u] = As(flag)]
      BY <2>2 DEF TypeOK
    <3>2. CASE flag
      BY <1>0, <3>1, <3>2
    <3>3. CASE ~flag
      BY <1>0, <3>1, <3>3 DEF As
    <3>4. QED
      BY <3>2, <3>3
  <2>3. QED
    BY <2>1, <2>2 DEF OrgUnitsUpsert, WorkspaceAdd
<1>3. ASSUME NEW e \in Departments, NEW v \in Users, NEW w \in Users,
             seat'[e][v] = "head", seat'[e][w] = "head"
      PROVE  v = w
  <2>1. CASE e = d
    BY <1>2, <1>3, <2>1 DEF SingleHead, Heads
  <2>2. CASE e # d
    BY <1>1, <1>3, <2>2 DEF SingleHead, Heads
  <2>3. QED
    BY <2>1, <2>2
<1>4. QED
  BY <1>3 DEF SingleHead, Heads

(* Without the career service's assign and transfer, a department has at most   *)
(* one head: OneHead over the endpoints that clear other heads first.           *)
THEOREM HeadIsUnique == Spec => []OneHead
<1> DEFINE Inv == TypeOK /\ (writers \subseteq Appointing => SingleHead)
<1>1. Init => Inv
  BY DEF Init, TypeOK, SingleHead, Heads, Seats
<1>2. Inv /\ [Next]_vars => Inv'
  <2> SUFFICES ASSUME Inv, [Next]_vars PROVE Inv'
    OBVIOUS
  <2>0. writers' = writers
    BY DEF Next, vars
  <2>1. TypeOK'
    BY Typed
  <2> SUFFICES ASSUME writers \subseteq Appointing
               PROVE  SingleHead'
    BY <2>0, <2>1
  <2>2. CASE UNCHANGED vars
    BY <2>1, <2>2 DEF vars, SingleHead, Heads
  <2>3. CASE Next
    BY <2>1, <2>3, OneHeadPlain, OneHeadWithFlag DEF Next, Step, Appointing, Kinds
  <2>4. QED
    BY <2>2, <2>3
<1>3. Inv => OneHead
  BY DEF OneHead
<1>4. QED
  BY <1>1, <1>2, <1>3, PTL DEF Spec

--------------------------------------------------------------------------------
(* The bundle follows the head through the company admin's endpoints and the   *)
(* workspace's removal; SingleHead is needed, for a change of heads revokes one    *)
(* bundle only.                                                                *)
LEMMA BundleThroughLead ==
  ASSUME TypeOK, SingleHead, BundleOfHead,
         NEW u \in Users, NEW d \in Departments, NEW new \in BOOLEAN, AdminLead(u, d, new)
  PROVE  BundleOfHead'
<1>1. PICK prev \in IF Heads(d) = {} THEN {u} ELSE Heads(d) :
        bundles' = (bundles \ {<<prev, d>>, <<u, d>>}) \cup (IF new THEN {<<u, d>>} ELSE {})
  BY DEF AdminLead
<1>2. /\ \A e \in Departments \ {d} : seat'[e] = seat[e]
      /\ seat'[d][u] = "head"
  BY OnlyHeadSeats DEF AdminLead, TypeOK
<1> SUFFICES ASSUME NEW b \in bundles' PROVE seat'[b[2]][b[1]] = "head"
  BY DEF BundleOfHead
<1>3. CASE b = <<u, d>>
  BY <1>2, <1>3
<1>4. CASE b \in bundles /\ b # <<u, d>> /\ b # <<prev, d>>
  <2>1. PICK v \in Users, e \in Departments : b = <<v, e>>
    BY <1>4 DEF TypeOK
  <2>2. seat[e][v] = "head"
    BY <1>4, <2>1 DEF BundleOfHead
  <2>3. e # d
    <3>1. SUFFICES ASSUME e = d PROVE FALSE
      OBVIOUS
    <3>2. v \in Heads(d) /\ prev \in Heads(d)
      BY <1>1, <2>2, <3>1 DEF Heads
    <3>3. QED
      BY <1>4, <2>1, <3>1, <3>2 DEF SingleHead
  <2>4. QED
    BY <1>2, <2>1, <2>2, <2>3
<1>5. QED
  BY <1>1, <1>3, <1>4

LEMMA BundleThroughExit ==
  ASSUME TypeOK, BundleOfHead, NEW u \in Users, NEW d \in Departments,
         AdminClear(u, d) \/ WorkspaceRemove(u, d)
  PROVE  BundleOfHead'
<1> SUFFICES ASSUME NEW b \in bundles' PROVE seat'[b[2]][b[1]] = "head"
  BY DEF BundleOfHead
<1>1. b \in bundles
  BY DEF AdminClear, WorkspaceRemove
<1>2. PICK v \in Users, e \in Departments : b = <<v, e>>
  BY <1>1 DEF TypeOK
<1>3. seat[e][v] = "head"
  BY <1>1, <1>2 DEF BundleOfHead
<1>4. v # u \/ e # d \/ UNCHANGED seat
  BY <1>2, <1>3 DEF AdminClear, WorkspaceRemove
<1>5. QED
  BY <1>2, <1>3, <1>4 DEF AdminClear, WorkspaceRemove, TypeOK

(* Under the company admin's endpoints and the workspace's removal a bundle is  *)
(* in force only for the head of its department: BundleWithHead.              *)
THEOREM BundleFollowsHead == Spec => []BundleWithHead
<1> DEFINE Inv == TypeOK /\ (writers \subseteq BundleKeepers => SingleHead /\ BundleOfHead)
<1>1. Init => Inv
  BY DEF Init, TypeOK, SingleHead, BundleOfHead, Heads, Seats
<1>2. Inv /\ [Next]_vars => Inv'
  <2> SUFFICES ASSUME Inv, [Next]_vars PROVE Inv'
    OBVIOUS
  <2>0. writers' = writers
    BY DEF Next, vars
  <2>1. TypeOK'
    BY Typed
  <2> SUFFICES ASSUME writers \subseteq BundleKeepers
               PROVE  (SingleHead /\ BundleOfHead)'
    BY <2>0, <2>1
  <2>2. CASE UNCHANGED vars
    BY <2>1, <2>2 DEF vars, SingleHead, BundleOfHead, Heads
  <2>3. CASE Next
    <3>1. PICK u \in Users, d \in Departments :
            \/ AdminClear(u, d) \/ WorkspaceRemove(u, d)
            \/ \E flag \in BOOLEAN : AdminLead(u, d, flag)
      BY <2>3 DEF Next, Step, BundleKeepers, Kinds
    <3>2. CASE AdminClear(u, d) \/ WorkspaceRemove(u, d)
      BY <2>1, <3>2, OneHeadPlain, BundleThroughExit
    <3>3. CASE \E flag \in BOOLEAN : AdminLead(u, d, flag)
      BY <2>1, <3>3, OneHeadWithFlag, BundleThroughLead
    <3>4. QED
      BY <3>1, <3>2, <3>3
  <2>4. QED
    BY <2>2, <2>3
<1>3. Inv => BundleWithHead
  BY DEF BundleWithHead
<1>4. QED
  BY <1>1, <1>2, <1>3, PTL DEF Spec

--------------------------------------------------------------------------------
(* The log of one department. *)
Matches(row, spells, d) ==
  \A v \in Users : /\ <<"joined", v, d>> \in spells <=> row[v] # "none"
                   /\ <<"led", v, d>> \in spells <=> row[v] = "head"

LEMMA LogIsMatches == LogInStep <=> \A d \in Departments : Matches(seat[d], open, d)
BY DEF LogInStep, Matches

LEMMA AssignedMatches ==
  ASSUME NEW row \in [Users -> Seats], NEW spells, NEW u \in Users, NEW d \in Departments,
         NEW lead \in BOOLEAN, Matches(row, spells, d)
  PROVE  Matches([row EXCEPT ![u] = As(lead)], AssignedSpells(row, spells, u, d, lead), d)
<1> DEFINE after == AssignedSpells(row, spells, u, d, lead)
<1>1. \A v \in Users \ {u} :
        /\ <<"joined", v, d>> \in after <=> <<"joined", v, d>> \in spells
        /\ <<"led", v, d>> \in after <=> <<"led", v, d>> \in spells
  BY DEF AssignedSpells
<1>2. <<"joined", u, d>> \in after
  BY DEF AssignedSpells, Matches
<1>3. <<"led", u, d>> \in after <=> lead
  BY DEF AssignedSpells, Matches
<1>4. QED
  BY <1>1, <1>2, <1>3 DEF Matches, As

(* Assigning in d says nothing of other departments. *)
LEMMA AssignedElsewhere ==
  ASSUME NEW row, NEW spells, NEW u, NEW d, NEW lead, NEW e, e # d, NEW s, NEW v
  PROVE  <<s, v, e>> \in AssignedSpells(row, spells, u, d, lead) <=> <<s, v, e>> \in spells
BY DEF AssignedSpells

LEMMA LogThroughAssign ==
  ASSUME TypeOK, LogInStep, NEW u \in Users, NEW d \in Departments, NEW lead \in BOOLEAN,
         CareerAssign(u, d, lead)
  PROVE  LogInStep'
<1>1. /\ seat'[d] = [seat[d] EXCEPT ![u] = As(lead)]
      /\ \A e \in Departments \ {d} : seat'[e] = seat[e]
      /\ open' = AssignedSpells(seat[d], open, u, d, lead)
      /\ seat[d] \in [Users -> Seats]
  BY DEF CareerAssign, TypeOK
<1>2. ASSUME NEW e \in Departments PROVE Matches(seat'[e], open', e)
  <2>1. Matches(seat[e], open, e)
    BY LogIsMatches
  <2>2. CASE e = d
    BY <1>1, <2>1, <2>2, AssignedMatches
  <2>3. CASE e # d
    BY <1>1, <2>1, <2>3, AssignedElsewhere DEF Matches
  <2>4. QED
    BY <2>2, <2>3
<1>3. QED
  BY <1>2 DEF LogInStep, Matches

LEMMA LogThroughRemove ==
  ASSUME TypeOK, LogInStep, NEW u \in Users, NEW d \in Departments,
         CareerRemove(u, d) \/ WorkspaceRemove(u, d)
  PROVE  LogInStep'
<1>1. CASE UNCHANGED <<seat, open>>
  BY <1>1 DEF LogInStep
<1>2. CASE /\ seat' = [seat EXCEPT ![d][u] = "none"]
           /\ open' = RemovedSpells(seat[d], open, u, d)
  BY <1>2 DEF RemovedSpells, LogInStep, TypeOK
<1>3. QED
  BY <1>1, <1>2 DEF CareerRemove, WorkspaceRemove

(* Transfer removes the user's spells in the other departments, all of them     *)
(* since the log matched, and none of anybody else's.                          *)
LEMMA LogThroughTransfer ==
  ASSUME TypeOK, LogInStep, NEW u \in Users, NEW d \in Departments, NEW lead \in BOOLEAN,
         CareerTransfer(u, d, lead)
  PROVE  LogInStep'
<1> DEFINE others == {e \in Departments \ {d} : u \in Staff(e)}
           removed == {s \in open : \E e \in others :
                                      s \notin RemovedSpells(seat[e], open, u, e)}
<1>1. /\ seat'[d] = [seat[d] EXCEPT ![u] = As(lead)]
      /\ \A e \in Departments \ {d} : seat'[e] = [seat[e] EXCEPT ![u] = "none"]
      /\ open' = AssignedSpells(seat[d], open \ removed, u, d, lead)
      /\ \A e \in Departments : seat[e] \in [Users -> Seats]
  BY DEF CareerTransfer, TypeOK
<1>2. \A s \in Spells, v \in Users, e \in Departments :
        <<s, v, e>> \in removed <=> <<s, v, e>> \in open /\ v = u /\ e # d
  <2> SUFFICES ASSUME NEW s \in Spells, NEW v \in Users, NEW e \in Departments
               PROVE  <<s, v, e>> \in removed <=> <<s, v, e>> \in open /\ v = u /\ e # d
    OBVIOUS
  <2>1. ASSUME <<s, v, e>> \in removed PROVE v = u /\ e # d
    BY <2>1 DEF RemovedSpells
  <2>2. ASSUME <<s, v, e>> \in open, v = u, e # d PROVE <<s, v, e>> \in removed
    <3>1. seat[e][u] # "none" /\ (s = "led" => seat[e][u] = "head")
      BY <2>2 DEF LogInStep, Spells
    <3>2. e \in others
      BY <2>2, <3>1 DEF Staff
    <3>3. <<s, v, e>> \notin RemovedSpells(seat[e], open, u, e)
      BY <2>2, <3>1 DEF RemovedSpells, Spells
    <3>4. QED
      BY <2>2, <3>2, <3>3
  <2>3. QED
    BY <2>1, <2>2
<1> HIDE DEF others, removed
<1>3. ASSUME NEW e \in Departments PROVE Matches(seat'[e], open', e)
  <2>1. Matches(seat[e], open, e)
    BY LogIsMatches
  <2>2. CASE e = d
    <3>1. Matches(seat[d], open \ removed, d)
      BY <1>2, <2>1, <2>2 DEF Matches, Spells
    <3>2. QED
      BY <1>1, <2>2, <3>1, AssignedMatches
  <2>3. CASE e # d
    <3>1. /\ \A v \in Users \ {u} : seat'[e][v] = seat[e][v]
          /\ seat'[e][u] = "none"
      <4>1. seat'[e] = [seat[e] EXCEPT ![u] = "none"] /\ seat[e] \in [Users -> Seats]
        BY <1>1, <2>3
      <4>2. QED
        BY <4>1
    <3>2. \A v \in Users, s \in Spells :
            <<s, v, e>> \in open \ removed <=> <<s, v, e>> \in open /\ v # u
      BY <1>2, <2>3
    <3>3. Matches(seat'[e], open \ removed, e)
      BY <2>1, <3>1, <3>2 DEF Matches, Spells
    <3>4. QED
      BY <1>1, <2>3, <3>3, AssignedElsewhere DEF Matches
  <2>4. QED
    BY <2>2, <2>3
<1>4. QED
  BY <1>3 DEF LogInStep, Matches

(* While rows change only through the career service, the open spells of its   *)
(* log are the rows: LogMatches, as its docstring requires of its callers.     *)
THEOREM CareerLogMatches == Spec => []LogMatches
<1> DEFINE Inv == TypeOK /\ (writers \subseteq CareerService => LogInStep)
<1>1. Init => Inv
  BY DEF Init, TypeOK, LogInStep, Seats
<1>2. Inv /\ [Next]_vars => Inv'
  <2> SUFFICES ASSUME Inv, [Next]_vars PROVE Inv'
    OBVIOUS
  <2>0. writers' = writers
    BY DEF Next, vars
  <2>1. TypeOK'
    BY Typed
  <2> SUFFICES ASSUME writers \subseteq CareerService
               PROVE  LogInStep'
    BY <2>0, <2>1
  <2>2. CASE UNCHANGED vars
    BY <2>1, <2>2 DEF vars, LogInStep
  <2>3. CASE Next
    BY <2>1, <2>3, LogThroughAssign, LogThroughRemove, LogThroughTransfer DEF Next, Step, CareerService, Kinds
  <2>4. QED
    BY <2>2, <2>3
<1>3. Inv => LogMatches
  BY DEF LogMatches
<1>4. QED
  BY <1>1, <1>2, <1>3, PTL DEF Spec
==================================================================================
