-------------------------- MODULE CollaborationProofs --------------------------
(***************************************************************************)
(* The owners of a chat, the questions put in it and the runs of the       *)
(* assistant; the boards, the tasks and the lists of events: for any       *)
(* number of people, requests, models, tasks and events.                   *)
(***************************************************************************)
EXTENDS ChatRooms, ChatQuestions, AiRuns, WorkspaceTasks, ContractTasks, EventFeeds,
        FiniteSetTheorems, SequenceTheorems, WellFoundedInduction, TLAPS

(* Of numbers one is the least. *)
LEMMA LeastThere == ASSUME NEW S \in SUBSET Nat, S # {} PROVE \E m \in S : \A k \in S : m <= k
<1>1. PICK m \in S : \A k \in S : <<k, m>> \notin OpToRel(<, Nat)
  BY WFMin, NatLessThanWellFounded, Zenon
<1>2. \A k \in S : ~ k < m
  BY <1>1, Zenon DEF OpToRel
<1>3. \A k \in S : m <= k
  BY <1>2
<1> QED
  BY <1>3

--------------------------------------------------------------------------------
(* The members of a chat *)

USE RoomAssumption

(* remove it or to give it another role, and until the chat is open it is not   *)
(* there or is an owner's already.                                              *)
FounderStays ==
  /\ rank[Founder] \in {"none", "owner"}
  /\ chat = "open" => rank[Founder] = "owner"

FounderSpared ==
  \A h \in Desks :
    /\ desk[h].kind = "role" /\ desk[h].of = Founder => desk[h].to = "owner"
    /\ desk[h].kind = "remove" => desk[h].of # Founder

RoomsInv == RoomsTyped /\ FounderSpared /\ (plain => FounderStays)

LEMMA RoomsBegin == RoomsInit => RoomsInv
BY DEF RoomsInit, RoomsInv, RoomsTyped, FounderStays, FounderSpared, Vacant, Errands

LEMMA RoomsStep == RoomsInv /\ [RoomsNext]_cvars => RoomsInv'
<1> SUFFICES ASSUME RoomsInv, [RoomsNext]_cvars PROVE RoomsInv'
  OBVIOUS
<1> USE DEF RoomsInv, RoomsTyped, FounderStays, FounderSpared, Errands, Vacant
<1>1. ASSUME NEW h \in Desks, StartChat(h) PROVE RoomsInv'
  BY <1>1 DEF StartChat
<1>2. ASSUME NEW h \in Desks, FinishChat(h) PROVE RoomsInv'
  BY <1>2 DEF FinishChat, Free
<1>3. ASSUME NEW u \in People, NEW v \in People, UpsertMember(u, v) PROVE RoomsInv'
  BY <1>3 DEF UpsertMember
<1>4. ASSUME NEW h \in Desks, NEW u \in People, NEW v \in People, StartRole(h, u, v)
      PROVE  RoomsInv'
  BY <1>4 DEF StartRole
<1>5. ASSUME NEW h \in Desks, FinishRole(h) PROVE RoomsInv'
  BY <1>5 DEF FinishRole, Free
<1>6. ASSUME NEW h \in Desks, NEW u \in People, NEW v \in People, StartRemove(h, u, v)
      PROVE  RoomsInv'
  BY <1>6 DEF StartRemove
<1>7. ASSUME NEW h \in Desks, FinishRemove(h) PROVE RoomsInv'
  BY <1>7 DEF FinishRemove
<1>8. CASE Restart
  BY <1>8 DEF Restart
<1>9. CASE UNCHANGED cvars
  BY <1>9 DEF cvars
<1> QED
  BY <1>1, <1>2, <1>3, <1>4, <1>5, <1>6, <1>7, <1>8, <1>9 DEF RoomsNext

(* The rows hold roles, and requests in flight are about rows that are there. *)
THEOREM RoomsTypeCorrect == RoomsSpec => []RoomsTyped
<1>1. RoomsInv => RoomsTyped
  BY DEF RoomsInv
<1> QED
  BY RoomsBegin, RoomsStep, <1>1, PTL DEF RoomsSpec

(* However demotions and removals overlap, an open chat keeps an owner while POST is *)
(* used for newcomers only.                                                          *)
THEOREM AnOwnerRemains == RoomsSpec => []OwnerRemains
<1>1. RoomsInv => OwnerRemains
  BY DEF RoomsInv, FounderStays, OwnerRemains
<1> QED
  BY RoomsBegin, RoomsStep, <1>1, PTL DEF RoomsSpec

HIDE RoomAssumption

--------------------------------------------------------------------------------
(* Questions in a chat *)

USE QuestionsAssumption

RatesInv ==
  /\ used \in [Payers -> Nat] /\ passed \in [Payers -> Nat]
  /\ \A x \in Payers : passed[x] <= used[x] /\ passed[x] <= Limit(x)

LEMMA LimitIs == \A x \in Payers : Limit(x) \in Nat
BY DEF Limit

LEMMA RatesBegin == QuestionsInit => RatesInv
BY LimitIs DEF QuestionsInit, RatesInv, Fresh

LEMMA CountKeepsRates ==
  ASSUME RatesInv, NEW x \in Payers, Count(x) PROVE RatesInv'
BY LimitIs DEF Count, RatesInv, Limit

LEMMA RatesStep == RatesInv /\ [QuestionsNext]_qvars => RatesInv'
<1> SUFFICES ASSUME RatesInv, [QuestionsNext]_qvars PROVE RatesInv'
  OBVIOUS
<1>1. ASSUME NEW h \in Lines, NEW u \in Askers, StartAsk(h, u) PROVE RatesInv'
  BY <1>1, CountKeepsRates DEF StartAsk, Payers
<1>2. ASSUME NEW h \in Lines, CountCompany(h) PROVE RatesInv'
  BY <1>2, CountKeepsRates DEF CountCompany, Payers
<1>3. ASSUME UNCHANGED rates PROVE RatesInv'
  BY <1>3 DEF rates, RatesInv, Limit
<1>4. CASE NextMinute \/ Outage
  BY <1>4, LimitIs DEF NextMinute, Outage, RatesInv, Fresh, Limit
<1>5. ASSUME NEW x \in Payers, DropCounter(x) PROVE RatesInv'
  BY <1>5, LimitIs DEF DropCounter, RatesInv, Limit
<1> QED
  BY <1>1, <1>2, <1>3, <1>4, <1>5
  DEF QuestionsNext, qvars, rates, Say, WriteQuestion, BuildContext, HearProvider,
      WriteAnswer, Withdraw

(* From the time a counter begins to count, no more requests get past it than its *)
(* limit, whatever is counted, thrown out or lost in between.                     *)
THEOREM RatesKept == QuestionsSpec => []RateKept
<1>1. RatesInv => RateKept
  BY DEF RatesInv, RateKept
<1> QED
  BY RatesBegin, RatesStep, <1>1, PTL DEF QuestionsSpec

(* A question on its way is a message of a user's, without an answer yet, and on *)
(* its way in one request only; that is what makes answering and withdrawing it  *)
(* safe.                                                                         *)
OnItsWay(h) == line[h].kind \in {"asked", "sent", "answering", "withdrawing"}

Posted ==
  /\ QuestionsTyped
  /\ \A i \in said : i < nextPost

QuestionsOpen ==
  \A h \in Lines : OnItsWay(h) =>
    /\ \E q \in post : q.id = line[h].question /\ q.by # Company
    /\ \A n \in post : n.by = Company => n.to # line[h].question
    /\ line[h].question \notin said
    /\ \A k \in Lines \ {h} : OnItsWay(k) => line[k].question # line[h].question

TalkInv == Posted /\ QuestionsOpen /\ AnswersStand /\ RatesInv

LEMMA TalkBegins == QuestionsInit => TalkInv
<1>1. QuestionsInit => RatesInv
  BY RatesBegin
<1> QED
  BY <1>1 DEF QuestionsInit, TalkInv, Posted, QuestionsTyped, QuestionsOpen, OnItsWay,
     AnswersStand, Silent, Talks, RatesInv

(* A user's message, said or asked, answers nothing and is answered by nothing. *)
LEMMA UserWrites ==
  ASSUME TalkInv, NEW u \in Askers, Write(u, 0)
  PROVE  /\ post \subseteq post' /\ post' \subseteq Posts
         /\ \A m \in post' : m.by = Company => m \in post
         /\ \A n \in post' : n.by = Company => n.to # nextPost
         /\ \E q \in post' : q.id = nextPost /\ q.by # Company
         /\ nextPost \in PostIds /\ nextPost' = nextPost + 1
         /\ nextPost' \in 1 .. MaxPosts + 1
         /\ \A m \in post' : m.id < nextPost'
         /\ \A m, n \in post' : m.id = n.id => m = n
         /\ AnswersStand => \A m \in post' : m.by = Company =>
              /\ \E q \in post' : q.id = m.to /\ q.id < m.id /\ q.by # Company
              /\ \A n \in post' : n.by = Company /\ n.to = m.to => n = m
<1> DEFINE new == [id |-> nextPost, by |-> u, to |-> 0]
<1> USE DEF TalkInv, Posted, QuestionsTyped
<1>1. /\ post' = post \cup {new} /\ nextPost' = nextPost + 1
      /\ nextPost \in PostIds /\ nextPost' \in 1 .. MaxPosts + 1
      /\ new.id = nextPost /\ new.by = u /\ u # Company
      /\ new \in Posts
  BY DEF Write, Payers, Posts, PostIds
<1>2. \A m \in post : m \in Posts /\ m.id \in Nat /\ m.id < nextPost
  BY DEF Posts, PostIds
<1>3. \A n \in post : n.by = Company => n.to # nextPost
  BY <1>2 DEF AnswersStand
<1> HIDE DEF new
<1>4. \A m \in post' : m.by = Company => m \in post
  BY <1>1
<1>5. \A m \in post' : m.id < nextPost'
  BY <1>1, <1>2
<1>6. \A m, n \in post' : m.id = n.id => m = n
  BY <1>1, <1>2
<1> QED
  BY <1>1, <1>3, <1>4, <1>5, <1>6 DEF AnswersStand

(* What a request reads of the messages does not change by steps that write none. *)
LEMMA TalkWithoutWriting ==
  ASSUME TalkInv, RatesInv', UNCHANGED posts, line' \in [Lines -> Talks],
         \A h \in Lines : OnItsWay(h)' => OnItsWay(h) /\ line'[h].question = line[h].question
  PROVE  TalkInv'
<1>1. Posted' /\ AnswersStand'
  BY DEF TalkInv, Posted, QuestionsTyped, AnswersStand, RatesInv, posts
<1>2. QuestionsOpen'
  BY DEF TalkInv, QuestionsOpen, OnItsWay, posts
<1> QED
  BY <1>1, <1>2 DEF TalkInv

LEMMA TalkStep == TalkInv /\ [QuestionsNext]_qvars => TalkInv'
<1> SUFFICES ASSUME TalkInv, [QuestionsNext]_qvars PROVE TalkInv'
  OBVIOUS
<1>0. RatesInv'
  BY RatesStep DEF TalkInv
<1> USE <1>0
<1>a. /\ line \in [Lines -> Talks] /\ Silent \in Talks /\ Silent.kind = "silent"
  BY DEF TalkInv, Posted, QuestionsTyped, Talks, Silent
<1>1. ASSUME NEW u \in Askers, Say(u) PROVE TalkInv'
  <2>1. Write(u, 0) /\ said' = said \cup {nextPost} /\ UNCHANGED line
    BY <1>1 DEF Say
  <2>2. Posted'
    <3>1. QuestionsTyped' /\ \A i \in said : i < nextPost /\ i \in Nat
      BY <2>1, UserWrites DEF TalkInv, Posted, QuestionsTyped, RatesInv, PostIds
    <3>2. \A i \in said' : i < nextPost'
      BY <2>1, <3>1, UserWrites DEF PostIds
    <3> QED
      BY <3>1, <3>2 DEF Posted
  <2>3. AnswersStand'
    BY <2>1, UserWrites DEF TalkInv, AnswersStand
  <2>4. QuestionsOpen'
    <3>1. \A h \in Lines : OnItsWay(h) => line[h].question # nextPost
      BY DEF TalkInv, QuestionsOpen, Posted, QuestionsTyped, OnItsWay, Posts, PostIds
    <3> QED
      BY <2>1, <3>1, UserWrites DEF TalkInv, QuestionsOpen, OnItsWay
  <2> QED
    BY <2>2, <2>3, <2>4 DEF TalkInv
<1>2. ASSUME NEW h \in Lines, WriteQuestion(h) PROVE TalkInv'
  <2> DEFINE u == line[h].by
  <2>0. line[h].kind = "admitted" /\ u \in Askers
    BY <1>2, <1>a DEF WriteQuestion, Talks, Silent
  <2>1. CASE /\ Write(u, 0) /\ UNCHANGED said
             /\ line' = [line EXCEPT ![h] = [kind |-> "asked", question |-> nextPost]]
    <3>1. line' \in [Lines -> Talks]
      BY <2>0, <2>1, <1>a, UserWrites DEF Talks
    <3>2. Posted'
      <4>1. QuestionsTyped' /\ \A i \in said : i < nextPost /\ i \in Nat
        BY <2>0, <2>1, <3>1, UserWrites DEF TalkInv, Posted, QuestionsTyped, RatesInv, PostIds
      <4>2. \A i \in said' : i < nextPost'
        BY <2>0, <2>1, <4>1, UserWrites DEF PostIds
      <4> QED
        BY <4>1, <4>2 DEF Posted
    <3>3. AnswersStand'
      BY <2>0, <2>1, UserWrites DEF TalkInv, AnswersStand
    <3>4. \A k \in Lines : OnItsWay(k) => line[k].question # nextPost
      BY DEF TalkInv, QuestionsOpen, Posted, QuestionsTyped, OnItsWay, Posts, PostIds
    <3>5. nextPost \notin said
      BY DEF TalkInv, Posted, QuestionsTyped, PostIds
    <3>6. QuestionsOpen'
      BY <2>0, <2>1, <1>a, <3>4, <3>5, UserWrites DEF TalkInv, QuestionsOpen, OnItsWay
    <3> QED
      BY <3>2, <3>3, <3>6 DEF TalkInv
  <2>2. CASE UNCHANGED posts /\ line' = [line EXCEPT ![h] = Silent]
    BY <2>2, <1>a, TalkWithoutWriting DEF OnItsWay
  <2> QED
    BY <1>2, <2>1, <2>2 DEF WriteQuestion, HangUp, posts
<1>3. ASSUME NEW h \in Lines, WriteAnswer(h) PROVE TalkInv'
  <2> DEFINE put == line[h].question
             new == [id |-> nextPost, by |-> Company, to |-> put]
  <2>0. /\ OnItsWay(h) /\ put \in PostIds
        /\ line' = [line EXCEPT ![h] = Silent] /\ UNCHANGED said
    BY <1>3, <1>a DEF WriteAnswer, HangUp, OnItsWay, Talks, Silent
  <2>1. /\ post' = post \cup {new} /\ nextPost' = nextPost + 1
        /\ nextPost \in PostIds /\ nextPost' \in 1 .. MaxPosts + 1
        /\ new \in Posts /\ new.id = nextPost /\ new.by = Company /\ new.to = put
    BY <1>3, <2>0 DEF WriteAnswer, Write, TalkInv, Posted, QuestionsTyped, PostIds, Posts, Payers
  <2>2. \A m \in post : m \in Posts /\ m.id \in PostIds /\ m.id < nextPost
    BY DEF TalkInv, Posted, QuestionsTyped, Posts
  <2>3. \A n \in post : n.by = Company => n.to # put
    BY <2>0 DEF TalkInv, QuestionsOpen
  <2>4. PICK q \in post : q.id = put /\ q.by # Company
    BY <2>0 DEF TalkInv, QuestionsOpen
  <2> HIDE DEF new, put
  <2>5. Posted'
    <3>1. \A i \in said : i \in PostIds /\ i < nextPost
      BY DEF TalkInv, Posted, QuestionsTyped
    <3>2. \A i \in said' : i < nextPost'
      BY <2>0, <2>1, <3>1 DEF PostIds
    <3>3. \A m \in post' : m.id < nextPost'
      BY <2>1, <2>2 DEF PostIds
    <3>4. \A m, n \in post' : m.id = n.id => m = n
      BY <2>1, <2>2 DEF TalkInv, Posted, QuestionsTyped, PostIds
    <3> QED
      BY <1>a, <2>0, <2>1, <3>2, <3>3, <3>4 DEF TalkInv, Posted, QuestionsTyped, RatesInv
  <2>6. AnswersStand'
    BY <2>0, <2>1, <2>2, <2>3, <2>4 DEF TalkInv, AnswersStand
  <2>7. QuestionsOpen'
    <3>1. ASSUME NEW k \in Lines, OnItsWay(k)'
          PROVE  k # h /\ OnItsWay(k) /\ line'[k] = line[k] /\ line[k].question # put
      BY <2>0, <1>a, <3>1 DEF OnItsWay, TalkInv, QuestionsOpen, put
    <3> QED
      BY <2>0, <2>1, <3>1 DEF TalkInv, QuestionsOpen
  <2> QED
    BY <1>0, <2>5, <2>6, <2>7 DEF TalkInv
<1>4. ASSUME NEW h \in Lines, Withdraw(h) PROVE TalkInv'
  <2>1. CASE UNCHANGED post
    BY <1>4, <2>1, <1>a, TalkWithoutWriting DEF Withdraw, HangUp, posts, OnItsWay
  <2>2. CASE post' = {m \in post : m.id # line[h].question}
    <3>0. /\ OnItsWay(h) /\ line' = [line EXCEPT ![h] = Silent] /\ UNCHANGED <<nextPost, said>>
          /\ post' \subseteq post
      BY <1>4, <2>2 DEF Withdraw, HangUp, OnItsWay
    <3>1. Posted'
      BY <3>0, <1>a DEF TalkInv, Posted, QuestionsTyped, RatesInv
    <3>2. AnswersStand'
      <4>1. \A m \in post : m.by = Company => m.to # line[h].question
        BY <3>0 DEF TalkInv, QuestionsOpen
      <4>2. line[h].question \notin said
        BY <3>0 DEF TalkInv, QuestionsOpen
      <4> QED
        BY <2>2, <3>0, <4>1, <4>2 DEF TalkInv, AnswersStand
    <3>3. QuestionsOpen'
      <4>1. ASSUME NEW k \in Lines, OnItsWay(k)'
            PROVE  k # h /\ OnItsWay(k) /\ line'[k] = line[k]
                   /\ line[k].question # line[h].question
        BY <3>0, <1>a, <4>1 DEF OnItsWay, TalkInv, QuestionsOpen
      <4> QED
        BY <2>2, <3>0, <4>1 DEF TalkInv, QuestionsOpen
    <3> QED
      BY <1>0, <3>1, <3>2, <3>3 DEF TalkInv
  <2> QED
    BY <1>4, <2>1, <2>2 DEF Withdraw
<1>5. ASSUME NEW h \in Lines, NEW u \in Askers, StartAsk(h, u) PROVE TalkInv'
  <2>1. line'[h] \in Talks /\ ~ OnItsWay(h)'
    BY <1>5, <1>a DEF StartAsk, Talks, OnItsWay, Silent
  <2> QED
    BY <1>5, <2>1, <1>a, TalkWithoutWriting DEF StartAsk, OnItsWay
<1>6. ASSUME NEW h \in Lines, CountCompany(h) PROVE TalkInv'
  <2>1. line'[h] \in Talks /\ ~ OnItsWay(h)'
    BY <1>6, <1>a DEF CountCompany, Talks, OnItsWay, Silent
  <2> QED
    BY <1>6, <2>1, <1>a, TalkWithoutWriting DEF CountCompany, OnItsWay
<1>7. ASSUME NEW h \in Lines, BuildContext(h) \/ HearProvider(h) PROVE TalkInv'
  <2>1. OnItsWay(h) /\ UNCHANGED posts
    BY <1>7 DEF BuildContext, HearProvider, OnItsWay
  <2>2. \/ line' = [line EXCEPT ![h] = Silent]
        \/ \E what \in {"sent", "answering", "withdrawing"} :
             line' = [line EXCEPT ![h] = [kind |-> what, question |-> line[h].question]]
    BY <1>7, <2>1, <1>a DEF BuildContext, HearProvider, HangUp, Talks, OnItsWay, Silent
  <2>3. line' \in [Lines -> Talks]
    BY <2>1, <2>2, <1>a DEF Talks, OnItsWay, Silent
  <2> QED
    BY <2>1, <2>2, <2>3, <1>a, TalkWithoutWriting DEF OnItsWay
<1>8. CASE NextMinute \/ UNCHANGED qvars \/ \E x \in Payers : DropCounter(x)
  BY <1>8, <1>a, TalkWithoutWriting DEF NextMinute, DropCounter, qvars, posts, OnItsWay
<1>9. CASE Outage
  BY <1>9, <1>a, TalkWithoutWriting DEF Outage, OnItsWay
<1> QED
  BY <1>1, <1>2, <1>3, <1>4, <1>5, <1>6, <1>7, <1>8, <1>9 DEF QuestionsNext

(* Ids are handed out once, and the rows and counters keep their types. *)
THEOREM QuestionsTypeCorrect == QuestionsSpec => []QuestionsTyped
<1>1. TalkInv => QuestionsTyped
  BY DEF TalkInv, Posted
<1> QED
  BY TalkBegins, TalkStep, <1>1, PTL DEF QuestionsSpec

(* However questions and messages overlap, fail or are lost in a crash, an answer *)
(* follows its question, a question has one answer at most, and no message but    *)
(* the question that failed is taken back.                                        *)
THEOREM AnswersAlwaysStand == QuestionsSpec => []AnswersStand
<1>1. TalkInv => AnswersStand
  BY DEF TalkInv
<1> QED
  BY TalkBegins, TalkStep, <1>1, PTL DEF QuestionsSpec

HIDE QuestionsAssumption

--------------------------------------------------------------------------------
(* AI runs *)

USE GatewayAssumption

(* The request an execution may be in the middle of, with what it keeps there. *)
Places == {NotBegun}
  \cup [at : {"loaded", "killed"}, of : Runs, named : Providers \cup {Unnamed}]
  \cup [at : {"asking", "answered", "audit", "failing", "over"}, of : Runs,
        named : Providers \cup {Unnamed}, left : Seq(Providers), tries : Nat]
  \cup [at : {"heard"}, of : Runs, named : Providers \cup {Unnamed}, left : Seq(Providers),
        tries : Nat, heard : Outcomes]

RunRows == [status : {"none", "pending", "running", "completed", "failed"},
            provider : Providers \cup {Unnamed}, answer : Executions \cup {Unnamed},
            error : BOOLEAN]

RunsPlaced ==
  /\ run \in [Runs -> RunRows]
  /\ exe \in [Executions -> Places]
  /\ asked \in [Executions -> Seq(Providers \X {"success", "error"})]
  /\ active \subseteq Providers
  /\ \A e \in Executions : exe[e].at # "waiting" => run[exe[e].of] # NoRun

(* Who is asked first, and how often before the next one's turn comes. *)
First(e) == IF exe[e].named = Unnamed THEN Primary ELSE exe[e].named
TriesOf(p) == IF p \in Adapters THEN Retries ELSE 1

(* The first a entries of the log are about the first candidate, the next b about the *)
(* fallback; whatever comes before the last one is an error.                          *)
AskedTo(e, a, b) ==
  /\ Len(asked[e]) = a + b
  /\ a <= TriesOf(First(e)) /\ b <= TriesOf(FallbackModel)
  /\ b > 0 => exe[e].named = Unnamed /\ FallbackModel # Primary /\ a = TriesOf(First(e))
  /\ \A i \in 1 .. a : asked[e][i][1] = First(e)
  /\ \A i \in (a + 1) .. (a + b) : asked[e][i][1] = FallbackModel
  /\ \A i \in 1 .. (a + b) : i < a + b => asked[e][i][2] = "error"

AllErrors(e) == \A i \in 1 .. Len(asked[e]) : asked[e][i][2] = "error"

(* Where in the log the candidate is whose turn it is, n times asked so far. *)
Asking(e, a, b, n) ==
  /\ AllErrors(e)
  /\ \/ exe[e].left = Candidates(exe[e].named) /\ b = 0 /\ a = n /\ n < TriesOf(First(e))
     \/ /\ exe[e].left = <<FallbackModel>> /\ exe[e].named = Unnamed /\ FallbackModel # Primary
        /\ a = TriesOf(First(e)) /\ b = n /\ n < TriesOf(FallbackModel)

LogKept(e) ==
  IF exe[e].at = "waiting" THEN asked[e] = <<>>
  ELSE \E a, b \in Nat :
    /\ AskedTo(e, a, b)
    /\ exe[e].at = "loaded" => a = 0 /\ b = 0
    /\ exe[e].at = "asking" => Asking(e, a, b, exe[e].tries)
    /\ exe[e].at = "heard" => /\ exe[e].tries > 0 /\ Asking(e, a, b, exe[e].tries - 1)
                              /\ Head(exe[e].left) \in Adapters

(* A log whose last entry is the answer of p. *)
EndsWith(log, p) == log # <<>> /\ log[Len(log)] = <<p, "success">>
Past == {"audit", "failing", "over", "killed"}

AnswersKept ==
  /\ \A e \in Executions : exe[e].at \in {"answered", "audit"} =>
        exe[e].left # <<>> /\ EndsWith(asked[e], Head(exe[e].left))
  /\ \A r \in Runs : run[r].answer # Unnamed =>
        exe[run[r].answer].at \in Past /\ EndsWith(asked[run[r].answer], run[r].provider)
  /\ \A r \in Runs : run[r].status = "completed" => run[r].answer # Unnamed /\ ~ run[r].error
  /\ \A r \in Runs : run[r].status = "failed" => run[r].error

RunsInv == RunsPlaced /\ AnswersKept /\ (\A e \in Executions : LogKept(e))

LEMMA CandidatesMade ==
  ASSUME NEW p \in Providers \cup {Unnamed}
  PROVE  /\ Candidates(p) \in Seq(Providers) /\ Candidates(p) # <<>>
         /\ Head(Candidates(p)) = IF p = Unnamed THEN Primary ELSE p
         /\ \/ Len(Candidates(p)) = 1
            \/ /\ Tail(Candidates(p)) = <<FallbackModel>> /\ Len(Candidates(p)) = 2
               /\ p = Unnamed /\ FallbackModel # Primary
BY DEF Candidates

LEMMA RunsBegin == RunsInit => RunsInv
<1> SUFFICES ASSUME RunsInit PROVE RunsInv
  OBVIOUS
<1>1. RunsPlaced
  BY DEF RunsInit, RunsPlaced, Places, RunRows, NoRun, NotBegun
<1>2. AnswersKept
  BY DEF RunsInit, AnswersKept, NoRun, NotBegun
<1>3. \A e \in Executions : LogKept(e)
  BY DEF RunsInit, LogKept, NotBegun
<1> QED
  BY <1>1, <1>2, <1>3 DEF RunsInv

(* Each place a request can be in, with what it has there. *)
LEMMA PlaceOf ==
  ASSUME RunsPlaced, NEW e \in Executions
  PROVE  /\ exe[e].at \in {"waiting", "over", "killed"} \cup UnderWay
         /\ exe[e].at = "waiting" => exe[e] = NotBegun
         /\ exe[e].at # "waiting" =>
              exe[e].of \in Runs /\ exe[e].named \in Providers \cup {Unnamed}
         /\ exe[e].at \in {"loaded", "killed"} =>
              exe[e] = [at |-> exe[e].at, of |-> exe[e].of, named |-> exe[e].named]
         /\ exe[e].at \in {"asking", "heard", "answered", "audit", "failing", "over"} =>
              exe[e].left \in Seq(Providers) /\ exe[e].tries \in Nat
         /\ exe[e].at \in {"asking", "answered", "audit", "failing", "over"} =>
              exe[e] = [at |-> exe[e].at, of |-> exe[e].of, named |-> exe[e].named,
                        left |-> exe[e].left, tries |-> exe[e].tries]
         /\ exe[e].at = "heard" => exe[e].heard \in Outcomes
<1> exe[e] \in Places
  BY DEF RunsPlaced
<1>1. CASE exe[e] = NotBegun
  BY <1>1 DEF NotBegun, UnderWay
<1>2. CASE exe[e] \in [at : {"loaded", "killed"}, of : Runs, named : Providers \cup {Unnamed}]
  BY <1>2 DEF UnderWay
<1>3. CASE exe[e] \in [at : {"asking", "answered", "audit", "failing", "over"}, of : Runs,
                       named : Providers \cup {Unnamed}, left : Seq(Providers), tries : Nat]
  BY <1>3 DEF UnderWay
<1>4. CASE exe[e] \in [at : {"heard"}, of : Runs, named : Providers \cup {Unnamed},
                       left : Seq(Providers), tries : Nat, heard : Outcomes]
  BY <1>4 DEF UnderWay
<1> QED
  BY <1>1, <1>2, <1>3, <1>4 DEF Places

LEMMA InTurn ==
  ASSUME RunsInv, NEW e \in Executions, exe[e].at \in {"asking", "heard", "answered", "audit"}
  PROVE  exe[e].left # <<>> /\ Head(exe[e].left) \in Providers
<1>1. exe[e].left \in Seq(Providers)
  BY PlaceOf DEF RunsInv
<1>2. exe[e].left # <<>>
  <2>1. CASE exe[e].at \in {"answered", "audit"}
    BY <2>1 DEF RunsInv, AnswersKept
  <2>2. CASE exe[e].at \in {"asking", "heard"}
    <3>1. exe[e].left = Candidates(exe[e].named) \/ exe[e].left = <<FallbackModel>>
      BY <2>2 DEF RunsInv, LogKept, Asking
    <3>2. exe[e].named \in Providers \cup {Unnamed}
      BY PlaceOf, <2>2 DEF RunsInv
    <3>3. Candidates(exe[e].named) # <<>>
      BY <3>2, CandidatesMade
    <3> QED
      BY <3>1, <3>3
  <2> QED
    BY <2>1, <2>2
<1> QED
  BY <1>1, <1>2

(* Nothing an execution does not do itself moves it or its log. *)
LEMMA LogFrame ==
  ASSUME NEW e, LogKept(e), exe'[e] = exe[e], asked'[e] = asked[e]
  PROVE  LogKept(e)'
<1>1. AllErrors(e)' <=> AllErrors(e)
  BY DEF AllErrors
<1>2. First(e)' = First(e)
  BY DEF First
<1>3. \A a, b : AskedTo(e, a, b)' <=> AskedTo(e, a, b)
  BY <1>2 DEF AskedTo, TriesOf
<1>4. \A a, b, n : Asking(e, a, b, n)' <=> Asking(e, a, b, n)
  BY <1>1, <1>2 DEF Asking, TriesOf
<1>5. CASE exe[e].at = "waiting"
  BY <1>5 DEF LogKept
<1>6. CASE exe[e].at # "waiting"
  <2>1. PICK a \in Nat, b \in Nat :
          /\ AskedTo(e, a, b)
          /\ exe[e].at = "loaded" => a = 0 /\ b = 0
          /\ exe[e].at = "asking" => Asking(e, a, b, exe[e].tries)
          /\ exe[e].at = "heard" => /\ exe[e].tries > 0 /\ Asking(e, a, b, exe[e].tries - 1)
                                    /\ Head(exe[e].left) \in Adapters
    BY <1>6 DEF LogKept
  <2> QED
    BY <1>3, <1>4, <1>6, <2>1 DEF LogKept
<1> QED
  BY <1>5, <1>6

LEMMA OnToNext ==
  ASSUME NEW x \in [at : {"asking"}, of : Runs, named : Providers \cup {Unnamed},
                    left : Seq(Providers), tries : Nat],
         x.left # <<>>
  PROVE  /\ NextCandidate(x) \in [at : {"asking", "failing"}, of : {x.of}, named : {x.named},
                                  left : Seq(Providers), tries : {0}]
         /\ NextCandidate(x).left = Tail(x.left)
         /\ NextCandidate(x).at = "asking" <=> Len(x.left) # 1
         /\ NextCandidate(x).tries = 0
<1>1. Tail(x.left) \in Seq(Providers)
  OBVIOUS
<1> QED
  BY <1>1 DEF NextCandidate

(* Where the log ends when the candidate whose turn it is was asked once more. *)
AskedMore(e, c, d, n) ==
  \/ exe[e].left = Candidates(exe[e].named) /\ d = 0 /\ c = n + 1
  \/ /\ exe[e].left = <<FallbackModel>> /\ exe[e].named = Unnamed
     /\ FallbackModel # Primary /\ c = TriesOf(First(e)) /\ d = n + 1

LEMMA NotTheLast ==
  ASSUME NEW a \in Nat, NEW b \in Nat, NEW i \in (a + 1) .. (a + (b + 1)), i # a + b + 1
  PROVE  i \in Int /\ a + 1 <= i /\ i <= a + b
OBVIOUS

LEMMA OneMore ==
  ASSUME RunsPlaced, NEW e \in Executions, NEW a \in Nat, NEW b \in Nat, NEW n \in Nat,
         AskedTo(e, a, b), Asking(e, a, b, n), exe[e].at # "waiting",
         NEW how \in {"success", "error"},
         asked'[e] = Append(asked[e], <<Head(exe[e].left), how>>),
         exe'[e].named = exe[e].named
  PROVE  \E c, d \in Nat :
           /\ AskedTo(e, c, d)' /\ asked'[e][Len(asked'[e])] = <<Head(exe[e].left), how>>
           /\ how = "error" => AllErrors(e)'
           /\ AskedMore(e, c, d, n)
<1> DEFINE log == asked[e]
           f == First(e)
<1>1. log \in Seq(Providers \X {"success", "error"}) /\ Len(log) = a + b
  BY DEF RunsPlaced, AskedTo
<1>2. exe[e].named \in Providers \cup {Unnamed}
  BY PlaceOf
<1>3. TriesOf(f) \in Nat /\ TriesOf(FallbackModel) \in Nat
  BY DEF TriesOf, Retries
<1>4. First(e)' = f
  BY DEF First
<1>5. PICK l2 : l2 = asked'[e]
  OBVIOUS
<1>6. /\ Len(l2) = a + b + 1 /\ l2[a + b + 1] = <<Head(exe[e].left), how>>
      /\ \A i \in 1 .. (a + b) : l2[i] = log[i]
  BY <1>1, <1>5
<1>7. how = "error" => AllErrors(e)'
  <2> SUFFICES ASSUME how = "error" PROVE \A i \in 1 .. Len(l2) : l2[i][2] = "error"
    BY <1>5 DEF AllErrors
  <2> QED
    BY <1>1, <1>6 DEF Asking, AllErrors
<1>8. \A i \in 1 .. (a + b) : l2[i][2] = "error"
  BY <1>1, <1>6 DEF Asking, AllErrors
<1>11. asked'[e][Len(asked'[e])] = <<Head(exe[e].left), how>>
  BY <1>5, <1>6
<1>9. CASE exe[e].left = Candidates(exe[e].named) /\ b = 0 /\ a = n /\ n < TriesOf(f)
  <2>1. Head(exe[e].left) = f
    BY <1>9, <1>2, CandidatesMade DEF First
  <2>2. \A i \in 1 .. (a + 1) : l2[i][1] = f
    BY <1>9, <1>6, <2>1 DEF AskedTo
  <2>3. AskedTo(e, a + 1, 0)'
    BY <1>9, <1>6, <1>3, <1>4, <1>5, <1>8, <2>2 DEF AskedTo, TriesOf
  <2>4. AskedMore(e, a + 1, 0, n)
    BY <1>9 DEF AskedMore
  <2> QED
    BY <2>3, <2>4, <1>7, <1>11
<1>10. CASE /\ exe[e].left = <<FallbackModel>> /\ exe[e].named = Unnamed
            /\ FallbackModel # Primary /\ a = TriesOf(f) /\ b = n /\ n < TriesOf(FallbackModel)
  <2>1. \A i \in 1 .. a : l2[i][1] = f
    BY <1>6 DEF AskedTo
  <2>2. \A i \in (a + 1) .. (a + (b + 1)) : l2[i][1] = FallbackModel
    <3>1. ASSUME NEW i \in (a + 1) .. (a + (b + 1)) PROVE l2[i][1] = FallbackModel
      <4>1. CASE i = a + b + 1
        BY <1>10, <1>6, <4>1
      <4>2. CASE i # a + b + 1
        <5>1. i \in Int /\ a + 1 <= i /\ i <= a + b
          BY <4>2, NotTheLast
        <5> QED
          BY <5>1, <1>6 DEF AskedTo
      <4> QED
        BY <4>1, <4>2
    <3> QED
      BY <3>1
  <2>3. AskedTo(e, a, b + 1)'
    BY <1>10, <1>6, <1>3, <1>4, <1>5, <1>8, <2>1, <2>2 DEF AskedTo, TriesOf
  <2>4. AskedMore(e, a, b + 1, n)
    BY <1>10 DEF AskedMore
  <2> QED
    BY <2>3, <2>4, <1>7, <1>11
<1> QED
  BY <1>9, <1>10 DEF Asking

(* An execution that goes from one place to another, and may save its run. *)
LEMMA PlacedMove ==
  ASSUME RunsPlaced, NEW e \in Executions, exe[e].at # "waiting",
         NEW x \in Places, x.at # "waiting", x.of = exe[e].of,
         exe' = [exe EXCEPT ![e] = x],
         asked' \in [Executions -> Seq(Providers \X {"success", "error"})],
         active' = active,
         \/ run' = run
         \/ \E y \in RunRows : run' = [run EXCEPT ![exe[e].of] = y] /\ y # NoRun
  PROVE  RunsPlaced'
<1>1. exe' \in [Executions -> Places]
  BY DEF RunsPlaced
<1>2. exe[e].of \in Runs
  BY PlaceOf
<1>3. run' \in [Runs -> RunRows] /\ \A r \in Runs : run[r] # NoRun => run'[r] # NoRun
  BY <1>2 DEF RunsPlaced
<1>4. ASSUME NEW d \in Executions, exe'[d].at # "waiting" PROVE run'[exe'[d].of] # NoRun
  <2>1. exe[d].at # "waiting" /\ exe'[d].of = exe[d].of
    BY <1>4 DEF RunsPlaced
  <2>2. exe[d].of \in Runs /\ run[exe[d].of] # NoRun
    BY <2>1, PlaceOf DEF RunsPlaced
  <2> QED
    BY <2>1, <2>2, <1>3
<1> QED
  BY <1>1, <1>3, <1>4 DEF RunsPlaced

Resting == {"asking", "answered", "audit", "failing", "over"}

LEMMA PlacedAt ==
  ASSUME RunsPlaced, NEW e \in Executions, exe[e].at \in Resting, NEW at \in Resting
  PROVE  /\ [exe[e] EXCEPT !.at = at] \in Places
         /\ [exe[e] EXCEPT !.at = at].at = at
         /\ [exe[e] EXCEPT !.at = at].of = exe[e].of
         /\ [exe[e] EXCEPT !.at = at].named = exe[e].named
         /\ [exe EXCEPT ![e].at = at] = [exe EXCEPT ![e] = [exe[e] EXCEPT !.at = at]]
<1>1. exe[e] \in [at : Resting, of : Runs, named : Providers \cup {Unnamed},
                 left : Seq(Providers), tries : Nat]
  <2>1. /\ exe[e].of \in Runs /\ exe[e].named \in Providers \cup {Unnamed}
        /\ exe[e].left \in Seq(Providers) /\ exe[e].tries \in Nat
        /\ exe[e] = [at |-> exe[e].at, of |-> exe[e].of, named |-> exe[e].named,
                     left |-> exe[e].left, tries |-> exe[e].tries]
    BY PlaceOf DEF Resting
  <2> QED
    BY <2>1
<1>2. [exe[e] EXCEPT !.at = at] \in [at : Resting, of : Runs, named : Providers \cup {Unnamed},
                                    left : Seq(Providers), tries : Nat]
  BY <1>1
<1>3. [exe[e] EXCEPT !.at = at] \in Places
  BY <1>2 DEF Places, Resting
<1> QED
  BY <1>1, <1>3 DEF RunsPlaced

LEMMA PlacedStep == RunsInv /\ [RunsNext]_avars => RunsPlaced'
<1> SUFFICES ASSUME RunsInv, [RunsNext]_avars PROVE RunsPlaced'
  OBVIOUS
<1> USE DEF RunsPlaced
<1>0. RunsPlaced
  BY DEF RunsInv
<1>1. ASSUME NEW r \in Runs, CreateRun(r) PROVE RunsPlaced'
  <2>1. PICK named \in Providers \cup {Unnamed} :
          run' = [run EXCEPT ![r] = [NoRun EXCEPT !.status = "pending", !.provider = named]]
    BY <1>1 DEF CreateRun
  <2>2. [NoRun EXCEPT !.status = "pending", !.provider = named] \in RunRows
    BY DEF NoRun, RunRows
  <2>3. [NoRun EXCEPT !.status = "pending", !.provider = named] # NoRun
    BY DEF NoRun
  <2> QED
    BY <1>0, <1>1, <2>1, <2>2, <2>3, PlaceOf DEF CreateRun
<1>2. ASSUME NEW e \in Executions, NEW r \in Runs, LoadRun(e, r) PROVE RunsPlaced'
  <2>1. [at |-> "loaded", of |-> r, named |-> run[r].provider] \in Places
    BY <1>0 DEF Places, RunRows
  <2> QED
    BY <1>0, <1>2, <2>1, PlaceOf DEF LoadRun
<1>3. ASSUME NEW e \in Executions, StartRun(e) PROVE RunsPlaced'
  <2>1. /\ exe[e].of \in Runs /\ exe[e].named \in Providers \cup {Unnamed}
        /\ exe[e].at # "waiting" /\ run[exe[e].of] \in RunRows
    BY <1>0, <1>3, PlaceOf DEF StartRun
  <2>2. PICK at \in {"asking", "failing"} :
          exe' = [exe EXCEPT ![e] =
                    [at |-> at, of |-> exe[e].of, named |-> exe[e].named,
                     left |-> Candidates(exe[e].named), tries |-> 0]]
    BY <1>3 DEF StartRun
  <2>3. [at |-> at, of |-> exe[e].of, named |-> exe[e].named,
         left |-> Candidates(exe[e].named), tries |-> 0] \in Places
    BY <2>1, CandidatesMade DEF Places
  <2>4. PICK y \in RunRows : run' = [run EXCEPT ![exe[e].of] = y] /\ y # NoRun
    <3>1. run' = [run EXCEPT ![exe[e].of] =
                    [run[exe[e].of] EXCEPT !.status = "running", !.error = FALSE]]
      BY <1>0, <1>3, <2>1 DEF StartRun
    <3>2. [run[exe[e].of] EXCEPT !.status = "running", !.error = FALSE] \in RunRows
      BY <2>1 DEF RunRows
    <3>3. [run[exe[e].of] EXCEPT !.status = "running", !.error = FALSE] # NoRun
      BY <2>1 DEF RunRows, NoRun
    <3> QED
      BY <3>1, <3>2, <3>3
  <2>5. asked' \in [Executions -> Seq(Providers \X {"success", "error"})] /\ active' = active
    BY <1>0, <1>3 DEF StartRun
  <2> HIDE DEF RunsPlaced
  <2> QED
    BY <1>0, <2>1, <2>2, <2>3, <2>4, <2>5, PlacedMove
<1>4. ASSUME NEW e \in Executions, SkipCandidate(e) PROVE RunsPlaced'
  <2>1. /\ exe[e].left # <<>> /\ Head(exe[e].left) \in Providers
        /\ exe[e].of \in Runs /\ exe[e].at # "waiting"
        /\ exe[e] \in [at : {"asking"}, of : Runs, named : Providers \cup {Unnamed},
                       left : Seq(Providers), tries : Nat]
    BY <1>0, <1>4, PlaceOf, InTurn DEF SkipCandidate
  <2>2. exe' = [exe EXCEPT ![e] = NextCandidate(exe[e])] /\ active' = active /\ run' = run
    BY <1>0, <1>4 DEF SkipCandidate
  <2>3. NextCandidate(exe[e]) \in [at : {"asking", "failing"}, of : {exe[e].of},
                                  named : {exe[e].named}, left : Seq(Providers), tries : {0}]
    BY <2>1, OnToNext
  <2>4. NextCandidate(exe[e]) \in Places
    BY <2>1, <2>3 DEF Places
  <2>5. asked' \in [Executions -> Seq(Providers \X {"success", "error"})]
    BY <1>0, <1>4, <2>1 DEF SkipCandidate
  <2> HIDE DEF RunsPlaced
  <2> QED
    BY <1>0, <2>1, <2>2, <2>3, <2>4, <2>5, PlacedMove
<1>5. ASSUME NEW e \in Executions, AskProvider(e) PROVE RunsPlaced'
  <2>1. /\ exe[e].of \in Runs /\ exe[e].at # "waiting"
        /\ exe[e] \in [at : {"asking"}, of : Runs, named : Providers \cup {Unnamed},
                       left : Seq(Providers), tries : Nat]
    BY <1>0, <1>5, PlaceOf DEF AskProvider
  <2>2. PICK outcome \in Outcomes :
          exe' = [exe EXCEPT ![e] =
                    [at |-> "heard", of |-> exe[e].of, named |-> exe[e].named,
                     left |-> exe[e].left, tries |-> exe[e].tries + 1, heard |-> outcome]]
    BY <1>0, <1>5 DEF AskProvider
  <2>3. [at |-> "heard", of |-> exe[e].of, named |-> exe[e].named, left |-> exe[e].left,
         tries |-> exe[e].tries + 1, heard |-> outcome] \in Places
    BY <2>1 DEF Places
  <2>4. /\ asked' \in [Executions -> Seq(Providers \X {"success", "error"})]
        /\ active' = active /\ run' = run
    BY <1>0, <1>5 DEF AskProvider
  <2> HIDE DEF RunsPlaced
  <2> QED
    BY <1>0, <2>1, <2>2, <2>3, <2>4, PlacedMove
<1>6. ASSUME NEW e \in Executions, LogAsking(e) PROVE RunsPlaced'
  <2>1. /\ exe[e].left # <<>> /\ Head(exe[e].left) \in Providers
        /\ exe[e].of \in Runs /\ exe[e].at # "waiting"
        /\ exe[e].named \in Providers \cup {Unnamed}
        /\ exe[e].left \in Seq(Providers) /\ exe[e].tries \in Nat
    BY <1>0, <1>6, PlaceOf, InTurn DEF LogAsking
  <2>2. PICK back : back = [at |-> "asking", of |-> exe[e].of, named |-> exe[e].named,
                            left |-> exe[e].left, tries |-> exe[e].tries]
    OBVIOUS
  <2>3. /\ back \in [at : {"asking"}, of : Runs, named : Providers \cup {Unnamed},
                     left : Seq(Providers), tries : Nat]
        /\ back.left # <<>> /\ back.of = exe[e].of
    BY <2>1, <2>2
  <2>4. PICK x \in Places :
          /\ exe' = [exe EXCEPT ![e] = x] /\ x.at # "waiting" /\ x.of = exe[e].of
    <3>1. exe' = [exe EXCEPT ![e] = IF exe[e].heard = "success" THEN [back EXCEPT !.at = "answered"]
                                    ELSE IF exe[e].tries < Retries THEN back
                                    ELSE NextCandidate(back)]
      BY <1>0, <1>6, <2>2 DEF LogAsking
    <3>2. /\ [back EXCEPT !.at = "answered"] \in Places
          /\ [back EXCEPT !.at = "answered"].at # "waiting"
          /\ [back EXCEPT !.at = "answered"].of = exe[e].of
      BY <2>3 DEF Places
    <3>3. back \in Places /\ back.at # "waiting" /\ back.of = exe[e].of
      BY <2>3 DEF Places
    <3>4. /\ NextCandidate(back) \in Places /\ NextCandidate(back).at # "waiting"
          /\ NextCandidate(back).of = exe[e].of
      <4>1. NextCandidate(back) \in [at : {"asking", "failing"}, of : {back.of},
                                    named : {back.named}, left : Seq(Providers), tries : {0}]
        BY <2>3, OnToNext
      <4> QED
        BY <4>1, <2>3 DEF Places
    <3> QED
      BY <3>1, <3>2, <3>3, <3>4
  <2>5. PICK how \in {"success", "error"} :
          asked' = [asked EXCEPT ![e] = Append(@, <<Head(exe[e].left), how>>)]
    BY <1>6 DEF LogAsking
  <2>6. /\ asked' \in [Executions -> Seq(Providers \X {"success", "error"})]
        /\ active' = active /\ run' = run
    BY <1>0, <1>6, <2>5, <2>1 DEF LogAsking
  <2> HIDE DEF RunsPlaced
  <2> QED
    BY <1>0, <2>1, <2>4, <2>6, PlacedMove
<1>7. ASSUME NEW e \in Executions, SaveAnswer(e) PROVE RunsPlaced'
  <2>1. /\ exe[e].left # <<>> /\ Head(exe[e].left) \in Providers
        /\ exe[e].of \in Runs /\ exe[e].at # "waiting"
    BY <1>0, <1>7, PlaceOf, InTurn DEF SaveAnswer
  <2>2. PICK y \in RunRows : run' = [run EXCEPT ![exe[e].of] = y] /\ y # NoRun
    BY <1>7, <2>1 DEF SaveAnswer, RunRows, NoRun
  <2>3. /\ asked' \in [Executions -> Seq(Providers \X {"success", "error"})]
        /\ active' = active /\ exe' = [exe EXCEPT ![e].at = "audit"]
    BY <1>0, <1>7 DEF SaveAnswer
  <2> HIDE DEF RunsPlaced
  <2> QED
    <3>1. exe[e].at \in Resting /\ "audit" \in Resting
      BY <1>7 DEF SaveAnswer, Resting
    <3>2. PICK x \in Places :
            exe' = [exe EXCEPT ![e] = x] /\ x.at # "waiting" /\ x.of = exe[e].of
      <4>1. PICK x : x = [exe[e] EXCEPT !.at = "audit"]
        OBVIOUS
      <4>2. /\ x \in Places /\ x.at = "audit" /\ x.of = exe[e].of
            /\ [exe EXCEPT ![e].at = "audit"] = [exe EXCEPT ![e] = x]
        BY <1>0, <3>1, <4>1, PlacedAt
      <4> QED
        BY <4>2, <2>3
    <3> QED
      BY <1>0, <2>1, <2>2, <2>3, <3>2, PlacedMove
<1>8. ASSUME NEW e \in Executions, AuditAnswer(e) PROVE RunsPlaced'
  <2>1. PICK at \in {"over", "failing"} : exe' = [exe EXCEPT ![e].at = at]
    BY <1>8 DEF AuditAnswer
  <2>2. /\ asked' \in [Executions -> Seq(Providers \X {"success", "error"})]
        /\ active' = active /\ run' = run /\ exe[e].at = "audit"
    BY <1>0, <1>8 DEF AuditAnswer
  <2> HIDE DEF RunsPlaced
  <2> QED
    BY <1>0, <2>1, <2>2, PlacedMove, PlacedAt DEF Resting
<1>9. ASSUME NEW e \in Executions, SaveFailure(e) PROVE RunsPlaced'
  <2>1. exe[e].of \in Runs /\ run[exe[e].of] \in RunRows
    BY <1>0, <1>9, PlaceOf DEF SaveFailure
  <2>2. PICK y \in RunRows : run' = [run EXCEPT ![exe[e].of] = y] /\ y # NoRun
    <3>1. run' = [run EXCEPT ![exe[e].of] =
                    [run[exe[e].of] EXCEPT !.status = "failed", !.error = TRUE]]
      BY <1>0, <1>9, <2>1 DEF SaveFailure
    <3>2. [run[exe[e].of] EXCEPT !.status = "failed", !.error = TRUE] \in RunRows
      BY <2>1 DEF RunRows
    <3>3. [run[exe[e].of] EXCEPT !.status = "failed", !.error = TRUE] # NoRun
      BY <2>1 DEF RunRows, NoRun
    <3> QED
      BY <3>1, <3>2, <3>3
  <2>3. /\ asked' \in [Executions -> Seq(Providers \X {"success", "error"})]
        /\ active' = active /\ exe' = [exe EXCEPT ![e].at = "over"] /\ exe[e].at = "failing"
    BY <1>0, <1>9 DEF SaveFailure
  <2> HIDE DEF RunsPlaced
  <2> QED
    BY <1>0, <2>2, <2>3, PlacedMove, PlacedAt DEF Resting
<1>10. CASE UNCHANGED <<run, exe, asked>> /\ \E p \in Providers : SwitchProvider(p)
  BY <1>0, <1>10 DEF SwitchProvider
<1>11. CASE Crash
  <2>1. ASSUME NEW e \in Executions
        PROVE  /\ exe'[e] \in Places
               /\ exe'[e].at # "waiting" => exe[e].at # "waiting" /\ exe'[e].of = exe[e].of
    BY <1>0, <1>11, PlaceOf DEF Crash, Places, UnderWay
  <2> QED
    BY <1>0, <1>11, <2>1 DEF Crash
<1>12. CASE UNCHANGED avars
  BY <1>0, <1>12 DEF avars
<1> QED
  BY <1>1, <1>2, <1>3, <1>4, <1>5, <1>6, <1>7, <1>8, <1>9, <1>10, <1>11, <1>12
  DEF RunsNext, Continue, SwitchProvider

(* A log that has got its answer is not written to again. *)
LEMMA LogsStay ==
  ASSUME RunsInv, [RunsNext]_avars, NEW e \in Executions, exe[e].at \in Past
  PROVE  exe'[e].at \in Past /\ asked'[e] = asked[e]
<1>1. RunsPlaced /\ exe \in [Executions -> Places] /\ DOMAIN asked = Executions
  BY DEF RunsInv, RunsPlaced
<1>2. ASSUME NEW d \in Executions, Continue(d) PROVE exe'[e].at \in Past /\ asked'[e] = asked[e]
  <2>1. CASE d # e
    BY <1>1, <1>2, <2>1
    DEF Continue, StartRun, SkipCandidate, AskProvider, LogAsking, SaveAnswer, AuditAnswer, SaveFailure
  <2>2. CASE d = e
    <3>1. AuditAnswer(e) \/ SaveFailure(e)
      BY <1>2, <2>2 DEF Continue, StartRun, SkipCandidate, AskProvider, LogAsking, SaveAnswer, Past
    <3>2. PICK at \in {"over", "failing"} : exe' = [exe EXCEPT ![e].at = at]
      BY <3>1 DEF AuditAnswer, SaveFailure
    <3>3. exe[e].at \in Resting
      BY <3>1 DEF AuditAnswer, SaveFailure, Resting
    <3>4. at \in Resting /\ exe'[e] = [exe[e] EXCEPT !.at = at]
      BY <1>1, <3>2 DEF Resting
    <3>5. exe'[e].at = at
      BY <1>1, <3>3, <3>4, PlacedAt
    <3> QED
      BY <3>1, <3>5 DEF AuditAnswer, SaveFailure, Past
  <2> QED
    BY <2>1, <2>2
<1>3. ASSUME NEW d \in Executions, NEW r \in Runs, LoadRun(d, r)
      PROVE  exe'[e].at \in Past /\ asked'[e] = asked[e]
  BY <1>1, <1>3 DEF LoadRun, Past, NotBegun
<1>4. CASE Crash
  BY <1>1, <1>4 DEF Crash, Past
<1>5. CASE UNCHANGED <<exe, asked>>
  BY <1>5
<1> QED
  BY <1>2, <1>3, <1>4, <1>5 DEF RunsNext, CreateRun, SwitchProvider, avars

(* What a run tells stays told, whoever saves it. *)
RowTold(row, place, log) ==
  /\ row.answer # Unnamed => place[row.answer].at \in Past /\ EndsWith(log[row.answer], row.provider)
  /\ row.status = "completed" => row.answer # Unnamed /\ ~ row.error
  /\ row.status = "failed" => row.error

LEMMA RowsStep ==
  ASSUME RunsInv, [RunsNext]_avars, NEW r \in Runs
  PROVE  RowTold(run'[r], exe', asked')
<1>1. RunsPlaced /\ AnswersKept /\ run[r] \in RunRows /\ DOMAIN run = Runs
  BY DEF RunsInv, RunsPlaced
<1>2. RowTold(run[r], exe, asked)
  BY <1>1 DEF AnswersKept, RowTold
<1>3. ASSUME NEW row \in RunRows, row.answer = run[r].answer, row.provider = run[r].provider,
             row.status = "completed" => row.answer # Unnamed /\ ~ row.error,
             row.status = "failed" => row.error
      PROVE  RowTold(row, exe', asked')
  <2>1. CASE run[r].answer = Unnamed
    BY <1>3, <2>1 DEF RowTold
  <2>2. CASE run[r].answer # Unnamed
    <3>1. run[r].answer \in Executions /\ exe[run[r].answer].at \in Past
      BY <1>1, <1>2, <2>2 DEF RowTold, RunRows
    <3> QED
      BY <1>2, <1>3, <2>2, <3>1, LogsStay DEF RowTold
  <2> QED
    BY <2>1, <2>2
<1>4. CASE run'[r] = run[r]
  BY <1>1, <1>2, <1>3, <1>4 DEF RowTold
<1>5. CASE CreateRun(r)
  <2>1. PICK named \in Providers \cup {Unnamed} :
          run'[r] = [NoRun EXCEPT !.status = "pending", !.provider = named]
    BY <1>1, <1>5 DEF CreateRun
  <2> QED
    BY <2>1 DEF RowTold, NoRun
<1>6. ASSUME NEW e \in Executions, exe[e].of = r, StartRun(e) PROVE RowTold(run'[r], exe', asked')
  <2>1. run'[r] = [run[r] EXCEPT !.status = "running", !.error = FALSE]
    BY <1>1, <1>6 DEF StartRun
  <2>2. /\ run'[r] \in RunRows /\ run'[r].status = "running"
        /\ run'[r].answer = run[r].answer /\ run'[r].provider = run[r].provider
    BY <1>1, <2>1 DEF RunRows
  <2> QED
    BY <2>2, <1>3
<1>7. ASSUME NEW e \in Executions, exe[e].of = r, SaveFailure(e)
      PROVE  RowTold(run'[r], exe', asked')
  <2>1. run'[r] = [run[r] EXCEPT !.status = "failed", !.error = TRUE]
    BY <1>1, <1>7 DEF SaveFailure
  <2>2. /\ run'[r] \in RunRows /\ run'[r].status = "failed" /\ run'[r].error
        /\ run'[r].answer = run[r].answer /\ run'[r].provider = run[r].provider
    BY <1>1, <2>1 DEF RunRows
  <2> QED
    BY <2>2, <1>3
<1>8. ASSUME NEW e \in Executions, exe[e].of = r, SaveAnswer(e)
      PROVE  RowTold(run'[r], exe', asked')
  <2>1. run'[r] = [status |-> "completed", provider |-> Head(exe[e].left), answer |-> e,
                   error |-> FALSE]
    BY <1>1, <1>8 DEF SaveAnswer
  <2>2. exe'[e].at = "audit"
    <3>1. exe[e].at \in Resting /\ "audit" \in Resting
      BY <1>8 DEF SaveAnswer, Resting
    <3>2. exe'[e] = [exe[e] EXCEPT !.at = "audit"]
      BY <1>1, <1>8 DEF SaveAnswer, RunsPlaced
    <3> QED
      BY <1>1, <3>1, <3>2, PlacedAt
  <2>3. EndsWith(asked'[e], Head(exe[e].left))
    BY <1>1, <1>8 DEF SaveAnswer, AnswersKept
  <2> QED
    BY <2>1, <2>2, <2>3 DEF RowTold, Past
<1>9. ASSUME NEW e \in Executions, exe[e].of # r, Continue(e) PROVE run'[r] = run[r]
  BY <1>1, <1>9
  DEF Continue, StartRun, SkipCandidate, AskProvider, LogAsking, SaveAnswer, AuditAnswer, SaveFailure
<1>10. ASSUME NEW e \in Executions, Continue(e) PROVE RowTold(run'[r], exe', asked')
  BY <1>4, <1>6, <1>7, <1>8, <1>9, <1>10
  DEF Continue, SkipCandidate, AskProvider, LogAsking, AuditAnswer
<1>11. ASSUME NEW q \in Runs, q # r, CreateRun(q) PROVE run'[r] = run[r]
  BY <1>1, <1>11 DEF CreateRun
<1> QED
  BY <1>4, <1>5, <1>10, <1>11 DEF RunsNext, LoadRun, SwitchProvider, Crash, avars

(* An execution that moves without asking anybody. *)
LEMMA SameLog ==
  ASSUME NEW e, exe[e].at # "waiting", exe'[e].named = exe[e].named, asked'[e] = asked[e],
         NEW a, NEW b, AskedTo(e, a, b)
  PROVE  AskedTo(e, a, b)' /\ First(e)' = First(e) /\ (AllErrors(e)' <=> AllErrors(e))
<1>1. First(e)' = First(e)
  BY DEF First
<1>2. AllErrors(e)' <=> AllErrors(e)
  BY DEF AllErrors
<1> QED
  BY <1>1, <1>2 DEF AskedTo, TriesOf

LEMMA QuietLog ==
  ASSUME NEW e, exe[e].at # "waiting", LogKept(e), exe'[e].named = exe[e].named,
         asked'[e] = asked[e],
         exe'[e].at \in {"answered", "audit", "failing", "over", "killed"}
  PROVE  LogKept(e)'
<1>1. PICK a \in Nat, b \in Nat : AskedTo(e, a, b)
  BY DEF LogKept
<1>2. AskedTo(e, a, b)'
  BY <1>1, SameLog
<1> QED
  BY <1>2 DEF LogKept

LEMMA TriesCount == \A p : TriesOf(p) \in Nat \ {0}
BY DEF TriesOf, Retries

(* The first candidate's turn, or the fallback's after it. *)
LEMMA TurnOf ==
  ASSUME RunsPlaced, NEW e \in Executions, exe[e].at # "waiting", NEW a, NEW b, NEW n \in Nat,
         Asking(e, a, b, n)
  PROVE  /\ exe[e].left # <<>> /\ exe[e].left \in Seq(Providers)
         /\ n < TriesOf(Head(exe[e].left))
         /\ Len(exe[e].left) # 1 =>
              /\ exe[e].left = Candidates(exe[e].named) /\ Tail(exe[e].left) = <<FallbackModel>>
              /\ Head(exe[e].left) = First(e)
              /\ exe[e].named = Unnamed /\ FallbackModel # Primary
         /\ exe[e].left = Candidates(exe[e].named) => Head(exe[e].left) = First(e)
<1>1. exe[e].named \in Providers \cup {Unnamed}
  BY PlaceOf
<1>2. CASE /\ exe[e].left = Candidates(exe[e].named) /\ n < TriesOf(First(e))
  BY <1>1, <1>2, CandidatesMade DEF First
<1>3. CASE /\ exe[e].left = <<FallbackModel>> /\ exe[e].named = Unnamed
           /\ n < TriesOf(FallbackModel)
  <2>1. /\ exe[e].left # <<>> /\ exe[e].left \in Seq(Providers) /\ Len(exe[e].left) = 1
        /\ Head(exe[e].left) = FallbackModel
    BY <1>3
  <2>2. exe[e].left = Candidates(exe[e].named) => Head(exe[e].left) = First(e)
    BY <1>1, CandidatesMade DEF First
  <2> QED
    BY <1>3, <2>1, <2>2
<1> QED
  BY <1>2, <1>3 DEF Asking

(* How an execution that moves moves its log. *)
LEMMA LogStep ==
  ASSUME RunsInv, [RunsNext]_avars, NEW e \in Executions
  PROVE  /\ LogKept(e)'
         /\ exe'[e].at \in {"answered", "audit"} =>
              exe'[e].left # <<>> /\ EndsWith(asked'[e], Head(exe'[e].left))
<1> DEFINE Good == /\ LogKept(e)'
                   /\ exe'[e].at \in {"answered", "audit"} =>
                        exe'[e].left # <<>> /\ EndsWith(asked'[e], Head(exe'[e].left))
<1>1. RunsPlaced /\ LogKept(e) /\ exe \in [Executions -> Places] /\ DOMAIN asked = Executions
  BY DEF RunsInv, RunsPlaced
<1>2. CASE exe'[e] = exe[e] /\ asked'[e] = asked[e]
  BY <1>1, <1>2, LogFrame DEF RunsInv, AnswersKept
<1>3. ASSUME NEW r \in Runs, LoadRun(e, r) PROVE Good
  <2>1. asked'[e] = <<>> /\ exe'[e].at = "loaded"
    BY <1>1, <1>3 DEF LoadRun, LogKept, NotBegun
  <2>2. AskedTo(e, 0, 0)'
    BY <2>1, TriesCount DEF AskedTo
  <2> QED
    BY <2>1, <2>2 DEF LogKept
<1>4. CASE StartRun(e)
  <2>1. AskedTo(e, 0, 0) /\ asked[e] = <<>>
    <3>1. AskedTo(e, 0, 0)
      BY <1>1, <1>4 DEF StartRun, LogKept
    <3> QED
      BY <3>1 DEF AskedTo, RunsPlaced
  <2>2. /\ exe'[e].at \in {"asking", "failing"} /\ exe'[e].named = exe[e].named
        /\ exe'[e].left = Candidates(exe[e].named) /\ exe'[e].tries = 0
        /\ asked'[e] = asked[e] /\ exe[e].at = "loaded"
    BY <1>1, <1>4 DEF StartRun
  <2>3. AskedTo(e, 0, 0)'
    BY <2>1, <2>2, SameLog
  <2>4. Asking(e, 0, 0, exe[e].tries)'
    BY <2>1, <2>2, TriesCount DEF Asking, AllErrors
  <2> QED
    BY <2>2, <2>3, <2>4 DEF LogKept
<1>5. CASE SkipCandidate(e)
  <2>1. PICK a \in Nat, b \in Nat : AskedTo(e, a, b) /\ Asking(e, a, b, exe[e].tries)
    BY <1>1, <1>5 DEF SkipCandidate, LogKept
  <2>2. /\ exe[e] \in [at : {"asking"}, of : Runs, named : Providers \cup {Unnamed},
                       left : Seq(Providers), tries : Nat]
        /\ exe[e].at = "asking" /\ exe[e].tries \in Nat
    BY <1>1, <1>5, PlaceOf DEF SkipCandidate
  <2>3. exe'[e] = NextCandidate(exe[e]) /\ Head(exe[e].left) \notin Adapters
    BY <1>1, <1>5 DEF SkipCandidate
  <2>4. exe[e].left # <<>>
    BY <1>1, <2>1, <2>2, TurnOf
  <2>5. /\ exe'[e].at \in {"asking", "failing"} /\ exe'[e].named = exe[e].named
        /\ exe'[e].left = Tail(exe[e].left) /\ exe'[e].tries = 0
        /\ exe'[e].at = "asking" <=> Len(exe[e].left) # 1
    BY <2>2, <2>3, <2>4, OnToNext
  <2>6. asked'[e] = Append(asked[e], <<Head(exe[e].left), "error">>)
    BY <1>1, <1>5 DEF SkipCandidate
  <2>7. PICK c \in Nat, d \in Nat :
           AskedTo(e, c, d)' /\ AllErrors(e)' /\ AskedMore(e, c, d, exe[e].tries)
    BY <1>1, <2>1, <2>2, <2>5, <2>6, OneMore
  <2>8. exe'[e].at = "asking" => Asking(e, c, d, exe[e].tries)'
    <3> SUFFICES ASSUME exe'[e].at = "asking" PROVE Asking(e, c, d, exe[e].tries)'
      OBVIOUS
    <3>1. /\ exe[e].left = Candidates(exe[e].named) /\ Tail(exe[e].left) = <<FallbackModel>>
          /\ Head(exe[e].left) = First(e) /\ exe[e].tries < TriesOf(Head(exe[e].left))
          /\ exe[e].named = Unnamed /\ FallbackModel # Primary
      BY <1>1, <2>1, <2>2, <2>5, TurnOf
    <3>2. First(e)' = First(e)
      BY <2>5 DEF First
    <3>3. d = 0 /\ c = 1 /\ TriesOf(First(e)) = 1
      <4>1. TriesOf(First(e)) = 1 /\ exe[e].tries = 0
        BY <2>2, <2>3, <3>1 DEF TriesOf
      <4>2. Len(exe[e].left) # 1
        BY <2>5
      <4>3. exe[e].left # <<FallbackModel>>
        BY <4>2
      <4> QED
        BY <2>7, <4>1, <4>3 DEF AskedMore
    <3> QED
      BY <2>5, <2>7, <3>1, <3>2, <3>3, TriesCount DEF Asking, TriesOf
  <2> QED
    BY <2>5, <2>7, <2>8 DEF LogKept
<1>6. CASE AskProvider(e)
  <2>1. PICK a \in Nat, b \in Nat : AskedTo(e, a, b) /\ Asking(e, a, b, exe[e].tries)
    BY <1>1, <1>6 DEF AskProvider, LogKept
  <2>2. /\ exe[e].at = "asking" /\ exe[e].tries \in Nat
        /\ exe'[e].at = "heard" /\ exe'[e].named = exe[e].named /\ exe'[e].left = exe[e].left
        /\ exe'[e].tries = exe[e].tries + 1 /\ Head(exe[e].left) \in Adapters
        /\ asked'[e] = asked[e]
    BY <1>1, <1>6, PlaceOf DEF AskProvider
  <2>3. AskedTo(e, a, b)' /\ First(e)' = First(e) /\ (AllErrors(e)' <=> AllErrors(e))
    BY <2>1, <2>2, SameLog
  <2>4. Asking(e, a, b, exe[e].tries - 1)'
    BY <2>1, <2>2, <2>3 DEF Asking, TriesOf
  <2> QED
    BY <2>2, <2>3, <2>4 DEF LogKept
<1>7. CASE LogAsking(e)
  <2>1. PICK a \in Nat, b \in Nat :
          /\ AskedTo(e, a, b) /\ exe[e].tries > 0 /\ Asking(e, a, b, exe[e].tries - 1)
          /\ Head(exe[e].left) \in Adapters
    BY <1>1, <1>7 DEF LogAsking, LogKept
  <2>2. PICK n \in Nat : n = exe[e].tries - 1
    BY <1>1, <1>7, <2>1, PlaceOf DEF LogAsking
  <2>3. PICK back : back = [at |-> "asking", of |-> exe[e].of, named |-> exe[e].named,
                            left |-> exe[e].left, tries |-> exe[e].tries]
    OBVIOUS
  <2>4. exe[e].at = "heard" /\ exe[e].tries \in Nat /\ exe[e].left \in Seq(Providers)
    BY <1>1, <1>7, PlaceOf DEF LogAsking
  <2>5. /\ exe[e].left # <<>> /\ n < Retries
        /\ Len(exe[e].left) # 1 =>
              /\ exe[e].left = Candidates(exe[e].named) /\ Tail(exe[e].left) = <<FallbackModel>>
              /\ exe[e].named = Unnamed /\ FallbackModel # Primary
        /\ exe[e].left = Candidates(exe[e].named) => Head(exe[e].left) = First(e)
    BY <1>1, <2>1, <2>2, <2>4, TurnOf DEF TriesOf
  <2>6. CASE exe[e].heard = "success"
    <3>1. /\ exe'[e].at = "answered" /\ exe'[e].named = exe[e].named
          /\ exe'[e].left = exe[e].left
          /\ asked'[e] = Append(asked[e], <<Head(exe[e].left), "success">>)
      BY <1>1, <1>7, <2>6 DEF LogAsking
    <3>2. PICK c \in Nat, d \in Nat :
             AskedTo(e, c, d)' /\ asked'[e][Len(asked'[e])] = <<Head(exe[e].left), "success">>
      BY <1>1, <2>1, <2>2, <2>4, <3>1, OneMore
    <3>3. asked'[e] # <<>>
      <4>1. asked[e] \in Seq(Providers \X {"success", "error"})
        BY <1>1 DEF RunsPlaced
      <4> QED
        BY <3>1, <4>1
    <3> QED
      BY <2>5, <3>1, <3>2, <3>3 DEF LogKept, EndsWith
  <2>7. CASE exe[e].heard # "success"
    <3>1. /\ exe'[e] = IF exe[e].tries < Retries THEN back ELSE NextCandidate(back)
          /\ asked'[e] = Append(asked[e], <<Head(exe[e].left), "error">>)
      BY <1>1, <1>7, <2>7, <2>3 DEF LogAsking
    <3>2. /\ exe'[e].named = exe[e].named /\ exe'[e].at \in {"asking", "failing"}
          /\ \/ exe[e].tries < Retries /\ exe'[e].left = exe[e].left /\ exe'[e].tries = exe[e].tries
             \/ /\ exe[e].tries = Retries /\ exe'[e].left = Tail(exe[e].left) /\ exe'[e].tries = 0
                /\ exe'[e].at = "asking" <=> Len(exe[e].left) # 1
      <4>1. exe[e].of \in Runs /\ exe[e].named \in Providers \cup {Unnamed}
        BY <1>1, <2>4, PlaceOf
      <4>2. /\ back \in [at : {"asking"}, of : Runs, named : Providers \cup {Unnamed},
                         left : Seq(Providers), tries : Nat]
            /\ back.left = exe[e].left /\ back.tries = exe[e].tries
            /\ back.named = exe[e].named
        BY <2>3, <2>4, <4>1
      <4>3. NextCandidate(back) \in [at : {"asking", "failing"}, of : {back.of},
                                     named : {back.named}, left : Seq(Providers), tries : {0}]
        BY <4>2, <2>5, OnToNext
      <4>4. /\ NextCandidate(back).left = Tail(back.left) /\ NextCandidate(back).tries = 0
            /\ NextCandidate(back).at = "asking" <=> Len(back.left) # 1
        BY <4>2, <2>5, OnToNext
      <4>5. Retries \in Nat
        BY DEF Retries
      <4>6. CASE exe[e].tries < Retries
        BY <3>1, <4>2, <4>6
      <4>7. CASE ~ (exe[e].tries < Retries)
        <5>1. exe[e].tries = Retries
          BY <4>5, <4>7, <2>2, <2>4, <2>5
        <5> QED
          BY <3>1, <4>2, <4>3, <4>4, <4>7, <5>1
      <4> QED
        BY <4>6, <4>7
    <3>3. PICK c \in Nat, d \in Nat :
             AskedTo(e, c, d)' /\ AllErrors(e)' /\ AskedMore(e, c, d, n)
      BY <1>1, <2>1, <2>2, <2>4, <3>1, <3>2, OneMore
    <3>4. First(e)' = First(e)
      BY <3>2 DEF First
    <3>5. exe'[e].at = "asking" => Asking(e, c, d, exe[e].tries)'
      <4> SUFFICES ASSUME exe'[e].at = "asking" PROVE Asking(e, c, d, exe[e].tries)'
        OBVIOUS
      <4>1. CASE /\ exe[e].tries < Retries /\ exe'[e].left = exe[e].left
                 /\ exe'[e].tries = exe[e].tries
        <5>1. CASE exe[e].left = Candidates(exe[e].named) /\ d = 0 /\ c = n + 1
          <6>1. TriesOf(First(e)) = Retries
            BY <2>1, <2>5, <5>1 DEF TriesOf
          <6> QED
            BY <2>2, <2>4, <3>2, <3>3, <3>4, <4>1, <5>1, <6>1 DEF Asking, TriesOf
        <5>2. CASE /\ exe[e].left = <<FallbackModel>> /\ exe[e].named = Unnamed
                   /\ FallbackModel # Primary /\ c = TriesOf(First(e)) /\ d = n + 1
          <6>1. TriesOf(FallbackModel) = Retries
            BY <2>1, <5>2 DEF TriesOf
          <6> QED
            BY <2>2, <2>4, <3>2, <3>3, <3>4, <4>1, <5>2, <6>1 DEF Asking, TriesOf
        <5> QED
          BY <3>3, <5>1, <5>2 DEF AskedMore
      <4>2. CASE /\ exe[e].tries = Retries /\ exe'[e].left = Tail(exe[e].left)
                 /\ exe'[e].tries = 0 /\ Len(exe[e].left) # 1
        <5>1. exe[e].left # <<FallbackModel>>
          BY <4>2
        <5>2. TriesOf(First(e)) = Retries
          BY <2>1, <2>5, <4>2 DEF TriesOf
        <5> QED
          BY <2>2, <2>4, <2>5, <3>2, <3>3, <3>4, <4>2, <5>1, <5>2, TriesCount DEF Asking, TriesOf, AskedMore
      <4> QED
        BY <3>2, <4>1, <4>2
    <3> QED
      BY <3>2, <3>3, <3>5 DEF LogKept
  <2> QED
    BY <2>6, <2>7
<1>8. CASE SaveAnswer(e) \/ AuditAnswer(e) \/ SaveFailure(e)
  <2>1. PICK at \in {"audit", "over", "failing"} : exe'[e] = [exe[e] EXCEPT !.at = at]
    BY <1>1, <1>8 DEF SaveAnswer, AuditAnswer, SaveFailure
  <2>2. exe[e].at \in Resting /\ at \in Resting /\ asked'[e] = asked[e] /\ exe[e].at # "waiting"
    BY <1>8 DEF SaveAnswer, AuditAnswer, SaveFailure, Resting
  <2>3. exe'[e].at = at /\ exe'[e].named = exe[e].named
    BY <1>1, <2>1, <2>2, PlacedAt
  <2>4. LogKept(e)'
    BY <1>1, <2>2, <2>3, QuietLog
  <2>5. at = "audit" => exe[e].at = "answered" /\ exe'[e].left = exe[e].left
    <3> SUFFICES ASSUME at = "audit" PROVE exe[e].at = "answered" /\ exe'[e].left = exe[e].left
      OBVIOUS
    <3>1. exe'[e].at = "audit" /\ exe[e] \in [at : Resting, of : Runs, left : Seq(Providers),
                                    named : Providers \cup {Unnamed}, tries : Nat]
      BY <1>1, <2>2, <2>3, PlaceOf DEF Resting
    <3> QED
      BY <1>1, <1>8, <2>1, <3>1 DEF SaveAnswer, AuditAnswer, SaveFailure
  <2> QED
    BY <2>2, <2>3, <2>4, <2>5 DEF RunsInv, AnswersKept
<1>9. CASE Crash
  <2>1. CASE exe[e].at \in UnderWay
    <3>1. /\ exe'[e].at = "killed" /\ exe'[e].named = exe[e].named /\ asked'[e] = asked[e]
          /\ exe[e].at # "waiting"
      BY <1>9, <2>1 DEF Crash, UnderWay
    <3> QED
      BY <1>1, <3>1, QuietLog
  <2>2. CASE exe[e].at \notin UnderWay
    BY <1>2, <1>9, <2>2 DEF Crash
  <2> QED
    BY <2>1, <2>2
<1>10. ASSUME NEW d \in Executions, d # e, Continue(d) PROVE exe'[e] = exe[e] /\ asked'[e] = asked[e]
  BY <1>1, <1>10
  DEF Continue, StartRun, SkipCandidate, AskProvider, LogAsking, SaveAnswer, AuditAnswer, SaveFailure
<1>11. ASSUME NEW d \in Executions, d # e, NEW r \in Runs, LoadRun(d, r)
       PROVE  exe'[e] = exe[e] /\ asked'[e] = asked[e]
  BY <1>1, <1>11 DEF LoadRun
<1> QED
  BY <1>2, <1>3, <1>4, <1>5, <1>6, <1>7, <1>8, <1>9, <1>10, <1>11
  DEF RunsNext, Continue, CreateRun, SwitchProvider, avars

LEMMA RunsStep == RunsInv /\ [RunsNext]_avars => RunsInv'
<1> SUFFICES ASSUME RunsInv, [RunsNext]_avars PROVE RunsInv'
  OBVIOUS
<1>1. RunsPlaced'
  BY PlacedStep
<1>2. AnswersKept'
  BY RowsStep, LogStep DEF AnswersKept, RowTold
<1>3. ASSUME NEW e \in Executions PROVE LogKept(e)'
  BY LogStep
<1> QED
  BY <1>1, <1>2, <1>3 DEF RunsInv

LEMMA RunsAlways == RunsSpec => []RunsInv
BY RunsBegin, RunsStep, PTL DEF RunsSpec

LEMMA RunsInvTyped == RunsInv => RunsTyped
<1> SUFFICES ASSUME RunsInv PROVE RunsTyped
  OBVIOUS
<1>1. RunsPlaced
  BY DEF RunsInv
<1>2. ASSUME NEW e \in Executions
      PROVE  /\ exe[e].at \in {"waiting", "over", "killed"} \cup UnderWay
             /\ exe[e].at # "waiting" => exe[e].of \in Runs /\ run[exe[e].of] # NoRun
    BY <1>1, PlaceOf DEF RunsPlaced
<1>3. ASSUME NEW e \in Executions, exe[e].at \in {"asking", "heard", "answered", "audit"}
      PROVE  exe[e].left \in Seq(Providers) /\ exe[e].left # <<>>
  BY <1>1, <1>3, PlaceOf, InTurn
<1> QED
  BY <1>1, <1>2, <1>3 DEF RunsTyped, RunsPlaced, RunRows

(* Rows hold what AiRun can hold, logs what the gateway writes, and every request *)
(* under way is about a run there is.                                             *)
THEOREM RunsTypeCorrect == RunsSpec => []RunsTyped
BY RunsAlways, RunsInvTyped, PTL

LEMMA OthersCounted ==
  ASSUME RunsInv, NEW e \in Executions, asked[e] # <<>>
  PROVE  LET log == asked[e]
             named == exe[e].named
             first == IF named = Unnamed THEN Primary ELSE named
             others == {i \in DOMAIN log : log[i][1] # first}
         IN /\ \A i \in DOMAIN log : i < Len(log) => log[i][2] = "error"
            /\ named # Unnamed => others = {}
            /\ \A i \in others : log[i][1] = FallbackModel /\ i > IF first \in Adapters THEN Retries ELSE 1
            /\ Len(log) - Cardinality(others) <= Retries /\ Cardinality(others) <= Retries
<1>1. exe[e].at # "waiting"
  BY DEF RunsInv, LogKept
<1>2. PICK a \in Nat, b \in Nat : AskedTo(e, a, b)
  BY <1>1 DEF RunsInv, LogKept
<1> DEFINE log == asked[e]
           others == {i \in DOMAIN log : log[i][1] # First(e)}
<1>3. log \in Seq(Providers \X {"success", "error"}) /\ DOMAIN log = 1 .. (a + b) /\ Len(log) = a + b
  BY <1>2 DEF RunsInv, RunsPlaced, AskedTo
<1>4. Retries \in Nat /\ Retries > 0 /\ \A p : TriesOf(p) <= Retries
  BY DEF Retries, TriesOf
<1>5. others = (a + 1) .. (a + b)
  <2>1. b > 0 => First(e) = Primary /\ FallbackModel # First(e)
    BY <1>2 DEF AskedTo, First
  <2>2. ASSUME NEW i \in 1 .. (a + b) PROVE log[i][1] # First(e) <=> i > a
    <3>1. CASE i <= a
      BY <3>1, <1>2 DEF AskedTo
    <3>2. CASE i > a
      <4>1. i \in (a + 1) .. (a + b) /\ b > 0
        BY <3>2
      <4> QED
        BY <4>1, <2>1, <1>2 DEF AskedTo
    <3> QED
      BY <3>1, <3>2
  <2> QED
    BY <1>3, <2>2
<1>6. Cardinality(others) = b
  <2>1. PICK x \in Int, y \in Int : x = a + 1 /\ y = a + b
    OBVIOUS
  <2>2. Cardinality(x .. y) = IF x > y THEN 0 ELSE y - x + 1
    BY FS_Interval
  <2>3. (IF x > y THEN 0 ELSE y - x + 1) = b
    BY <2>1
  <2> QED
    BY <1>5, <2>1, <2>2, <2>3
<1>7. \A i \in DOMAIN log : i < Len(log) => log[i][2] = "error"
  BY <1>2, <1>3 DEF AskedTo
<1>8. exe[e].named # Unnamed => others = {}
  <2>1. exe[e].named # Unnamed => b = 0
    BY <1>2 DEF AskedTo
  <2> QED
    BY <1>5, <2>1
<1>9. ASSUME NEW i \in others
      PROVE  log[i][1] = FallbackModel /\ i > IF First(e) \in Adapters THEN Retries ELSE 1
  <2>1. i \in (a + 1) .. (a + b) /\ b > 0
    BY <1>5
  <2> QED
    BY <2>1, <1>2 DEF AskedTo, TriesOf
<1>10. Len(log) - Cardinality(others) <= Retries /\ Cardinality(others) <= Retries
  <2>1. a <= TriesOf(First(e)) /\ b <= TriesOf(FallbackModel)
    BY <1>2 DEF AskedTo
  <2> QED
    BY <1>3, <1>4, <1>6, <2>1, TriesCount
<1> QED
  BY <1>7, <1>8, <1>9, <1>10 DEF First

(* However executions overlap, fail and are cut off, and whichever providers have *)
(* adapters: what a run and the gateway's log tell agrees with what was asked, in  *)
(* the order and as often as the settings say.                                     *)
THEOREM RunAlwaysTold == RunsSpec => []RunTold
<1>1. RunsInv => RunTold
  BY OthersCounted DEF RunTold, AnswerIsLogged, AskedInOrder, RunsInv, AnswersKept, EndsWith
<1> QED
  BY RunsAlways, <1>1, PTL

HIDE GatewayAssumption

--------------------------------------------------------------------------------
(* Boards *)

USE BoardsAssumption

(* Ids are given out one after the other and never again. *)
IdsInRow == \E k \in 0 .. MaxBoardTasks : Made = 1 .. k

(* A task that nobody is busy with is where its column and its trail say. *)
Settled(i) ==
  \A e \in DOMAIN boards, g \in Groups : i \in boards[e][g] =>
    (g = "done" <=> column[i] = "done") /\ "deleted" \notin trail[i]

Busy(h, i) == call[h].kind \in {"patch", "delete"} /\ call[h].id = i

(* What the one request under way has found, while no other can have changed it. *)
StillFound(h) ==
  /\ call[h].kind = "profile" => call[h].as \notin DOMAIN boards
  /\ call[h].kind = "patch" =>
       /\ call[h].id \in boards[call[h].on][call[h].found]
       /\ "deleted" \notin trail[call[h].id]
       /\ call[h].to = "done" <=> column[call[h].id] = "done"
  /\ call[h].kind = "delete" => OnBoard(call[h].on, call[h].id)

OneAtATime ==
  /\ \A h, k \in BoardThreads : call[h] # Idle /\ call[k] # Idle => h = k
  /\ \A h \in BoardThreads : StillFound(h)
  /\ \A i \in Made : (\A h \in BoardThreads : ~ Busy(h, i)) => Settled(i)
  /\ BoardsApart

BoardsInv == BoardsTyped /\ IdsInRow /\ OneGroup /\ (~ overlap => OneAtATime)

LEMMA BoardsBegin == BoardsInit => BoardsInv
<1> SUFFICES ASSUME BoardsInit PROVE BoardsInv
  OBVIOUS
<1>1. BoardsTyped
  BY DEF BoardsInit, BoardsTyped, Made, Calls
<1>2. IdsInRow
  <2>1. Made = 1 .. 0 /\ 0 \in 0 .. MaxBoardTasks
    BY DEF BoardsInit, Made
  <2> QED
    BY <2>1 DEF IdsInRow
<1>3. OneGroup /\ OneAtATime
  BY DEF BoardsInit, Made, OneGroup, OneAtATime, StillFound, BoardsApart, Idle, Busy, Settled
<1> QED
  BY <1>1, <1>2, <1>3 DEF BoardsInv

(* What a thread is in the middle of, by its kind. *)
LEMMA CallOf ==
  ASSUME BoardsTyped, NEW h \in BoardThreads
  PROVE  /\ call[h] = Idle \/ call[h].kind \in {"profile", "patch", "delete"}
         /\ call[h].kind = "profile" =>
              call[h] # Idle /\ call[h].name \in Names /\ call[h].as \in Employees
         /\ call[h].kind = "patch" =>
              /\ call[h] # Idle /\ call[h].on \in DOMAIN boards /\ call[h].id \in Made
              /\ call[h].found \in Groups /\ call[h].to \in Groups
         /\ call[h].kind = "delete" =>
              call[h] # Idle /\ call[h].on \in DOMAIN boards /\ call[h].id \in Made
<1>1. call[h] \in Calls
  BY DEF BoardsTyped
<1>2. CASE call[h] = Idle
  BY <1>2 DEF Idle
<1>3. CASE call[h] \in [kind : {"profile"}, name : Names, as : Employees]
  BY <1>3 DEF Idle
<1>4. CASE call[h] \in [kind : {"patch"}, on : DOMAIN boards, id : Made, found : Groups, to : Groups]
  BY <1>4 DEF Idle
<1>5. CASE call[h] \in [kind : {"delete"}, on : DOMAIN boards, id : Made]
  BY <1>5 DEF Idle
<1> QED
  BY <1>1, <1>2, <1>3, <1>4, <1>5 DEF Calls

LEMMA NewId ==
  ASSUME IdsInRow, Cardinality(Made) < MaxBoardTasks
  PROVE  /\ Cardinality(Made) + 1 \in BoardIds \ Made
         /\ \E k \in 0 .. MaxBoardTasks : Made \cup {Cardinality(Made) + 1} = 1 .. k
<1>1. PICK k \in 0 .. MaxBoardTasks : Made = 1 .. k
  BY DEF IdsInRow
<1>2. Cardinality(1 .. k) = k
  <2>1. PICK x \in Int, y \in Int : x = 1 /\ y = k
    OBVIOUS
  <2>2. Cardinality(x .. y) = IF x > y THEN 0 ELSE y - x + 1
    BY FS_Interval
  <2>3. (IF x > y THEN 0 ELSE y - x + 1) = k
    BY <2>1
  <2> QED
    BY <2>1, <2>2, <2>3
<1>3. Made \cup {k + 1} = 1 .. (k + 1) /\ k + 1 \notin Made
  BY <1>1
<1> QED
  BY <1>1, <1>2, <1>3 DEF BoardIds

(* The calls under way stay what they are as long as no board or task goes away. *)
LEMMA CallsGrow ==
  ASSUME NEW B, NEW T, DOMAIN boards \subseteq B, Made \subseteq T
  PROVE  Calls \subseteq
           {Idle} \cup [kind : {"profile"}, name : Names, as : Employees]
                  \cup [kind : {"patch"}, on : B, id : T, found : Groups, to : Groups]
                  \cup [kind : {"delete"}, on : B, id : T]
BY DEF Calls

LEMMA FilesKeeps ==
  ASSUME BoardsInv, NEW n \in Names, NEW c \in Columns, NEW g \in Groups,
         g = "done" <=> c = "done",
         employeeOf[n] # Nobody, Cardinality(Made) < MaxBoardTasks, Files(n, c, g),
         UNCHANGED <<overlap, employeeOf, call>>
  PROVE  BoardsInv'
<1> DEFINE i == Cardinality(Made) + 1
           b == employeeOf[n]
<1>1. /\ i \in BoardIds \ Made
      /\ \E k \in 0 .. MaxBoardTasks : Made \cup {i} = 1 .. k
  BY NewId DEF BoardsInv
<1> HIDE DEF i
<1>2. /\ b \in DOMAIN boards
      /\ boards' = [boards EXCEPT ![b][g] = @ \cup {i}]
      /\ column' = [k \in Made \cup {i} |-> IF k = i THEN c ELSE column[k]]
      /\ trail' = [k \in Made \cup {i} |-> IF k = i THEN {"created"} ELSE trail[k]]
  BY DEF BoardsInv, BoardsTyped, Files, i
<1> HIDE DEF b
<1>3. Made' = Made \cup {i} /\ DOMAIN boards' = DOMAIN boards
  BY <1>2 DEF Made
<1>4. BoardsTyped
  BY DEF BoardsInv
<1>5. \A e \in DOMAIN boards, k \in Groups :
        boards'[e][k] = IF e = b /\ k = g THEN boards[e][k] \cup {i} ELSE boards[e][k]
  BY <1>2, <1>4 DEF BoardsTyped
<1>6. BoardsTyped'
  <2>1. boards' \in [DOMAIN boards' -> [Groups -> SUBSET Made']]
    BY <1>2, <1>3, <1>4 DEF BoardsTyped
  <2>2. call' \in [BoardThreads -> Calls']
    <3>1. Calls \subseteq Calls'
      BY <1>3 DEF Calls
    <3> QED
      BY <3>1, <1>4 DEF BoardsTyped
  <2>3. column' \in [Made' -> Columns] /\ Made' \subseteq BoardIds
    BY <1>1, <1>2, <1>3, <1>4 DEF BoardsTyped
  <2>4. trail' \in [Made' -> SUBSET {"created", "updated", "commented", "deleted"}]
    BY <1>2, <1>3, <1>4 DEF BoardsTyped
  <2> QED
    BY <1>3, <1>4, <2>1, <2>2, <2>3, <2>4 DEF BoardsTyped
<1>7. IdsInRow'
  BY <1>1, <1>3 DEF IdsInRow
<1>8. \A e \in DOMAIN boards, k \in Groups : i \notin boards[e][k]
  BY <1>1, <1>4 DEF BoardsTyped
<1>9. OneGroup'
  <2> SUFFICES ASSUME NEW j \in Made', NEW e \in DOMAIN boards, NEW f \in DOMAIN boards,
                      NEW k \in Groups, NEW m \in Groups,
                      j \in boards'[e][k], j \in boards'[f][m]
               PROVE  e = f /\ k = m
    BY <1>3 DEF OneGroup
  <2>1. j \in boards[e][k] \/ (j = i /\ e = b /\ k = g)
    BY <1>5
  <2>2. j \in boards[f][m] \/ (j = i /\ f = b /\ m = g)
    BY <1>5
  <2>3. CASE j = i
    BY <1>8, <2>1, <2>2, <2>3
  <2>4. CASE j # i
    <3>1. j \in Made
      BY <1>3, <2>4
    <3> QED
      BY <2>1, <2>2, <2>4, <3>1 DEF BoardsInv, OneGroup
  <2> QED
    BY <2>3, <2>4
<1>10. ASSUME ~ overlap PROVE OneAtATime'
  <2>1. OneAtATime
    BY <1>10 DEF BoardsInv
  <2>2. ASSUME NEW h \in BoardThreads PROVE StillFound(h)'
    <3>1. StillFound(h)
      BY <2>1 DEF OneAtATime
    <3>2. CASE call[h].kind = "profile"
      BY <3>1, <3>2, <1>3 DEF StillFound
    <3>3. CASE call[h].kind = "patch"
      BY <3>1, <3>3, <1>2, <1>3, <1>4, <1>5, <1>1, CallOf DEF StillFound
    <3>4. CASE call[h].kind = "delete"
      <4>1. /\ call[h].on \in DOMAIN boards /\ call'[h] = call[h]
            /\ \E k \in Groups : call[h].id \in boards[call[h].on][k]
        BY <3>1, <3>4, <1>4, CallOf DEF StillFound, OnBoard
      <4>2. \E k \in Groups : call[h].id \in boards'[call[h].on][k]
        BY <4>1, <1>5
      <4> QED
        BY <3>4, <4>1, <4>2 DEF StillFound, OnBoard
    <3> QED
      BY <3>2, <3>3, <3>4 DEF StillFound
  <2>3. ASSUME NEW j \in Made', \A h \in BoardThreads : ~ Busy(h, j)' PROVE Settled(j)'
    <3>1. CASE j = i
      BY <3>1, <1>1, <1>2, <1>3, <1>5, <1>8 DEF Settled
    <3>2. CASE j # i
      <4>1. j \in Made /\ \A h \in BoardThreads : ~ Busy(h, j)
        BY <3>2, <2>3, <1>3 DEF Busy
      <4>2. Settled(j)
        BY <4>1, <2>1 DEF OneAtATime
      <4> QED
        BY <4>1, <4>2, <3>2, <1>2, <1>3, <1>5 DEF Settled
    <3> QED
      BY <3>1, <3>2
  <2>4. BoardsApart'
    BY <2>1 DEF OneAtATime, BoardsApart
  <2> QED
    BY <2>1, <2>2, <2>3, <2>4 DEF OneAtATime
<1> QED
  BY <1>6, <1>7, <1>9, <1>10 DEF BoardsInv

LEMMA AnnotatesKeeps ==
  ASSUME BoardsInv, NEW h \in BoardThreads, NEW n \in Names, NEW i \in Made,
         NEW entry \in {"commented", "updated"}, Annotates(h, n, i, entry)
  PROVE  BoardsInv'
<1>1. BoardsTyped /\ Made' = Made /\ UNCHANGED <<overlap, employeeOf, boards, column, call>>
  BY DEF BoardsInv, Annotates, Made
<1>2. trail' = [trail EXCEPT ![i] = @ \cup {entry}]
  BY DEF Annotates, Logs
<1>3. \A j \in Made : "deleted" \in trail'[j] <=> "deleted" \in trail[j]
  BY <1>1, <1>2 DEF BoardsTyped
<1>4. BoardsTyped'
  <2>1. trail' \in [Made' -> SUBSET {"created", "updated", "commented", "deleted"}]
    BY <1>1, <1>2 DEF BoardsTyped
  <2>2. Calls' = Calls
    BY <1>1 DEF Calls
  <2> QED
    BY <1>1, <2>1, <2>2 DEF BoardsTyped
<1>5. IdsInRow' /\ OneGroup'
  BY <1>1 DEF BoardsInv, IdsInRow, OneGroup
<1>6. ASSUME ~ overlap PROVE OneAtATime'
  <2>1. OneAtATime
    BY <1>6 DEF BoardsInv
  <2>2. ASSUME NEW k \in BoardThreads PROVE StillFound(k)'
    <3>1. StillFound(k)
      BY <2>1 DEF OneAtATime
    <3> QED
      BY <3>1, <1>1, <1>3, CallOf DEF StillFound, OnBoard
  <2>3. ASSUME NEW j \in Made', \A k \in BoardThreads : ~ Busy(k, j)' PROVE Settled(j)'
    <3>1. Settled(j)
      BY <2>1, <2>3, <1>1 DEF OneAtATime, Busy
    <3> QED
      BY <3>1, <2>3, <1>1, <1>3 DEF Settled
  <2>4. BoardsApart'
    BY <2>1, <1>1 DEF OneAtATime, BoardsApart
  <2> QED
    BY <1>1, <2>1, <2>2, <2>3, <2>4 DEF OneAtATime
<1> QED
  BY <1>1, <1>4, <1>5, <1>6 DEF BoardsInv

(* Without overlap, who takes a request is alone. *)
LEMMA Alone ==
  ASSUME BoardsInv, ~ overlap, NEW h \in BoardThreads, Takes(h)
  PROVE  /\ OneAtATime /\ \A k \in BoardThreads : call[k] = Idle
         /\ \A i \in Made : Settled(i)
<1>1. OneAtATime /\ \A k \in BoardThreads : call[k] = Idle
  BY DEF BoardsInv, Takes
<1> QED
  BY <1>1 DEF OneAtATime, Busy, Idle

LEMMA StartProfileKeeps ==
  ASSUME BoardsInv, NEW h \in BoardThreads, NEW n \in Names, StartProfile(h, n)
  PROVE  BoardsInv'
<1>1. BoardsTyped /\ Made' = Made /\ UNCHANGED <<overlap, employeeOf, boards, column, trail>>
  BY DEF BoardsInv, StartProfile, Made
<1>2. PICK e \in Employees \ DOMAIN boards :
        call' = [call EXCEPT ![h] = [kind |-> "profile", name |-> n, as |-> e]]
  BY DEF StartProfile
<1>3. BoardsTyped'
  <2>1. Calls' = Calls
    BY <1>1 DEF Calls
  <2>2. [kind |-> "profile", name |-> n, as |-> e] \in Calls
    BY DEF Calls
  <2> QED
    BY <1>1, <1>2, <2>1, <2>2 DEF BoardsTyped
<1>4. IdsInRow' /\ OneGroup'
  BY <1>1 DEF BoardsInv, IdsInRow, OneGroup
<1>5. ASSUME ~ overlap PROVE OneAtATime'
  <2>1. /\ OneAtATime /\ \A k \in BoardThreads : call[k] = Idle
        /\ \A i \in Made : Settled(i)
    BY <1>5, Alone DEF StartProfile
  <2>2. \A k \in BoardThreads : k # h => call'[k] = Idle
    BY <1>1, <1>2, <2>1 DEF BoardsTyped
  <2>3. call'[h] = [kind |-> "profile", name |-> n, as |-> e]
    BY <1>1, <1>2 DEF BoardsTyped
  <2>4. ASSUME NEW k \in BoardThreads PROVE StillFound(k)'
    BY <1>1, <2>2, <2>3 DEF StillFound, Idle
  <2>5. \A i \in Made' : Settled(i)'
    BY <1>1, <2>1 DEF Settled
  <2>6. BoardsApart'
    BY <2>1, <1>1 DEF OneAtATime, BoardsApart
  <2> QED
    BY <2>2, <2>4, <2>5, <2>6 DEF OneAtATime
<1> QED
  BY <1>1, <1>3, <1>4, <1>5 DEF BoardsInv

LEMMA FinishProfileKeeps ==
  ASSUME BoardsInv, NEW h \in BoardThreads, FinishProfile(h)
  PROVE  BoardsInv'
<1> DEFINE a == call[h].as
           n == call[h].name
<1>1. BoardsTyped /\ Made' = Made /\ UNCHANGED <<overlap, column, trail>>
  BY DEF BoardsInv, FinishProfile, Made
<1>2. /\ a \in Employees /\ n \in Names /\ call[h].kind = "profile" /\ call[h] # Idle
      /\ boards' = [e \in DOMAIN boards \cup {a} |-> IF e = a THEN EmptyBoard ELSE boards[e]]
      /\ employeeOf' = [employeeOf EXCEPT ![n] = a]
      /\ call' = [call EXCEPT ![h] = Idle]
  BY <1>1, CallOf DEF FinishProfile
<1> HIDE DEF a, n
<1>3. DOMAIN boards' = DOMAIN boards \cup {a}
  BY <1>2
<1>4. \A e \in DOMAIN boards', g \in Groups : boards'[e][g] = IF e = a THEN {} ELSE boards[e][g]
  BY <1>2 DEF EmptyBoard
<1>5. \A k \in BoardThreads : call'[k] = IF k = h THEN Idle ELSE call[k]
  BY <1>1, <1>2 DEF BoardsTyped
<1>6. BoardsTyped'
  <2>1. Calls \subseteq Calls' /\ Idle \in Calls'
    BY <1>1, <1>3 DEF Calls
  <2>2. call' \in [BoardThreads -> Calls']
    BY <1>1, <1>2, <2>1 DEF BoardsTyped
  <2>3. boards' \in [DOMAIN boards' -> [Groups -> SUBSET Made']]
    BY <1>1, <1>2 DEF BoardsTyped, EmptyBoard
  <2>4. employeeOf' \in [Names -> DOMAIN boards' \cup {Nobody}]
    BY <1>1, <1>2, <1>3 DEF BoardsTyped
  <2> QED
    BY <1>1, <1>2, <1>3, <2>2, <2>3, <2>4 DEF BoardsTyped
<1>7. IdsInRow'
  BY <1>1 DEF BoardsInv, IdsInRow
<1>8. OneGroup'
  <2> SUFFICES ASSUME NEW j \in Made', NEW e \in DOMAIN boards', NEW f \in DOMAIN boards',
                      NEW k \in Groups, NEW m \in Groups,
                      j \in boards'[e][k], j \in boards'[f][m]
               PROVE  e = f /\ k = m
    BY DEF OneGroup
  <2>1. e # a /\ f # a /\ j \in boards[e][k] /\ j \in boards[f][m]
    BY <1>4
  <2> QED
    BY <2>1, <1>1, <1>3 DEF BoardsInv, OneGroup
<1>9. ASSUME ~ overlap PROVE OneAtATime'
  <2>1. OneAtATime
    BY <1>9 DEF BoardsInv
  <2>2. \A k \in BoardThreads : call'[k] = Idle
    BY <1>2, <1>5, <2>1 DEF OneAtATime
  <2>3. a \notin DOMAIN boards
    BY <1>2, <2>1 DEF OneAtATime, StillFound, a
  <2>4. ASSUME NEW j \in Made' PROVE Settled(j)'
    <3>1. \A k \in BoardThreads : ~ Busy(k, j)
      <4>1. \A k \in BoardThreads : call[k] = Idle \/ k = h
        BY <1>2, <2>1 DEF OneAtATime
      <4> QED
        BY <4>1, <1>2 DEF Busy, Idle
    <3>2. Settled(j)
      BY <1>1, <2>1, <3>1 DEF OneAtATime
    <3> QED
      BY <3>2, <1>1, <1>3, <1>4 DEF Settled
  <2>5. BoardsApart'
    BY <1>1, <1>2, <2>1, <2>3 DEF OneAtATime, BoardsApart, BoardsTyped
  <2>6. \A k \in BoardThreads : StillFound(k)'
    BY <2>2 DEF StillFound, Idle
  <2> QED
    BY <2>2, <2>4, <2>5, <2>6 DEF OneAtATime
<1> QED
  BY <1>1, <1>6, <1>7, <1>8, <1>9 DEF BoardsInv

LEMMA TargetFits ==
  ASSUME NEW g \in Groups, NEW c \in Columns
  PROVE  Target(g, c) \in Groups /\ (Target(g, c) = "done" <=> c = "done")
BY DEF Target, Groups, Columns

LEMMA StartMoveKeeps ==
  ASSUME BoardsInv, NEW h \in BoardThreads, NEW n \in Names, NEW i \in Made,
         StartPatchBoard(h, n, i)
  PROVE  BoardsInv'
<1>1. BoardsTyped /\ UNCHANGED <<overlap, employeeOf, boards, trail>>
  BY DEF BoardsInv, StartPatchBoard
<1>2. PICK g \in Groups, c \in Columns :
        /\ i \in boards[employeeOf[n]][g]
        /\ column' = [column EXCEPT ![i] = c]
        /\ call' = [call EXCEPT ![h] = [kind |-> "patch", on |-> employeeOf[n], id |-> i,
                                        found |-> g, to |-> Target(g, c)]]
  BY DEF StartPatchBoard
<1>3. employeeOf[n] \in DOMAIN boards
  BY <1>1 DEF StartPatchBoard, BoardsTyped
<1>4. Made' = Made
  BY <1>2 DEF Made
<1>5. BoardsTyped'
  <2>1. Calls' = Calls
    BY <1>1, <1>4 DEF Calls
  <2>2. [kind |-> "patch", on |-> employeeOf[n], id |-> i, found |-> g, to |-> Target(g, c)]
          \in Calls
    BY <1>3, TargetFits DEF Calls
  <2>3. column' \in [Made' -> Columns]
    BY <1>1, <1>2, <1>4 DEF BoardsTyped
  <2> QED
    BY <1>1, <1>2, <1>4, <2>1, <2>2, <2>3 DEF BoardsTyped
<1>6. IdsInRow' /\ OneGroup'
  BY <1>1, <1>4 DEF BoardsInv, IdsInRow, OneGroup
<1>7. ASSUME ~ overlap PROVE OneAtATime'
  <2>1. /\ OneAtATime /\ \A k \in BoardThreads : call[k] = Idle
        /\ \A j \in Made : Settled(j)
    BY <1>7, Alone DEF StartPatchBoard
  <2>2. \A k \in BoardThreads : k # h => call'[k] = Idle
    BY <1>1, <1>2, <2>1 DEF BoardsTyped
  <2>3. call'[h] = [kind |-> "patch", on |-> employeeOf[n], id |-> i,
                    found |-> g, to |-> Target(g, c)]
    BY <1>1, <1>2 DEF BoardsTyped
  <2>4. \A j \in Made : column'[j] = IF j = i THEN c ELSE column[j]
    BY <1>1, <1>2 DEF BoardsTyped
  <2>5. "deleted" \notin trail[i]
    BY <1>2, <1>3, <2>1 DEF Settled
  <2>6. StillFound(h)'
    BY <1>1, <1>2, <2>3, <2>4, <2>5, TargetFits DEF StillFound
  <2>7. \A k \in BoardThreads : k # h => StillFound(k)'
    BY <2>2 DEF StillFound, Idle
  <2>8. ASSUME NEW j \in Made', \A k \in BoardThreads : ~ Busy(k, j)' PROVE Settled(j)'
    <3>1. j # i
      BY <2>3, <2>8 DEF Busy
    <3> QED
      BY <3>1, <1>1, <1>4, <2>1, <2>4 DEF Settled
  <2>9. BoardsApart'
    BY <2>1, <1>1 DEF OneAtATime, BoardsApart
  <2> QED
    BY <2>2, <2>6, <2>7, <2>8, <2>9 DEF OneAtATime
<1> QED
  BY <1>1, <1>5, <1>6, <1>7 DEF BoardsInv

(* When the one request there is is over, no task is in hand any more. *)
LEMMA LastOneOver ==
  ASSUME BoardsInv, ~ overlap, NEW h \in BoardThreads, call[h] # Idle,
         call' = [call EXCEPT ![h] = Idle]
  PROVE  /\ OneAtATime /\ StillFound(h)
         /\ \A k \in BoardThreads : call'[k] = Idle
         /\ \A k \in BoardThreads : StillFound(k)'
         /\ \A j \in Made : ~ Busy(h, j) => Settled(j)
<1>1. OneAtATime /\ BoardsTyped
  BY DEF BoardsInv
<1>2. \A k \in BoardThreads : call'[k] = Idle
  BY <1>1 DEF OneAtATime, BoardsTyped
<1>3. \A k \in BoardThreads : StillFound(k)'
  BY <1>2 DEF StillFound, Idle
<1>4. ASSUME NEW j \in Made, ~ Busy(h, j) PROVE Settled(j)
  <2>1. \A k \in BoardThreads : ~ Busy(k, j)
    <3>1. \A k \in BoardThreads : call[k] = Idle \/ k = h
      BY <1>1 DEF OneAtATime
    <3> QED
      BY <3>1, <1>4 DEF Busy, Idle
  <2> QED
    BY <1>1, <2>1 DEF OneAtATime
<1> QED
  BY <1>1, <1>2, <1>3, <1>4 DEF OneAtATime

LEMMA FinishMoveKeeps ==
  ASSUME BoardsInv, NEW h \in BoardThreads, FinishPatchBoard(h)
  PROVE  BoardsInv'
<1> DEFINE r == call[h]
           stays == r.to = r.found
           there == IF stays THEN OnBoard(r.on, r.id) ELSE r.id \in boards[r.on][r.found]
<1>1. BoardsTyped /\ Made' = Made /\ UNCHANGED <<overlap, employeeOf, column>>
  BY DEF BoardsInv, FinishPatchBoard, Made
<1>2. /\ r.on \in DOMAIN boards /\ r.id \in Made /\ r.found \in Groups /\ r.to \in Groups
      /\ call[h] # Idle /\ r.kind = "patch"
  BY <1>1, CallOf DEF FinishPatchBoard
<1>3. call' = [call EXCEPT ![h] = Idle]
  BY DEF FinishPatchBoard
<1>4. \/ /\ there
         /\ boards' = IF stays THEN boards
                      ELSE [boards EXCEPT ![r.on][r.found] = @ \ {r.id},
                                          ![r.on][r.to] = @ \cup {r.id}]
         /\ trail' = [trail EXCEPT ![r.id] = @ \cup {"updated"}]
      \/ ~ there /\ UNCHANGED <<boards, trail>>
  BY DEF FinishPatchBoard, Logs
<1> HIDE DEF r
<1>5. \/ ~ there /\ boards' = boards /\ trail' = trail
      \/ there /\ stays /\ boards' = boards
      \/ /\ there /\ ~ stays
         /\ DOMAIN boards' = DOMAIN boards
         /\ boards' \in [DOMAIN boards -> [Groups -> SUBSET Made]]
         /\ \A e \in DOMAIN boards, g \in Groups :
              boards'[e][g] = IF e = r.on /\ g = r.found THEN boards[e][g] \ {r.id}
                              ELSE IF e = r.on /\ g = r.to THEN boards[e][g] \cup {r.id}
                              ELSE boards[e][g]
  <2>1. CASE there /\ ~ stays
    <3>1. boards' = [boards EXCEPT ![r.on][r.found] = @ \ {r.id}, ![r.on][r.to] = @ \cup {r.id}]
      BY <1>4, <2>1
    <3>2. boards \in [DOMAIN boards -> [Groups -> SUBSET Made]]
      BY <1>1 DEF BoardsTyped
    <3>3. \A e \in DOMAIN boards, g \in Groups :
              boards'[e][g] = IF e = r.on /\ g = r.found THEN boards[e][g] \ {r.id}
                              ELSE IF e = r.on /\ g = r.to THEN boards[e][g] \cup {r.id}
                              ELSE boards[e][g]
      BY <1>2, <2>1, <3>1, <3>2
    <3>4. boards' \in [DOMAIN boards -> [Groups -> SUBSET Made]]
      BY <1>2, <2>1, <3>1, <3>2
    <3> QED
      BY <2>1, <3>3, <3>4
  <2> QED
    BY <1>4, <2>1
<1>6. DOMAIN boards' = DOMAIN boards /\ boards' \in [DOMAIN boards -> [Groups -> SUBSET Made]]
  BY <1>5, <1>1 DEF BoardsTyped
<1>12. ASSUME NEW e \in DOMAIN boards, NEW g \in Groups
       PROVE  /\ \A j : j # r.id /\ j \in boards'[e][g] => j \in boards[e][g]
              /\ there /\ ~ stays /\ r.id \in boards'[e][g] =>
                   (e = r.on /\ g = r.to) \/ (r.id \in boards[e][g] /\ ~ (e = r.on /\ g = r.found))
  <2>1. CASE boards' = boards /\ ~ (there /\ ~ stays)
    BY <2>1
  <2>2. CASE there /\ ~ stays
    <3>1. boards'[e][g] = IF e = r.on /\ g = r.found THEN boards[e][g] \ {r.id}
                          ELSE IF e = r.on /\ g = r.to THEN boards[e][g] \cup {r.id}
                          ELSE boards[e][g]
      BY <1>5, <2>2
    <3>2. CASE e = r.on /\ g = r.found
      BY <3>1, <3>2
    <3>3. CASE ~ (e = r.on /\ g = r.found) /\ e = r.on /\ g = r.to
      BY <3>1, <3>3
    <3>4. CASE ~ (e = r.on /\ g = r.found) /\ ~ (e = r.on /\ g = r.to)
      BY <3>1, <3>4
    <3> QED
      BY <3>2, <3>3, <3>4
  <2> QED
    BY <1>5, <2>1, <2>2
<1>7. \A j \in Made : /\ trail'[j] \in SUBSET {"created", "updated", "commented", "deleted"}
                      /\ "deleted" \in trail'[j] <=> "deleted" \in trail[j]
  BY <1>1, <1>2, <1>4 DEF BoardsTyped
<1>8. BoardsTyped'
  <2>1. call' \in [BoardThreads -> Calls']
    BY <1>1, <1>3, <1>6 DEF BoardsTyped, Calls
  <2>2. trail' \in [Made' -> SUBSET {"created", "updated", "commented", "deleted"}]
    BY <1>1, <1>2, <1>4 DEF BoardsTyped
  <2> QED
    BY <1>1, <1>6, <2>1, <2>2 DEF BoardsTyped
<1>9. IdsInRow'
  BY <1>1 DEF BoardsInv, IdsInRow
<1>10. OneGroup'
  <2> SUFFICES ASSUME NEW j \in Made, NEW e \in DOMAIN boards, NEW f \in DOMAIN boards,
                      NEW k \in Groups, NEW m \in Groups,
                      j \in boards'[e][k], j \in boards'[f][m]
               PROVE  e = f /\ k = m
    BY <1>1, <1>6 DEF OneGroup
  <2>1. OneGroup
    BY DEF BoardsInv
  <2>2. CASE boards' = boards
    BY <2>1, <2>2 DEF OneGroup
  <2>3. CASE j # r.id
    <3>1. j \in boards[e][k] /\ j \in boards[f][m]
      BY <1>12, <2>3
    <3> QED
      BY <3>1, <2>1 DEF OneGroup
  <2>4. CASE j = r.id /\ there /\ ~ stays
    <3>1. \A x \in DOMAIN boards, y \in Groups : r.id \in boards[x][y] => x = r.on /\ y = r.found
      BY <2>1, <2>4, <1>2 DEF OneGroup
    <3>2. e = r.on /\ k = r.to
      BY <1>12, <2>4, <3>1
    <3>3. f = r.on /\ m = r.to
      BY <1>12, <2>4, <3>1
    <3> QED
      BY <3>2, <3>3
  <2> QED
    BY <1>5, <2>2, <2>3, <2>4
<1>11. ASSUME ~ overlap PROVE OneAtATime'
  <2>1. /\ OneAtATime /\ StillFound(h)
        /\ \A k \in BoardThreads : call'[k] = Idle
        /\ \A k \in BoardThreads : StillFound(k)'
        /\ \A j \in Made : ~ Busy(h, j) => Settled(j)
    BY <1>2, <1>3, <1>11, LastOneOver
  <2>2. /\ r.id \in boards[r.on][r.found] /\ "deleted" \notin trail[r.id]
        /\ r.to = "done" <=> column[r.id] = "done"
    BY <1>2, <2>1 DEF StillFound, r
  <2>3. there
    BY <2>2, <1>2 DEF OnBoard
  <2>4. ASSUME NEW j \in Made' PROVE Settled(j)'
    <3>1. CASE j = r.id
      <4>1. \A x \in DOMAIN boards, y \in Groups : r.id \in boards[x][y] => x = r.on /\ y = r.found
        BY <1>2, <2>2 DEF BoardsInv, OneGroup
      <4>2. \A x \in DOMAIN boards, y \in Groups : r.id \in boards'[x][y] => y = r.to
        <5>1. CASE stays
          <6>1. boards' = boards
            BY <1>4, <2>3, <5>1
          <6> QED
            BY <4>1, <5>1, <6>1
        <5>2. CASE ~ stays
          BY <1>12, <2>3, <4>1, <5>2
        <5> QED
          BY <5>1, <5>2
      <4> QED
        BY <1>1, <1>6, <1>7, <2>2, <3>1, <4>2 DEF Settled
    <3>2. CASE j # r.id
      <4>1. Settled(j)
        BY <3>2, <1>1, <2>1 DEF Busy, r
      <4>2. \A x \in DOMAIN boards, y \in Groups : j \in boards'[x][y] => j \in boards[x][y]
        BY <1>12, <3>2
      <4> QED
        BY <1>1, <1>6, <1>7, <4>1, <4>2 DEF Settled
    <3> QED
      BY <3>1, <3>2
  <2>5. BoardsApart'
    BY <1>1, <2>1 DEF OneAtATime, BoardsApart
  <2> QED
    BY <2>1, <2>4, <2>5 DEF OneAtATime
<1> QED
  BY <1>1, <1>8, <1>9, <1>10, <1>11 DEF BoardsInv

LEMMA StartDeleteKeeps ==
  ASSUME BoardsInv, NEW h \in BoardThreads, NEW n \in Names, NEW i \in Made,
         StartDeleteBoard(h, n, i)
  PROVE  BoardsInv'
<1>1. BoardsTyped /\ Made' = Made /\ UNCHANGED <<overlap, employeeOf, boards, column>>
  BY DEF BoardsInv, StartDeleteBoard, Made
<1>2. /\ trail' = [trail EXCEPT ![i] = @ \cup {"deleted"}]
      /\ call' = [call EXCEPT ![h] = [kind |-> "delete", on |-> employeeOf[n], id |-> i]]
      /\ OnBoard(employeeOf[n], i)
  BY DEF StartDeleteBoard, Logs
<1>3. employeeOf[n] \in DOMAIN boards
  BY <1>1 DEF StartDeleteBoard, BoardsTyped
<1>4. BoardsTyped'
  <2>1. Calls' = Calls
    BY <1>1 DEF Calls
  <2>2. [kind |-> "delete", on |-> employeeOf[n], id |-> i] \in Calls
    BY <1>3 DEF Calls
  <2>3. trail' \in [Made' -> SUBSET {"created", "updated", "commented", "deleted"}]
    BY <1>1, <1>2 DEF BoardsTyped
  <2> QED
    BY <1>1, <1>2, <2>1, <2>2, <2>3 DEF BoardsTyped
<1>5. IdsInRow' /\ OneGroup'
  BY <1>1 DEF BoardsInv, IdsInRow, OneGroup
<1>6. ASSUME ~ overlap PROVE OneAtATime'
  <2>1. /\ OneAtATime /\ \A k \in BoardThreads : call[k] = Idle
        /\ \A j \in Made : Settled(j)
    BY <1>6, Alone DEF StartDeleteBoard
  <2>2. \A k \in BoardThreads : k # h => call'[k] = Idle
    BY <1>1, <1>2, <2>1 DEF BoardsTyped
  <2>3. call'[h] = [kind |-> "delete", on |-> employeeOf[n], id |-> i]
    BY <1>1, <1>2 DEF BoardsTyped
  <2>4. StillFound(h)'
    BY <1>1, <1>2, <2>3 DEF StillFound, OnBoard
  <2>5. \A k \in BoardThreads : k # h => StillFound(k)'
    BY <2>2 DEF StillFound, Idle
  <2>6. ASSUME NEW j \in Made', \A k \in BoardThreads : ~ Busy(k, j)' PROVE Settled(j)'
    <3>1. j # i
      BY <2>3, <2>6 DEF Busy
    <3>2. trail'[j] = trail[j]
      BY <3>1, <1>1, <1>2 DEF BoardsTyped
    <3> QED
      BY <3>2, <1>1, <2>1 DEF Settled
  <2>7. BoardsApart'
    BY <2>1, <1>1 DEF OneAtATime, BoardsApart
  <2> QED
    BY <2>2, <2>4, <2>5, <2>6, <2>7 DEF OneAtATime
<1> QED
  BY <1>1, <1>4, <1>5, <1>6 DEF BoardsInv

LEMMA FinishDeleteKeeps ==
  ASSUME BoardsInv, NEW h \in BoardThreads, FinishDeleteBoard(h)
  PROVE  BoardsInv'
<1> DEFINE b == call[h].on
           i == call[h].id
<1>1. BoardsTyped /\ Made' = Made /\ UNCHANGED <<overlap, employeeOf, column, trail>>
  BY DEF BoardsInv, FinishDeleteBoard, Made
<1>2. b \in DOMAIN boards /\ i \in Made /\ call[h] # Idle /\ call[h].kind = "delete"
  BY <1>1, CallOf DEF FinishDeleteBoard
<1>3. /\ boards' = [boards EXCEPT ![b] = [g \in Groups |-> @[g] \ {i}]]
      /\ call' = [call EXCEPT ![h] = Idle]
  BY DEF FinishDeleteBoard
<1> HIDE DEF b, i
<1>4. /\ DOMAIN boards' = DOMAIN boards
      /\ boards' \in [DOMAIN boards -> [Groups -> SUBSET Made]]
      /\ \A e \in DOMAIN boards, g \in Groups :
           boards'[e][g] = IF e = b THEN boards[e][g] \ {i} ELSE boards[e][g]
  BY <1>1, <1>2, <1>3 DEF BoardsTyped
<1>5. BoardsTyped'
  <2>1. call' \in [BoardThreads -> Calls']
    BY <1>1, <1>3, <1>4 DEF BoardsTyped, Calls
  <2> QED
    BY <1>1, <1>4, <2>1 DEF BoardsTyped
<1>6. IdsInRow' /\ OneGroup'
  <2>1. \A e \in DOMAIN boards, g \in Groups : boards'[e][g] \subseteq boards[e][g]
    BY <1>4
  <2>2. OneGroup /\ IdsInRow
    BY DEF BoardsInv
  <2> QED
    BY <1>1, <1>4, <2>1, <2>2 DEF IdsInRow, OneGroup
<1>7. ASSUME ~ overlap PROVE OneAtATime'
  <2>1. /\ OneAtATime /\ StillFound(h)
        /\ \A k \in BoardThreads : call'[k] = Idle
        /\ \A k \in BoardThreads : StillFound(k)'
        /\ \A j \in Made : ~ Busy(h, j) => Settled(j)
    BY <1>2, <1>3, <1>7, LastOneOver
  <2>2. ASSUME NEW j \in Made' PROVE Settled(j)'
    <3>1. CASE j = i
      <4>1. \E g \in Groups : i \in boards[b][g]
        BY <1>2, <2>1 DEF StillFound, OnBoard, b, i
      <4>2. \A x \in DOMAIN boards, y \in Groups : i \in boards[x][y] => x = b
        BY <1>2, <4>1 DEF BoardsInv, OneGroup
      <4> QED
        BY <1>4, <3>1, <4>2 DEF Settled
    <3>2. CASE j # i
      <4>1. Settled(j)
        BY <3>2, <1>1, <2>1 DEF Busy, i
      <4> QED
        BY <4>1, <1>1, <1>4 DEF Settled
    <3> QED
      BY <3>1, <3>2
  <2>3. BoardsApart'
    BY <1>1, <2>1 DEF OneAtATime, BoardsApart
  <2> QED
    BY <2>1, <2>2, <2>3 DEF OneAtATime
<1> QED
  BY <1>1, <1>5, <1>6, <1>7 DEF BoardsInv

LEMMA BoardsStep == BoardsInv /\ [BoardsNext]_bvars => BoardsInv'
<1> SUFFICES ASSUME BoardsInv, [BoardsNext]_bvars PROVE BoardsInv'
  OBVIOUS
<1>1. ASSUME NEW h \in BoardThreads, NEW n \in Names, CreateQuickTask(h, n) PROVE BoardsInv'
  <2>1. PICK slot \in {"today", "this_week", "later"} : Files(n, "todo", slot)
    BY <1>1 DEF CreateQuickTask
  <2>2. slot \in Groups /\ slot # "done" /\ "todo" \in Columns
    BY DEF Groups, Columns
  <2> QED
    BY <1>1, <2>1, <2>2, FilesKeeps DEF CreateQuickTask
<1>2. ASSUME NEW h \in BoardThreads, NEW n \in Names, CreateBoardTask(h, n) PROVE BoardsInv'
  <2>1. PICK c \in Columns : Files(n, c, IF c = "done" THEN "done" ELSE "today")
    BY <1>2 DEF CreateBoardTask
  <2>2. PICK g \in Groups : g = (IF c = "done" THEN "done" ELSE "today")
    BY DEF Groups
  <2> QED
    BY <1>2, <2>1, <2>2, FilesKeeps DEF CreateBoardTask
<1>3. ASSUME NEW h \in BoardThreads, NEW n \in Names, NEW i \in Made,
             Comment(h, n, i) \/ Checklist(h, n, i)
      PROVE  BoardsInv'
  BY <1>3, AnnotatesKeeps DEF Comment, Checklist
<1>4. CASE UNCHANGED bvars
  <2>1. UNCHANGED <<overlap, employeeOf, boards, column, trail, call>> /\ Made' = Made
    BY <1>4 DEF bvars, Made
  <2>2. BoardsTyped' /\ IdsInRow' /\ OneGroup'
    BY <2>1 DEF BoardsInv, BoardsTyped, Calls, IdsInRow, OneGroup
  <2>3. OneAtATime => OneAtATime'
    BY <2>1 DEF OneAtATime, StillFound, OnBoard, Busy, Settled, BoardsApart
  <2> QED
    BY <2>1, <2>2, <2>3 DEF BoardsInv
<1> QED
  BY <1>1, <1>2, <1>3, <1>4, StartProfileKeeps, FinishProfileKeeps, StartMoveKeeps,
     FinishMoveKeeps, StartDeleteKeeps, FinishDeleteKeeps
  DEF BoardsNext

(* The dictionaries of the boards hold ids that were handed out, and every user with *)
(* an employee id has a board, however requests overlap.                             *)
THEOREM BoardsTypeCorrect == BoardsSpec => []BoardsTyped
<1>1. BoardsInv => BoardsTyped
  BY DEF BoardsInv
<1> QED
  BY BoardsBegin, BoardsStep, <1>1, PTL DEF BoardsSpec

(* However requests overlap, no task is in two groups or on two boards; and while they *)
(* do not overlap, group, column and trail agree and users have boards of their own.   *)
THEOREM BoardsStayInOrder == BoardsSpec => []BoardsInOrder
<1>1. BoardsInv => BoardsInOrder
  <2> SUFFICES ASSUME BoardsInv PROVE BoardsInOrder
    OBVIOUS
  <2>1. ASSUME ~ overlap, \A h \in BoardThreads : call[h] = Idle PROVE DoneMatches /\ BoardsApart
    <3>1. \A i \in Made : Settled(i)
      BY <2>1 DEF BoardsInv, OneAtATime, Busy, Idle
    <3>2. \A e \in DOMAIN boards, g \in Groups : boards[e][g] \subseteq Made
      BY DEF BoardsInv, BoardsTyped
    <3> QED
      BY <2>1, <3>1, <3>2 DEF BoardsInv, OneAtATime, DoneMatches, Settled
  <2> QED
    BY <2>1 DEF BoardsInv, BoardsInOrder
<1> QED
  BY BoardsBegin, BoardsStep, <1>1, PTL DEF BoardsSpec

HIDE BoardsAssumption

--------------------------------------------------------------------------------
(* The tasks of the contract API *)

USE TasksAssumption

(* The tasks that have been created. *)
Issued == 1 .. nextId - 1

WalkShape ==
  walk \in [at : {"before", "under way", "done"}, cursor : {<<>>} \cup (0 .. MaxTime) \X TaskIds,
            seen : SUBSET TaskIds, twice : SUBSET TaskIds, steady : SUBSET TaskIds]

(* What the threads are in the middle of concerns tasks that were created. *)
RequestKept(h) ==
  /\ req[h].kind = "patch" => req[h].id \in Issued
  /\ req[h].kind = "bulk" =>
       /\ req[h].ids # <<>>
       /\ req[h].field = "status" => req[h].value \in Statuses
       /\ req[h].field = "assignee" => req[h].value \in Users

(* A PATCH that wrote, and whose event will still tell field f of task i. *)
WillTell(r, i, f) ==
  /\ r.kind = "patch" /\ r.id = i
  /\ r.before # r.to /\ r.before[f] # task[i].is[f]

(* What the stream does not say of a field yet, a PATCH under way will. *)
StreamKept(i) ==
  Here(i) /\ i \notin slips =>
    \A f \in Fields : logged[i][f] = task[i].is[f] \/ \E h \in Threads : WillTell(req[h], i, f)

(* A task that stood still is visible, and has been served once if the cursor is    *)
(* past it and not at all if it is not.                                             *)
WalkKept ==
  /\ walk.at = "before" => walk.seen = {} /\ walk.twice = {} /\ walk.cursor = <<>>
  /\ walk.at = "under way" =>
       \A i \in walk.steady : Sees(Reader, i) /\ i \notin walk.twice /\ (i \in walk.seen <=> ~ Beyond(i))

TasksInv ==
  /\ TasksTyped /\ WalkShape
  /\ \A i \in TaskIds : Here(i) => i \in Issued
  /\ \A h \in Threads : RequestKept(h)
  /\ \A i \in TaskIds : StreamKept(i)
  /\ WalkKept /\ WalkExact

Written == [here : {TRUE}, is : Content, stamp : 0 .. MaxTime]

LEMMA TaskOf ==
  ASSUME TasksTyped, NEW i \in TaskIds
  PROVE  (Here(i) <=> task[i] # Absent) /\ (Here(i) <=> task[i] \in Written)
<1>1. CASE task[i] = Absent
  <2>1. ~ Here(i)
    BY <1>1 DEF Here, Absent
  <2>2. task[i] \notin Written
    BY <2>1 DEF Written, Here
  <2> QED
    BY <1>1, <2>1, <2>2
<1>2. CASE task[i] # Absent
  <2>1. task[i] \in Written
    BY <1>2 DEF TasksTyped, Task, Written
  <2>2. Here(i)
    BY <2>1 DEF Here, Written
  <2> QED
    BY <1>2, <2>1, <2>2
<1> QED
  BY <1>1, <1>2

LEMMA AbsentIsNot == Absent \notin Written
BY DEF Absent, Written

LEMMA RequestOf ==
  ASSUME TasksTyped, NEW h \in Threads
  PROVE  /\ req[h].kind = "patch" => req[h] \in PatchRequest
         /\ req[h].kind = "bulk" => req[h] \in BulkRequest
BY DEF TasksTyped, Quiet, PatchRequest, BulkRequest

LEMMA SameContent ==
  ASSUME NEW c \in Content, NEW d \in Content, \A f \in Fields : c[f] = d[f]
  PROVE  c = d
BY DEF Content, Fields

LEMMA MixedContent ==
  ASSUME NEW c \in Content, NEW d \in Content, NEW b \in [Fields -> BOOLEAN]
  PROVE  [f \in Fields |-> IF b[f] THEN c[f] ELSE d[f]] \in Content
BY DEF Content, Fields

LEMMA QuietIsQuiet == Quiet.kind = "quiet"
BY DEF Quiet

(* A step of other actors, for a walk that is under way. *)
LEMMA WalkStays ==
  ASSUME WalkKept, WalkExact, walk'.at = walk.at, walk'.cursor = walk.cursor,
         walk'.seen = walk.seen, walk'.twice = walk.twice, walk'.steady \subseteq walk.steady,
         \A i \in walk'.steady : task'[i] = task[i]
  PROVE  WalkKept' /\ WalkExact'
<1>1. ASSUME NEW i \in walk'.steady
      PROVE  Sees(Reader, i)' = Sees(Reader, i) /\ Beyond(i)' = Beyond(i)
  BY DEF Sees, Here, Can, Beyond, Later, Key
<1> QED
  BY <1>1 DEF WalkKept, WalkExact

LEMMA Disturbs ==
  ASSUME WalkShape, NEW ids, Disturb(ids)
  PROVE  /\ WalkShape' /\ walk'.at = walk.at /\ walk'.cursor = walk.cursor
         /\ walk'.seen = walk.seen /\ walk'.twice = walk.twice
         /\ walk'.steady = walk.steady \ ids
BY DEF WalkShape, Disturb

(* A task that a step does not concern. *)
LEMMA StreamStays ==
  ASSUME NEW i \in TaskIds, StreamKept(i), task'[i] = task[i], logged'[i] = logged[i],
         slips \subseteq slips',
         \A h \in Threads : req[h].kind = "patch" /\ req[h].id = i => req'[h] = req[h]
  PROVE  StreamKept(i)'
<1>1. ASSUME NEW h \in Threads, NEW f, WillTell(req[h], i, f) PROVE WillTell(req[h], i, f)'
  BY <1>1 DEF WillTell
<1> QED
  BY <1>1 DEF StreamKept, Here

LEMMA TasksBegin == TasksInit => TasksInv
<1> SUFFICES ASSUME TasksInit PROVE TasksInv
  OBVIOUS
<1>1. /\ DOMAIN Seeds = 1 .. Len(Seeds) /\ Len(Seeds) \in Nat
      /\ \A i \in DOMAIN Seeds : Seeds[i] \in Content
  OBVIOUS
<1>2. \A i \in TaskIds : task[i] = IF i \in DOMAIN Seeds
                                   THEN [here |-> TRUE, is |-> Seeds[i], stamp |-> 0] ELSE Absent
  BY DEF TasksInit
<1>3. ASSUME NEW i \in TaskIds PROVE task[i] \in Task /\ (i \notin DOMAIN Seeds => ~ Here(i))
  <2>1. CASE i \in DOMAIN Seeds
    <3>1. task[i] = [here |-> TRUE, is |-> Seeds[i], stamp |-> 0]
      BY <1>2, <2>1
    <3>2. Seeds[i] \in Content /\ 0 \in 0 .. MaxTime
      BY <1>1, <2>1
    <3> QED
      BY <2>1, <3>1, <3>2 DEF Task
  <2>2. CASE i \notin DOMAIN Seeds
    <3>1. task[i] = Absent
      BY <1>2, <2>2
    <3> QED
      BY <2>2, <3>1 DEF Task, Here, Absent
  <2> QED
    BY <2>1, <2>2
<1>4. /\ nextId = Len(Seeds) + 1 /\ logged = [i \in DOMAIN Seeds |-> Seeds[i]]
      /\ Issued = DOMAIN Seeds
  BY <1>1 DEF TasksInit, Issued
<1>5. walk = [at |-> "before", cursor |-> <<>>, seen |-> {}, twice |-> {}, steady |-> {}]
  BY DEF TasksInit
<1>6. TasksTyped
  <2>1. task \in [TaskIds -> Task]
    BY <1>3 DEF TasksInit
  <2>2. nextId \in 1 .. MaxTasks + 1 /\ logged \in [1 .. nextId - 1 -> Content]
    BY <1>1, <1>4
  <2>3. time \in 0 .. MaxTime /\ left \in 0 .. MaxRequests
    BY DEF TasksInit
  <2>4. slips \subseteq TaskIds /\ req \in [Threads -> {Quiet} \cup PatchRequest \cup BulkRequest]
    BY DEF TasksInit
  <2> QED
    BY <1>5, <2>1, <2>2, <2>3, <2>4 DEF TasksTyped
<1>7. WalkShape
  BY <1>5 DEF WalkShape
<1>8. \A i \in TaskIds : Here(i) => i \in Issued
  BY <1>3, <1>4
<1>9. \A h \in Threads : RequestKept(h)
  BY DEF TasksInit, RequestKept, Quiet
<1>10. ASSUME NEW i \in TaskIds, Here(i) PROVE logged[i] = task[i].is
  <2>1. task[i] = [here |-> TRUE, is |-> Seeds[i], stamp |-> 0] /\ logged[i] = Seeds[i]
    BY <1>2, <1>3, <1>4, <1>10
  <2> QED
    BY <2>1
<1>11. WalkKept /\ WalkExact
  BY <1>5 DEF WalkKept, WalkExact
<1> QED
  BY <1>6, <1>7, <1>8, <1>9, <1>10, <1>11 DEF TasksInv, StreamKept

LEMMA CreateKeeps ==
  ASSUME TasksInv, NEW u \in Users, CreateTask(u)
  PROVE  TasksInv'
<1>1. TasksTyped /\ WalkShape /\ WalkKept /\ WalkExact
  BY DEF TasksInv
<1>2. PICK c \in Content :
        /\ task' = [task EXCEPT ![nextId] = [here |-> TRUE, is |-> c, stamp |-> time]]
        /\ logged' = [i \in DOMAIN logged \cup {nextId} |-> IF i = nextId THEN c ELSE logged[i]]
  BY DEF CreateTask
<1>3. /\ nextId \in TaskIds /\ nextId' = nextId + 1 /\ left' \in 0 .. MaxRequests
      /\ UNCHANGED <<slips, req, walk, time>>
  BY <1>1 DEF CreateTask, Spend, TasksTyped, TaskIds
<1>4. Issued' = Issued \cup {nextId} /\ nextId \notin Issued
  BY <1>1, <1>3 DEF Issued, TasksTyped
<1>5. /\ task' \in [TaskIds -> Task] /\ task'[nextId].is = c
      /\ \A i \in TaskIds : i # nextId => task'[i] = task[i]
  BY <1>1, <1>2, <1>3 DEF TasksTyped, Task
<1>6. /\ logged' \in [Issued' -> Content] /\ logged'[nextId] = c
      /\ \A i \in Issued : logged'[i] = logged[i]
  BY <1>1, <1>2, <1>3, <1>4 DEF TasksTyped, Issued
<1>7. TasksTyped'
  <2>1. nextId' \in 1 .. MaxTasks + 1 /\ logged' \in [1 .. nextId' - 1 -> Content]
    BY <1>3, <1>6 DEF TaskIds, Issued
  <2>2. walk'.seen \cup walk'.twice \cup walk'.steady \subseteq 1 .. nextId' - 1
    BY <1>1, <1>3, <1>4 DEF TasksTyped, Issued
  <2> QED
    BY <1>1, <1>3, <1>5, <2>1, <2>2 DEF TasksTyped
<1>8. \A i \in TaskIds : Here(i)' => i \in Issued'
  BY <1>4, <1>5 DEF TasksInv, Here
<1>9. \A h \in Threads : RequestKept(h)'
  BY <1>3, <1>4 DEF TasksInv, RequestKept
<1>10. ASSUME NEW i \in TaskIds PROVE StreamKept(i)'
  <2>1. CASE i = nextId
    BY <1>5, <1>6, <2>1 DEF StreamKept
  <2>2. CASE i # nextId /\ i \in Issued
    BY <1>3, <1>5, <1>6, <2>2, StreamStays DEF TasksInv
  <2>3. CASE i # nextId /\ i \notin Issued
    BY <1>5, <2>3 DEF TasksInv, StreamKept, Here
  <2> QED
    BY <2>1, <2>2, <2>3
<1>11. walk.steady \subseteq Issued
  BY <1>1 DEF TasksTyped, Issued
<1>12. WalkKept' /\ WalkExact'
  <2>1. \A i \in walk'.steady : task'[i] = task[i]
    BY <1>1, <1>3, <1>4, <1>5, <1>11 DEF WalkShape
  <2> QED
    BY <1>1, <1>3, <2>1, WalkStays
<1>13. WalkShape'
  BY <1>1, <1>3 DEF WalkShape
<1> QED
  BY <1>7, <1>8, <1>9, <1>10, <1>12, <1>13 DEF TasksInv

(* A request that writes task i only, and says in full what it does to it. *)
LEMMA OneTask ==
  ASSUME TasksInv, NEW i \in TaskIds, nextId' = nextId,
         task' \in [TaskIds -> Task], \A j \in TaskIds : j # i => task'[j] = task[j],
         Here(i)' => Here(i),
         logged' \in [Issued -> Content], \A j \in Issued : j # i => logged'[j] = logged[j],
         slips \subseteq slips', slips' \subseteq TaskIds,
         req' \in [Threads -> {Quiet} \cup PatchRequest \cup BulkRequest],
         \A h \in Threads : req'[h] = req[h]
                            \/ (RequestKept(h)' /\ (req[h].kind = "patch" => req[h].id = i)),
         time' = time, left' \in 0 .. MaxRequests,
         Disturb({i}) \/ (task' = task /\ walk' = walk), StreamKept(i)'
  PROVE  TasksInv'
<1>1. TasksTyped /\ WalkShape /\ WalkKept /\ WalkExact
  BY DEF TasksInv
<1>2. Issued' = Issued
  BY DEF Issued
<1>3. \A h \in Threads : RequestKept(h)'
  <2>1. ASSUME NEW h \in Threads, req'[h] = req[h] PROVE RequestKept(h)'
    BY <1>2, <2>1 DEF TasksInv, RequestKept
  <2> QED
    BY <2>1
<1>4. ASSUME NEW j \in TaskIds, j # i PROVE StreamKept(j)'
  <2>1. CASE j \in Issued
    <3>1. \A h \in Threads : req[h].kind = "patch" /\ req[h].id = j => req'[h] = req[h]
      BY <1>4
    <3> QED
      BY <1>4, <2>1, <3>1, StreamStays DEF TasksInv
  <2>2. CASE j \notin Issued
    BY <1>4, <2>2 DEF TasksInv, StreamKept, Here
  <2> QED
    BY <2>1, <2>2
<1>5. WalkShape' /\ WalkKept' /\ WalkExact' /\ walk'.seen = walk.seen /\ walk'.twice = walk.twice
      /\ walk'.steady \subseteq walk.steady
  <2>1. CASE Disturb({i})
    <3>1. /\ WalkShape' /\ walk'.at = walk.at /\ walk'.cursor = walk.cursor
          /\ walk'.seen = walk.seen /\ walk'.twice = walk.twice
          /\ walk'.steady = walk.steady \ {i}
      BY <1>1, <2>1, Disturbs
    <3>2. \A j \in walk'.steady : task'[j] = task[j]
      BY <1>1, <3>1 DEF WalkShape
    <3> QED
      BY <1>1, <3>1, <3>2, WalkStays
  <2>2. CASE task' = task /\ walk' = walk
    <3>1. WalkShape'
      BY <1>1, <2>2 DEF WalkShape
    <3> QED
      BY <1>1, <2>2, <3>1, WalkStays
  <2> QED
    BY <2>1, <2>2
<1>6. TasksTyped'
  BY <1>1, <1>2, <1>5 DEF TasksTyped, Issued
<1>7. \A j \in TaskIds : Here(j)' => j \in Issued'
  BY <1>2 DEF TasksInv, Here
<1> QED
  BY <1>3, <1>4, <1>5, <1>6, <1>7 DEF TasksInv

LEMMA StartPatchKeeps ==
  ASSUME TasksInv, NEW h \in Threads, NEW u \in Users, NEW i \in TaskIds, StartPatch(h, u, i)
  PROVE  TasksInv'
<1>1. TasksTyped /\ StreamKept(i)
  BY DEF TasksInv
<1>2. Here(i) /\ req[h] = Quiet /\ task[i] \in Written /\ i \in Issued
  BY <1>1, TaskOf DEF StartPatch, Sees, TasksInv
<1>3. PICK set \in FieldSets, to \in Content :
        /\ req' = [req EXCEPT ![h] = [kind |-> "patch", by |-> u, id |-> i, set |-> set,
                                      before |-> task[i].is, to |-> to]]
        /\ task' = [task EXCEPT ![i].is = to] /\ Disturb({i})
  BY DEF StartPatch
<1>4. UNCHANGED <<nextId, logged, slips, time>> /\ left' \in 0 .. MaxRequests
  BY <1>1 DEF StartPatch, Spend, TasksTyped
<1>5. PICK r : r = [kind |-> "patch", by |-> u, id |-> i, set |-> set, before |-> task[i].is,
                    to |-> to]
  OBVIOUS
<1>6. /\ r \in PatchRequest /\ r.kind = "patch" /\ r.id = i /\ r.before = task[i].is /\ r.to = to
  BY <1>2, <1>5 DEF PatchRequest, Written
<1>7. /\ req' \in [Threads -> {Quiet} \cup PatchRequest \cup BulkRequest] /\ req'[h] = r
      /\ \A k \in Threads : k # h => req'[k] = req[k]
  BY <1>1, <1>3, <1>5, <1>6 DEF TasksTyped
<1>8. /\ task' \in [TaskIds -> Task] /\ task'[i].is = to /\ Here(i)' = Here(i)
      /\ \A j \in TaskIds : j # i => task'[j] = task[j]
  <2>1. [task[i] EXCEPT !.is = to] \in Written /\ [task[i] EXCEPT !.is = to].is = to
        /\ [task[i] EXCEPT !.is = to].here = task[i].here
    BY <1>2 DEF Written
  <2>2. task' = [task EXCEPT ![i] = [task[i] EXCEPT !.is = to]]
    BY <1>3
  <2>3. [task[i] EXCEPT !.is = to] \in Task
    BY <2>1 DEF Task, Written
  <2> QED
    BY <1>1, <2>1, <2>2, <2>3 DEF TasksTyped, Here
<1>9. RequestKept(h)'
  BY <1>2, <1>4, <1>6, <1>7 DEF RequestKept, Issued
<1>10. StreamKept(i)'
  <2>1. ASSUME i \notin slips, NEW f \in Fields, logged[i][f] # to[f]
        PROVE  \E k \in Threads : WillTell(req[k], i, f)'
    <3>1. CASE task[i].is[f] # to[f]
      <4>1. r.before # r.to /\ r.before[f] # task'[i].is[f]
        BY <1>6, <1>8, <3>1
      <4>2. WillTell(req[h], i, f)'
        BY <1>6, <1>7, <4>1 DEF WillTell
      <4> QED
        BY <4>2
    <3>2. CASE task[i].is[f] = to[f]
      <4>1. PICK k \in Threads : WillTell(req[k], i, f)
        BY <1>1, <1>2, <2>1, <3>2 DEF StreamKept
      <4>2. k # h
        BY <1>2, <4>1, QuietIsQuiet DEF WillTell
      <4>3. WillTell(req[k], i, f)'
        BY <1>7, <1>8, <3>2, <4>1, <4>2 DEF WillTell
      <4> QED
        BY <4>3
    <3> QED
      BY <3>1, <3>2
  <2> QED
    BY <1>4, <1>8, <2>1 DEF StreamKept
<1>11. logged' \in [Issued -> Content] /\ slips' \subseteq TaskIds
  BY <1>1, <1>4 DEF TasksTyped, Issued
<1>12. req[h].kind # "patch"
  BY <1>2, QuietIsQuiet
<1> QED
  BY <1>3, <1>4, <1>7, <1>8, <1>9, <1>10, <1>11, <1>12, OneTask

(* What becomes of task i when the time is written to it. *)
LEMMA Stamped ==
  ASSUME TasksTyped, NEW i \in TaskIds, Here(i), task' = [task EXCEPT ![i].stamp = time]
  PROVE  /\ task' \in [TaskIds -> Task] /\ task'[i].is = task[i].is /\ Here(i)' = Here(i)
         /\ \A j \in TaskIds : j # i => task'[j] = task[j]
<1>1. task[i] \in Written /\ time \in 0 .. MaxTime
  BY TaskOf DEF TasksTyped
<1>2. PICK t : t = [task[i] EXCEPT !.stamp = time]
  OBVIOUS
<1>3. t \in Task /\ t.is = task[i].is /\ t.here = task[i].here
  BY <1>1, <1>2 DEF Written, Task
<1>4. task' = [task EXCEPT ![i] = t]
  BY <1>2
<1> QED
  BY <1>3, <1>4 DEF TasksTyped, Here

LEMMA AddActivityKeeps ==
  ASSUME TasksInv, NEW u \in Users, NEW i \in TaskIds, AddActivity(u, i)
  PROVE  TasksInv'
<1>1. TasksTyped /\ StreamKept(i)
  BY DEF TasksInv
<1>2. Here(i)
  BY DEF AddActivity, Sees
<1>3. /\ task' \in [TaskIds -> Task] /\ task'[i].is = task[i].is /\ Here(i)' = Here(i)
      /\ \A j \in TaskIds : j # i => task'[j] = task[j]
  BY <1>1, <1>2, Stamped DEF AddActivity
<1>4. UNCHANGED <<nextId, logged, slips, req, time>> /\ left' \in 0 .. MaxRequests /\ Disturb({i})
  BY <1>1 DEF AddActivity, Spend, TasksTyped
<1>5. StreamKept(i)'
  BY <1>1, <1>3, <1>4 DEF StreamKept, WillTell
<1>6. /\ logged' \in [Issued -> Content] /\ slips' \subseteq TaskIds
      /\ req' \in [Threads -> {Quiet} \cup PatchRequest \cup BulkRequest]
      /\ \A j \in Issued : logged'[j] = logged[j]
      /\ \A k \in Threads : req'[k] = req[k]
  BY <1>1, <1>4 DEF TasksTyped, Issued
<1> QED
  BY <1>3, <1>4, <1>5, <1>6, OneTask

LEMMA DeleteKeeps ==
  ASSUME TasksInv, NEW u \in Users, NEW i \in TaskIds, DeleteTask(u, i)
  PROVE  TasksInv'
<1>1. TasksTyped
  BY DEF TasksInv
<1>2. /\ task' = [task EXCEPT ![i] = Absent] /\ Here(i)
      /\ UNCHANGED <<nextId, logged, slips, req, time>> /\ left' \in 0 .. MaxRequests /\ Disturb({i})
  BY <1>1 DEF DeleteTask, Spend, TasksTyped, Sees
<1>3. /\ task' \in [TaskIds -> Task] /\ task'[i] = Absent
      /\ \A j \in TaskIds : j # i => task'[j] = task[j]
  BY <1>1, <1>2 DEF TasksTyped, Task
<1>4. ~ Here(i)'
  BY <1>3 DEF Here, Absent
<1>5. StreamKept(i)'
  BY <1>4 DEF StreamKept
<1>6. /\ logged' \in [Issued -> Content] /\ slips' \subseteq TaskIds
      /\ req' \in [Threads -> {Quiet} \cup PatchRequest \cup BulkRequest]
      /\ \A j \in Issued : logged'[j] = logged[j]
      /\ \A k \in Threads : req'[k] = req[k]
  BY <1>1, <1>2 DEF TasksTyped, Issued
<1> QED
  BY <1>2, <1>3, <1>4, <1>5, <1>6, OneTask

LEMMA FinishPatchKeeps ==
  ASSUME TasksInv, NEW h \in Threads, FinishPatch(h)
  PROVE  TasksInv'
<1>1. TasksTyped /\ WalkShape /\ RequestKept(h)
  BY DEF TasksInv
<1>2. req[h].kind = "patch" /\ req[h] \in PatchRequest
  BY <1>1, RequestOf DEF FinishPatch
<1>3. PICK r \in PatchRequest : r = req[h]
  BY <1>2
<1>4. PICK i \in TaskIds : i = r.id
  BY <1>3 DEF PatchRequest
<1>5. i \in Issued /\ StreamKept(i) /\ r.before \in Content /\ r.to \in Content
  BY <1>1, <1>2, <1>3, <1>4 DEF RequestKept, TasksInv, PatchRequest
<1>6. /\ req' \in [Threads -> {Quiet} \cup PatchRequest \cup BulkRequest] /\ req'[h] = Quiet
      /\ \A k \in Threads : k # h => req'[k] = req[k]
      /\ UNCHANGED <<nextId, time, left>>
  BY <1>1 DEF FinishPatch, TasksTyped
<1>7. RequestKept(h)'
  BY <1>6, QuietIsQuiet DEF RequestKept
<1>8. left' \in 0 .. MaxRequests /\ slips \subseteq TaskIds /\ logged \in [Issued -> Content]
  BY <1>1, <1>6 DEF TasksTyped, Issued
<1>9. CASE /\ Here(i) /\ task' = [task EXCEPT ![i].stamp = time] /\ Disturb({i}) /\ UNCHANGED slips
           /\ logged' = [logged EXCEPT ![i] =
                [f \in Fields |-> IF r.before[f] # task[i].is[f] THEN task[i].is[f]
                                  ELSE logged[i][f]]]
  <2>1. /\ task' \in [TaskIds -> Task] /\ task'[i].is = task[i].is /\ Here(i)' = Here(i)
        /\ \A j \in TaskIds : j # i => task'[j] = task[j]
    BY <1>1, <1>9, Stamped
  <2>2. task[i].is \in Content
    BY <1>1, <1>9, TaskOf DEF Written
  <2>3. PICK c : c = [f \in Fields |-> IF r.before[f] # task[i].is[f] THEN task[i].is[f]
                                       ELSE logged[i][f]]
    OBVIOUS
  <2>4. c \in Content
    BY <1>5, <1>8, <2>2, <2>3 DEF Content, Fields
  <2>5. /\ logged' \in [Issued -> Content] /\ logged'[i] = c
        /\ \A j \in Issued : j # i => logged'[j] = logged[j]
    BY <1>5, <1>8, <1>9, <2>3, <2>4
  <2>6. StreamKept(i)'
    <3>1. ASSUME i \notin slips, NEW f \in Fields, c[f] # task[i].is[f]
          PROVE  \E k \in Threads : WillTell(req[k], i, f)'
      <4>1. r.before[f] = task[i].is[f] /\ logged[i][f] # task[i].is[f]
        BY <2>3, <3>1
      <4>2. PICK k \in Threads : WillTell(req[k], i, f)
        BY <1>5, <1>9, <3>1, <4>1 DEF StreamKept
      <4>3. k # h
        BY <1>3, <4>1, <4>2 DEF WillTell
      <4>4. WillTell(req[k], i, f)'
        BY <1>6, <2>1, <4>2, <4>3 DEF WillTell
      <4> QED
        BY <4>4
    <3> QED
      BY <1>9, <2>1, <2>5, <3>1 DEF StreamKept
  <2> QED
    <3>1. \A k \in Threads : req'[k] = req[k]
                             \/ (RequestKept(k)' /\ (req[k].kind = "patch" => req[k].id = i))
      BY <1>3, <1>4, <1>6, <1>7
    <3>2. slips \subseteq slips' /\ slips' \subseteq TaskIds /\ Disturb({i}) /\ (Here(i)' => Here(i))
      BY <1>8, <1>9, <2>1
    <3>3. /\ nextId' = nextId /\ time' = time /\ left' \in 0 .. MaxRequests
          /\ req' \in [Threads -> {Quiet} \cup PatchRequest \cup BulkRequest]
      BY <1>6, <1>8
    <3> QED
      BY <2>1, <2>5, <2>6, <3>1, <3>2, <3>3, OneTask
<1>10. CASE /\ Here(i) /\ slips' = slips \cup {j \in {i} : r.to # r.before}
            /\ UNCHANGED <<task, logged, walk>>
  <2>1. StreamKept(i)'
    <3>1. ASSUME r.to = r.before, NEW k \in Threads, NEW f, WillTell(req[k], i, f)
          PROVE  WillTell(req[k], i, f)'
      <4>1. k # h
        BY <1>3, <3>1 DEF WillTell
      <4> QED
        BY <1>6, <1>10, <3>1, <4>1 DEF WillTell
    <3> QED
      BY <1>5, <1>10, <3>1 DEF StreamKept, Here
  <2>2. slips \subseteq slips' /\ slips' \subseteq TaskIds
    BY <1>8, <1>10
  <2>3. task' \in [TaskIds -> Task] /\ Here(i)' = Here(i)
    BY <1>1, <1>10 DEF TasksTyped, Here
  <2> QED
    BY <1>3, <1>4, <1>6, <1>7, <1>8, <1>10, <2>1, <2>2, <2>3, OneTask
<1>11. CASE ~ Here(i) /\ UNCHANGED <<task, logged, slips, walk>>
  <2>1. StreamKept(i)' /\ task' \in [TaskIds -> Task] /\ Here(i)' = Here(i)
    BY <1>1, <1>11 DEF StreamKept, TasksTyped, Here
  <2> QED
    BY <1>3, <1>4, <1>6, <1>7, <1>8, <1>11, <2>1, OneTask
<1> QED
  BY <1>3, <1>4, <1>9, <1>10, <1>11 DEF FinishPatch

LEMMA StartBulkKeeps ==
  ASSUME TasksInv, NEW h \in Threads, NEW u \in Users, StartBulk(h, u)
  PROVE  TasksInv'
<1>1. TasksTyped
  BY DEF TasksInv
<1>2. PICK field \in {"status", "assignee"}, ids \in [1 .. 2 -> TaskIds],
           value \in Statuses \cup Users :
        /\ field = "status" => value \in Statuses
        /\ field = "assignee" => value \in Users
        /\ req' = [req EXCEPT ![h] = [kind |-> "bulk", by |-> u, field |-> field,
                                      value |-> value, stamp |-> time, ids |-> ids]]
  BY DEF StartBulk
<1>3. PICK r : r = [kind |-> "bulk", by |-> u, field |-> field, value |-> value, stamp |-> time,
                    ids |-> ids]
  OBVIOUS
<1>4. ids \in Seq(TaskIds) /\ ids # <<>> /\ ids[1] \in TaskIds
  <2>1. ids[1] \in TaskIds /\ ids[2] \in TaskIds
    OBVIOUS
  <2>2. PICK pair : pair = <<ids[1], ids[2]>>
    OBVIOUS
  <2>3. pair \in [1 .. 2 -> TaskIds] /\ pair[1] = ids[1] /\ pair[2] = ids[2]
    BY <2>1, <2>2
  <2>4. \A n \in 1 .. 2 : n = 1 \/ n = 2
    OBVIOUS
  <2>5. ids = pair
    BY <2>3, <2>4
  <2>6. pair \in Seq(TaskIds) /\ Len(pair) # 0 /\ Len(<<>>) = 0
    BY <2>1, <2>2
  <2>7. pair # <<>>
    BY <2>6, Zenon
  <2> QED
    BY <2>1, <2>5, <2>6, <2>7
<1>5. r \in BulkRequest /\ r.kind = "bulk"
  BY <1>1, <1>3, <1>4 DEF BulkRequest, TasksTyped
<1>6. /\ req' \in [Threads -> {Quiet} \cup PatchRequest \cup BulkRequest] /\ req'[h] = r
      /\ \A k \in Threads : k # h => req'[k] = req[k]
  BY <1>1, <1>2, <1>3, <1>5 DEF TasksTyped
<1>7. /\ UNCHANGED <<task, nextId, logged, slips, walk, time>> /\ left' \in 0 .. MaxRequests
      /\ req[h] = Quiet
  BY <1>1 DEF StartBulk, Spend, TasksTyped
<1>8. RequestKept(h)'
  BY <1>2, <1>3, <1>4, <1>5, <1>6 DEF RequestKept
<1>9. StreamKept(ids[1])'
  <2>1. \A k \in Threads : req[k].kind = "patch" => req'[k] = req[k]
    BY <1>6, <1>7, QuietIsQuiet
  <2> QED
    BY <1>4, <1>7, <2>1, StreamStays DEF TasksInv
<1>10. /\ task' \in [TaskIds -> Task] /\ logged' \in [Issued -> Content] /\ slips' \subseteq TaskIds
       /\ Here(ids[1])' = Here(ids[1]) /\ req[h].kind # "patch"
  BY <1>1, <1>7, QuietIsQuiet DEF TasksTyped, Issued, Here
<1> QED
  BY <1>4, <1>6, <1>7, <1>8, <1>9, <1>10, OneTask

LEMMA BulkNextKeeps ==
  ASSUME TasksInv, NEW h \in Threads, BulkNext(h)
  PROVE  TasksInv'
<1>1. TasksTyped /\ RequestKept(h)
  BY DEF TasksInv
<1>2. req[h].kind = "bulk" /\ req[h] \in BulkRequest
  BY <1>1, RequestOf DEF BulkNext
<1>3. PICK r \in BulkRequest :
        /\ r = req[h] /\ r.kind = "bulk" /\ r.ids \in Seq(TaskIds) /\ r.ids # <<>>
        /\ r.field = "status" => r.value \in Statuses
        /\ r.field = "assignee" => r.value \in Users
        /\ r.field \in {"status", "assignee"} /\ r.stamp \in 0 .. MaxTime
  BY <1>1, <1>2 DEF RequestKept, BulkRequest
<1>4. PICK i \in TaskIds : i = Head(r.ids)
  BY <1>3
<1>5. PICK rest : rest = IF Len(r.ids) = 1 THEN Quiet ELSE [r EXCEPT !.ids = Tail(@)]
  OBVIOUS
<1>6. /\ rest = Quiet \/ (rest \in BulkRequest /\ rest.kind = "bulk" /\ rest.ids # <<>>
                          /\ rest.field = r.field /\ rest.value = r.value)
  <2>1. CASE Len(r.ids) = 1
    BY <1>5, <2>1
  <2>2. CASE Len(r.ids) # 1
    <3>1. Tail(r.ids) \in Seq(TaskIds) /\ Len(Tail(r.ids)) = Len(r.ids) - 1 /\ Len(r.ids) \in Nat
          /\ Len(r.ids) # 0
      BY <1>3, HeadTailProperties, LenProperties, EmptySeq
    <3>3. Tail(r.ids) # <<>>
      <4>1. Len(Tail(r.ids)) # 0 /\ Len(<<>>) = 0
        BY <2>2, <3>1
      <4> QED
        BY <4>1, Zenon
    <3>2. rest = [r EXCEPT !.ids = Tail(r.ids)]
      BY <1>5, <2>2
    <3> QED
      BY <1>3, <3>1, <3>2, <3>3 DEF BulkRequest
  <2> QED
    BY <2>1, <2>2
<1>7. UNCHANGED <<nextId, slips, time, left>>
  BY DEF BulkNext
<1>8. left' \in 0 .. MaxRequests /\ slips' \subseteq TaskIds /\ logged \in [Issued -> Content]
  BY <1>1, <1>7 DEF TasksTyped, Issued
<1>9. ASSUME NEW q, q \in {Quiet, rest}, req' = [req EXCEPT ![h] = q]
      PROVE  /\ req' \in [Threads -> {Quiet} \cup PatchRequest \cup BulkRequest]
             /\ RequestKept(h)' /\ req[h].kind # "patch"
             /\ \A k \in Threads : k # h => req'[k] = req[k]
             /\ \A k \in Threads : req[k].kind = "patch" => req'[k] = req[k]
  <2>1. /\ req' \in [Threads -> {Quiet} \cup PatchRequest \cup BulkRequest] /\ req'[h] = q
        /\ \A k \in Threads : k # h => req'[k] = req[k]
    BY <1>1, <1>6, <1>9 DEF TasksTyped
  <2>2. RequestKept(h)'
    BY <1>3, <1>6, <1>9, <2>1, QuietIsQuiet DEF RequestKept
  <2> QED
    BY <1>2, <2>1, <2>2
<1>10. CASE /\ req' = [req EXCEPT ![h] = rest] \/ req' = [req EXCEPT ![h] = Quiet]
            /\ UNCHANGED <<task, logged, walk>>
  <2>1. /\ req' \in [Threads -> {Quiet} \cup PatchRequest \cup BulkRequest]
        /\ RequestKept(h)' /\ req[h].kind # "patch"
        /\ \A k \in Threads : k # h => req'[k] = req[k]
        /\ \A k \in Threads : req[k].kind = "patch" => req'[k] = req[k]
    BY <1>9, <1>10
  <2>2. StreamKept(i)'
    BY <1>7, <1>10, <2>1, StreamStays DEF TasksInv
  <2>3. task' \in [TaskIds -> Task] /\ Here(i)' = Here(i)
    BY <1>1, <1>10 DEF TasksTyped, Here
  <2> QED
    BY <1>7, <1>8, <1>10, <2>1, <2>2, <2>3, OneTask
<1>11. CASE /\ Here(i) /\ Disturb({i}) /\ req' = [req EXCEPT ![h] = rest]
            /\ task' = [task EXCEPT ![i] = [here |-> TRUE, stamp |-> r.stamp,
                                            is |-> [task[i].is EXCEPT ![r.field] = r.value]]]
            /\ logged' = [logged EXCEPT ![i][r.field] = r.value]
  <2>1. i \in Issued /\ task[i].is \in Content /\ logged[i] \in Content
    BY <1>1, <1>8, <1>11, TaskOf DEF TasksInv, Written
  <2>2. PICK now, log : /\ now = [task[i].is EXCEPT ![r.field] = r.value]
                        /\ log = [logged[i] EXCEPT ![r.field] = r.value]
    OBVIOUS
  <2>3. /\ now \in Content /\ log \in Content
        /\ \A f \in Fields : now[f] = IF f = r.field THEN r.value ELSE task[i].is[f]
        /\ \A f \in Fields : log[f] = IF f = r.field THEN r.value ELSE logged[i][f]
    <3>1. CASE r.field = "status"
      BY <1>3, <2>1, <2>2, <3>1 DEF Content, Fields
    <3>2. CASE r.field = "assignee"
      BY <1>3, <2>1, <2>2, <3>2 DEF Content, Fields
    <3> QED
      BY <1>3, <3>1, <3>2
  <2>4. /\ task' \in [TaskIds -> Task] /\ task'[i].is = now
        /\ \A j \in TaskIds : j # i => task'[j] = task[j]
    <3>1. task' = [task EXCEPT ![i] = [here |-> TRUE, stamp |-> r.stamp, is |-> now]]
      BY <1>11, <2>2
    <3>2. [here |-> TRUE, stamp |-> r.stamp, is |-> now] \in Task
      BY <1>3, <2>3 DEF Task
    <3> QED
      BY <1>1, <3>1, <3>2 DEF TasksTyped
  <2>5. /\ logged' \in [Issued -> Content] /\ logged'[i] = log
        /\ \A j \in Issued : j # i => logged'[j] = logged[j]
    <3>1. logged' = [logged EXCEPT ![i] = log]
      BY <1>11, <2>2
    <3> QED
      BY <1>8, <2>1, <2>3, <3>1
  <2>6. /\ req' \in [Threads -> {Quiet} \cup PatchRequest \cup BulkRequest]
        /\ RequestKept(h)' /\ req[h].kind # "patch"
        /\ \A k \in Threads : k # h => req'[k] = req[k]
        /\ \A k \in Threads : req[k].kind = "patch" => req'[k] = req[k]
    BY <1>9, <1>11
  <2>7. StreamKept(i)'
    <3>1. ASSUME i \notin slips, NEW f \in Fields, log[f] # now[f]
          PROVE  \E k \in Threads : WillTell(req[k], i, f)'
      <4>1. now[f] = task[i].is[f] /\ log[f] = logged[i][f]
        BY <2>3, <3>1
      <4>2. PICK k \in Threads : WillTell(req[k], i, f)
        BY <1>11, <3>1, <4>1 DEF TasksInv, StreamKept
      <4>3. WillTell(req[k], i, f)'
        BY <2>4, <2>6, <4>1, <4>2 DEF WillTell
      <4> QED
        BY <4>3
    <3> QED
      BY <1>7, <2>4, <2>5, <3>1 DEF StreamKept
  <2> QED
    BY <1>7, <1>8, <1>11, <2>4, <2>5, <2>6, <2>7, OneTask
<1> QED
  BY <1>3, <1>4, <1>5, <1>10, <1>11 DEF BulkNext, Sees

LEMMA TimePassesKeeps ==
  ASSUME TasksInv, TimePasses
  PROVE  TasksInv'
<1>1. TasksTyped /\ WalkShape /\ WalkKept /\ WalkExact
  BY DEF TasksInv
<1>2. UNCHANGED <<task, nextId, logged, slips, req, walk, left>> /\ time' \in 0 .. MaxTime
  BY <1>1 DEF TimePasses, TasksTyped
<1>3. WalkKept' /\ WalkExact' /\ WalkShape'
  BY <1>1, <1>2, WalkStays DEF WalkShape
<1>4. TasksTyped'
  BY <1>1, <1>2 DEF TasksTyped
<1> QED
  BY <1>2, <1>3, <1>4 DEF TasksInv, Here, Issued, RequestKept, StreamKept, WillTell

(* The reader's own steps leave all but the walk alone. *)
LEMMA OnlyTheWalk ==
  ASSUME TasksInv, UNCHANGED <<task, nextId, logged, slips, req, time, left>>,
         WalkShape', walk'.seen \cup walk'.twice \cup walk'.steady \subseteq Issued,
         WalkKept', WalkExact'
  PROVE  TasksInv'
<1>1. TasksTyped'
  BY DEF TasksInv, TasksTyped, Issued
<1> QED
  BY <1>1 DEF TasksInv, Here, Issued, RequestKept, StreamKept, WillTell

LEMMA StartWalkKeeps ==
  ASSUME TasksInv, StartWalk
  PROVE  TasksInv'
<1>1. WalkShape /\ WalkKept /\ walk.at = "before"
  BY DEF TasksInv, StartWalk
<1>2. PICK steady \in SUBSET TaskIds : steady = {i \in TaskIds : Sees(Reader, i)}
  OBVIOUS
<1>3. /\ walk' = [walk EXCEPT !.at = "under way", !.steady = steady]
      /\ UNCHANGED <<task, nextId, logged, slips, req, time, left>>
  BY <1>2 DEF StartWalk
<1>4. /\ WalkShape' /\ walk'.at = "under way" /\ walk'.steady = steady
      /\ walk'.seen = {} /\ walk'.twice = {} /\ walk'.cursor = <<>>
  BY <1>1, <1>3 DEF WalkShape, WalkKept
<1>5. WalkKept' /\ WalkExact'
  <2>1. \A i \in steady : Sees(Reader, i)' /\ Beyond(i)'
    BY <1>2, <1>3, <1>4 DEF Sees, Here, Beyond
  <2> QED
    BY <1>4, <2>1 DEF WalkKept, WalkExact
<1>6. steady \subseteq Issued
  BY <1>2 DEF TasksInv, Sees
<1> QED
  BY <1>3, <1>4, <1>5, <1>6, OnlyTheWalk

(* Of the tasks of a page one comes last. *)
LEMMA LastOfPage ==
  ASSUME TasksTyped, NEW page \in SUBSET TaskIds, page # {}, \A i \in page : Here(i)
  PROVE  \E k \in {Key(i) : i \in page} : \A i \in page : k = Key(i) \/ Later(Key(i), k)
<1>1. ASSUME NEW i \in page PROVE task[i].stamp \in Nat /\ i \in Nat
  <2>1. task[i] \in Written
    BY TaskOf
  <2>2. 0 .. MaxTime \subseteq Nat /\ TaskIds \subseteq Nat
    BY DEF TaskIds
  <2>3. task[i].stamp \in 0 .. MaxTime
    BY <2>1 DEF Written
  <2> QED
    BY <2>2, <2>3
<1>2. PICK m \in {task[i].stamp : i \in page} : \A k \in {task[i].stamp : i \in page} : m <= k
  <2>1. {task[i].stamp : i \in page} \in SUBSET Nat /\ {task[i].stamp : i \in page} # {}
    BY <1>1
  <2> QED
    BY <2>1, LeastThere
<1>3. PICK n \in {i \in page : task[i].stamp = m} : \A k \in {i \in page : task[i].stamp = m} : n <= k
  <2>1. {i \in page : task[i].stamp = m} \in SUBSET Nat /\ {i \in page : task[i].stamp = m} # {}
    BY <1>1, <1>2
  <2> QED
    BY <2>1, LeastThere
<1>4. ASSUME NEW i \in page PROVE Key(n) = Key(i) \/ Later(Key(i), Key(n))
  <2>1. m <= task[i].stamp /\ task[i].stamp \in Nat /\ m \in Nat /\ task[n].stamp = m
    BY <1>1, <1>2, <1>3
  <2>2. CASE task[i].stamp = m
    <3>1. n <= i /\ n \in Nat /\ i \in Nat
      BY <1>1, <1>3, <2>2
    <3>2. CASE n = i
      BY <3>2
    <3>3. CASE n # i
      BY <2>1, <2>2, <3>1, <3>3 DEF Later, Key
    <3> QED
      BY <3>2, <3>3
  <2>3. CASE task[i].stamp # m
    BY <2>1, <2>3 DEF Later, Key
  <2> QED
    BY <2>2, <2>3
<1> QED
  BY <1>3, <1>4

Keys == Nat \X Nat

LEMMA LaterOrders ==
  ASSUME NEW a \in Keys, NEW b \in Keys, NEW c \in Keys
  PROVE  /\ ~ Later(a, a)
         /\ Later(a, b) /\ Later(b, c) => Later(a, c)
BY DEF Keys, Later

LEMMA KeyIsAKey ==
  ASSUME TasksTyped, NEW i \in TaskIds, Here(i)
  PROVE  Key(i) \in Keys /\ Key(i) \in (0 .. MaxTime) \X TaskIds
<1>1. task[i].stamp \in 0 .. MaxTime
  BY TaskOf DEF Written
<1> QED
  BY <1>1 DEF Key, Keys, TaskIds

LEMMA NextPageKeeps ==
  ASSUME TasksInv, NextPage
  PROVE  TasksInv'
<1>1. TasksTyped /\ WalkShape /\ WalkKept /\ walk.at = "under way"
  BY DEF TasksInv, NextPage
<1>2. PICK page \in SUBSET Remaining :
        /\ \A i \in page, j \in Remaining \ page : Later(Key(i), Key(j))
        /\ Cardinality(page) < PageSize => page = Remaining
        /\ walk' = [walk EXCEPT !.seen = @ \cup page,
                                !.twice = @ \cup (walk.seen \cap page),
                                !.at = IF Cardinality(page) < PageSize THEN "done" ELSE @,
                                !.cursor = IF Cardinality(page) < PageSize THEN @
                                  ELSE CHOOSE k \in {Key(i) : i \in page} :
                                         \A i \in page : k = Key(i) \/ Later(Key(i), k)]
  BY DEF NextPage
<1>3. UNCHANGED <<task, nextId, logged, slips, req, time, left>>
  BY DEF NextPage
<1>4. /\ page \in SUBSET TaskIds /\ page \subseteq Issued
      /\ \A i \in page : Here(i) /\ Beyond(i)
      /\ \A i \in walk.steady : i \in TaskIds /\ Sees(Reader, i) /\ Here(i)
  BY <1>1, <1>2 DEF Remaining, Sees, TasksInv, WalkKept, WalkShape
<1>5. ASSUME NEW i \in walk.steady
      PROVE  i \notin walk.twice \cup (walk.seen \cap page)
  BY <1>1, <1>4, <1>5 DEF WalkKept
<1>6. walk.seen \cup page \subseteq Issued /\ walk.twice \cup (walk.seen \cap page) \subseteq Issued
      /\ walk.steady \subseteq Issued
  BY <1>1, <1>4 DEF TasksTyped, Issued
<1>7. CASE Cardinality(page) < PageSize
  <2>1. walk' = [walk EXCEPT !.seen = @ \cup page, !.twice = @ \cup (walk.seen \cap page),
                             !.at = "done", !.cursor = @]
    BY <1>2, <1>7
  <2>2. /\ WalkShape' /\ walk'.at = "done" /\ walk'.steady = walk.steady
        /\ walk'.seen = walk.seen \cup page
        /\ walk'.twice = walk.twice \cup (walk.seen \cap page)
    BY <1>1, <1>4, <2>1 DEF WalkShape
  <2>3. \A i \in walk.steady : i \in walk.seen \cup page
    BY <1>1, <1>2, <1>4, <1>7 DEF WalkKept, Remaining
  <2>4. WalkKept' /\ WalkExact'
    BY <1>5, <2>2, <2>3 DEF WalkKept, WalkExact
  <2> QED
    BY <1>3, <1>6, <2>2, <2>4, OnlyTheWalk
<1>8. CASE ~ (Cardinality(page) < PageSize)
  <2>1. page # {}
    <3>1. Cardinality({}) = 0
      BY FS_EmptySet
    <3>2. 0 < PageSize
      OBVIOUS
    <3>3. ASSUME page = {} PROVE Cardinality(page) < PageSize
      BY <3>1, <3>2, <3>3
    <3> QED
      BY <1>8, <3>3
  <2>2. PICK k \in {Key(i) : i \in page} :
          /\ \A i \in page : k = Key(i) \/ Later(Key(i), k)
          /\ walk' = [walk EXCEPT !.seen = @ \cup page, !.twice = @ \cup (walk.seen \cap page),
                                  !.at = @, !.cursor = k]
    <3>1. \E k \in {Key(i) : i \in page} : \A i \in page : k = Key(i) \/ Later(Key(i), k)
      BY <1>1, <1>4, <2>1, LastOfPage
    <3> QED
      BY <1>2, <1>8, <3>1
  <2>3. PICK last \in page : k = Key(last)
    OBVIOUS
  <2>4. k \in (0 .. MaxTime) \X TaskIds /\ k \in Keys
    BY <1>1, <1>4, <2>3, KeyIsAKey
  <2>5. k # <<>>
    <3>1. PICK a \in Nat, b \in Nat : k = <<a, b>>
      BY <2>4 DEF Keys
    <3>2. Len(k) # 0 /\ Len(<<>>) = 0
      BY <3>1
    <3> QED
      BY <3>2, Zenon
  <2>6. /\ WalkShape' /\ walk'.at = "under way" /\ walk'.steady = walk.steady
        /\ walk'.seen = walk.seen \cup page /\ walk'.cursor = k
        /\ walk'.twice = walk.twice \cup (walk.seen \cap page)
    BY <1>1, <1>4, <2>2, <2>4 DEF WalkShape
  <2>7. ASSUME NEW i \in walk.steady
        PROVE  i \in walk.seen \cup page <=> ~ Later(k, Key(i))
    <3>1. Key(i) \in Keys
      BY <1>1, <1>4, KeyIsAKey
    <3>2. CASE i \in page
      BY <2>2, <2>4, <3>1, <3>2, LaterOrders
    <3>3. CASE i \in Remaining \ page
      <4>1. Later(k, Key(i))
        BY <1>2, <2>3, <3>3
      <4>2. i \notin walk.seen
        BY <1>1, <3>3 DEF WalkKept, Remaining
      <4> QED
        BY <3>3, <4>1, <4>2
    <3>4. CASE i \notin Remaining
      <4>1. ~ Beyond(i) /\ i \in walk.seen
        BY <1>1, <1>4, <3>4 DEF WalkKept, Remaining
      <4>2. walk.cursor # <<>> /\ ~ Later(walk.cursor, Key(i))
        BY <4>1 DEF Beyond
      <4>3. walk.cursor \in Keys
        <5>1. walk.cursor \in (0 .. MaxTime) \X TaskIds
          BY <1>1, <4>2 DEF WalkShape
        <5> QED
          BY <5>1 DEF Keys, TaskIds
      <4>4. Later(walk.cursor, k)
        BY <1>4, <2>3, <4>2 DEF Beyond
      <4>5. ~ Later(k, Key(i))
        BY <2>4, <3>1, <4>2, <4>3, <4>4, LaterOrders
      <4> QED
        BY <4>1, <4>5
    <3> QED
      BY <3>2, <3>3, <3>4
  <2>8. WalkKept' /\ WalkExact'
    <3>1. \A i \in walk.steady : Sees(Reader, i)' /\ (Beyond(i)' <=> Later(k, Key(i)))
      BY <1>3, <1>4, <2>5, <2>6 DEF Sees, Here, Beyond, Key
    <3> QED
      BY <1>5, <2>6, <2>7, <3>1 DEF WalkKept, WalkExact
  <2> QED
    BY <1>3, <1>6, <2>6, <2>8, OnlyTheWalk
<1> QED
  BY <1>7, <1>8

LEMMA TasksStep == TasksInv /\ [TasksNext]_tvars => TasksInv'
<1> SUFFICES ASSUME TasksInv, [TasksNext]_tvars PROVE TasksInv'
  OBVIOUS
<1>1. CASE TasksNext
  BY <1>1, CreateKeeps, DeleteKeeps, AddActivityKeeps, StartPatchKeeps, StartBulkKeeps,
     FinishPatchKeeps, BulkNextKeeps, StartWalkKeeps, NextPageKeeps, TimePassesKeeps DEF TasksNext
<1>2. CASE UNCHANGED tvars
  <2>1. UNCHANGED <<task, nextId, logged, slips, req, walk, time, left>>
    BY <1>2 DEF tvars
  <2>2. WalkShape' /\ WalkKept' /\ WalkExact'
    BY <2>1, WalkStays DEF TasksInv, WalkShape
  <2>3. TasksTyped'
    BY <2>1 DEF TasksInv, TasksTyped
  <2> QED
    BY <2>1, <2>2, <2>3 DEF TasksInv, Here, Issued, RequestKept, StreamKept, WillTell
<1> QED
  BY <1>1, <1>2

LEMMA StreamTells == TasksInv => StreamExplains
<1> SUFFICES ASSUME TasksInv, NEW i \in TaskIds, Here(i), i \notin slips,
                    \A h \in Threads : req[h].kind = "patch" => req[h].id # i
             PROVE  logged[i] = task[i].is
  BY DEF StreamExplains
<1>1. \A f \in Fields : logged[i][f] = task[i].is[f]
  BY DEF TasksInv, StreamKept, WillTell
<1>2. logged[i] \in Content /\ task[i].is \in Content
  BY TaskOf DEF TasksInv, TasksTyped, Issued, Written
<1> QED
  BY <1>1, <1>2, SameContent

(* The list of tasks, the counter, the stream and the requests under way hold what   *)
(* the handlers of /api/tasks put there, whatever the threads do between them        *)
(* (TasksView, TaskDetailView, the bulk views, TaskActivityView).                    *)
THEOREM TasksTypeCorrect == TasksSpec => []TasksTyped
<1>1. TasksInv => TasksTyped
  BY DEF TasksInv
<1> QED
  BY <1>1, TasksBegin, TasksStep, PTL DEF TasksSpec

(* For any number of tasks, threads and requests: when no PATCH of a task is under   *)
(* way, replaying its events gives what it holds, unless a refused PATCH left its    *)
(* fields behind - though a PATCH writes first and logs the difference later, from   *)
(* what the task has become by then (TaskDetailView.patch, TASK_ACTIVITY_EVENTS).    *)
THEOREM StreamAlwaysExplains == TasksSpec => []StreamExplains
BY TasksBegin, TasksStep, StreamTells, PTL DEF TasksSpec

(* For any page size: a walk with the cursor serves every task that stood still and   *)
(* was visible, exactly once, whatever is created, moved and deleted between the      *)
(* pages (_cursor_paginate_tasks).                                                    *)
THEOREM WalkAlwaysExact == TasksSpec => []WalkExact
<1>1. TasksInv => WalkExact
  BY DEF TasksInv
<1> QED
  BY <1>1, TasksBegin, TasksStep, PTL DEF TasksSpec

HIDE TasksAssumption

--------------------------------------------------------------------------------
(* Lists that only grow, and their reader *)

USE FeedsAssumption

ScanShape ==
  scan \in [how : {"cursor", "pages"}, at : {"before", "under way", "done"},
            last : {Dry} \cup Event, page : Nat \ {0},
            start : SUBSET Event, seen : SUBSET Event, twice : SUBSET Event]

(* Numbers are taken once: by an event of the list, or by one on its way there. *)
NumbersKept ==
  /\ \A e \in feed : e.id <= numbers
  /\ \A e, f \in feed : e.id = f.id => e = f
  /\ \A h \in Pens : pen[h] # Dry =>
       /\ pen[h].id <= numbers
       /\ \A e \in feed : e.id # pen[h].id
       /\ \A k \in Pens : pen[k] # Dry /\ pen[k].id = pen[h].id => k = h

(* How many of the list come before event e. *)
Ahead(e) == Cardinality({f \in Selected : Newer(f, e)})

ScanKept ==
  /\ scan.start \subseteq Selected
  /\ scan.at = "before" => scan.seen = {} /\ scan.twice = {} /\ scan.last = Dry /\ scan.page = 1
  /\ scan.at = "under way" /\ scan.how = "cursor" =>
       /\ \A e \in scan.start : After(e) \/ e \in scan.seen
       /\ \A e \in scan.seen : ~ After(e)
       /\ scan.twice = {}
  /\ scan.at = "under way" /\ scan.how = "pages" =>
       \A e \in scan.start : e \in scan.seen \/ Ahead(e) >= (scan.page - 1) * FeedPage

FeedsInv ==
  /\ FeedsTyped /\ ScanShape /\ IsFiniteSet(feed)
  /\ NumbersKept /\ ScanKept /\ FeedExact

LEMMA PenOf ==
  ASSUME FeedsTyped, NEW h \in Pens
  PROVE  /\ pen[h] = Dry \/ pen[h] \in Drawn \/ pen[h] \in Event
         /\ pen[h] # Dry => pen[h].id \in 1 .. MaxEvents
         /\ pen[h] \in Drawn \cup Event => pen[h] # Dry
<1>1. pen[h] = Dry \/ pen[h] \in Drawn \/ pen[h] \in Event
  BY DEF FeedsTyped
<1>2. \A e \in Drawn \cup Event : e # Dry /\ e.id \in 1 .. MaxEvents
  BY DEF Drawn, Event, Dry
<1> QED
  BY <1>1, <1>2

(* Events in the list and in the pens have numbers of their own. *)
LEMMA NumbersTell ==
  ASSUME NumbersKept, feed \subseteq Event
  PROVE  \A e, f \in (feed \cup {pen[h] : h \in Pens}) \ {Dry} : e.id = f.id => e = f
BY DEF NumbersKept

LEMMA FeedsBegin == FeedsInit => FeedsInv
<1> SUFFICES ASSUME FeedsInit PROVE FeedsInv
  OBVIOUS
<1>1. PICK how \in {"cursor", "pages"} :
        scan = [how |-> how, at |-> "before", last |-> Dry, page |-> 1,
                start |-> {}, seen |-> {}, twice |-> {}]
  BY DEF FeedsInit
<1>2. feed = {} /\ pen = [h \in Pens |-> Dry] /\ numbers = 0 /\ tick = 0
  BY DEF FeedsInit
<1>3. ScanShape
  BY <1>1 DEF ScanShape
<1>4. NumbersKept
  BY <1>2 DEF NumbersKept
<1>5. ScanKept /\ FeedExact
  BY <1>1 DEF ScanKept, FeedExact
<1>6. FeedsTyped
  BY <1>1, <1>2, <1>4, NumbersTell DEF FeedsTyped
<1> QED
  BY <1>2, <1>3, <1>4, <1>5, <1>6, FS_EmptySet DEF FeedsInv

LEMMA TimesInt == ASSUME NEW a \in Int, NEW b \in Int PROVE a * b \in Int
OBVIOUS

LEMMA AtLeast == ASSUME NEW a \in Nat, NEW b \in Nat, NEW c \in Int, a <= b, a >= c PROVE b >= c
OBVIOUS

(* Events that get in between the pages. *)
LEMMA ScanStays ==
  ASSUME FeedsInv, feed \subseteq feed', IsFiniteSet(feed'), scan' = scan
  PROVE  ScanShape' /\ ScanKept' /\ FeedExact'
<1>1. ScanShape' /\ FeedExact'
  BY DEF FeedsInv, ScanShape, FeedExact
<1>2. Selected \subseteq Selected' /\ Selected' \subseteq feed'
  BY DEF Selected
<1>3. \A e : After(e)' = After(e)
  BY DEF After
<1>4. \A e : Ahead(e) <= Ahead(e)' /\ Ahead(e) \in Nat /\ Ahead(e)' \in Nat
  <2> SUFFICES ASSUME NEW e PROVE Ahead(e) <= Ahead(e)' /\ Ahead(e) \in Nat /\ Ahead(e)' \in Nat
    OBVIOUS
  <2>1. PICK F : F = {f \in Selected' : Newer(f, e)}
    OBVIOUS
  <2>2. PICK G : G = {f \in Selected : Newer(f, e)}
    OBVIOUS
  <2>3. IsFiniteSet(F) /\ G \in SUBSET F
    BY <1>2, <2>1, <2>2, FS_Subset
  <2>4. Cardinality(G) <= Cardinality(F) /\ IsFiniteSet(G)
    BY <2>3, FS_Subset
  <2>5. Cardinality(G) \in Nat /\ Cardinality(F) \in Nat
    BY <2>3, <2>4, FS_CardinalityType
  <2> QED
    BY <2>1, <2>2, <2>4, <2>5 DEF Ahead
<1>5. ScanKept'
  <2>1. (scan.page - 1) * FeedPage \in Int
    <3>2. scan.page \in Nat \ {0}
      BY DEF FeedsInv, ScanShape
    <3>1. scan.page - 1 \in Int /\ FeedPage \in Int
      BY <3>2
    <3> QED
      BY <3>1, TimesInt
  <2>2. scan.at = "under way" /\ scan.how = "pages" =>
          \A e \in scan.start : e \in scan.seen \/ Ahead(e)' >= (scan.page - 1) * FeedPage
    <3> SUFFICES ASSUME scan.at = "under way", scan.how = "pages", NEW e \in scan.start,
                        e \notin scan.seen
                 PROVE  Ahead(e)' >= (scan.page - 1) * FeedPage
      OBVIOUS
    <3>1. Ahead(e) >= (scan.page - 1) * FeedPage
      BY DEF FeedsInv, ScanKept
    <3>2. Ahead(e) <= Ahead(e)' /\ Ahead(e) \in Nat /\ Ahead(e)' \in Nat
      BY <1>4
    <3> QED
      BY <2>1, <3>1, <3>2, AtLeast
  <2>3. scan.start \subseteq Selected'
    BY <1>2 DEF FeedsInv, ScanKept
  <2> QED
    BY <1>3, <2>2, <2>3 DEF FeedsInv, ScanKept
<1> QED
  BY <1>1, <1>5

LEMMA DrawKeeps ==
  ASSUME FeedsInv, NEW h \in Pens, DrawEvent(h)
  PROVE  FeedsInv'
<1>1. FeedsTyped /\ NumbersKept
  BY DEF FeedsInv
<1>2. PICK kind \in EventKinds : pen' = [pen EXCEPT ![h] = [id |-> numbers + 1, kind |-> kind]]
  BY DEF DrawEvent
<1>3. /\ pen[h] = Dry /\ numbers' = numbers + 1 /\ numbers + 1 \in 1 .. MaxEvents
      /\ numbers \in Nat /\ UNCHANGED <<feed, scan, tick>>
  BY <1>1 DEF DrawEvent, FeedsTyped
<1>4. PICK d \in Drawn : d = [id |-> numbers + 1, kind |-> kind] /\ d.id = numbers + 1
  <2>1. PICK d : d = [id |-> numbers + 1, kind |-> kind]
    OBVIOUS
  <2>2. d \in Drawn /\ d.id = numbers + 1
    BY <1>3, <2>1 DEF Drawn
  <2> QED
    BY <2>1, <2>2
<1>5. /\ pen' \in [Pens -> {Dry} \cup Drawn \cup Event] /\ pen'[h] = d
      /\ \A k \in Pens : k # h => pen'[k] = pen[k]
  BY <1>1, <1>2, <1>4 DEF FeedsTyped
<1>6. \A e \in feed : e.id \in Nat
  BY <1>1 DEF FeedsTyped, Event
<1>7. \A k \in Pens : pen[k] # Dry => pen[k].id \in Nat
  BY <1>1, PenOf
<1>8. NumbersKept'
  <2>1. \A e \in feed : e.id <= numbers'
    BY <1>1, <1>3, <1>6 DEF NumbersKept
  <2>2. \A e, f \in feed : e.id = f.id => e = f
    BY <1>1 DEF NumbersKept
  <2>3. ASSUME NEW k \in Pens, pen'[k] # Dry
        PROVE  /\ pen'[k].id <= numbers' /\ \A e \in feed : e.id # pen'[k].id
               /\ \A m \in Pens : pen'[m] # Dry /\ pen'[m].id = pen'[k].id => m = k
    <3>1. CASE k = h
      BY <1>1, <1>3, <1>4, <1>5, <1>6, <1>7, <3>1 DEF NumbersKept
    <3>2. CASE k # h
      BY <1>1, <1>3, <1>4, <1>5, <1>6, <1>7, <2>3, <3>2 DEF NumbersKept
    <3> QED
      BY <3>1, <3>2
  <2> QED
    BY <1>3, <2>1, <2>2, <2>3 DEF NumbersKept
<1>9. FeedsTyped'
  <2>1. \A e, f \in (feed' \cup {pen'[k] : k \in Pens}) \ {Dry} : e.id = f.id => e = f
    BY <1>8 DEF NumbersKept
  <2> QED
    BY <1>1, <1>3, <1>5, <2>1 DEF FeedsTyped
<1>10. ScanShape' /\ ScanKept' /\ FeedExact' /\ IsFiniteSet(feed')
  BY <1>3, ScanStays DEF FeedsInv
<1> QED
  BY <1>8, <1>9, <1>10 DEF FeedsInv

LEMMA StampKeeps ==
  ASSUME FeedsInv, NEW h \in Pens, StampEvent(h)
  PROVE  FeedsInv'
<1>1. FeedsTyped /\ NumbersKept
  BY DEF FeedsInv
<1>2. /\ pen[h] \in Drawn /\ UNCHANGED <<feed, numbers, scan, tick>>
      /\ pen' = [pen EXCEPT ![h] = [id |-> pen[h].id, stamp |-> tick, kind |-> pen[h].kind]]
  BY DEF StampEvent
<1>3. PICK e \in Event :
        e = [id |-> pen[h].id, stamp |-> tick, kind |-> pen[h].kind] /\ e.id = pen[h].id
  BY <1>1, <1>2 DEF Drawn, Event, FeedsTyped
<1>4. /\ pen' \in [Pens -> {Dry} \cup Drawn \cup Event] /\ pen'[h] = e
      /\ \A k \in Pens : k # h => pen'[k] = pen[k]
  BY <1>1, <1>2, <1>3 DEF FeedsTyped
<1>5. pen[h] # Dry
  BY <1>1, <1>2, PenOf
<1>6. \A k \in Pens : (pen'[k] # Dry => pen[k] # Dry) /\ (pen[k] # Dry => pen'[k].id = pen[k].id)
  BY <1>3, <1>4, <1>5
<1>7. NumbersKept'
  BY <1>1, <1>2, <1>6 DEF NumbersKept
<1>8. FeedsTyped'
  <2>1. \A x, y \in (feed' \cup {pen'[k] : k \in Pens}) \ {Dry} : x.id = y.id => x = y
    BY <1>7 DEF NumbersKept
  <2> QED
    BY <1>1, <1>2, <1>4, <2>1 DEF FeedsTyped
<1>9. ScanShape' /\ ScanKept' /\ FeedExact' /\ IsFiniteSet(feed')
  BY <1>2, ScanStays DEF FeedsInv
<1> QED
  BY <1>7, <1>8, <1>9 DEF FeedsInv

LEMMA AddEventKeeps ==
  ASSUME FeedsInv, NEW h \in Pens, AddEvent(h)
  PROVE  FeedsInv'
<1>1. FeedsTyped /\ NumbersKept /\ IsFiniteSet(feed)
  BY DEF FeedsInv
<1>2. /\ pen[h] \in Event /\ UNCHANGED <<numbers, scan, tick>>
      /\ feed' = feed \cup {pen[h]} /\ pen' = [pen EXCEPT ![h] = Dry]
  BY DEF AddEvent
<1>3. /\ pen' \in [Pens -> {Dry} \cup Drawn \cup Event] /\ pen'[h] = Dry /\ pen[h] # Dry
      /\ \A k \in Pens : k # h => pen'[k] = pen[k]
  BY <1>1, <1>2, PenOf DEF FeedsTyped
<1>4. NumbersKept'
  BY <1>1, <1>2, <1>3 DEF NumbersKept
<1>5. FeedsTyped'
  <2>1. \A x, y \in (feed' \cup {pen'[k] : k \in Pens}) \ {Dry} : x.id = y.id => x = y
    BY <1>4 DEF NumbersKept
  <2> QED
    BY <1>1, <1>2, <1>3, <2>1 DEF FeedsTyped
<1>6. IsFiniteSet(feed')
  BY <1>1, <1>2, FS_AddElement
<1>7. ScanShape' /\ ScanKept' /\ FeedExact'
  BY <1>2, <1>6, ScanStays
<1> QED
  BY <1>4, <1>5, <1>6, <1>7 DEF FeedsInv

LEMMA ClockTicksKeeps ==
  ASSUME FeedsInv, ClockTicks
  PROVE  FeedsInv'
<1>1. UNCHANGED <<feed, pen, numbers, scan>> /\ tick' \in 0 .. MaxTick
  BY DEF ClockTicks, FeedsInv, FeedsTyped
<1>2. ScanShape' /\ ScanKept' /\ FeedExact'
  BY <1>1, ScanStays DEF FeedsInv
<1> QED
  BY <1>1, <1>2 DEF FeedsInv, FeedsTyped, NumbersKept

LEMMA NewerOrders ==
  ASSUME NEW e \in Event, NEW f \in Event, NEW g \in Event
  PROVE  /\ ~ Newer(e, e)
         /\ Newer(e, f) => ~ Newer(f, e)
         /\ Newer(e, f) /\ Newer(f, g) => Newer(e, g)
         /\ Newer(e, f) \/ Newer(f, e) \/ e.id = f.id
<1>1. \A x \in Event : x.stamp \in Nat /\ x.id \in Nat
  BY DEF Event
<1> QED
  BY <1>1 DEF Newer

Distinct(S) == \A e, f \in S : e.id = f.id => e = f

LEMMA LastEvent ==
  ASSUME NEW S \in SUBSET Event, S # {}, Distinct(S)
  PROVE  \E e \in S : \A f \in S : f = e \/ Newer(f, e)
<1>1. \A e \in S : e.stamp \in Nat /\ e.id \in Nat
  BY DEF Event
<1>2. PICK m \in {e.stamp : e \in S} : \A k \in {e.stamp : e \in S} : m <= k
  <2>1. {e.stamp : e \in S} \in SUBSET Nat /\ {e.stamp : e \in S} # {}
    BY <1>1
  <2> QED
    BY <2>1, LeastThere
<1>3. PICK n \in {e.id : e \in {x \in S : x.stamp = m}} :
        \A k \in {e.id : e \in {x \in S : x.stamp = m}} : n <= k
  <2>1. /\ {e.id : e \in {x \in S : x.stamp = m}} \in SUBSET Nat
        /\ {e.id : e \in {x \in S : x.stamp = m}} # {}
    BY <1>1, <1>2
  <2> QED
    BY <2>1, LeastThere
<1>4. PICK e \in S : e.stamp = m /\ e.id = n
  BY <1>3
<1>5. ASSUME NEW f \in S, f # e PROVE Newer(f, e)
  <2>1. m <= f.stamp /\ f.stamp \in Nat /\ m \in Nat /\ f.id \in Nat /\ n \in Nat /\ f.id # n
    BY <1>1, <1>2, <1>4, <1>5 DEF Distinct
  <2>2. f.stamp = m => n <= f.id
    BY <1>3
  <2> QED
    BY <1>4, <2>1, <2>2 DEF Newer
<1> QED
  BY <1>4, <1>5

LEMMA FirstEvent ==
  ASSUME NEW S \in SUBSET Event, S # {}, Distinct(S)
  PROVE  \E e \in S : \A f \in S : f = e \/ Newer(e, f)
<1>1. ASSUME NEW e \in S
      PROVE  /\ e.stamp \in Nat /\ e.id \in Nat
             /\ MaxTick - e.stamp \in Nat /\ MaxEvents - e.id \in Nat
  <2>1. e.stamp \in 0 .. MaxTick /\ e.id \in 1 .. MaxEvents
    BY DEF Event
  <2> QED
    BY <2>1
<1>2. PICK m \in {MaxTick - e.stamp : e \in S} : \A k \in {MaxTick - e.stamp : e \in S} : m <= k
  <2>1. {MaxTick - e.stamp : e \in S} \in SUBSET Nat /\ {MaxTick - e.stamp : e \in S} # {}
    BY <1>1
  <2> QED
    BY <2>1, LeastThere
<1>3. PICK t \in Nat : m = MaxTick - t /\ \E e \in S : e.stamp = t
  BY <1>1, <1>2
<1>4. \A f \in S : f.stamp <= t
  <2> SUFFICES ASSUME NEW f \in S PROVE f.stamp <= t
    OBVIOUS
  <2>1. m <= MaxTick - f.stamp
    BY <1>2
  <2> QED
    BY <1>1, <1>3, <2>1
<1>5. PICK n \in {MaxEvents - e.id : e \in {x \in S : x.stamp = t}} :
        \A k \in {MaxEvents - e.id : e \in {x \in S : x.stamp = t}} : n <= k
  <2>1. /\ {MaxEvents - e.id : e \in {x \in S : x.stamp = t}} \in SUBSET Nat
        /\ {MaxEvents - e.id : e \in {x \in S : x.stamp = t}} # {}
    BY <1>1, <1>3
  <2> QED
    BY <2>1, LeastThere
<1>6. PICK e \in S : e.stamp = t /\ n = MaxEvents - e.id
  BY <1>5
<1>7. ASSUME NEW f \in S, f # e PROVE Newer(e, f)
  <2>1. f.stamp <= t /\ f.stamp \in Nat /\ f.id \in Nat /\ e.id \in Nat /\ f.id # e.id
    BY <1>1, <1>4, <1>6, <1>7 DEF Distinct
  <2>2. f.stamp = t => MaxEvents - e.id <= MaxEvents - f.id
    BY <1>5, <1>6
  <2>3. f.stamp = t => f.id < e.id
    BY <2>1, <2>2
  <2> QED
    BY <1>6, <2>1, <2>3 DEF Newer
<1> QED
  BY <1>6, <1>7

Before(S, e) == {f \in S : Newer(f, e)}

LEMMA BeforeFinite ==
  ASSUME NEW S, IsFiniteSet(S), NEW e
  PROVE  IsFiniteSet(Before(S, e)) /\ Cardinality(Before(S, e)) \in Nat
BY FS_Subset, FS_CardinalityType DEF Before

(* A page is the beginning of the list, and all of it if it is not full. *)
LEMMA PageCuts ==
  ASSUME NEW S \in SUBSET Event, IsFiniteSet(S), Distinct(S), NEW n \in Nat
  PROVE  /\ \A g \in Latest(n, S), e \in S \ Latest(n, S) : Newer(g, e)
         /\ Cardinality(Latest(n, S)) < n => Latest(n, S) = S
<1>1. PICK page \in SUBSET S : page = Latest(n, S)
  BY DEF Latest
<1>2. \A e \in S : e \in page <=> Cardinality(Before(S, e)) < n
  BY <1>1 DEF Latest, Before
<1>3. ASSUME NEW g \in page, NEW e \in S \ page PROVE Newer(g, e)
  <2>1. ASSUME Newer(e, g) PROVE FALSE
    <3>1. Before(S, e) \in SUBSET Before(S, g)
      BY <2>1, NewerOrders DEF Before
    <3>2. Cardinality(Before(S, e)) <= Cardinality(Before(S, g))
      BY <3>1, BeforeFinite, FS_Subset
    <3>3. /\ Cardinality(Before(S, e)) \in Nat /\ Cardinality(Before(S, g)) \in Nat
          /\ Cardinality(Before(S, g)) < n /\ ~ (Cardinality(Before(S, e)) < n)
      BY <1>2, BeforeFinite
    <3> QED
      BY <3>2, <3>3
  <2>2. g.id # e.id
    BY DEF Distinct
  <2> QED
    BY <2>1, <2>2, NewerOrders
<1>4. ASSUME Cardinality(page) < n, S \ page # {} PROVE FALSE
  <2>1. PICK e \in S \ page : \A f \in S \ page : f = e \/ Newer(e, f)
    BY <1>4, FirstEvent DEF Distinct
  <2>2. Before(S, e) \in SUBSET page
    BY <2>1, NewerOrders DEF Before
  <2>3. IsFiniteSet(page) /\ Cardinality(page) \in Nat
    BY FS_Subset, FS_CardinalityType
  <2>4. Cardinality(Before(S, e)) <= Cardinality(page)
    BY <2>2, <2>3, FS_Subset
  <2>5. Cardinality(Before(S, e)) \in Nat /\ ~ (Cardinality(Before(S, e)) < n)
    BY <1>2, <2>1, BeforeFinite
  <2> QED
    BY <1>4, <2>3, <2>4, <2>5
<1> QED
  BY <1>1, <1>3, <1>4

(* The reader's steps change the walk alone. *)
LEMMA OnlyTheScan ==
  ASSUME FeedsInv, UNCHANGED <<feed, pen, numbers, tick>>,
         scan'.seen \cup scan'.start \cup scan'.twice \subseteq feed
  PROVE  /\ FeedsTyped' /\ IsFiniteSet(feed') /\ NumbersKept'
         /\ Selected' = Selected /\ \A e : Ahead(e)' = Ahead(e)
<1>1. Selected' = Selected
  BY DEF Selected
<1>2. \A e : Ahead(e)' = Ahead(e)
  BY <1>1 DEF Ahead
<1>3. NumbersKept' /\ IsFiniteSet(feed')
  BY DEF FeedsInv, NumbersKept
<1>4. FeedsTyped'
  BY DEF FeedsInv, FeedsTyped
<1> QED
  BY <1>1, <1>2, <1>3, <1>4

LEMMA SelectedIs ==
  ASSUME FeedsInv
  PROVE  /\ Selected \in SUBSET Event /\ Selected \subseteq feed
         /\ IsFiniteSet(Selected) /\ Distinct(Selected)
<1>1. Selected \in SUBSET feed /\ feed \subseteq Event /\ IsFiniteSet(feed)
  BY DEF FeedsInv, FeedsTyped, Selected
<1>2. IsFiniteSet(Selected)
  BY <1>1, FS_Subset
<1>3. Distinct(Selected)
  BY <1>1 DEF FeedsInv, NumbersKept, Distinct
<1> QED
  BY <1>1, <1>2, <1>3

LEMMA AheadIs ==
  ASSUME FeedsInv, NEW e \in Selected
  PROVE  Ahead(e) \in Nat /\ Cardinality(Selected) \in Nat /\ Ahead(e) < Cardinality(Selected)
<1>1. Before(Selected, e) \in SUBSET Selected /\ e \notin Before(Selected, e)
  BY SelectedIs, NewerOrders DEF Before
<1>2. IsFiniteSet(Selected)
  BY SelectedIs
<1>3. /\ Cardinality(Before(Selected, e)) <= Cardinality(Selected)
      /\ Cardinality(Before(Selected, e)) = Cardinality(Selected) => Before(Selected, e) = Selected
  BY <1>1, <1>2, FS_Subset
<1>4. Cardinality(Before(Selected, e)) \in Nat /\ Cardinality(Selected) \in Nat
  BY <1>2, BeforeFinite, FS_CardinalityType
<1>5. Ahead(e) = Cardinality(Before(Selected, e))
  BY DEF Ahead, Before
<1> QED
  BY <1>1, <1>3, <1>4, <1>5

LEMMA StartScanKeeps ==
  ASSUME FeedsInv, StartScan
  PROVE  FeedsInv'
<1>1. /\ scan.at = "before" /\ scan' = [scan EXCEPT !.at = "under way", !.start = Selected]
      /\ UNCHANGED <<feed, pen, numbers, tick>>
  BY DEF StartScan
<1>2. Selected \in SUBSET Event /\ Selected \subseteq feed
  BY SelectedIs
<1>3. ScanShape /\ scan.seen = {} /\ scan.twice = {} /\ scan.last = Dry /\ scan.page = 1
  BY <1>1 DEF FeedsInv, ScanKept
<1>4. /\ scan'.at = "under way" /\ scan'.start = Selected /\ scan'.seen = {} /\ scan'.twice = {}
      /\ scan'.last = Dry /\ scan'.page = 1 /\ scan'.how = scan.how
  BY <1>1, <1>3 DEF ScanShape
<1>5. ScanShape'
  BY <1>1, <1>2, <1>3 DEF ScanShape
<1>6. /\ FeedsTyped' /\ IsFiniteSet(feed') /\ NumbersKept'
      /\ Selected' = Selected /\ \A e : Ahead(e)' = Ahead(e)
  BY <1>1, <1>2, <1>4, OnlyTheScan
<1>7. ScanKept'
  <2>1. \A e \in Selected : After(e)'
    BY <1>4 DEF After
  <2>2. \A e \in Selected : Ahead(e)' >= (1 - 1) * FeedPage
    <3> SUFFICES ASSUME NEW e \in Selected PROVE Ahead(e)' >= (1 - 1) * FeedPage
      OBVIOUS
    <3>1. Ahead(e)' \in Nat
      BY <1>6, AheadIs
    <3>2. (1 - 1) * FeedPage = 0
      OBVIOUS
    <3> QED
      BY <3>1, <3>2
  <2> QED
    BY <1>4, <1>6, <2>1, <2>2 DEF ScanKept
<1>8. FeedExact'
  BY <1>4 DEF FeedExact
<1> QED
  BY <1>5, <1>6, <1>7, <1>8 DEF FeedsInv

LEMMA NextByCursorKeeps ==
  ASSUME FeedsInv, NextByCursor
  PROVE  FeedsInv'
<1> DEFINE Left == {e \in Selected : After(e)}
           page == Latest(FeedPage, Left)
           Oldest(e, S) == \A f \in S : f = e \/ Newer(f, e)
<1>1. page = Latest(FeedPage, Left)
  OBVIOUS
<1>2. /\ scan.at = "under way" /\ scan.how = "cursor" /\ UNCHANGED <<feed, pen, numbers, tick>>
      /\ scan' = IF Cardinality(page) < FeedPage THEN [Served(page) EXCEPT !.at = "done"]
                 ELSE [Served(page) EXCEPT !.last = CHOOSE e \in page : Oldest(e, page)]
  BY Zenon DEF NextByCursor
<1> HIDE DEF page
<1>3. /\ Left \in SUBSET Event /\ Left \subseteq Selected /\ Left \subseteq feed
      /\ IsFiniteSet(Left) /\ Distinct(Left)
  <2>1. Left \in SUBSET Selected
    OBVIOUS
  <2>2. IsFiniteSet(Left)
    BY <2>1, SelectedIs, FS_Subset
  <2> QED
    BY <2>1, <2>2, SelectedIs DEF Distinct
<1>4. page \in SUBSET Left
  BY <1>1 DEF Latest
<1>5. /\ \A g \in page, e \in Left \ page : Newer(g, e)
      /\ Cardinality(page) < FeedPage => page = Left
  <2> HIDE DEF Left
  <2>1. FeedPage \in Nat
    OBVIOUS
  <2> QED
    BY <1>1, <1>3, <2>1, PageCuts
<1>6. /\ ScanShape /\ scan.start \subseteq Selected /\ scan.twice = {}
      /\ \A e \in scan.start : After(e) \/ e \in scan.seen
      /\ \A e \in scan.seen : ~ After(e)
  BY <1>2 DEF FeedsInv, ScanKept
<1>7. scan.seen \cap page = {} /\ scan.seen \subseteq feed /\ scan.start \subseteq feed
  BY <1>4, <1>6 DEF FeedsInv, FeedsTyped
<1>8. PICK s : s = Served(page)
  OBVIOUS
<1>9. /\ s \in [how : {"cursor", "pages"}, at : {"before", "under way", "done"},
                last : {Dry} \cup Event, page : Nat \ {0},
                start : SUBSET Event, seen : SUBSET Event, twice : SUBSET Event]
      /\ s.how = "cursor" /\ s.at = "under way" /\ s.last = scan.last
      /\ s.start = scan.start /\ s.seen = scan.seen \cup page /\ s.twice = {}
  BY <1>2, <1>3, <1>4, <1>6, <1>7, <1>8 DEF ScanShape, Served
<1>10. CASE Cardinality(page) < FeedPage
  <2>1. scan' = [s EXCEPT !.at = "done"]
    BY <1>2, <1>8, <1>10
  <2>2. /\ ScanShape' /\ scan'.at = "done" /\ scan'.start = scan.start
        /\ scan'.seen = scan.seen \cup page /\ scan'.twice = {}
    BY <1>9, <2>1 DEF ScanShape
  <2>3. /\ FeedsTyped' /\ IsFiniteSet(feed') /\ NumbersKept' /\ Selected' = Selected
    <3>1. scan'.seen \cup scan'.start \cup scan'.twice \subseteq feed
      BY <1>3, <1>4, <1>7, <2>2
    <3> QED
      BY <1>2, <3>1, OnlyTheScan
  <2>4. ScanKept'
    BY <1>6, <2>2, <2>3 DEF ScanKept
  <2>5. FeedExact'
    BY <1>5, <1>6, <1>10, <2>2 DEF FeedExact
  <2> QED
    BY <2>2, <2>3, <2>4, <2>5 DEF FeedsInv
<1>11. CASE ~ (Cardinality(page) < FeedPage)
  <2>1. page # {}
    <3>1. ASSUME page = {} PROVE FALSE
      <4>1. Cardinality(page) = 0
        BY <3>1, FS_EmptySet
      <4> QED
        BY <1>11, <4>1
    <3> QED
      BY <3>1
  <2>2. PICK c \in page : Oldest(c, page) /\ c = CHOOSE e \in page : Oldest(e, page)
    <3>1. \E e \in page : Oldest(e, page)
      <4>1. page \in SUBSET Event /\ Distinct(page)
        BY <1>3, <1>4 DEF Distinct
      <4> QED
        BY <2>1, <4>1, LastEvent
    <3> QED
      BY <3>1
  <2>3. scan' = [s EXCEPT !.last = c]
    BY <1>2, <1>8, <1>11, <2>2
  <2>4. c \in Left /\ c \in Event /\ c \in Selected /\ c # Dry
    <3>1. \A e \in Event : e # Dry
      BY DEF Event, Dry
    <3> QED
      BY <1>3, <1>4, <3>1
  <2>5. /\ ScanShape' /\ scan'.at = "under way" /\ scan'.how = "cursor" /\ scan'.last = c
        /\ scan'.start = scan.start /\ scan'.seen = scan.seen \cup page /\ scan'.twice = {}
    BY <1>9, <2>3, <2>4 DEF ScanShape
  <2>6. /\ FeedsTyped' /\ IsFiniteSet(feed') /\ NumbersKept' /\ Selected' = Selected
    <3>1. scan'.seen \cup scan'.start \cup scan'.twice \subseteq feed
      BY <1>3, <1>4, <1>7, <2>5
    <3> QED
      BY <1>2, <3>1, OnlyTheScan
  <2>7. \A e : After(e)' <=> Newer(c, e)
    BY <2>4, <2>5 DEF After
  <2>8. \A e \in scan.start : Newer(c, e) \/ e \in scan.seen \cup page
    BY <1>5, <1>6, <2>2
  <2>9. ASSUME NEW e \in scan.seen \cup page PROVE ~ Newer(c, e)
    <3>1. CASE e \in page
      <4>1. e \in Event /\ (e = c \/ Newer(e, c))
        BY <1>3, <1>4, <2>2, <3>1
      <4> QED
        BY <2>4, <4>1, NewerOrders
    <3>2. CASE e \in scan.seen
      <4>1. e \in Event /\ scan.last # Dry /\ ~ Newer(scan.last, e) /\ scan.last \in Event
        BY <1>6, <3>2 DEF After, ScanShape
      <4>2. Newer(scan.last, c)
        BY <2>4, <4>1 DEF After
      <4> QED
        BY <2>4, <4>1, <4>2, NewerOrders
    <3> QED
      BY <3>1, <3>2
  <2>10. ScanKept'
    BY <1>6, <2>5, <2>6, <2>7, <2>8, <2>9 DEF ScanKept
  <2>11. FeedExact'
    BY <2>5 DEF FeedExact
  <2> QED
    BY <2>5, <2>6, <2>10, <2>11 DEF FeedsInv
<1> QED
  BY <1>10, <1>11

LEMMA OnePageMore ==
  ASSUME NEW p \in Nat \ {0}, NEW n \in Nat
  PROVE  /\ (p - 1) * n \in Nat /\ (p - 1) * n + n = ((p + 1) - 1) * n
         /\ (p - 1) * n + n \in Nat
<1>1. p - 1 \in Nat /\ (p + 1) - 1 = (p - 1) + 1
  OBVIOUS
<1>2. \A q \in Nat : q * n \in Nat /\ (q + 1) * n = q * n + n
  OBVIOUS
<1>3. (p - 1) * n \in Nat /\ ((p - 1) + 1) * n = (p - 1) * n + n
  BY <1>1, <1>2
<1>4. \A q \in Nat : q + n \in Nat
  OBVIOUS
<1> QED
  BY <1>1, <1>3, <1>4

LEMMA NextByNumberKeeps ==
  ASSUME FeedsInv, NextByNumber
  PROVE  FeedsInv'
<1> DEFINE before == (scan.page - 1) * FeedPage
           page == Latest(before + FeedPage, Selected) \ Latest(before, Selected)
           last == Cardinality(Selected) <= before + FeedPage
<1>1. /\ scan.at = "under way" /\ scan.how = "pages" /\ UNCHANGED <<feed, pen, numbers, tick>>
      /\ scan' = [Served(page) EXCEPT !.page = @ + 1, !.at = IF last THEN "done" ELSE @]
  BY DEF NextByNumber
<1>2. /\ before \in Nat /\ before + FeedPage \in Nat
      /\ before + FeedPage = ((scan.page + 1) - 1) * FeedPage
  <2>1. scan.page \in Nat \ {0} /\ FeedPage \in Nat
    BY DEF FeedsInv, ScanShape
  <2> QED
    BY <2>1, OnePageMore
<1>3. /\ \A e \in Selected : e \in page \/ Ahead(e) < before \/ ~ (Ahead(e) < before + FeedPage)
      /\ page \subseteq Selected
  BY DEF Latest, Ahead
<1>4. last <=> Cardinality(Selected) <= before + FeedPage
  OBVIOUS
<1>5. before = (scan.page - 1) * FeedPage
  OBVIOUS
<1> HIDE DEF page, before, last
<1>6. /\ ScanShape /\ scan.start \subseteq Selected
      /\ \A e \in scan.start : e \in scan.seen \/ Ahead(e) >= before
  BY <1>1, <1>5 DEF FeedsInv, ScanKept
<1>7. /\ scan.seen \subseteq feed /\ scan.start \subseteq feed /\ scan.twice \subseteq feed
      /\ Selected \subseteq feed /\ Selected \in SUBSET Event
  BY SelectedIs DEF FeedsInv, FeedsTyped
<1>8. PICK s : s = Served(page)
  OBVIOUS
<1>9. /\ s \in [how : {"cursor", "pages"}, at : {"before", "under way", "done"},
                last : {Dry} \cup Event, page : Nat \ {0},
                start : SUBSET Event, seen : SUBSET Event, twice : SUBSET Event]
      /\ s.how = "pages" /\ s.at = "under way" /\ s.page = scan.page
      /\ s.start = scan.start /\ s.seen = scan.seen \cup page
      /\ s.twice \subseteq scan.twice \cup scan.seen
  BY <1>1, <1>3, <1>6, <1>7, <1>8 DEF ScanShape, Served
<1>10. scan' = [s EXCEPT !.page = @ + 1, !.at = IF last THEN "done" ELSE @]
  BY <1>1, <1>8, Zenon
<1>11. /\ ScanShape' /\ scan'.how = "pages" /\ scan'.page = scan.page + 1
       /\ scan'.start = scan.start /\ scan'.seen = scan.seen \cup page
       /\ scan'.twice = s.twice /\ scan'.at = IF last THEN "done" ELSE "under way"
  <2>1. scan.page + 1 \in Nat \ {0}
    <3>1. scan.page \in Nat \ {0}
      BY <1>6 DEF ScanShape
    <3> QED
      BY <3>1
  <2>2. PICK p \in Nat \ {0}, at \in {"before", "under way", "done"} :
          p = scan.page + 1 /\ at = IF last THEN "done" ELSE "under way"
    BY <2>1
  <2>3. scan' = [s EXCEPT !.page = p, !.at = at]
    BY <1>9, <1>10, <2>2
  <2> QED
    BY <1>9, <2>2, <2>3 DEF ScanShape
<1>12. /\ FeedsTyped' /\ IsFiniteSet(feed') /\ NumbersKept' /\ Selected' = Selected
       /\ \A e : Ahead(e)' = Ahead(e)
  <2>1. scan'.seen \cup scan'.start \cup scan'.twice \subseteq feed
    BY <1>3, <1>7, <1>9, <1>11
  <2> QED
    BY <1>1, <2>1, OnlyTheScan
<1>13. ASSUME NEW e \in scan.start
       PROVE  /\ Ahead(e) \in Nat /\ Ahead(e) < Cardinality(Selected)
              /\ e \in scan.seen \cup page \/ Ahead(e) >= before + FeedPage
  <2>1. /\ Ahead(e) \in Nat /\ Ahead(e) < Cardinality(Selected) /\ e \in Selected
    BY <1>6, AheadIs
  <2> QED
    BY <1>2, <1>3, <1>6, <2>1
<1>14. ScanKept'
  <2>1. \A e \in scan.start : e \in scan.seen \cup page \/ Ahead(e)' >= ((scan.page + 1) - 1) * FeedPage
    BY <1>2, <1>12, <1>13
  <2>2. \A e \in scan'.start : e \in scan'.seen \/ Ahead(e)' >= (scan'.page - 1) * FeedPage
    BY <1>11, <2>1, Zenon
  <2> QED
    BY <1>6, <1>11, <1>12, <2>2 DEF ScanKept
<1>15. FeedExact'
  <2>1. ASSUME last, NEW e \in scan.start PROVE e \in scan.seen \cup page
    <3>1. Cardinality(Selected) \in Nat
      BY SelectedIs, FS_CardinalityType
    <3> QED
      BY <1>2, <1>4, <1>13, <2>1, <3>1
  <2> QED
    BY <1>11, <2>1 DEF FeedExact
<1> QED
  BY <1>11, <1>12, <1>14, <1>15 DEF FeedsInv

LEMMA FeedsStep == FeedsInv /\ [FeedsNext]_fvars => FeedsInv'
<1> SUFFICES ASSUME FeedsInv, [FeedsNext]_fvars PROVE FeedsInv'
  OBVIOUS
<1>1. CASE UNCHANGED fvars
  <2>1. feed' = feed /\ pen' = pen /\ numbers' = numbers /\ scan' = scan /\ tick' = tick
    BY <1>1 DEF fvars
  <2>2. ScanShape' /\ ScanKept' /\ FeedExact'
    BY <2>1, ScanStays DEF FeedsInv
  <2> QED
    BY <2>1, <2>2 DEF FeedsInv, FeedsTyped, NumbersKept
<1>2. ASSUME NEW h \in Pens, DrawEvent(h) PROVE FeedsInv'
  BY <1>2, DrawKeeps
<1>3. ASSUME NEW h \in Pens, StampEvent(h) PROVE FeedsInv'
  BY <1>3, StampKeeps
<1>4. ASSUME NEW h \in Pens, AddEvent(h) PROVE FeedsInv'
  BY <1>4, AddEventKeeps
<1>5. CASE StartScan \/ NextByCursor \/ NextByNumber \/ ClockTicks
  BY <1>5, StartScanKeeps, NextByCursorKeeps, NextByNumberKeeps, ClockTicksKeeps
<1> QED
  BY <1>1, <1>2, <1>3, <1>4, <1>5 DEF FeedsNext

(* A list of events holds them as they are made, no number twice, whoever    *)
(* overtakes whom between the number, the time and the list                  *)
(* (_add_task_activity, emit_audit_event).                                   *)
THEOREM FeedsTypeCorrect == FeedsSpec => []FeedsTyped
<1>1. FeedsInv => FeedsTyped
  BY DEF FeedsInv
<1> QED
  BY FeedsBegin, FeedsStep, <1>1, PTL DEF FeedsSpec

(* A reader who goes on to the end has been served every event that was      *)
(* there when the walk began, with a cursor no event twice, whatever gets    *)
(* into the list between the pages.                                          *)
THEOREM FeedAlwaysExact == FeedsSpec => []FeedExact
<1>1. FeedsInv => FeedExact
  BY DEF FeedsInv
<1> QED
  BY FeedsBegin, FeedsStep, <1>1, PTL DEF FeedsSpec

HIDE FeedsAssumption

================================================================================
