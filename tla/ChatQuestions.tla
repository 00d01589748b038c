----------------------------- MODULE ChatQuestions -----------------------------
(***************************************************************************)
(* The messages of a chat and the questions put to the AI in it            *)
(* (AiChatCompletionsView in ai/api/views.py, ChatMessagesView in          *)
(* chats/api/views.py), under the rate limits that count in the cache.     *)
(*                                                                         *)
(* A question counts against the user, then the company, is written down,  *)
(* put to the provider, and then answered or withdrawn; requests overlap   *)
(* at every one of these steps, a full cache may throw a counter out, the  *)
(* server may die.                                                         *)
(*                                                                         *)
(* Abstracted: who may enter the chat is fixed (ChatRooms), and everybody  *)
(* belongs to the company; what the context and the history sent along     *)
(* say; counters are kept up to one above their limit, which is all a      *)
(* comparison tells.  Bounds: MaxPosts ids, one request per thread.        *)
(***************************************************************************)
EXTENDS Naturals

CONSTANTS
  Askers, Company,
  Insiders,    \* the creator and the members of the chat
  Lines, UserLimit, CompanyLimit, MaxPosts

ASSUME QuestionsAssumption ==
  /\ Company \notin Askers /\ Insiders \subseteq Askers
  /\ UserLimit \in Nat /\ CompanyLimit \in Nat /\ MaxPosts \in Nat

VARIABLES
  post,    \* Message rows: who said what, and what an answer answers
  nextPost,
  said,    \* history: the messages that were not questions
  line,    \* line[h]: what thread h is in the middle of
  used,    \* the counters in the cache, this minute's
  passed   \* history: how many got past each since it began to count

qvars == <<post, nextPost, said, line, used, passed>>
posts == <<post, nextPost, said>>
rates == <<used, passed>>

Silent == [kind |-> "silent"]
Payers == Askers \cup {Company}
Limit(x) == IF x = Company THEN CompanyLimit ELSE UserLimit
PostIds == 1 .. MaxPosts
Fresh == [x \in Payers |-> 0]

HangUp(h) == line' = [line EXCEPT ![h] = Silent]

--------------------------------------------------------------------------------
QuestionsInit ==
  /\ post = {} /\ nextPost = 1 /\ said = {}
  /\ line = [h \in Lines |-> Silent]
  /\ used = Fresh /\ passed = Fresh

Write(by, to) ==
  /\ nextPost <= MaxPosts
  /\ post' = post \cup {[id |-> nextPost, by |-> by, to |-> to]}
  /\ nextPost' = nextPost + 1

\* ChatMessagesView.create.
Say(u) ==
  /\ u \in Askers
  /\ Write(u, 0)
  /\ said' = said \cup {nextPost}
  /\ UNCHANGED <<line, rates>>

\* Mutant: the counter is compared before it counts this request.
Count_Before(x) ==
  /\ used' = [used EXCEPT ![x] = IF @ <= Limit(x) THEN @ + 1 ELSE @]
  /\ passed' = [passed EXCEPT ![x] = IF used[x] <= Limit(x) THEN @ + 1 ELSE @]

\* _increment_rate and the comparison: the counter of this minute goes up whether
\* or not the request passes.
Count(x) ==
  /\ used' = [used EXCEPT ![x] = IF @ <= Limit(x) THEN @ + 1 ELSE @]
  /\ passed' = [passed EXCEPT ![x] = IF used[x] < Limit(x) THEN @ + 1 ELSE @]

\* _enforce_rate_limits: the user first.
StartAsk(h, u) ==
  /\ line[h] = Silent
  /\ Count(u)
  /\ line' = [line EXCEPT ![h] = IF passed'[u] = passed[u] THEN Silent
                                 ELSE [kind |-> "counted", by |-> u]]
  /\ UNCHANGED posts

\* Then the company of the chat's project.
CountCompany(h) ==
  /\ line[h].kind = "counted"
  /\ Count(Company)
  /\ line' = [line EXCEPT ![h] = IF passed'[Company] = passed[Company] THEN Silent
                                 ELSE [kind |-> "admitted", by |-> @.by]]
  /\ UNCHANGED posts

\* _can_access_chat, without the project's viewers, and the user's message.
WriteQuestion(h) ==
  /\ line[h].kind = "admitted"
  /\ LET u == line[h].by
     IN \/ /\ u \in Insiders
           /\ Write(u, 0)
           /\ line' = [line EXCEPT ![h] = [kind |-> "asked", question |-> nextPost]]
        \/ /\ u \notin Insiders
           /\ HangUp(h)
           /\ UNCHANGED <<post, nextPost>>
  /\ UNCHANGED <<said, rates>>

\* _resolve_context_text: the request ends here if there is no such context or no
\* right to it, with the question written down.
BuildContext(h) ==
  /\ line[h].kind = "asked"
  /\ line' = [line EXCEPT ![h].kind = "sent"] \/ HangUp(h)
  /\ UNCHANGED <<posts, rates>>

\* The provider answers, or raises a RuntimeError, or something else that ends the
\* request.
HearProvider(h) ==
  /\ line[h].kind = "sent"
  /\ \/ \E what \in {"answering", "withdrawing"} :
          line' = [line EXCEPT ![h].kind = what]
     \/ HangUp(h)
  /\ UNCHANGED <<posts, rates>>

WriteAnswer(h) ==
  /\ line[h].kind = "answering"
  /\ Write(Company, line[h].question)
  /\ HangUp(h)
  /\ UNCHANGED <<said, rates>>

\* Mutant: the chat's latest message is taken for the question.
Withdraw_Latest(h) ==
  /\ line[h].kind = "withdrawing"
  /\ post' = {m \in post : \E n \in post : n.id > m.id}
  /\ HangUp(h)
  /\ UNCHANGED <<nextPost, said, rates>>

\* The except branch: the audit, and then the question is deleted; not if the audit
\* cannot be written.
Withdraw(h) ==
  /\ line[h].kind = "withdrawing"
  /\ \/ post' = {m \in post : m.id # line[h].question}
     \/ UNCHANGED post
  /\ HangUp(h)
  /\ UNCHANGED <<nextPost, said, rates>>

--------------------------------------------------------------------------------
(* The cache and the server *)

\* A new minute has new keys.
NextMinute ==
  /\ used # Fresh
  /\ used' = Fresh /\ passed' = Fresh
  /\ UNCHANGED <<posts, line>>

\* A full cache throws entries out: counting starts again.
DropCounter(x) ==
  /\ used[x] > 0
  /\ used' = [used EXCEPT ![x] = 0] /\ passed' = [passed EXCEPT ![x] = 0]
  /\ UNCHANGED <<posts, line>>

\* The server dies with every request and, the cache being in its memory, every
\* counter.
Outage ==
  /\ \E h \in Lines : line[h] # Silent
  /\ line' = [h \in Lines |-> Silent]
  /\ used' = Fresh /\ passed' = Fresh
  /\ UNCHANGED posts

QuestionsNext ==
  \/ \E u \in Askers : Say(u)
  \/ \E h \in Lines, u \in Askers : StartAsk(h, u)
  \/ \E h \in Lines : CountCompany(h) \/ WriteQuestion(h) \/ BuildContext(h)
                      \/ HearProvider(h) \/ WriteAnswer(h) \/ Withdraw(h)
  \/ NextMinute \/ (\E x \in Payers : DropCounter(x)) \/ Outage

QuestionsSpec == QuestionsInit /\ [][QuestionsNext]_qvars

--------------------------------------------------------------------------------
(* Properties *)

Posts == [id : PostIds, by : Payers, to : {0} \cup PostIds]
Talks == {Silent} \cup [kind : {"counted", "admitted"}, by : Askers]
                  \cup [kind : {"asked", "sent", "answering", "withdrawing"}, question : PostIds]

\* The rows and counters hold what the handlers write, and ids are not used twice.
QuestionsTyped ==
  /\ post \subseteq Posts /\ nextPost \in 1 .. MaxPosts + 1
  /\ \A m \in post : m.id < nextPost
  /\ \A m, n \in post : m.id = n.id => m = n
  /\ said \subseteq PostIds
  /\ line \in [Lines -> Talks]
  /\ used \in [Payers -> Nat] /\ passed \in [Payers -> Nat]

\* From the time a counter begins to count, no more requests get past it than the
\* settings allow in a minute, whatever overlaps and whoever else uses up the
\* company's share.
RateKept == \A x \in Payers : passed[x] <= Limit(x)

\* An answer stands after the question it answers, and no question has two; a
\* provider's failure withdraws no message but the one that was put to it.
AnswersStand ==
  /\ \A m \in post : m.by = Company =>
       /\ \E q \in post : q.id = m.to /\ q.id < m.id /\ q.by # Company
       /\ \A n \in post : n.by = Company /\ n.to = m.to => n = m
  /\ said \subseteq {m.id : m \in post}

================================================================================
