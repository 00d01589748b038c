------------------------------- MODULE ChatRooms -------------------------------
(***************************************************************************)
(* Who belongs to a chat of a project, and who manages it                  *)
(* (chats/api/views.py).                                                   *)
(*                                                                         *)
(* No handler opens a transaction.  Creating a chat saves the row and then *)
(* its owner; a PATCH or DELETE of a member checks, then writes.  Other    *)
(* requests come in between, and the server may die.                       *)
(*                                                                         *)
(* Abstracted: what the project's rights give (AccessPolicies) is fixed in *)
(* three sets; title, status and list filters.  Messages are the subject   *)
(* of ChatQuestions.  A request that holds a member's row which another    *)
(* one deletes ends without effect.  Bound: one request per thread.        *)
(***************************************************************************)
CONSTANTS
  People, Founder,
  Viewers,     \* can_view_project holds
  Moderators,  \* can_moderate_project_chat holds
  Grantees,    \* have an active grant of the project's scope
  Desks

ASSUME RoomAssumption ==
  /\ Founder \in People
  /\ Viewers \cup Moderators \cup Grantees \subseteq People
  /\ Grantees \subseteq Viewers

VARIABLES
  chat,    \* "none", "saved" without its owner yet, or "open"
  rank,    \* ChatMember: a role, or "none"
  plain,   \* regime: POST only brings in newcomers, the founder not among them
  desk     \* desk[h]: what thread h is in the middle of

cvars == <<chat, rank, plain, desk>>

Vacant == [kind |-> "vacant"]
OwnersBut(v) == {w \in People \ {v} : rank[w] = "owner"}

\* _get_chat_or_deny, _require_chat_owner and the filter of the list.
Enters(u) == chat # "none" /\ (u = Founder \/ rank[u] # "none" \/ u \in Viewers)
Manages(u) == Enters(u) /\ (u = Founder \/ rank[u] = "owner" \/ u \in Moderators)
Listed(u) == chat # "none" /\ (u = Founder \/ rank[u] # "none" \/ u \in Grantees)

Free(h) == desk' = [desk EXCEPT ![h] = Vacant]

--------------------------------------------------------------------------------
RoomsInit ==
  /\ chat = "none"
  /\ rank = [u \in People |-> "none"]
  /\ plain \in BOOLEAN
  /\ desk = [h \in Desks |-> Vacant]

\* ChatListCreateView.create saves the chat, and then its creator's row.
StartChat(h) ==
  /\ chat = "none" /\ desk[h] = Vacant
  /\ chat' = "saved"
  /\ desk' = [desk EXCEPT ![h] = [kind |-> "chat"]]
  /\ UNCHANGED <<rank, plain>>

\* get_or_create: a row that is there already keeps its role.
FinishChat(h) ==
  /\ desk[h].kind = "chat"
  /\ chat' = "open"
  /\ rank' = [rank EXCEPT ![Founder] = IF @ = "none" THEN "owner" ELSE @]
  /\ Free(h)
  /\ UNCHANGED plain

\* ChatMembersView.post: update_or_create with any role over any row.
UpsertMember(u, v) ==
  /\ Manages(u)
  /\ plain => v # Founder /\ rank[v] = "none"
  /\ \E r \in {"member", "owner"} : rank' = [rank EXCEPT ![v] = r]
  /\ UNCHANGED <<chat, plain, desk>>

\* ChatMemberDetailView.patch up to the save.
StartRole(h, u, v) ==
  /\ desk[h] = Vacant
  /\ Manages(u) /\ rank[v] # "none"
  /\ \E r \in {"member", "owner"} :
       /\ rank[v] = "owner" /\ r # "owner" => OwnersBut(v) # {}
       /\ v = Founder => r = "owner"
       /\ desk' = [desk EXCEPT ![h] = [kind |-> "role", of |-> v, to |-> r]]
  /\ UNCHANGED <<chat, rank, plain>>

FinishRole(h) ==
  /\ desk[h].kind = "role"
  /\ rank' = [rank EXCEPT ![desk[h].of] = desk[h].to]
  /\ Free(h)
  /\ UNCHANGED <<chat, plain>>

\* Mutant: the creator is asked about like everyone else.
StartRemove_AnyMember(h, u, v) ==
  /\ desk[h] = Vacant
  /\ Manages(u) /\ rank[v] # "none"
  /\ v = u /\ rank[v] = "owner" => OwnersBut(v) # {}
  /\ desk' = [desk EXCEPT ![h] = [kind |-> "remove", of |-> v]]
  /\ UNCHANGED <<chat, rank, plain>>

\* ChatMemberDetailView.delete up to the delete: only who removes himself is asked
\* for another owner.
StartRemove(h, u, v) ==
  /\ desk[h] = Vacant
  /\ Manages(u) /\ rank[v] # "none"
  /\ v # Founder
  /\ v = u /\ rank[v] = "owner" => OwnersBut(v) # {}
  /\ desk' = [desk EXCEPT ![h] = [kind |-> "remove", of |-> v]]
  /\ UNCHANGED <<chat, rank, plain>>

\* The row goes, and with it what others were about to do with it.
FinishRemove(h) ==
  /\ desk[h].kind = "remove"
  /\ rank' = [rank EXCEPT ![desk[h].of] = "none"]
  /\ desk' = [k \in Desks |->
                IF desk[k].kind \in {"role", "remove"} /\ desk[k].of = desk[h].of
                THEN Vacant ELSE desk[k]]
  /\ UNCHANGED <<chat, plain>>

\* The server dies with every request under way; a chat saved without its owner
\* stays so.
Restart ==
  /\ \E h \in Desks : desk[h] # Vacant
  /\ desk' = [h \in Desks |-> Vacant]
  /\ UNCHANGED <<chat, rank, plain>>

RoomsNext ==
  \/ \E h \in Desks : StartChat(h) \/ FinishChat(h) \/ FinishRole(h) \/ FinishRemove(h)
  \/ \E u, v \in People : UpsertMember(u, v)
  \/ \E h \in Desks, u, v \in People : StartRole(h, u, v) \/ StartRemove(h, u, v)
  \/ Restart

RoomsSpec == RoomsInit /\ [][RoomsNext]_cvars

--------------------------------------------------------------------------------
(* Properties *)

Errands == {Vacant, [kind |-> "chat"]}
           \cup [kind : {"role"}, of : People, to : {"member", "owner"}]
           \cup [kind : {"remove"}, of : People]

\* The rows hold a role of ChatMember, and what a thread is about to do is about a
\* row that is there.
RoomsTyped ==
  /\ chat \in {"none", "saved", "open"} /\ plain \in BOOLEAN
  /\ rank \in [People -> {"none", "member", "owner"}]
  /\ desk \in [Desks -> Errands]
  /\ \A h \in Desks : desk[h].kind \in {"role", "remove"} => rank[desk[h].of] # "none"

\* "Cannot demote the last chat owner", "Cannot remove the last chat owner": however
\* requests overlap, an open chat has an owner among its members - as long as POST
\* is used to bring people in and not over the rows of those who are.
OwnerRemains == plain /\ chat = "open" => \E u \in People : rank[u] = "owner"

\* _project_grant_chat_ids: "any user that can moderate or otherwise act on a
\* project's chat must also be able to *see* it in the queryset".
ManagersSee == \A u \in People : Manages(u) => Listed(u)
================================================================================
