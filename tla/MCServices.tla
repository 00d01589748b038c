------------------------------- MODULE MCServices -------------------------------
(* The services that share no state in the code, each on an instance of its own. *)
(* focus is the one that moves: the others stand still, so that their states add *)
(* up and do not multiply.                                                       *)
EXTENDS ContractTasks, WorkspaceTasks, AiRuns, ChatRooms, ChatQuestions, Storage,
        Accounts, EventFeeds, ProjectLife

CONSTANTS editor, viewer, pj, none, ann, an

VARIABLE focus

\* An editor of the project, and a member of it who may only look.
Grants == {<<editor, c, pj>> : c \in Codes} \cup {<<viewer, "view", pj>>}
BothIn == [q \in {pj} |-> {editor, viewer}]
Payloads == {{"status"}, {"project", "assignee"}}
OneSeed == <<[status |-> "todo", project |-> pj, assignee |-> editor]>>

\* Two user names with one slug.
OneSlug == [n \in {ann, an} |-> "an"]

\* What one may be invited as, or made.
OneRole == {{"employee"}, {"super_admin"}}

Parts == {"tasks", "boards", "runs", "rooms", "questions", "files", "providers",
          "accounts", "feeds", "projects"}

Init ==
  /\ TasksInit /\ BoardsInit /\ RunsInit /\ RoomsInit /\ QuestionsInit /\ StorageInit
  /\ AccountsInit /\ FeedsInit /\ LifeInit
  /\ focus \in Parts
  /\ focus # "boards" => overlap
  /\ focus # "rooms" => plain
  /\ focus # "feeds" => scan.how = "pages"

\* All files with few requests about providers, and one attachment with more of them
\* and no quotas.  A department's upload, never counted, is of one document only.
FirstOnly(h) == hand'[h].of = (CHOOSE d \in Documents : TRUE)
FilesMove ==
  /\ StorageNext /\ turns' >= MaxRequestsOn - 1
  /\ \A h \in Hands : hand'[h].kind \in Uploading /\ hand'[h].row.kind = "department" =>
       FirstOnly(h)
ProvidersMove ==
  /\ StorageNext /\ UNCHANGED limit
  /\ \A h \in Hands : hand'[h].kind \in Uploading => FirstOnly(h) /\ hand'[h].row.kind = "chat"

Next ==
  \/ /\ focus = "tasks" /\ TasksNext
     /\ UNCHANGED <<bvars, avars, cvars, qvars, svars, uvars, fvars, pvars, focus>>
  \/ /\ focus = "boards" /\ BoardsNext
     /\ UNCHANGED <<tvars, avars, cvars, qvars, svars, uvars, fvars, pvars, focus>>
  \/ /\ focus = "runs" /\ RunsNext
     /\ UNCHANGED <<tvars, bvars, cvars, qvars, svars, uvars, fvars, pvars, focus>>
  \/ /\ focus = "rooms" /\ RoomsNext
     /\ UNCHANGED <<tvars, bvars, avars, qvars, svars, uvars, fvars, pvars, focus>>
  \/ /\ focus = "questions" /\ QuestionsNext
     /\ UNCHANGED <<tvars, bvars, avars, cvars, svars, uvars, fvars, pvars, focus>>
  \/ /\ focus = "accounts" /\ AccountsNext
     /\ UNCHANGED <<tvars, bvars, avars, cvars, qvars, svars, fvars, pvars, focus>>
  \/ /\ focus = "feeds" /\ FeedsNext
     /\ UNCHANGED <<tvars, bvars, avars, cvars, qvars, svars, uvars, pvars, focus>>
  \/ /\ focus = "projects" /\ LifeNext
     /\ UNCHANGED <<tvars, bvars, avars, cvars, qvars, svars, uvars, fvars, focus>>
  \/ /\ \/ focus = "files" /\ FilesMove
        \/ focus = "providers" /\ ProvidersMove
     /\ UNCHANGED <<tvars, bvars, avars, cvars, qvars, uvars, fvars, pvars, focus>>

Spec ==
  /\ Init
  /\ [][Next]_<<tvars, bvars, avars, cvars, qvars, svars, uvars, fvars, pvars, focus>>
  /\ RunsFairness

\* Every part's state is what its handlers can write.
AllTyped ==
  /\ TasksTyped /\ BoardsTyped /\ RunsTyped /\ RoomsTyped /\ QuestionsTyped /\ StorageTyped
  /\ AccountsTyped /\ FeedsTyped /\ LifeTyped
==================================================================================
