------------------------------ MODULE ProjectLife ------------------------------
(***************************************************************************)
(* The life of a project's row and what the audit trail says of it         *)
(* (projects/api/views.py): creation, PATCH, archiving, restoring and      *)
(* deletion, and the requests for people that hang off it.                 *)
(*                                                                         *)
(* No handler opens a transaction: each loads the row, decides, writes and *)
(* then tells the trail, with other requests in between, and the server    *)
(* may die.  A PATCH saves every column as it was loaded, then the         *)
(* settings, then reads the row again to tell a change of visibility.      *)
(*                                                                         *)
(* Abstracted: who may do what (AccessPolicies); names, dates and texts;   *)
(* of the settings all but the visibility; of the trail all but the        *)
(* deletions and the last visibility told; the members who come later      *)
(* (ProjectTeam).  "on_hold" stands for completed too.  Bounds: the sets,  *)
(* one request per thread, MaxRounds requests that change a project.       *)
(***************************************************************************)
EXTENDS Naturals

CONSTANTS ProjectIds, Wishes, Visibilities, Unset, Helms, MaxRounds

ASSUME LifeAssumption ==
  /\ Unset \in Visibilities   \* no such key in the settings
  /\ MaxRounds \in Nat

VARIABLES
  project,   \* the rows
  crew,      \* the members that creation gave it: "owner", "editor"
  wish,      \* ProjectResourceRequest rows
  told,      \* the last visibility the trail tells
  farewell,  \* the projects whose deletion the trail tells
  helm,      \* helm[h]: what thread h is in the middle of
  rounds,    \* how many requests that change a project are still to come
  meant,     \* history: the status that a request named last
  amiss      \* history: what an overlap or a crash may have spoilt

pvars == <<project, crew, wish, told, farewell, helm, rounds, meant, amiss>>

LifeStates == {"active", "on_hold", "archived"}
ProjectRow == [status : LifeStates, visibility : Visibilities]
NotYet == [status |-> "none"]
Deleted == [status |-> "deleted"]
NoWish == [state |-> "none"]
Adrift == [kind |-> "adrift"]

Exists(p) == project[p].status \in LifeStates
Spoilt == {"crew", "status", "visibility"}
Telling == {"settings", "reread", "tell"}

\* Thread h goes on with r, having written p's row: what others had loaded is stale.
Wrote(h, r, p) ==
  helm' = [k \in Helms |->
             IF k = h THEN r
             ELSE IF helm[k].kind \in {"save"} \cup Telling /\ helm[k].of = p
             THEN [helm[k] EXCEPT !.clean = FALSE] ELSE helm[k]]
Turns(h, r) == helm' = [helm EXCEPT ![h] = r]
TakesOn(h) == helm[h] = Adrift /\ rounds > 0 /\ rounds' = rounds - 1

--------------------------------------------------------------------------------
LifeInit ==
  /\ project = [p \in ProjectIds |-> NotYet]
  /\ crew = [p \in ProjectIds |-> {}]
  /\ wish = [w \in Wishes |-> NoWish]
  /\ told = [p \in ProjectIds |-> Unset]
  /\ farewell = {}
  /\ helm = [h \in Helms |-> Adrift]
  /\ rounds = MaxRounds
  /\ meant = [p \in ProjectIds |-> "none"]
  /\ amiss = [p \in ProjectIds |-> {}]

\* ProjectListView.create up to the row.  An administrator may make somebody else the
\* owner, and joins as an editor then.
DraftProject(h, p) ==
  /\ TakesOn(h) /\ project[p] = NotYet
  /\ \E s \in LifeStates, forAnother \in BOOLEAN :
       /\ project' = [project EXCEPT ![p] = [status |-> s, visibility |-> Unset]]
       /\ meant' = [meant EXCEPT ![p] = s]
       /\ Turns(h, [kind |-> "crew", of |-> p,
                    roles |-> {"owner"} \cup IF forAnother THEN {"editor"} ELSE {}])
  /\ UNCHANGED <<crew, wish, told, farewell, amiss>>

\* The members' rows, one by one and the owner's first; a project deleted meanwhile
\* takes none.
AddFounder(h) ==
  /\ helm[h].kind = "crew"
  /\ LET p == helm[h].of
         role == IF "owner" \in helm[h].roles THEN "owner" ELSE "editor"
         rest == helm[h].roles \ {role}
     IN /\ crew' = IF Exists(p) THEN [crew EXCEPT ![p] = @ \cup {role}] ELSE crew
        /\ Turns(h, IF Exists(p) /\ rest # {} THEN [helm[h] EXCEPT !.roles = rest] ELSE Adrift)
  /\ UNCHANGED <<project, wish, told, farewell, meant, amiss, rounds>>

--------------------------------------------------------------------------------
(* PATCH *)

\* The row as loaded, with the status in it; a new visibility waits for the second
\* save, and is none if the payload does not name the settings.
LoadProject(h, p) ==
  /\ TakesOn(h) /\ Exists(p)
  /\ \E s \in LifeStates \cup {"unnamed"}, v \in SUBSET Visibilities :
       /\ \A x, y \in v : x = y
       /\ Turns(h, [kind |-> "save", of |-> p, clean |-> TRUE, new |-> v, named |-> s # "unnamed",
                    row |-> IF s = "unnamed" THEN project[p] ELSE [project[p] EXCEPT !.status = s]])
  /\ UNCHANGED <<project, crew, wish, told, farewell, meant, amiss>>

\* Where the PATCH goes on: to the settings, or nowhere that matters here.
AfterSave(r) ==
  IF r.new = {} THEN Adrift
  ELSE [kind |-> "settings", of |-> r.of, clean |-> TRUE, old |-> r.row.visibility, new |-> r.new]

\* Mutant: an unnamed status is saved as that of a new project.
SaveProject_Defaults(h) ==
  /\ helm[h].kind = "save"
  /\ LET r == helm[h]
     IN /\ project' = [project EXCEPT ![r.of] =
                         IF r.named THEN r.row ELSE [r.row EXCEPT !.status = "active"]]
        /\ meant' = IF r.named THEN [meant EXCEPT ![r.of] = r.row.status] ELSE meant
        /\ amiss' = IF r.clean THEN amiss ELSE [amiss EXCEPT ![r.of] = Spoilt]
        /\ Wrote(h, AfterSave(r), r.of)
  /\ UNCHANGED <<crew, wish, told, farewell, rounds>>

\* instance.save() writes every column, and inserts a row that was deleted meanwhile.
SaveProject(h) ==
  /\ helm[h].kind = "save"
  /\ LET r == helm[h]
     IN /\ project' = [project EXCEPT ![r.of] = r.row]
        /\ meant' = IF r.named THEN [meant EXCEPT ![r.of] = r.row.status] ELSE meant
        /\ amiss' = IF r.clean THEN amiss
                    ELSE [amiss EXCEPT ![r.of] = @ \cup {"status", "visibility"}
                                                   \cup IF Exists(r.of) THEN {} ELSE {"crew"}]
        /\ Wrote(h, AfterSave(r), r.of)
  /\ UNCHANGED <<crew, wish, told, farewell, rounds>>

\* The second save, of the settings only: it fails if the row is gone.
SaveSettings(h) ==
  /\ helm[h].kind = "settings"
  /\ LET r == helm[h]
     IN \/ /\ Exists(r.of)
           /\ \E v \in r.new : project' = [project EXCEPT ![r.of].visibility = v]
           /\ amiss' = IF r.clean THEN amiss ELSE [amiss EXCEPT ![r.of] = @ \cup {"visibility"}]
           /\ Wrote(h, [kind |-> "reread", of |-> r.of, clean |-> TRUE, old |-> r.old], r.of)
        \/ /\ ~ Exists(r.of)
           /\ Turns(h, Adrift) /\ UNCHANGED <<project, amiss>>
  /\ UNCHANGED <<crew, wish, told, farewell, rounds, meant>>

\* The row is read again, and a visibility other than the loaded one is to be told.
RereadProject(h) ==
  /\ helm[h].kind = "reread"
  /\ LET r == helm[h]
     IN Turns(h, IF Exists(r.of) /\ project[r.of].visibility # r.old
                 THEN [kind |-> "tell", of |-> r.of, clean |-> r.clean,
                       new |-> project[r.of].visibility]
                 ELSE Adrift)
  /\ UNCHANGED <<project, crew, wish, told, farewell, rounds, meant, amiss>>

TellVisibility(h) ==
  /\ helm[h].kind = "tell"
  /\ LET r == helm[h]
     IN /\ told' = [told EXCEPT ![r.of] = r.new]
        /\ amiss' = IF r.clean THEN amiss ELSE [amiss EXCEPT ![r.of] = @ \cup {"visibility"}]
  /\ Turns(h, Adrift)
  /\ UNCHANGED <<project, crew, wish, farewell, meant, rounds>>

--------------------------------------------------------------------------------
(* Archiving, restoring, deleting *)

\* The archive and restore views up to their save; an active project is not restored.
LoadForStatus(h, p) ==
  /\ TakesOn(h) /\ Exists(p)
  /\ \E s \in {"active", "archived"} :
       /\ s = "active" => project[p].status = "archived"
       /\ Turns(h, [kind |-> "status", of |-> p, to |-> s])
  /\ UNCHANGED <<project, crew, wish, told, farewell, meant, amiss>>

\* Only the status is saved, and a row that is gone stays so.
SaveStatus(h) ==
  /\ helm[h].kind = "status"
  /\ LET r == helm[h]
     IN \/ /\ Exists(r.of)
           /\ project' = [project EXCEPT ![r.of].status = r.to]
           /\ meant' = [meant EXCEPT ![r.of] = r.to]
           /\ Wrote(h, Adrift, r.of)
        \/ ~ Exists(r.of) /\ Turns(h, Adrift) /\ UNCHANGED <<project, meant>>
  /\ UNCHANGED <<crew, wish, told, farewell, amiss, rounds>>

\* ProjectDetailView.delete tells the trail, and then deletes with all that hangs off
\* the project.
TellDeletion(h, p) ==
  /\ TakesOn(h) /\ Exists(p)
  /\ farewell' = farewell \cup {p}
  /\ Turns(h, [kind |-> "delete", of |-> p])
  /\ UNCHANGED <<project, crew, wish, told, meant, amiss>>

DeleteProject(h) ==
  /\ helm[h].kind = "delete"
  /\ LET p == helm[h].of
     IN /\ project' = [project EXCEPT ![p] = Deleted]
        /\ crew' = [crew EXCEPT ![p] = {}]
        /\ wish' = [w \in Wishes |-> IF wish[w] # NoWish /\ wish[w].of = p THEN NoWish ELSE wish[w]]
        /\ Wrote(h, Adrift, p)
  /\ UNCHANGED <<told, farewell, meant, amiss, rounds>>

--------------------------------------------------------------------------------
(* Requests for people *)

AskForPeople(p, w) ==
  /\ Exists(p) /\ wish[w] = NoWish
  /\ wish' = [wish EXCEPT ![w] = [state |-> "open", of |-> p]]
  /\ UNCHANGED <<project, crew, told, farewell, helm, meant, amiss, rounds>>

\* The open request is loaded; two administrators may both have it.
LoadWish(h, w) ==
  /\ helm[h] = Adrift /\ wish[w].state = "open"
  /\ Turns(h, [kind |-> "close", of |-> w])
  /\ UNCHANGED <<project, crew, wish, told, farewell, meant, amiss, rounds>>

\* One that went with its project is not written back.
CloseWish(h) ==
  /\ helm[h].kind = "close"
  /\ LET w == helm[h].of
     IN wish' = IF wish[w] = NoWish THEN wish ELSE [wish EXCEPT ![w].state = "closed"]
  /\ Turns(h, Adrift)
  /\ UNCHANGED <<project, crew, told, farewell, meant, amiss, rounds>>

\* The server dies with every request under way.
LifeCrash ==
  /\ \E h \in Helms : helm[h] # Adrift
  /\ helm' = [h \in Helms |-> Adrift]
  /\ amiss' = [p \in ProjectIds |->
       amiss[p] \cup {x \in {"crew", "visibility"} :
         \E h \in Helms : /\ helm[h].kind \in IF x = "crew" THEN {"crew"} ELSE Telling
                          /\ helm[h].of = p}]
  /\ UNCHANGED <<project, crew, wish, told, farewell, meant, rounds>>

LifeNext ==
  \/ \E h \in Helms, p \in ProjectIds :
       DraftProject(h, p) \/ LoadProject(h, p) \/ LoadForStatus(h, p) \/ TellDeletion(h, p)
  \/ \E h \in Helms :
       \/ AddFounder(h) \/ SaveProject(h) \/ SaveSettings(h) \/ RereadProject(h)
       \/ TellVisibility(h) \/ SaveStatus(h) \/ DeleteProject(h) \/ CloseWish(h)
  \/ \E p \in ProjectIds, w \in Wishes : AskForPeople(p, w)
  \/ \E h \in Helms, w \in Wishes : LoadWish(h, w)
  \/ LifeCrash

LifeSpec == LifeInit /\ [][LifeNext]_pvars

--------------------------------------------------------------------------------
(* Properties *)

Courses ==
  {Adrift} \cup [kind : {"crew"}, of : ProjectIds, roles : SUBSET {"owner", "editor"}]
           \cup [kind : {"save"}, of : ProjectIds, clean : BOOLEAN, row : ProjectRow,
                 new : SUBSET Visibilities, named : BOOLEAN]
           \cup [kind : {"settings"}, of : ProjectIds, clean : BOOLEAN, old : Visibilities,
                 new : SUBSET Visibilities]
           \cup [kind : {"reread"}, of : ProjectIds, clean : BOOLEAN, old : Visibilities]
           \cup [kind : {"tell"}, of : ProjectIds, clean : BOOLEAN, new : Visibilities]
           \cup [kind : {"status"}, of : ProjectIds, to : {"active", "archived"}]
           \cup [kind : {"delete"}, of : ProjectIds]
           \cup [kind : {"close"}, of : Wishes]

\* The tables hold what the handlers write, and nothing hangs off a project that is
\* not there.
LifeTyped ==
  /\ project \in [ProjectIds -> {NotYet, Deleted} \cup ProjectRow]
  /\ crew \in [ProjectIds -> SUBSET {"owner", "editor"}]
  /\ wish \in [Wishes -> {NoWish} \cup [state : {"open", "closed"}, of : ProjectIds]]
  /\ \A p \in ProjectIds : ~ Exists(p) => crew[p] = {}
  /\ \A w \in Wishes : wish[w] # NoWish => Exists(wish[w].of)
  /\ told \in [ProjectIds -> Visibilities]
  /\ farewell \subseteq ProjectIds
  /\ helm \in [Helms -> Courses]
  /\ rounds \in 0 .. MaxRounds
  /\ meant \in [ProjectIds -> LifeStates \cup {"none"}]
  /\ amiss \in [ProjectIds -> SUBSET Spoilt]

At(kinds, p) == \E h \in Helms : helm[h].kind \in kinds /\ helm[h].of = p

\* What the row says is what was asked for and told: the status is the one named last,
\* the visibility the one the trail tells last, the owner is among the members; only a
\* PATCH whose row was written under it, or a crash, can make it otherwise.  And no
\* project is gone without the trail telling of it.
LifeTold ==
  \A p \in ProjectIds :
    /\ project[p] = Deleted => p \in farewell
    /\ Exists(p) =>
         /\ "status" \notin amiss[p] => project[p].status = meant[p]
         /\ "visibility" \notin amiss[p] /\ ~ At(Telling, p) => project[p].visibility = told[p]
         /\ "crew" \notin amiss[p] /\ ~ At({"crew"}, p) => "owner" \in crew[p]
================================================================================
