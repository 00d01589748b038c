-------------------------------- MODULE Storage --------------------------------
(***************************************************************************)
(* Stored files, the quotas on them and the providers they are kept with   *)
(* (storage/ and the upload handlers of projects, departments and chats;   *)
(* the policy refuses every upload to a workspace, AccessPolicies).        *)
(*                                                                         *)
(* An upload compares the usage with the quotas and picks the provider,    *)
(* puts the object there and then creates the row (Admits, PutObject,      *)
(* CreateRow); an attachment's deletion goes the other way round.  A       *)
(* request about a provider changes its row in a transaction and then,     *)
(* outside of it, repairs the default.  Requests overlap, a put or the     *)
(* deletion of an object may fail, the server may die.                     *)
(*                                                                         *)
(* Abstracted: one user, one project, its organization and a department of *)
(* it; who may upload (AccessPolicies); names, links and list filters; a   *)
(* provider's bucket and credentials, which stay as they are; priorities:  *)
(* a provider's number is its place in the order by (priority, code).  A   *)
(* quota that is absent or not active is NoLimit.  The first statements of *)
(* a repair are one step.  Bounds: the sets, one request per thread,       *)
(* MaxRequestsOn requests about providers.                                 *)
(***************************************************************************)
EXTENDS Naturals, FiniteSetsExt

CONSTANTS
  Stores, Local,
  Documents,    \* the ids and object keys there are to hand out
  Kinds, QuotaScopes, Sizes, Limits, NoLimit,
  Hands, MaxRequestsOn

Scopes == {"global", "user", "project", "organization"}

ASSUME StorageAssumption ==
  /\ Stores \subseteq Nat /\ Local \notin Stores
  /\ Kinds \subseteq {"project", "department", "chat"}
  /\ QuotaScopes \subseteq Scopes
  /\ Sizes \subseteq Nat \ {0} /\ Limits \subseteq Nat /\ NoLimit \notin Limits
  /\ IsFiniteSet(Documents) /\ MaxRequestsOn \in Nat

VARIABLES
  provider,  \* StorageProvider rows
  limit,     \* StorageQuota: the limit in force for each scope
  doc,       \* the rows of uploaded documents and attachments
  objects,   \* what is in the buckets and in the media directory
  hand,      \* hand[h]: what thread h is in the middle of
  turns,     \* how many requests about providers are still to come
  torn,      \* history: the last provider request was cut off or met another one
  cut        \* history: attachments whose deletion was cut off

svars == <<provider, limit, doc, objects, hand, turns, torn, cut>>

NoProvider == [here |-> FALSE]
ProviderRow == [here : {TRUE}, active : BOOLEAN, default : BOOLEAN]
Unused == [row |-> "unused"]
Gone == [row |-> "gone"]
Stored == [row : {"stored"}, kind : Kinds, size : Sizes, at : Stores \cup {Local}]
Ready == [kind |-> "ready"]

There(p) == provider[p].here
Active == {p \in Stores : There(p) /\ provider[p].active}
Default == {p \in Stores : There(p) /\ provider[p].default}
Rows == {d \in Documents : doc[d].row = "stored"}

\* The quotas that assert_..._upload_allowed asks about.
Checked(k) == IF k = "department" THEN Scopes \ {"project"} ELSE Scopes

\* What compute_storage_usage adds an upload to: it does not read the tables of
\* departments and chats.
Counted(k) == IF k = "project" THEN Scopes ELSE {}

Used(s) == MapThenSumSet(LAMBDA d : doc[d].size, {d \in Rows : s \in Counted(doc[d].kind)})

\* Mutant: only what is there already is compared with the limit.
Fits_Current(k, size) ==
  \A s \in Checked(k) \cap QuotaScopes : limit[s] # NoLimit => Used(s) <= limit[s]

\* _check_quota, of every quota that is asked about.
Fits(k, size) ==
  \A s \in Checked(k) \cap QuotaScopes : limit[s] # NoLimit => Used(s) + size <= limit[s]

\* get_default_object_storage_provider, and the media directory if there is none.
Place == IF Active \cap Default = {} THEN Local ELSE Min(Active \cap Default)

Uploading == {"put", "create"}
Managing == {"save", "repair", "promote"}

\* Thread h goes on with r; what others of the same sort have begun is no longer
\* undisturbed, and neither is r.
Begins(h, r, sort) ==
  LET others == {k \in Hands \ {h} : hand[k].kind \in sort}
  IN hand' = [k \in Hands |-> IF k = h THEN [r EXCEPT !.clean = others = {}]
                              ELSE IF k \in others THEN [hand[k] EXCEPT !.clean = FALSE]
                              ELSE hand[k]]
Goes(h, r) == hand' = [hand EXCEPT ![h] = r]
Ends(h) == hand' = [hand EXCEPT ![h] = Ready]

--------------------------------------------------------------------------------
StorageInit ==
  /\ provider = [p \in Stores |-> NoProvider]
  /\ limit = [s \in QuotaScopes |-> NoLimit]
  /\ doc = [d \in Documents |-> Unused]
  /\ objects = {}
  /\ hand = [h \in Hands |-> Ready]
  /\ turns = MaxRequestsOn /\ torn = FALSE /\ cut = {}

\* What the upload handlers do up to the choice of the provider.
Admits(h, d, k) ==
  /\ k \in Kinds
  /\ hand[h] = Ready
  /\ doc[d] = Unused /\ \A i \in Hands : hand[i].kind \in Uploading => hand[i].of # d
  /\ \E size \in Sizes :
       /\ Fits(k, size)
       /\ Begins(h, [kind |-> "put", of |-> d, clean |-> TRUE,
                     row |-> [row |-> "stored", kind |-> k, size |-> size, at |-> Place]],
                 Uploading)
  /\ UNCHANGED <<provider, limit, doc, objects, turns, torn, cut>>

UploadToProject(h, d) == Admits(h, d, "project")
UploadToDepartment(h, d) == Admits(h, d, "department")
AttachToChat(h, d) == Admits(h, d, "chat")

\* Mutant: a put that fails goes unnoticed.
PutObject_Swallows(h) ==
  /\ hand[h].kind = "put"
  /\ \/ objects' = objects \cup {<<hand[h].row.at, hand[h].of>>}
     \/ UNCHANGED objects
  /\ Goes(h, [hand[h] EXCEPT !.kind = "create"])
  /\ UNCHANGED <<provider, limit, doc, turns, torn, cut>>

\* put_object_bytes, put_object_fileobj, or the file's save: it fails or it is there.
PutObject(h) ==
  /\ hand[h].kind = "put"
  /\ \/ /\ objects' = objects \cup {<<hand[h].row.at, hand[h].of>>}
        /\ Goes(h, [hand[h] EXCEPT !.kind = "create"])
     \/ UNCHANGED objects /\ Ends(h)
  /\ UNCHANGED <<provider, limit, doc, turns, torn, cut>>

\* The row.  Its provider may have been deleted meanwhile: the foreign key fails, and
\* the object is left to itself.
CreateRow(h) ==
  /\ hand[h].kind = "create"
  /\ LET r == hand[h].row
     IN doc' = IF r.at = Local \/ There(r.at)
               THEN [doc EXCEPT ![hand[h].of] = r] ELSE doc
  /\ Ends(h)
  /\ UNCHANGED <<provider, limit, objects, turns, torn, cut>>

\* delete_chat_attachment: the object first, and never mind if that fails; then the
\* row, if another request has not deleted it.
StartDeletion(h, d) ==
  /\ hand[h] = Ready
  /\ d \in Rows /\ doc[d].kind = "chat"
  /\ Goes(h, [kind |-> "object", of |-> d, at |-> doc[d].at])
  /\ UNCHANGED <<provider, limit, doc, objects, turns, torn, cut>>

DeleteObject(h) ==
  /\ hand[h].kind = "object"
  /\ \/ objects' = objects \ {<<hand[h].at, hand[h].of>>}
     \/ UNCHANGED objects
  /\ Goes(h, [kind |-> "row", of |-> hand[h].of])
  /\ UNCHANGED <<provider, limit, doc, turns, torn, cut>>

DeleteRow(h) ==
  /\ hand[h].kind = "row"
  /\ doc' = [doc EXCEPT ![hand[h].of] = Gone]
  /\ cut' = cut \ {hand[h].of}
  /\ Ends(h)
  /\ UNCHANGED <<provider, limit, objects, turns, torn>>

\* Quotas created, patched, switched off and on, and deleted.
SetQuota(s, l) ==
  /\ limit[s] # l
  /\ limit' = [limit EXCEPT ![s] = l]
  /\ hand' = [k \in Hands |-> IF hand[k].kind \in Uploading
                              THEN [hand[k] EXCEPT !.clean = FALSE] ELSE hand[k]]
  /\ UNCHANGED <<provider, doc, objects, turns, torn, cut>>

--------------------------------------------------------------------------------
(* Providers *)

\* Mutant: the others are not cleared.
Saved_KeepsOthers(p, row) == [provider EXCEPT ![p] = row]

\* The transactions: a row that is to be the default is written after the others
\* have been cleared.
Saved(p, row) ==
  [q \in Stores |->
     IF q = p THEN row
     ELSE IF There(q) /\ row.default THEN [provider[q] EXCEPT !.default = FALSE]
     ELSE provider[q]]

Turn == turns > 0 /\ turns' = turns - 1
Repairs == [kind |-> "repair", clean |-> TRUE]

AddProvider(h, p) ==
  /\ Turn /\ hand[h] = Ready /\ ~ There(p)
  /\ \E row \in ProviderRow : provider' = Saved(p, row)
  /\ Begins(h, Repairs, Managing)
  /\ UNCHANGED <<limit, doc, objects, torn, cut>>

\* The PATCH up to the transaction: the row as loaded, with the payload in it.
LoadProvider(h, p) ==
  /\ Turn /\ hand[h] = Ready /\ There(p)
  /\ \/ \E row \in ProviderRow :
          Begins(h, [kind |-> "save", of |-> p, row |-> row, clean |-> TRUE], Managing)
     \/ Begins(h, Repairs, Managing)
  /\ UNCHANGED <<provider, limit, doc, objects, torn, cut>>

\* provider.save() writes every field, and inserts a row that was deleted meanwhile.
SaveProvider(h) ==
  /\ hand[h].kind = "save"
  /\ provider' = Saved(hand[h].of, hand[h].row)
  /\ Goes(h, [Repairs EXCEPT !.clean = hand[h].clean])
  /\ UNCHANGED <<limit, doc, objects, turns, torn, cut>>

\* Files protect the provider they are kept with.
DeleteProvider(h, p) ==
  /\ Turn /\ hand[h] = Ready /\ There(p)
  /\ \A d \in Rows : doc[d].at # p
  /\ provider' = [provider EXCEPT ![p] = NoProvider]
  /\ Begins(h, Repairs, Managing)
  /\ UNCHANGED <<limit, doc, objects, torn, cut>>

\* Mutant: nobody is promoted.
Repair_NoPromotion(h) ==
  /\ hand[h].kind = "repair"
  /\ provider' = [p \in Stores |-> IF There(p) /\ ~ provider[p].active
                                      THEN [provider[p] EXCEPT !.default = FALSE]
                                      ELSE provider[p]]
  /\ Ends(h) /\ torn' = ~ hand[h].clean
  /\ UNCHANGED <<limit, doc, objects, turns, cut>>

\* repair_storage_provider_defaults up to the promotion.  Of several defaults the
\* first would stay, but a constraint of the table leaves one at most.
Repair(h) ==
  /\ hand[h].kind = "repair"
  /\ provider' = [p \in Stores |-> IF There(p) /\ ~ provider[p].active
                                      THEN [provider[p] EXCEPT !.default = FALSE]
                                      ELSE provider[p]]
  /\ \/ /\ Active # {} /\ Active \cap Default = {}
        /\ Goes(h, [kind |-> "promote", of |-> Min(Active), clean |-> hand[h].clean])
        /\ UNCHANGED torn
     \/ /\ Active = {} \/ Active \cap Default # {}
        /\ Ends(h) /\ torn' = ~ hand[h].clean
  /\ UNCHANGED <<limit, doc, objects, turns, cut>>

\* The promotion, by primary key: there may be another default by now, which the
\* constraint objects to, and the row may be gone.
Promote(h) ==
  /\ hand[h].kind = "promote"
  /\ LET p == hand[h].of
     IN provider' = IF There(p) /\ Default = {}
                    THEN [provider EXCEPT ![p].default = TRUE] ELSE provider
  /\ Ends(h) /\ torn' = ~ hand[h].clean
  /\ UNCHANGED <<limit, doc, objects, turns, cut>>

\* The server dies with every request under way.
StorageCrash ==
  /\ \E h \in Hands : hand[h] # Ready
  /\ hand' = [h \in Hands |-> Ready]
  /\ torn' = (torn \/ \E h \in Hands : hand[h].kind \in Managing)
  /\ cut' = cut \cup {d \in Rows : \E h \in Hands : hand[h].kind = "row" /\ hand[h].of = d}
  /\ UNCHANGED <<provider, limit, doc, objects, turns>>

StorageNext ==
  \/ \E h \in Hands, d \in Documents :
       \/ UploadToProject(h, d) \/ UploadToDepartment(h, d)
       \/ AttachToChat(h, d) \/ StartDeletion(h, d)
  \/ \E h \in Hands : PutObject(h) \/ CreateRow(h) \/ DeleteObject(h) \/ DeleteRow(h)
  \/ \E s \in QuotaScopes, l \in Limits \cup {NoLimit} : SetQuota(s, l)
  \/ \E h \in Hands, p \in Stores :
       AddProvider(h, p) \/ LoadProvider(h, p) \/ DeleteProvider(h, p)
  \/ \E h \in Hands : SaveProvider(h) \/ Repair(h) \/ Promote(h)
  \/ StorageCrash

StorageSpec == StorageInit /\ [][StorageNext]_svars

--------------------------------------------------------------------------------
(* Properties *)

Chores ==
  {Ready} \cup [kind : Uploading, of : Documents, clean : BOOLEAN, row : Stored]
          \cup [kind : {"object"}, of : Documents, at : Stores \cup {Local}]
          \cup [kind : {"row"}, of : Documents]
          \cup [kind : {"save"}, of : Stores, row : ProviderRow, clean : BOOLEAN]
          \cup [kind : {"repair"}, clean : BOOLEAN]
          \cup [kind : {"promote"}, of : Stores, clean : BOOLEAN]

\* The tables hold what the handlers write, and one default at most.
StorageTyped ==
  /\ provider \in [Stores -> {NoProvider} \cup ProviderRow]
  /\ Cardinality(Default) <= 1
  /\ limit \in [QuotaScopes -> Limits \cup {NoLimit}]
  /\ doc \in [Documents -> {Unused, Gone} \cup Stored]
  /\ objects \subseteq (Stores \cup {Local}) \X Documents
  /\ hand \in [Hands -> Chores]
  /\ turns \in 0 .. MaxRequestsOn /\ torn \in BOOLEAN /\ cut \subseteq Documents

\* Whatever is in a document's row can be fetched: its object is where the row says,
\* with a provider that is still configured - however uploads, deletions and changes
\* of providers overlap, fail and are cut off, unless somebody is deleting it or was.
RowHasObject ==
  \A d \in Rows :
    /\ doc[d].at \in {p \in Stores : There(p)} \cup {Local}
    /\ \/ <<doc[d].at, d>> \in objects
       \/ d \in cut
       \/ \E h \in Hands : hand[h].kind = "row" /\ hand[h].of = d

\* After a request about a provider that met no other one, and until the next: no
\* inactive provider is the default, and if any is active one is - whatever earlier
\* requests that overlapped or were cut off had left.
DefaultSettles ==
  ~ torn /\ (\A h \in Hands : hand[h].kind \notin Managing) =>
    Default \subseteq Active /\ (Active # {} => Default # {})

\* No upload takes the usage beyond a quota in force, if no other upload and no
\* change of a quota came between its check and its row.
QuotaKept ==
  [][\A s \in QuotaScopes : Used(s)' > Used(s) =>
       \/ limit[s] = NoLimit \/ Used(s)' <= limit[s]
       \/ \E h \in Hands : hand[h].kind = "create" /\ hand'[h] = Ready /\ ~ hand[h].clean]_svars
=================================================================================
