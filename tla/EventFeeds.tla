------------------------------- MODULE EventFeeds -------------------------------
(***************************************************************************)
(* Lists of events that only grow, and a reader who goes through one in    *)
(* pages: a task's activity (core/api/parallel_contract_views.py) with a   *)
(* cursor, as the platform's audit and the administrators' actions there,  *)
(* two lists nothing is added to; the audit of the database (audit/) by    *)
(* page number.                                                            *)
(*                                                                         *)
(* An event takes a number, then the time, and then gets into the list;    *)
(* other events overtake it at each step.  Pages are cut from the list as  *)
(* it is when they are asked for, latest event first.                      *)
(*                                                                         *)
(* Abstracted: who may read; the filters, which are one choice of the      *)
(* kinds of event wanted; statistics and exports, which read the list      *)
(* once; the activity's page mode, which the audit's stands for; the       *)
(* fraction of a second that isoformat may omit, as in ContractTasks.      *)
(* Bounds: MaxEvents events, a clock up to MaxTick, one walk, one event    *)
(* per pen.                                                                *)
(***************************************************************************)
EXTENDS Naturals, FiniteSets

CONSTANTS
  EventKinds, Wanted,   \* Wanted: the kinds the reader's filters let through
  Pens, FeedPage, MaxEvents, MaxTick

ASSUME FeedsAssumption ==
  /\ Wanted \subseteq EventKinds
  /\ FeedPage \in Nat \ {0} /\ MaxEvents \in Nat /\ MaxTick \in Nat

VARIABLES
  feed,    \* TASK_ACTIVITY_EVENTS, AUDIT_EVENTS, ADMIN_ACTION_EVENTS or AuditEvent rows
  pen,     \* pen[h]: the event thread h is about to add
  numbers, \* the numbers taken
  scan,    \* the reader's walk: how it goes, how far it is, what it was served
  tick     \* the clock

fvars == <<feed, pen, numbers, scan, tick>>

Event == [id : 1 .. MaxEvents, stamp : 0 .. MaxTick, kind : EventKinds]
Drawn == [id : 1 .. MaxEvents, kind : EventKinds]
Dry == [dry |-> TRUE]

FeedsInit ==
  /\ feed = {}
  /\ pen = [h \in Pens |-> Dry]
  /\ numbers = 0
  /\ \E how \in {"cursor", "pages"} :
       scan = [how |-> how, at |-> "before", last |-> Dry, page |-> 1,
               start |-> {}, seen |-> {}, twice |-> {}]
  /\ tick = 0

\* _add_task_activity, emit_audit_event: the number, the time, the list.
DrawEvent(h) ==
  /\ pen[h] = Dry
  /\ numbers < MaxEvents
  /\ \E kind \in EventKinds :
       pen' = [pen EXCEPT ![h] = [id |-> numbers + 1, kind |-> kind]]
  /\ numbers' = numbers + 1
  /\ UNCHANGED <<feed, scan, tick>>

StampEvent(h) ==
  /\ pen[h] \in Drawn
  /\ pen' = [pen EXCEPT ![h] = [id |-> @.id, stamp |-> tick, kind |-> @.kind]]
  /\ UNCHANGED <<feed, numbers, scan, tick>>

AddEvent(h) ==
  /\ pen[h] \in Event
  /\ feed' = feed \cup {pen[h]}
  /\ pen' = [pen EXCEPT ![h] = Dry]
  /\ UNCHANGED <<numbers, scan, tick>>

\* The order of the lists: by time and number, latest first.
Newer(e, f) == e.stamp > f.stamp \/ (e.stamp = f.stamp /\ e.id > f.id)

Selected == {e \in feed : e.kind \in Wanted}

\* Mutant: an event of the cursor's own time is served already.
After_StampOnly(e) == scan.last # Dry => e.stamp < scan.last.stamp

\* What the cursor's filter leaves: the cursor is the last event served.
After(e) == scan.last # Dry => Newer(scan.last, e)

\* The first n of a set of events.
Latest(n, events) == {e \in events : Cardinality({f \in events : Newer(f, e)}) < n}

\* The reader is served a page.
Served(page) == [scan EXCEPT !.seen = @ \cup page, !.twice = @ \cup (scan.seen \cap page)]

StartScan ==
  /\ scan.at = "before"
  /\ scan' = [scan EXCEPT !.at = "under way", !.start = Selected]
  /\ UNCHANGED <<feed, pen, numbers, tick>>

\* PlatformAuditEventsView, AdminActionEventsView, TaskActivityView.get with a
\* cursor: only a full page comes with one to go on from.
NextByCursor ==
  /\ scan.at = "under way" /\ scan.how = "cursor"
  /\ LET page == Latest(FeedPage, {e \in Selected : After(e)})
     IN scan' = IF Cardinality(page) < FeedPage THEN [Served(page) EXCEPT !.at = "done"]
                ELSE [Served(page) EXCEPT !.last = CHOOSE e \in page :
                                                     \A f \in page : f = e \/ Newer(f, e)]
  /\ UNCHANGED <<feed, pen, numbers, tick>>

\* AuditEventListView: page after page by number, to the last one.
NextByNumber ==
  /\ scan.at = "under way" /\ scan.how = "pages"
  /\ LET before == (scan.page - 1) * FeedPage
         page == Latest(before + FeedPage, Selected) \ Latest(before, Selected)
     IN scan' = [Served(page) EXCEPT !.page = @ + 1,
                                     !.at = IF Cardinality(Selected) <= before + FeedPage
                                            THEN "done" ELSE @]
  /\ UNCHANGED <<feed, pen, numbers, tick>>

ClockTicks ==
  /\ tick < MaxTick
  /\ tick' = tick + 1
  /\ UNCHANGED <<feed, pen, numbers, scan>>

FeedsNext ==
  \/ \E h \in Pens : DrawEvent(h) \/ StampEvent(h) \/ AddEvent(h)
  \/ StartScan \/ NextByCursor \/ NextByNumber \/ ClockTicks

FeedsSpec == FeedsInit /\ [][FeedsNext]_fvars

--------------------------------------------------------------------------------
(* Properties *)

\* The list holds events as they are made, no number twice.
FeedsTyped ==
  /\ feed \subseteq Event
  /\ pen \in [Pens -> {Dry} \cup Drawn \cup Event]
  /\ \A e, f \in (feed \cup {pen[h] : h \in Pens}) \ {Dry} : e.id = f.id => e = f
  /\ numbers \in 0 .. MaxEvents /\ tick \in 0 .. MaxTick
  /\ scan.seen \cup scan.start \cup scan.twice \subseteq feed

\* A finished walk has served every event that was there at its start, whatever was
\* added meanwhile and in whatever order it got there; by page number maybe more
\* than once, with a cursor only once ("stable ordering", CURSOR_MODE_DESCRIPTION).
FeedExact ==
  scan.at = "done" =>
    /\ scan.start \subseteq scan.seen
    /\ scan.how = "cursor" => scan.twice = {}
=================================================================================
