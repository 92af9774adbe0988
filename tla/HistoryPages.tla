----------------------------- MODULE HistoryPages ---------------------------
(* How the console reads stored events page by page: the queries of the    *)
(* API (apps/api/src/clickhouse-*.ts, app.ts) and the views that ask for   *)
(* one page after the other (apps/web/src/console-app.tsx, *-explorer.tsx, *)
(* release-health.tsx), with useInfiniteQuery between them.                *)
(*                                                                         *)
(* A view walks over a window of event times that stays fixed.  The events *)
(* of the window are listed themselves or in groups, by the latest event   *)
(* and a key; a cursor holds those of the last row listed.  Events of the  *)
(* window are stored while the walk is under way, others change the        *)
(* statuses of issues, and a walk may be read again from its start.        *)
EXTENDS Naturals, Sequences, SequencesExt, FiniteSets, FiniteSetsExt, Functions, Subsequences

CONSTANTS
  Events,        \* ids of events, numbered in their order
  Times,         \* event times of the window, positive
  GroupOf,       \* the issue, session, release, request or measure of an event,
                 \* numbered in the order of their keys
  WithoutUnit,   \* the least group of the same metric and page, whatever the unit
  Limit,         \* rows on a page of the API (at most 100)
  StoreLimit,    \* issues that the issue handler reads at a time (100)
  MaxChanges,    \* bound: events stored and statuses changed during a walk
  MaxWalks,      \* bound: walks begun or read again
  AnyStatus, NoCursor

EventViews == {"events", "session", "occurrences"}
GroupViews == {"issues", "network", "performance", "releases"}
Statuses == {"open", "resolved"}

ASSUME HistoryAssumption ==
  /\ {Limit, StoreLimit, MaxChanges, MaxWalks} \subseteq Nat
  /\ 0 < Limit /\ Limit <= StoreLimit
  /\ Times \subseteq Nat \ {0}
  /\ Events \subseteq Nat /\ IsFiniteSet(Events) /\ GroupOf \in [Events -> Nat]
  /\ WithoutUnit \in [Range(GroupOf) -> Nat]
  /\ AnyStatus \notin Statuses /\ NoCursor \notin [seen : Nat, key : Nat]

VARIABLES
  view,      \* what is listed
  filter,    \* a status of issues, or AnyStatus
  stored,    \* stored[e]: the time of event e in the window, or 0
  status,    \* status[g]: issue_lifecycle
  walk,      \* [listed, cursor, more, pages]: what the view shows
  query,     \* the request under way: [stage, cursor, page, more, data] of this page,
             \* and [walk, pages, dirty]: what it will show, pages to read, changes meanwhile
  unsettled, \* rows that have changed since the walk began
  bound

historyVars == <<view, filter, stored, status, walk, query, unsettled, bound>>

\* The session or the issue that is open.
Focus == Min({GroupOf[e] : e \in Events})

\* The rows of a view: the events that pass its filters, or their groups.
RowOf(e) == IF view \in EventViews THEN e ELSE GroupOf[e]
Passes(e) == view \in {"session", "occurrences"} => GroupOf[e] = Focus
RowsOfView == {RowOf(e) : e \in {e \in Events : Passes(e)}}
Found(g) == {e \in Events : stored[e] # 0 /\ Passes(e) /\ RowOf(e) = g}
Latest(g) == Max({stored[e] : e \in Found(g)})

\* What the cursor of each query holds of a row.  That of a measure leaves out
\* the unit, by which measures are grouped.
EventCursor(e) == [seen |-> stored[e], key |-> e]
IssueCursor(g) == [seen |-> Latest(g), key |-> g]
NetworkCursor(g) == [seen |-> Latest(g), key |-> g]
ReleaseCursor(g) == [seen |-> Latest(g), key |-> g]
PerformanceCursor(g) == [seen |-> Latest(g), key |-> WithoutUnit[g]]
CursorOf(g) ==
  CASE view \in EventViews -> EventCursor(g)
    [] view = "issues" -> IssueCursor(g)
    [] view = "network" -> NetworkCursor(g)
    [] view = "releases" -> ReleaseCursor(g)
    [] view = "performance" -> PerformanceCursor(g)

\* Mutant: the page begins again with the row of the cursor.
FromCursor(c, d) == c.seen < d.seen \/ (c.seen = d.seen /\ c.key <= d.key)

\* The order in which the lists descend.
Below(c, d) == c.seen < d.seen \/ (c.seen = d.seen /\ c.key < d.key)

\* ORDER BY ... LIMIT n, of the rows below a cursor; rows that the order
\* does not tell apart come in any order.
Listings(cursor, n) ==
  LET rows == {g \in RowsOfView :
                   Found(g) # {} /\ (cursor = NoCursor \/ Below(CursorOf(g), cursor))}
      size == IF Cardinality(rows) < n THEN Cardinality(rows) ELSE n
  IN  {page \in [1..size -> rows] :
         /\ IsInjective(page)
         /\ \A i, j \in 1..size : i < j => ~Below(CursorOf(page[i]), CursorOf(page[j]))
         /\ \A g \in rows \ {page[i] : i \in 1..size}, i \in 1..size :
              ~Below(CursorOf(page[i]), CursorOf(g))}

\* The stores ask for one row more than a page to know whether there are more.
Page(listing, n) ==
  [rows |-> SubSeq(listing, 1, IF Len(listing) < n THEN Len(listing) ELSE n),
   more |-> Len(listing) > n]

NewWalk == [listed |-> <<>>, cursor |-> NoCursor, more |-> TRUE, pages |-> 0]
Idle == [stage |-> "none", cursor |-> NoCursor, page |-> <<>>, more |-> FALSE, data |-> <<>>,
         walk |-> NewWalk, pages |-> 0, dirty |-> {}]

-----------------------------------------------------------------------------
(* What else happens to the table and to the issues.                       *)

Changed(rows) ==
  /\ bound.changes > 0
  /\ bound' = [bound EXCEPT !.changes = @ - 1]
  /\ unsettled' = unsettled \cup rows
  /\ query' = IF query.stage = "none" THEN query ELSE [query EXCEPT !.dirty = @ \cup rows]

\* An event of the window is stored late.  Storing it again changes nothing:
\* the queries read the table FINAL.
StoreEvent(e) ==
  /\ stored[e] = 0 /\ Passes(e)
  /\ \E time \in Times : stored' = [stored EXCEPT ![e] = time]
  /\ Changed({RowOf(e)})
  /\ UNCHANGED <<view, filter, status, walk>>

ChangeStatus(g) ==
  /\ view = "issues"
  /\ \E s \in Statuses \ {status[g]} : status' = [status EXCEPT ![g] = s]
  /\ Changed({g})
  /\ UNCHANGED <<view, filter, stored, walk>>

-----------------------------------------------------------------------------
(* The views.  useInfiniteQuery has one request at a time; asking for the  *)
(* next page cancels a walk that is being read again.                      *)

FetchNextPage ==
  /\ walk.more /\ (query.stage = "none" \/ query.walk.pages < walk.pages)
  /\ query' = [Idle EXCEPT !.stage = "store", !.cursor = walk.cursor,
                           !.walk = walk, !.pages = 1, !.dirty = unsettled]
  /\ UNCHANGED <<view, filter, stored, status, walk, unsettled, bound>>

EventExplorer == view = "events" /\ FetchNextPage
SessionExplorer == view = "session" /\ FetchNextPage
OccurrenceExplorer == view = "occurrences" /\ FetchNextPage
IssuesExplorer == view = "issues" /\ FetchNextPage
NetworkExplorer == view = "network" /\ FetchNextPage
PerformanceExplorer == view = "performance" /\ FetchNextPage
ReleaseHealthExplorer == view = "releases" /\ FetchNextPage

Restarted == bound.walks > 0 /\ bound' = [bound EXCEPT !.walks = @ - 1]

\* Reconnected, or a status was changed: as many pages as are shown are read
\* again, each with the cursor of the one before, and replace them together.
Refetch ==
  /\ Restarted /\ walk.pages > 0
  /\ query' = [Idle EXCEPT !.stage = "store", !.pages = walk.pages]
  /\ UNCHANGED <<view, filter, stored, status, walk, unsettled>>

\* Refreshed or asked for another range: a query of its own.
Refresh ==
  /\ Restarted
  /\ walk' = NewWalk /\ query' = Idle /\ unsettled' = {}
  /\ UNCHANGED <<view, filter, stored, status>>

Longer(data, cursor, more) ==
  [listed |-> query.walk.listed \o data, cursor |-> cursor, more |-> more,
   pages |-> query.walk.pages + 1]

ReadToEnd(next) == walk' = next /\ query' = Idle /\ unsettled' = query.dirty

\* The answer of the API is the next page of the walk.
Answered(data, cursor, more) ==
  LET next == Longer(data, cursor, more)
  IN  IF query.pages > 1 /\ more
      THEN /\ query' = [Idle EXCEPT !.stage = "store", !.cursor = cursor, !.walk = next,
                                    !.pages = query.pages - 1, !.dirty = query.dirty]
           /\ UNCHANGED <<walk, unsettled>>
      ELSE ReadToEnd(next)

\* A query fails: the answer is 503 and the view keeps what it has.
QueryFails ==
  /\ query.stage # "none"
  /\ query' = Idle
  /\ UNCHANGED <<view, filter, stored, status, walk, unsettled, bound>>

-----------------------------------------------------------------------------
(* The handlers of the API.                                                *)

\* One query of ClickHouse answers the page.
AnswerRows ==
  /\ query.stage = "store"
  /\ \E listing \in Listings(query.cursor, Limit + 1) :
       LET page == Page(listing, Limit)
       IN  Answered(page.rows, IF page.more THEN CursorOf(Last(page.rows)) ELSE NoCursor, page.more)
  /\ UNCHANGED <<view, filter, stored, status, bound>>

ListEvents == view \in EventViews /\ AnswerRows
ListNetwork == view = "network" /\ AnswerRows
ListPerformance == view = "performance" /\ AnswerRows
ListReleases == view = "releases" /\ AnswerRows

\* The handler of issues reads a page of its own size, whose issues keep the
\* times that they were read with.
ListIssues ==
  /\ view = "issues" /\ query.stage = "store"
  /\ \E listing \in Listings(query.cursor, StoreLimit + 1) :
       LET page == Page(listing, StoreLimit)
       IN  query' = [query EXCEPT
             !.stage = "status", !.more = page.more,
             !.page = [i \in DOMAIN page.rows |-> [group |-> page.rows[i], cursor |-> CursorOf(page.rows[i])]]]
  /\ UNCHANGED <<view, filter, stored, status, walk, unsettled, bound>>

\* The issues among the first n of the store's page that match the filter.
Kept(page, n) ==
  Subsequence([i \in 1..n |-> page[i].group],
              {i \in 1..n : filter = AnyStatus \/ status[page[i].group] = filter})
Data(page, n) == query.data \o Kept(page, n)

\* Where the page of the API is full.
Full == {n \in DOMAIN query.page : Len(Data(query.page, n)) = Limit}

\* The store's page does not fill the answer: the store is asked again, or has
\* no more.
Continue ==
  LET page == query.page
      data == Data(page, Len(page))
  IN  IF query.more
      THEN /\ query' = [query EXCEPT !.stage = "store", !.cursor = Last(page).cursor,
                                     !.page = <<>>, !.data = data]
           /\ UNCHANGED <<walk, unsettled>>
      ELSE ReadToEnd(Longer(data, NoCursor, FALSE))

\* Mutant: the cursor is that of the last issue the store has listed.
ReadStatusesToEnd ==
  /\ query.stage = "status"
  /\ IF Full = {} THEN Continue
     ELSE Answered(Data(query.page, Min(Full)), Last(query.page).cursor,
                   Min(Full) < Len(query.page) \/ query.more)
  /\ UNCHANGED <<view, filter, stored, status, bound>>

\* getMany of the page's issues, and the loop over them: the page of the API
\* ends with the issue that fills it, whose cursor it answers.
ReadStatuses ==
  /\ query.stage = "status"
  /\ IF Full = {} THEN Continue
     ELSE LET more == Min(Full) < Len(query.page) \/ query.more
          IN  Answered(Data(query.page, Min(Full)),
                       IF more THEN query.page[Min(Full)].cursor ELSE NoCursor, more)
  /\ UNCHANGED <<view, filter, stored, status, bound>>

-----------------------------------------------------------------------------
HistoryInit ==
  /\ view \in EventViews \cup GroupViews
  /\ filter \in (IF view = "issues" THEN Statuses \cup {AnyStatus} ELSE {AnyStatus})
  /\ stored \in [Events -> Times \cup {0}]
  /\ \A e \in Events : ~Passes(e) => stored[e] = 0
  /\ status = [g \in {GroupOf[e] : e \in Events} |-> "open"]
  /\ walk = NewWalk /\ query = Idle /\ unsettled = {}
  /\ bound = [changes |-> MaxChanges, walks |-> MaxWalks]

HistoryNext ==
  \/ \E e \in Events : StoreEvent(e)
  \/ \E g \in DOMAIN status : ChangeStatus(g)
  \/ EventExplorer \/ SessionExplorer \/ OccurrenceExplorer \/ IssuesExplorer
  \/ NetworkExplorer \/ PerformanceExplorer \/ ReleaseHealthExplorer
  \/ Refetch \/ Refresh \/ QueryFails
  \/ ListEvents \/ ListNetwork \/ ListPerformance \/ ListReleases
  \/ ListIssues \/ ReadStatuses

-----------------------------------------------------------------------------
(* Properties.                                                             *)

\* ADR-041, ADR-042: a walk lists nothing twice, although the groups move up
\* while events arrive, and although it may be read again meanwhile.
ListedOnce == IsInjective(walk.listed)

Exhausted == ~walk.more
Matches(g) == Found(g) # {} /\ (filter = AnyStatus \/ view # "issues" \/ status[g] = filter)

\* A walk that has come to its end has listed each group that matches and has
\* not changed meanwhile, wherever the others went.
SettledIsListed ==
  Exhausted /\ view # "performance" =>
    \A g \in RowsOfView \ unsettled : Matches(g) => g \in ToSet(walk.listed)

-----------------------------------------------------------------------------
(* What the documentation says and the code does not keep.                 *)

\* ADR-045 aggregates "by metric and page path" and pages with a cursor of
\* those; the query aggregates by unit as well, so that of two measures with
\* the cursor's values the second is left out.
MeasuresAreListed ==
  Exhausted /\ view = "performance" =>
    \A g \in RowsOfView \ unsettled : Matches(g) => g \in ToSet(walk.listed)
=============================================================================
