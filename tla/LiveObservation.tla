--------------------------- MODULE LiveObservation --------------------------
(* The live view of a project (apps/web/src/live-explorer.tsx with         *)
(* live-query.ts and live-observation.ts) over the live query of the API   *)
(* (apps/api/src/live-events.ts, clickhouse-live.ts).                      *)
(*                                                                         *)
(* The view polls.  Each poll asks for the events processed since a little *)
(* before the snapshot of the poll before it, in a few pages, newest       *)
(* first, and merges those it has not seen into a bounded buffer.  The     *)
(* processor stamps an event before it stores it, so that rows appear out  *)
(* of their order, and may process an event again.  Times are ticks of     *)
(* the overlap's grain; 0 stands for a time not known yet.                 *)
EXTENDS Naturals, Sequences, SequencesExt, FiniteSets, Functions, Subsequences

CONSTANTS
  Rows,       \* ids of events, numbered in their order
  Overlap,    \* LIVE_OVERLAP_MS
  Window,     \* LIVE_WINDOW_MS
  PageSize,   \* rows of a page (100)
  MaxPages,   \* pages of a poll (5)
  MaxRows,    \* LIVE_MAX_ROWS; the limit in bytes acts as this one does
  SeenLimit,  \* ids kept to recognise rows by (1000)
  LiveBounds  \* bounds: [ticks, polls, writes, turns], of which a behaviour has one: the
              \* clock, polls begun, events processed, failures and turns of the user

ASSUME LiveAssumption ==
  /\ Rows \subseteq Nat /\ IsFiniteSet(Rows)
  /\ {Overlap, Window, PageSize, MaxPages, MaxRows, SeenLimit} \subseteq Nat \ {0}
  /\ LiveBounds \subseteq [ticks : Nat, polls : Nat, writes : Nat, turns : Nat]
  /\ Overlap <= Window /\ MaxRows <= SeenLimit

VARIABLES
  now,
  writing,   \* copies that the processor has stamped and not stored: [row, at]
  table,     \* table[r]: when the row was processed and appeared; FINAL keeps the latest copy
  poll,      \* [stage, from, to, cursor, page, more, data, pages]
  last,      \* last.current: the snapshot of the last poll that succeeded
  success,   \* lastSuccess.current: when its answer was complete
  gap,       \* the notice that observation was interrupted
  trouble,   \* "none", "invalid" (400) or "denied" (401, 403)
  visible,   \* the document is visible
  paused,    \* pausedRef.current
  buffer,    \* [displayed, pending, seen, evicted]
  since,     \* history: the start of the first window observed
  observed,  \* history: rows any poll has brought
  truncated, \* history: a poll ended at its last page
  left       \* what the bounds leave

liveVars == <<now, writing, table, poll, last, success, gap, trouble, visible, paused, buffer,
              since, observed, truncated, left>>

Untouched == [at |-> 0, seenAt |-> 0]
NoPoll == [stage |-> "none", from |-> 0, to |-> 0, cursor |-> <<0, 0>>, page |-> <<>>,
           more |-> FALSE, data |-> <<>>, pages |-> 0]
EmptyBuffer == [displayed |-> <<>>, pending |-> <<>>, seen |-> <<>>, evicted |-> 0]

-----------------------------------------------------------------------------
(* Rows.                                                                   *)

Tick ==
  /\ left.ticks > 0
  /\ left' = [left EXCEPT !.ticks = @ - 1]
  /\ now' = now + 1
  /\ UNCHANGED <<writing, table, poll, last, success, gap, trouble, visible, paused, buffer,
                 since, observed, truncated>>

\* The processor stamps an event, for the first time or again.
Process(r) ==
  /\ left.writes > 0
  /\ left' = [left EXCEPT !.writes = @ - 1]
  /\ writing' = writing \cup {[row |-> r, at |-> now]}
  /\ UNCHANGED <<now, table, poll, last, success, gap, trouble, visible, paused, buffer,
                 since, observed, truncated>>

\* The insert of a copy is done; of two copies FINAL shows the one processed later.
Appear(c) ==
  /\ writing' = writing \ {c}
  /\ table' = IF c.at > table[c.row].at
              THEN [table EXCEPT ![c.row] = [at |-> c.at, seenAt |-> now]] ELSE table
  /\ UNCHANGED <<now, poll, last, success, gap, trouble, visible, paused, buffer,
                 since, observed, truncated, left>>

-----------------------------------------------------------------------------
(* The query.                                                              *)

Older(r, q) == table[r].at < table[q].at \/ (table[r].at = table[q].at /\ r < q)
Beyond(r, cursor) == table[r].at < cursor[1] \/ (table[r].at = cursor[1] /\ r < cursor[2])

\* ClickHouseLiveEventStore.list: the rows of the window below the cursor, newest first.
RowsFrom(from, to, cursor) ==
  {r \in Rows : /\ table[r].at # 0 /\ from <= table[r].at /\ table[r].at <= to
                /\ cursor = <<0, 0>> \/ Beyond(r, cursor)}
NewestFirst(rows) ==
  {s \in [1..Cardinality(rows) -> rows] : \A i, j \in DOMAIN s : i < j => Older(s[j], s[i])}
FirstOf(rows, n) == SubSeq(rows, 1, IF Len(rows) < n THEN Len(rows) ELSE n)

\* resolveLiveQuery: what the first page leaves out is taken from the server's clock.
ResolvedFrom == IF poll.from = 0 THEN now - Overlap ELSE poll.from
ResolvedTo == IF poll.to = 0 THEN now ELSE poll.to

\* GET /live: a window longer than allowed is refused, or a page is read.
AnswerPage ==
  /\ poll.stage = "asked"
  /\ IF ResolvedTo - ResolvedFrom > Window
     THEN poll' = NoPoll /\ trouble' = "invalid"
     ELSE /\ \E rows \in NewestFirst(RowsFrom(ResolvedFrom, ResolvedTo, poll.cursor)) :
               LET page == FirstOf(rows, PageSize)
               IN  poll' = [poll EXCEPT
                     !.stage = "answered", !.from = ResolvedFrom, !.to = ResolvedTo, !.page = page,
                     !.more = Len(rows) > PageSize,
                     !.cursor = IF page = <<>> THEN @ ELSE <<table[Last(page)].at, Last(page)>>]
          /\ UNCHANGED trouble
  /\ UNCHANGED <<now, writing, table, last, success, gap, visible, paused, buffer,
                 since, observed, truncated, left>>

-----------------------------------------------------------------------------
(* The poll.                                                               *)

Interrupted == success # 0 /\ now - success > Overlap

\* useQuery's interval, the view shown again or reconnected: the window begins
\* an overlap before the last snapshot, or is left to the server.  A failure
\* only delays the next poll.
StartPoll ==
  /\ visible /\ trouble = "none" /\ poll.stage = "none" /\ left.polls > 0
  /\ left' = [left EXCEPT !.polls = @ - 1]
  /\ gap' = (gap \/ Interrupted)
  /\ poll' = [NoPoll EXCEPT !.stage = "asked",
                            !.from = IF Interrupted \/ last = 0 THEN 0 ELSE last - Overlap]
  /\ UNCHANGED <<now, writing, table, last, success, trouble, visible, paused, buffer,
                 since, observed, truncated>>

\* A sequence without the repetitions of what it holds already.
Distinct(s) ==
  Subsequence(s, {i \in DOMAIN s : \A j \in 1..(i - 1) : s[j] # s[i]})

\* Mutant: ids are recognised by the list of those seen alone.
KnownBySeen == ToSet(buffer.seen)

Known == ToSet(buffer.seen) \cup ToSet(buffer.displayed) \cup ToSet(buffer.pending)

\* Rows beyond the capacity are dropped from the end of the pending ones while
\* reading is paused, and from the end of the displayed ones otherwise.
Room(displayed, pending) ==
  IF paused
  THEN [displayed |-> displayed,
        pending |-> FirstOf(pending, IF Len(displayed) < MaxRows
                                     THEN MaxRows - Len(displayed) ELSE 0)]
  ELSE [displayed |-> FirstOf(displayed, MaxRows), pending |-> pending]

\* observeArrivals: the rows not known yet go before the others.
Arrivals(data) ==
  LET rows == Distinct(data)
      fresh == Subsequence(rows, {i \in DOMAIN rows : rows[i] \notin Known})
      displayed == IF paused THEN buffer.displayed
                   ELSE fresh \o buffer.pending \o buffer.displayed
      pending == IF paused THEN fresh \o buffer.pending ELSE <<>>
      room == Room(displayed, pending)
      seen == Distinct(buffer.seen \o buffer.displayed \o buffer.pending \o fresh)
  IN  [displayed |-> room.displayed, pending |-> room.pending,
       seen |-> SubSeq(seen, IF Len(seen) > SeenLimit THEN Len(seen) - SeenLimit + 1 ELSE 1,
                       Len(seen)),
       evicted |-> buffer.evicted + Len(displayed) + Len(pending)
                                  - Len(room.displayed) - Len(room.pending)]

\* Mutant: the next window begins before the end of the drain.
CompletedLate ==
  /\ last' = now /\ success' = now
  /\ buffer' = Arrivals(poll.data \o poll.page)
  /\ observed' = observed \cup ToSet(poll.data \o poll.page)
  /\ since' = IF last = 0 THEN poll.from ELSE since
  /\ truncated' = (truncated \/ poll.more)
  /\ poll' = NoPoll

\* The drain is complete: the next window begins before the snapshot of its
\* first page, and the effect of the view merges what it brought.
Completed ==
  /\ last' = poll.to /\ success' = now
  /\ buffer' = Arrivals(poll.data \o poll.page)
  /\ observed' = observed \cup ToSet(poll.data \o poll.page)
  /\ since' = IF last = 0 THEN poll.from ELSE since
  /\ truncated' = (truncated \/ poll.more)
  /\ poll' = NoPoll

\* fetchObservation takes a page: it asks for the next one of the same window,
\* or ends there.
TakePage ==
  /\ poll.stage = "answered"
  /\ IF poll.more /\ poll.pages + 1 < MaxPages
     THEN /\ poll' = [poll EXCEPT !.stage = "asked", !.data = @ \o poll.page, !.page = <<>>,
                                  !.more = FALSE, !.pages = @ + 1]
          /\ UNCHANGED <<last, success, buffer, since, observed, truncated>>
     ELSE Completed
  /\ UNCHANGED <<now, writing, table, gap, trouble, visible, paused, left>>

Turn == left.turns > 0 /\ left' = [left EXCEPT !.turns = @ - 1]

\* The network or the query fails; the buffer stays as it is.
PollFails ==
  /\ poll.stage # "none"
  /\ poll' = NoPoll
  /\ Turn
  /\ UNCHANGED <<now, writing, table, last, success, gap, trouble, visible, paused, buffer,
                 since, observed, truncated>>

\* 401 or 403: what was observed is cleared and polling ends.
AccessDenied ==
  /\ poll.stage = "asked"
  /\ poll' = NoPoll /\ trouble' = "denied" /\ buffer' = EmptyBuffer
  /\ Turn
  /\ UNCHANGED <<now, writing, table, last, success, gap, visible, paused, since, observed,
                 truncated>>

-----------------------------------------------------------------------------
(* The view.                                                               *)

\* The tab is hidden: the poll is cancelled, and none begins.
Hide ==
  /\ visible
  /\ visible' = FALSE /\ poll' = NoPoll
  /\ Turn
  /\ UNCHANGED <<now, writing, table, last, success, gap, trouble, paused, buffer,
                 since, observed, truncated>>

\* Shown again, the query runs again even where its interval had ended.
Show ==
  /\ ~visible
  /\ visible' = TRUE
  /\ trouble' = IF trouble = "invalid" THEN "none" ELSE trouble
  /\ UNCHANGED <<now, writing, table, poll, last, success, gap, paused, buffer,
                 since, observed, truncated, left>>

\* The button "Retry now" of the notice.
RetryNow ==
  /\ visible /\ trouble # "none"
  /\ trouble' = "none"
  /\ UNCHANGED <<now, writing, table, poll, last, success, gap, visible, paused, buffer,
                 since, observed, truncated, left>>

Pause ==
  /\ visible /\ ~paused /\ trouble # "denied"
  /\ paused' = TRUE
  /\ Turn
  /\ UNCHANGED <<now, writing, table, poll, last, success, gap, trouble, visible, buffer,
                 since, observed, truncated>>

\* reveal: pending rows move before the displayed ones and reading goes on.
Reveal ==
  /\ visible /\ paused
  /\ buffer' = [buffer EXCEPT !.displayed = buffer.pending \o @, !.pending = <<>>]
  /\ paused' = FALSE
  /\ UNCHANGED <<now, writing, table, poll, last, success, gap, trouble, visible,
                 since, observed, truncated, left>>

-----------------------------------------------------------------------------
LiveInit ==
  /\ now = Overlap + 1
  /\ writing = {} /\ table = [r \in Rows |-> Untouched]
  /\ poll = NoPoll /\ last = 0 /\ success = 0
  /\ gap = FALSE /\ trouble = "none" /\ visible = TRUE /\ paused = FALSE
  /\ buffer = EmptyBuffer /\ since = 0 /\ observed = {} /\ truncated = FALSE
  /\ left \in LiveBounds

LiveNext ==
  \/ Tick \/ (\E r \in Rows : Process(r)) \/ (\E c \in writing : Appear(c))
  \/ StartPoll \/ AnswerPage \/ TakePage \/ PollFails \/ AccessDenied
  \/ Hide \/ Show \/ RetryNow \/ Pause \/ Reveal

-----------------------------------------------------------------------------
(* Properties.                                                             *)

\* A row that appeared within the overlap of its processing, and before the
\* last snapshot.
Timely(r) ==
  /\ since # 0 /\ since <= table[r].at
  /\ table[r].seenAt < last /\ table[r].seenAt - table[r].at <= Overlap

\* ADR-051, live-query.ts: however polls fail, stall, are cancelled or take
\* several pages, each row that appeared in time has been brought to the view,
\* unless the view has told of an interruption or of its load limit.
MissedIsReported ==
  gap \/ truncated \/ \A r \in Rows : Timely(r) => r \in observed

\* live-observation.ts: whatever the overlap brings again and whatever has been
\* cut from the ids seen, no row is in the buffer twice.
ShownOnce == IsInjective(buffer.displayed \o buffer.pending)

-----------------------------------------------------------------------------
(* What the documentation says and the code does not keep.                 *)

\* ADR-051: polling stops when access is lost, and other failures are retried.
\* The next window begins with the last snapshot, but an interruption is
\* measured from the end of the last drain: after a long drain the window is
\* longer than the API allows, and polling stops at its answer.
FailuresAreRetried == trouble # "invalid"

\* live-observation.ts tells how many events the buffer has removed: those that
\* are cut from the ids seen while the overlap still brings them are counted
\* again.
RemovedAreCountedOnce ==
  buffer.evicted + Len(buffer.displayed) + Len(buffer.pending) <= Cardinality(observed)
=============================================================================
