----------------------------- MODULE EventQueue -----------------------------
(***************************************************************************)
(* The SDK's bounded in-memory queue (packages/core/src/queue.ts) and its  *)
(* IndexedDB outbox (packages/browser/src/outbox.ts), as functions on      *)
(* sequences.                                                              *)
(*                                                                         *)
(* An event is a number: events are numbered in the order they are         *)
(* captured, which is also the order of their timestamps.  An entry of the *)
(* queue or the outbox is an event with its failed delivery attempts.      *)
(***************************************************************************)
EXTENDS Integers, SequencesExt, Subsequences

CONSTANTS
  MaxEvent,      \* events are 1..MaxEvent
  Urgent,        \* events of delivery priority "immediate"; the others are routine
  Size,          \* serialized bytes of each event
  Nearby,        \* pairs <<r, u>>: r has u's session and page and is at most 10 s older
  QueueLimit,    \* MAX_QUEUED_EVENTS
  QueueBytes,    \* MAX_QUEUED_BYTES
  MaxAttempts,   \* MAX_DELIVERY_ATTEMPTS
  MaxContext,    \* MAX_CONTEXT_EVENTS
  OutboxLimit,   \* maxEvents of the outbox
  OutboxBytes    \* maxBytes of the outbox

Events == 1..MaxEvent

ASSUME EventsAssumption ==
  /\ MaxEvent \in Nat
  /\ Urgent \subseteq Events
  /\ Size \in [Events -> 1..QueueBytes]
  /\ Nearby \subseteq Events \X Events
ASSUME BoundsAssumption ==
  /\ {QueueLimit, QueueBytes, MaxAttempts, OutboxLimit, OutboxBytes} \subseteq Nat \ {0}
  /\ MaxContext \in Nat

Entry == [event : Events, attempts : 0..MaxAttempts]

EventsOf(entries) == {entry.event : entry \in ToSet(entries)}
Only(entries, events) ==
  Subsequence(entries, {i \in DOMAIN entries : entries[i].event \in events})
Without(entries, events) ==
  Subsequence(entries, {i \in DOMAIN entries : entries[i].event \notin events})
UrgentPart(entries) == Only(entries, Urgent)
RoutinePart(entries) == Without(entries, Urgent)
Bytes(entries) ==
  LET sum[i \in 0..Len(entries)] == IF i = 0 THEN 0 ELSE sum[i - 1] + Size[entries[i].event]
  IN  sum[Len(entries)]

-----------------------------------------------------------------------------
(* The in-memory queue.                                                    *)

Fits(queue, entry) ==
  /\ Len(queue) < QueueLimit
  /\ Bytes(queue) + Size[entry.event] <= QueueBytes

\* The eviction loop: the oldest routine entries go first; urgent ones, oldest
\* first, only for an insertion that may evict them.  Nothing is taken back
\* when the loop runs out of victims before the entry fits.
MakeRoom(queue, entry, mayEvictUrgent) ==
  LET order == RoutinePart(queue) \o (IF mayEvictUrgent THEN UrgentPart(queue) ELSE <<>>)
      Left(n) == Without(queue, EventsOf(SubSeq(order, 1, n)))
      enough == {n \in 0..Len(order) : Fits(Left(n), entry)}
      evicted == IF enough = {} THEN Len(order) ELSE Min(enough)
  IN  [queue |-> Left(evicted), dropped |-> ToSet(SubSeq(order, 1, evicted)),
       fits |-> enough # {}]

\* Mutant: the oldest entry is evicted whatever its priority.
EnqueueOldestOut(queue, entry) ==
  LET full == ~Fits(queue, entry) IN
  [queue |-> Append(IF full THEN Tail(queue) ELSE queue, entry),
   dropped |-> IF full THEN {Head(queue)} ELSE {}, fits |-> TRUE]

\* enqueue: a routine entry that would need an urgent one's place is refused.
Enqueue(queue, entry) ==
  LET room == MakeRoom(queue, entry, entry.event \in Urgent)
  IN  [room EXCEPT !.queue = IF room.fits THEN Append(@, entry) ELSE @]

\* restore: entries already queued are skipped.
RestoreOne(sofar, entry) ==
  LET added == Enqueue(sofar.queue, entry)
  IN  IF entry.event \in EventsOf(sofar.queue) THEN sofar
      ELSE [queue |-> added.queue,
            dropped |-> sofar.dropped \cup added.dropped \cup {e \in {entry} : ~added.fits}]
Restore(queue, entries) ==
  LET restored[i \in 0..Len(entries)] ==
        IF i = 0 THEN [queue |-> queue, dropped |-> {}]
        ELSE RestoreOne(restored[i - 1], entries[i])
  IN  restored[Len(entries)]

\* The routine entries sent along with an urgent one: the nearest earlier ones.
Context(queue, u) ==
  LET related == {i \in 1..(u - 1) : /\ queue[i].event \notin Urgent
                                     /\ <<queue[i].event, queue[u].event>> \in Nearby}
  IN  {i \in related : Cardinality({j \in related : j > i}) < MaxContext}

\* #selectImmediate: every urgent entry, then their context.
SelectImmediate(queue) ==
  LET urgent == {u \in DOMAIN queue : queue[u].event \in Urgent}
      context == UNION {Context(queue, u) : u \in urgent}
      Entries(indices) == [i \in 1..Cardinality(indices) |-> queue[SetToSortSeq(indices, <)[i]]]
  IN  Entries(urgent) \o Entries(context)

\* Candidates are taken greedily, one that does not fit is skipped.
Chosen(queue, limit, maximumBytes, urgentOnly) ==
  LET candidates == IF urgentOnly THEN SelectImmediate(queue) ELSE queue
      Take(taken, entry) ==
        IF Len(taken) < limit /\ Bytes(taken) + Size[entry.event] <= maximumBytes
        THEN Append(taken, entry) ELSE taken
  IN  EventsOf(FoldLeft(Take, <<>>, candidates))

\* drain: the batch keeps the order of the queue.
Drain(queue, limit, maximumBytes, urgentOnly) ==
  LET chosen == Chosen(queue, limit, maximumBytes, urgentOnly)
  IN  [batch |-> Only(queue, chosen), queue |-> Without(queue, chosen)]

\* Mutant: entries go back to the front whatever the limits.
PrependUnbounded(queue, entries) == [queue |-> entries \o queue, dropped |-> {}]

\* prepend: the entries go back to the front in their order, each making room
\* for itself at the cost of any other entry, urgent or not.
PrependOne(sofar, entry) ==
  LET room == MakeRoom(sofar.queue, entry, TRUE)
  IN  [queue |-> <<entry>> \o room.queue, dropped |-> sofar.dropped \cup room.dropped]
Prepend(queue, entries) ==
  LET last == Len(entries) + 1
      prepended[i \in 0..Len(entries)] ==
        IF i = 0 THEN [queue |-> queue, dropped |-> {}]
        ELSE PrependOne(prepended[i - 1], entries[last - i])
  IN  prepended[Len(entries)]

\* The entries of a batch after a failed attempt, and those of them that are tried again.
Counted(batch) == [i \in DOMAIN batch |-> [batch[i] EXCEPT !.attempts = @ + 1]]
Retried(counted) ==
  Subsequence(counted, {i \in DOMAIN counted : counted[i].attempts < MaxAttempts})

\* Mutant: what prepend evicts is not among the dropped entries.
RequeueUncounted(queue, batch) ==
  LET counted == Counted(batch)
      retried == Retried(counted)
  IN  [queue |-> Prepend(queue, retried).queue, retried |-> retried,
       dropped |-> ToSet(counted) \ ToSet(retried)]

\* retry: one more failed attempt each; entries whose attempts are used up are
\* dropped.  An entry that prepend evicts is still listed under retried.
Requeue(queue, batch) ==
  LET counted == Counted(batch)
      retried == Retried(counted)
      prepended == Prepend(queue, retried)
  IN  [queue |-> prepended.queue, retried |-> retried,
       dropped |-> (ToSet(counted) \ ToSet(retried)) \cup prepended.dropped]

-----------------------------------------------------------------------------
(* The outbox: entries in the order of their storedAt.                     *)

\* save: an entry that is stored already keeps its place (storedAt).
Merged(outbox, entries) ==
  LET Replaced(old) == IF old.event \in EventsOf(entries)
                       THEN Only(entries, {old.event})[1] ELSE old
  IN  [i \in DOMAIN outbox |-> Replaced(outbox[i])] \o Without(entries, EventsOf(outbox))

\* The newest entries that fit the limits, by their indices.
Newest(entries) ==
  LET last == Len(entries) + 1
      kept[n \in 0..Len(entries)] ==
        IF n = 0 THEN {}
        ELSE LET newer == kept[n - 1]
                 index == last - n
             IN  IF /\ Cardinality(newer) < OutboxLimit
                    /\ Bytes(Subsequence(entries, newer)) + Size[entries[index].event] <= OutboxBytes
                 THEN newer \cup {index} ELSE newer
  IN  kept[Len(entries)]

OutboxSave(outbox, entries) ==
  LET merged == Merged(outbox, entries)
  IN  Subsequence(merged, Newest(merged))

\* load: in timestamp order.
OutboxLoad(outbox) ==
  LET upTo[e \in 0..MaxEvent] == IF e = 0 THEN <<>> ELSE upTo[e - 1] \o Only(outbox, {e})
  IN  upTo[MaxEvent]
=============================================================================
