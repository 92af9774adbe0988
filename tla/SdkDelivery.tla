---------------------------- MODULE SdkDelivery -----------------------------
(***************************************************************************)
(* Delivery of captured events by one browser SDK client: the queue and    *)
(* flush machinery of SpectroClient (packages/core/src/client.ts), the     *)
(* timers and listeners of BrowserClient (packages/browser/src/index.ts)   *)
(* and the IndexedDB outbox (packages/browser/src/outbox.ts).              *)
(*                                                                         *)
(* JavaScript runs one task at a time; an action is one task with the      *)
(* microtasks that follow it.  Storage transactions and fetches settle in  *)
(* tasks of their own, so captures, timers and page events come in between *)
(* the steps of a flush.                                                   *)
(***************************************************************************)
EXTENDS EventQueue

CONSTANTS
  BatchLimit,      \* events a flush drains at most
  EnvelopeBytes,   \* MAX_ENVELOPE_BYTES
  KeepaliveBytes,  \* MAX_KEEPALIVE_ENVELOPE_BYTES
  BatchThreshold,  \* BATCH_FLUSH_THRESHOLD
  AppOptions,      \* options the application calls flush with
  StorageFails,    \* whether IndexedDB operations may fail
  MaxExpired,      \* model bound: records one load or save finds expired
  MaxOutages,      \* model bound: how often the browser goes offline
  MaxRestarts,     \* model bound: how often the page is left and loaded again
  NoRetry          \* no retry timer is set

Options == [keepalive : BOOLEAN, urgentOnly : BOOLEAN]

ASSUME FlushAssumption ==
  /\ {BatchLimit, EnvelopeBytes, KeepaliveBytes, BatchThreshold} \subseteq Nat \ {0}
  /\ \A e \in Events : Size[e] <= EnvelopeBytes
  /\ AppOptions \subseteq Options
  /\ StorageFails \in BOOLEAN
  /\ {MaxExpired, MaxOutages, MaxRestarts} \subseteq Nat
  /\ NoRetry \notin Options

VARIABLES
  captured,   \* events captured so far: 1..captured
  queue,      \* EventQueue of the client
  outbox,     \* stored records of the client's scope
  loaded,     \* #ready has resolved
  writes,     \* #persistenceWrites: writes chained and not yet settled
  flush,      \* #flushInFlight
  follow,     \* #followUpOptions, and who waits for the flush in flight
  timers,     \* which of the 100 ms timers are set
  retry,      \* options of the retry timer; #nextRetryAt is set while it is
  online,     \* navigator.onLine
  destroyed,  \* destroy() was called
  fate,       \* history: what became of events (see Fates)
  spent       \* outages and restarts so far

page == <<timers, online, destroyed, spent>>
flushing == <<flush, follow, retry>>
vars == <<captured, queue, outbox, loaded, writes, flushing, page, fate>>

\* delivered: acknowledged by the ingest service.  dropped: given up and
\* reported through onError.  silent: given up without a report.  left: lost
\* with the page, or expired in the outbox.  unwritten: events whose last outbox
\* write failed, or whose stored copy expired or was evicted.
Fates == {"delivered", "dropped", "silent", "left", "unwritten"}

Write == [save : Seq(Entry), remove : SUBSET Events]

TypeOK ==
  /\ captured \in 0..MaxEvent
  /\ queue \in Seq(Entry) /\ Len(queue) <= QueueLimit /\ Bytes(queue) <= QueueBytes
  /\ outbox \in Seq(Entry) /\ Len(outbox) <= OutboxLimit /\ EventsOf(outbox) \subseteq Urgent
  /\ loaded \in BOOLEAN
  /\ writes \in Seq(Write)
  /\ flush \in [pc : {"none", "waiting", "sending", "removing"}, options : Options,
                resets : BOOLEAN, barrier : Nat, batch : Seq(Entry)]
  /\ follow \in [asked : BOOLEAN, options : Options, first : BOOLEAN, rest : BOOLEAN]
  /\ timers \subseteq {"urgent", "batch"}
  /\ retry \in Options \cup {NoRetry}
  /\ online \in BOOLEAN /\ destroyed \in BOOLEAN
  /\ fate \in [Fates -> SUBSET Events]
  /\ spent \in [outages : 0..MaxOutages, restarts : 0..MaxRestarts]

Everything == [keepalive |-> FALSE, urgentOnly |-> FALSE]
UrgentOnly == [keepalive |-> FALSE, urgentOnly |-> TRUE]
Keepalive == [keepalive |-> TRUE, urgentOnly |-> FALSE]

NoFlush == [pc |-> "none", options |-> Everything, resets |-> FALSE, barrier |-> 0, batch |-> <<>>]
NoFollow == [asked |-> FALSE, options |-> Everything, first |-> FALSE, rest |-> FALSE]

Init ==
  /\ captured = 0
  /\ queue = <<>> /\ outbox = <<>> /\ loaded = FALSE /\ writes = <<>>
  /\ flush = NoFlush /\ follow = NoFollow
  /\ timers = {} /\ retry = NoRetry
  /\ online = TRUE /\ destroyed = FALSE
  /\ fate = [f \in Fates |-> {}]
  /\ spent = [outages |-> 0, restarts |-> 0]

\* The awaits of #flushOnce are over: it goes on before any other task.
Draining == flush.pc = "waiting" /\ loaded /\ flush.barrier = 0
BetweenTasks == ~Draining

\* history only
Became(f, events) == [fate EXCEPT ![f] = @ \cup events]

-----------------------------------------------------------------------------
(* Capturing.                                                              *)

Save(entries) == IF entries = <<>> THEN <<>> ELSE <<[save |-> entries, remove |-> {}]>>
Removal(events) == IF events = {} THEN <<>> ELSE <<[save |-> <<>>, remove |-> events]>>

\* Mutant: the stored copy of an evicted event is kept.
CaptureKeepsEvicted ==
  /\ BetweenTasks
  /\ ~destroyed /\ captured < MaxEvent
  /\ captured' = captured + 1
  /\ LET entry == [event |-> captured + 1, attempts |-> 0]
         added == Enqueue(queue, entry)
         evicted == {dropped.event : dropped \in added.dropped}
         urgent == added.fits /\ entry.event \in Urgent
         full == added.fits /\ ~urgent /\ Len(added.queue) >= BatchThreshold
     IN  /\ queue' = added.queue
         /\ fate' = Became("dropped", evicted \cup {e \in {entry.event} : ~added.fits})
         /\ writes' = writes \o (IF urgent THEN Save(<<entry>>) ELSE <<>>)
         /\ timers' = timers \cup {t \in {"urgent"} : urgent} \cup {t \in {"batch"} : full}
  /\ UNCHANGED <<outbox, loaded, flushing, online, destroyed, spent>>

\* capture(): an urgent event is also saved and schedules the urgent flush; a
\* routine one schedules a batch flush when enough are queued.
Capture ==
  /\ BetweenTasks
  /\ ~destroyed /\ captured < MaxEvent
  /\ captured' = captured + 1
  /\ LET entry == [event |-> captured + 1, attempts |-> 0]
         added == Enqueue(queue, entry)
         evicted == {dropped.event : dropped \in added.dropped}
         urgent == added.fits /\ entry.event \in Urgent
         full == added.fits /\ ~urgent /\ Len(added.queue) >= BatchThreshold
     IN  /\ queue' = added.queue
         /\ fate' = Became("dropped", evicted \cup {e \in {entry.event} : ~added.fits})
         /\ writes' = writes \o Removal(evicted \cap Urgent)
                             \o (IF urgent THEN Save(<<entry>>) ELSE <<>>)
         /\ timers' = timers \cup {t \in {"urgent"} : urgent} \cup {t \in {"batch"} : full}
  /\ UNCHANGED <<outbox, loaded, flushing, online, destroyed, spent>>

-----------------------------------------------------------------------------
(* The outbox.                                                             *)

\* Records older than the TTL, which a load or a save deletes unreported.
Expired(n) == EventsOf(SubSeq(outbox, 1, n))
ExpiredCounts == {n \in 0..MaxExpired : n <= Len(outbox)}

InMemory == EventsOf(queue) \cup EventsOf(flush.batch)

\* The flush in flight, now that the outbox has been read: it awaits the
\* writes chained so far.
Ready == IF flush.pc = "waiting" THEN [flush EXCEPT !.barrier = Len(writes)] ELSE flush

\* Mutant: a load takes the records out of the outbox.
LoadOutboxOnce ==
  /\ BetweenTasks
  /\ ~loaded
  /\ loaded' = TRUE
  /\ flush' = Ready
  /\ \E n \in ExpiredCounts :
       LET stored == Without(outbox, Expired(n))
           restored == Restore(queue, OutboxLoad(stored))
       IN  /\ outbox' = <<>>
           /\ queue' = restored.queue
           /\ fate' = [fate EXCEPT !["left"] = @ \cup (Expired(n) \ InMemory),
                         !["silent"] = @ \cup {entry.event : entry \in restored.dropped}]
           /\ timers' = IF stored # <<>> /\ ~destroyed THEN timers \cup {"urgent"} ELSE timers
  /\ UNCHANGED <<captured, writes, follow, retry, online, destroyed, spent>>

\* #restoreQueue: stored records join the queue.  What they evict, and what
\* does not fit, is not reported one by one.
LoadOutbox ==
  /\ BetweenTasks
  /\ ~loaded
  /\ loaded' = TRUE
  /\ flush' = Ready
  /\ \E n \in ExpiredCounts :
       LET stored == Without(outbox, Expired(n))
           restored == Restore(queue, OutboxLoad(stored))
       IN  /\ outbox' = stored
           /\ queue' = restored.queue
           /\ fate' = [fate EXCEPT !["left"] = @ \cup (Expired(n) \ InMemory),
                         !["silent"] = @ \cup {entry.event : entry \in restored.dropped}]
           /\ timers' = IF stored # <<>> /\ ~destroyed THEN timers \cup {"urgent"} ELSE timers
  /\ UNCHANGED <<captured, writes, follow, retry, online, destroyed, spent>>

\* IndexedDB cannot be opened or read: reported, and memory-only from here.
LoadFails ==
  /\ BetweenTasks
  /\ StorageFails /\ ~loaded
  /\ loaded' = TRUE
  /\ flush' = Ready
  /\ UNCHANGED <<captured, queue, outbox, writes, follow, retry, page, fate>>

\* The write at the head of the chain may settle: the outbox has been read, and
\* no earlier transaction of the flush in flight is open.
HeadSettles ==
  /\ BetweenTasks
  /\ loaded /\ writes # <<>>
  /\ flush.pc = "removing" => flush.barrier > 0
  /\ writes' = Tail(writes)
  /\ flush' = [flush EXCEPT !.barrier = IF @ > 0 THEN @ - 1 ELSE 0]

\* What is stored once a write has run on the records kept, of its own saving.
Stored(kept, saving, write) ==
  Without(IF saving = <<>> THEN kept ELSE OutboxSave(kept, saving), write.remove)

\* Each of the sequences is computed once, hence the quantifiers.
RunWrite ==
  /\ HeadSettles
  /\ \E n \in ExpiredCounts :
       LET write == Head(writes)
           expired == IF write.save = <<>> THEN {} ELSE Expired(n)
       IN  \E kept \in {Without(outbox, expired)}, saving \in {Without(write.save, expired)} :
           \E stored \in {Stored(kept, saving, write)} :
             LET evicted == (EventsOf(kept) \cup EventsOf(saving))
                              \ (EventsOf(stored) \cup write.remove)
             IN  /\ outbox' = stored
                 /\ fate' = [fate EXCEPT
                      !["unwritten"] =
                        (@ \ ((EventsOf(saving) \cap EventsOf(stored)) \cup write.remove))
                          \cup evicted \cup expired,
                      !["dropped"] = @ \cup (evicted \ InMemory),
                      !["left"] = @ \cup (expired \ InMemory)]
  /\ UNCHANGED <<captured, queue, loaded, follow, retry, page>>

\* The write is rejected (quota, blocked, aborted): reported.
WriteFails ==
  /\ StorageFails
  /\ HeadSettles
  /\ fate' = Became("unwritten", EventsOf(Head(writes).save) \cup Head(writes).remove)
  /\ UNCHANGED <<captured, queue, outbox, loaded, follow, retry, page>>

-----------------------------------------------------------------------------
(* Requesting a flush.                                                     *)

\* #flushOnce awaits the outbox and the writes chained so far.
Begin(options, resets, chain) ==
  [pc |-> "waiting", options |-> options, resets |-> resets, barrier |-> Len(chain),
   batch |-> <<>>]

\* mergeFlushOptions
Merge(a, b) == [keepalive |-> a.keepalive \/ b.keepalive,
                urgentOnly |-> a.urgentOnly \/ b.urgentOnly]

\* flush(): one at a time; requests that find one in flight merge into one
\* follow-up.  resets: the caller is #flushSafely, which ends the backoff when
\* events were sent.
RequestFlush(options, resets) ==
  IF flush.pc = "none"
  THEN flush' = Begin(options, resets, writes) /\ UNCHANGED follow
  ELSE /\ follow' = IF follow.asked
                    THEN [follow EXCEPT !.options = Merge(@, options), !.rest = @ \/ resets]
                    ELSE [NoFollow EXCEPT !.asked = TRUE, !.options = options, !.first = resets]
       /\ UNCHANGED flush

\* #flushSafely: only a keepalive flush goes ahead offline or in backoff.
Allowed(options, backoff) == options.keepalive \/ (online /\ backoff = NoRetry)

IntervalFlush ==
  /\ BetweenTasks
  /\ ~destroyed
  /\ Allowed(Everything, retry)
  /\ RequestFlush(Everything, TRUE)
  /\ UNCHANGED <<captured, queue, outbox, loaded, writes, retry, page, fate>>

\* The urgent and batch timers; a batch flush drains like any other.
TimerFires(timer, options) ==
  /\ BetweenTasks
  /\ timer \in timers
  /\ timers' = timers \ {timer}
  /\ IF Allowed(options, retry) THEN RequestFlush(options, TRUE) ELSE UNCHANGED <<flush, follow>>
  /\ UNCHANGED <<captured, queue, outbox, loaded, writes, retry, online, destroyed, fate, spent>>

UrgentTimer == TimerFires("urgent", UrgentOnly)
BatchTimer == TimerFires("batch", Everything)

\* Mutant: the timer's callback leaves #nextRetryAt set.
RetryTimerKeepsGate ==
  /\ BetweenTasks
  /\ retry # NoRetry
  /\ IF Allowed(retry, retry) THEN RequestFlush(retry, TRUE) ELSE UNCHANGED <<flush, follow>>
  /\ UNCHANGED <<captured, queue, outbox, loaded, writes, retry, page, fate>>

RetryTimer ==
  /\ BetweenTasks
  /\ retry # NoRetry
  /\ retry' = NoRetry
  /\ IF Allowed(retry, NoRetry) THEN RequestFlush(retry, TRUE) ELSE UNCHANGED <<flush, follow>>
  /\ UNCHANGED <<captured, queue, outbox, loaded, writes, page, fate>>

\* pagehide, or visibilitychange to hidden
PageHide ==
  /\ BetweenTasks
  /\ ~destroyed
  /\ RequestFlush(Keepalive, TRUE)
  /\ UNCHANGED <<captured, queue, outbox, loaded, writes, retry, page, fate>>

\* The application's own flush() is not held back and ends no backoff.
AppFlush ==
  /\ BetweenTasks
  /\ ~destroyed
  /\ \E options \in AppOptions : RequestFlush(options, FALSE)
  /\ UNCHANGED <<captured, queue, outbox, loaded, writes, retry, page, fate>>

GoOffline ==
  /\ BetweenTasks
  /\ online /\ spent.outages < MaxOutages
  /\ online' = FALSE
  /\ spent' = [spent EXCEPT !.outages = @ + 1]
  /\ UNCHANGED <<captured, queue, outbox, loaded, writes, flushing, timers, destroyed, fate>>

\* The listener ends the backoff and flushes; its second, full flush is one
\* that IntervalFlush may take at any time.
GoOnline ==
  /\ BetweenTasks
  /\ ~online
  /\ online' = TRUE
  /\ IF destroyed THEN UNCHANGED flushing
     ELSE retry' = NoRetry /\ RequestFlush(UrgentOnly, TRUE)
  /\ UNCHANGED <<captured, queue, outbox, loaded, writes, timers, destroyed, fate, spent>>

-----------------------------------------------------------------------------
(* A flush.                                                                *)

\* The flush in flight settles and left events remain queued: the first caller
\* that waited starts the follow-up, the others get this result.
Settle(sent, left, chain, backoff) ==
  /\ flush' = IF follow.asked /\ left > 0 THEN Begin(follow.options, follow.first, chain)
              ELSE NoFlush
  /\ follow' = NoFollow
  /\ retry' = IF sent /\ (flush.resets \/ follow.rest \/ (follow.first /\ left = 0))
              THEN NoRetry ELSE backoff

Drained ==
  Drain(queue, BatchLimit, IF flush.options.keepalive THEN KeepaliveBytes ELSE EnvelopeBytes,
        flush.options.urgentOnly)

DrainNothing ==
  /\ Draining
  /\ Drained.batch = <<>>
  /\ Settle(FALSE, Len(queue), writes, retry)
  /\ UNCHANGED <<captured, queue, outbox, loaded, writes, page, fate>>

Send ==
  /\ Draining
  /\ Drained.batch # <<>>
  /\ queue' = Drained.queue
  /\ flush' = [flush EXCEPT !.pc = "sending", !.batch = Drained.batch]
  /\ UNCHANGED <<captured, outbox, loaded, writes, follow, retry, page, fate>>

\* The service accepts the batch.  Its stored copies are removed directly, not
\* through the chain: after the write in progress, before the next one.
SendSucceeds ==
  /\ BetweenTasks
  /\ flush.pc = "sending"
  /\ fate' = Became("delivered", EventsOf(flush.batch))
  /\ flush' = [flush EXCEPT !.pc = "removing", !.barrier = IF writes = <<>> THEN 0 ELSE 1]
  /\ UNCHANGED <<captured, queue, outbox, loaded, writes, follow, retry, page>>

\* The removal commits, or is rejected and reported.
RemoveSettles ==
  /\ BetweenTasks
  /\ flush.pc = "removing" /\ flush.barrier = 0
  /\ \/ outbox' = Without(outbox, EventsOf(flush.batch))
     \/ StorageFails /\ UNCHANGED outbox
  /\ Settle(TRUE, Len(queue), writes, retry)
  /\ UNCHANGED <<captured, queue, loaded, writes, page, fate>>

\* Mutant: new attempts are not saved.
RemovalsOnly(failure) == Removal({entry.event : entry \in failure.dropped} \cap Urgent)

\* The writes that follow a failed send.
WritesAfter(failure) ==
  Save(UrgentPart(failure.retried)) \o Removal({entry.event : entry \in failure.dropped} \cap Urgent)

\* The fetch rejects, or the answer is not a success: the batch goes back to
\* the queue, urgent entries are saved with their new attempts, and a retry is
\* scheduled.
SendFails ==
  /\ BetweenTasks
  /\ flush.pc = "sending"
  /\ LET failure == Requeue(queue, flush.batch)
         chain == writes \o WritesAfter(failure)
     IN  /\ queue' = failure.queue
         /\ fate' = Became("dropped", {entry.event : entry \in failure.dropped})
         /\ writes' = chain
         /\ Settle(FALSE, Len(failure.queue), chain,
                   IF destroyed \/ ~online THEN retry ELSE flush.options)
  /\ UNCHANGED <<captured, outbox, loaded, page>>

-----------------------------------------------------------------------------
(* The end of a client and of a page.                                      *)

\* destroy(): timers and listeners go; a flush in flight is not stopped.
Destroy ==
  /\ BetweenTasks
  /\ ~destroyed
  /\ destroyed' = TRUE
  /\ timers' = {} /\ retry' = NoRetry
  /\ UNCHANGED <<captured, queue, outbox, loaded, writes, flush, follow, online, fate, spent>>

\* The page is left, whatever was going on, and a new page starts a client:
\* only the outbox survives.
Restart ==
  /\ BetweenTasks
  /\ spent.restarts < MaxRestarts
  /\ spent' = [spent EXCEPT !.restarts = @ + 1]
  /\ fate' = Became("left", InMemory \ (EventsOf(outbox) \cup fate["delivered"]))
  /\ queue' = <<>> /\ writes' = <<>> /\ loaded' = FALSE
  /\ flush' = NoFlush /\ follow' = NoFollow
  /\ timers' = {} /\ retry' = NoRetry /\ destroyed' = FALSE
  /\ UNCHANGED <<captured, outbox, online>>

-----------------------------------------------------------------------------
Next ==
  \/ DrainNothing \/ Send
  \/ Capture
  \/ LoadOutbox \/ LoadFails \/ RunWrite \/ WriteFails
  \/ IntervalFlush \/ UrgentTimer \/ BatchTimer \/ RetryTimer
  \/ PageHide \/ AppFlush \/ GoOffline \/ GoOnline
  \/ SendSucceeds \/ RemoveSettles \/ SendFails
  \/ Destroy \/ Restart

Spec == Init /\ [][Next]_vars

\* An open page keeps running; storage transactions and fetches settle, and the
\* browser comes back online.  The task of a timer that is due stays queued while
\* other tasks and their microtasks come first, so it runs in the end (SF).  Nothing is asked of the
\* service: a send may fail every time.
Fairness ==
  /\ WF_vars(LoadOutbox) /\ WF_vars(RunWrite)
  /\ WF_vars(DrainNothing \/ Send)
  /\ WF_vars(SendSucceeds \/ SendFails) /\ WF_vars(RemoveSettles)
  /\ SF_vars(IntervalFlush) /\ SF_vars(RetryTimer)
  /\ SF_vars(GoOnline)

FairSpec == Spec /\ Fairness

-----------------------------------------------------------------------------
(* Correctness.                                                            *)

\* Every captured event is still in the client's memory or outbox, or was
\* delivered, dropped, or lost with its page; no path of drain, prepend, retry
\* or restore forgets one.  None is in memory twice, queued again while it is
\* being sent, also when the outbox is loaded while events are captured.
EachEventOnce ==
  /\ 1..captured \subseteq InMemory \cup EventsOf(outbox) \cup fate["delivered"]
                           \cup fate["dropped"] \cup fate["silent"] \cup fate["left"]
  /\ Cardinality(InMemory) = Len(queue) + Len(flush.batch)

PendingWrites(e) ==
  {i \in DOMAIN writes : e \in EventsOf(writes[i].save) \cup writes[i].remove}

\* ADR-049: an urgent event in memory survives the page.  It is stored, or the
\* last write pending for it is a save, or losing its stored copy was reported.
UrgentIsRecoverable ==
  \A e \in (Urgent \cap InMemory) \ fate["delivered"] :
    IF PendingWrites(e) = {}
    THEN e \in EventsOf(outbox) \cup fate["unwritten"]
    ELSE e \in EventsOf(writes[Max(PendingWrites(e))].save)

\* ADR-049 "drops an urgent event after eight failed attempts", reloads
\* included: once the writes have settled, the stored attempts are the attempts
\* made.
StoredAttemptsAreCurrent ==
  writes = <<>> =>
    \A entry \in ToSet(queue \o flush.batch), stored \in ToSet(outbox) :
      entry.event = stored.event /\ entry.event \notin fate["unwritten"]
        => entry.attempts = stored.attempts

\* An event reported as dropped is not brought back by the next page: once the
\* writes have settled it is not stored, unless removing it failed.
DroppedIsForgotten ==
  writes = <<>> /\ spent.restarts = 0
    => fate["dropped"] \cap EventsOf(outbox) \subseteq fate["unwritten"]

Starts == flush.pc = "waiting" /\ flush'.pc = "sending"

\* ADR-049: capturing evicts an urgent event only when no routine event is left
\* to evict.
CaptureSparesUrgent ==
  [][captured' # captured
       => \/ (fate'["dropped"] \ fate["dropped"]) \cap Urgent = {}
          \/ RoutinePart(queue') = <<>>]_vars

\* Every captured event of an open page is eventually delivered or dropped:
\* the interval flush and the retry timer leave nothing behind.
Settled(e) ==
  e \in fate["delivered"] \cup fate["dropped"] \cup fate["silent"] \cup fate["left"]
EventsSettle == \A e \in Events : (e <= captured) ~> (Settled(e) \/ destroyed)

-----------------------------------------------------------------------------
(* What the documentation says and the code does not keep.                 *)

\* ADR-049 "routine events are evicted before urgent events": also when a
\* failed batch is put back.
RoutineIsEvictedFirst ==
  [][\A entry \in ToSet(queue) :
       entry.event \in Urgent \cap (fate'["dropped"] \ fate["dropped"])
         => RoutinePart(queue') = <<>>]_vars

\* ADR-049 "Every drop is surfaced through onError".
EveryDropIsReported == fate["silent"] = {}

\* ADR-049 "Urgent events are written to an IndexedDB outbox before the
\* scheduled urgent send".
WrittenBeforeSent ==
  [][Starts => \A e \in Urgent \cap EventsOf(flush'.batch) : PendingWrites(e) = {}]_vars

\* ADR-049 "Successful delivery removes their stored copies".
DeliveredIsForgotten ==
  flush.pc = "none" /\ writes = <<>> => fate["delivered"] \cap EventsOf(outbox) = {}

\* ADR-049 "Failed transport attempts use exponential backoff": no automatic
\* flush begins during the backoff of a failed one.
BackoffIsKept ==
  [][flush.pc # "waiting" /\ flush'.pc = "waiting" /\ flush'.resets /\ ~flush'.options.keepalive
       => retry' = NoRetry]_vars

\* ADR-048 "a bounded follow-up is attempted when queued events remain".
FollowUpIsAttempted ==
  [][DrainNothing /\ flush.options.keepalive
       => \A entry \in ToSet(queue) : Size[entry.event] > KeepaliveBytes]_vars
=============================================================================
