----------------------------- MODULE EventPlane -----------------------------
(***************************************************************************)
(* The path of an envelope from the ingest service to the event store:     *)
(* the POST /v1/envelope handler (apps/ingest/src/app.ts), the JetStream   *)
(* work queue it publishes to (packages/pipeline/src/jetstream.ts), the    *)
(* processor workers that pull from it (services/processor/src) and the    *)
(* ClickHouse table they insert into.                                      *)
(*                                                                         *)
(* JetStream and ClickHouse are outside the repository: their steps are    *)
(* taken from the stream and consumer configuration the code asks for and  *)
(* from the calls it makes.  Every message between processes (publish,     *)
(* publish acknowledgement, ack, nak, term, insert) may be lost, and an    *)
(* insert or a publish may still take effect after its caller gave up.     *)
(***************************************************************************)
EXTENDS Integers, FiniteSets

CONSTANTS
  Envelopes,      \* envelope identities: version, send time, ordered event ids
  Events,         \* event ids
  Contents,       \* the events each envelope carries
  Undecodable,    \* envelopes whose message decodeAdmittedEnvelope rejects
  Requests,       \* HTTP requests to POST /v1/envelope
  Carries,        \* the envelope each request carries
  Messages,       \* stream messages that can ever be stored (a model bound)
  Workers,        \* processor processes, each one sequential worker
  MaxDeliver,     \* max_deliver of the consumer
  MaxAckPending,  \* max_ack_pending of the consumer
  StreamCapacity, \* max_bytes of the stream, in messages
  NoMessage,      \* not a message
  NoEnvelope      \* not an envelope

ASSUME ContentsAssumption ==
  /\ Contents \in [Envelopes -> SUBSET Events]
  /\ Undecodable \subseteq Envelopes
ASSUME CarriesAssumption == Carries \in [Requests -> Envelopes]
ASSUME NullsAssumption == NoMessage \notin Messages /\ NoEnvelope \notin Envelopes
ASSUME LimitsAssumption ==
  /\ MaxDeliver \in Nat \ {0}
  /\ MaxAckPending \in Nat \ {0}
  /\ StreamCapacity \in Nat \ {0}

VARIABLES
  request,      \* what the ingest handler has done with each request
  wire,         \* requests whose publish is on its way to the stream
  recent,       \* envelopes inside the stream's duplicate window
  status,       \* where each stream message is
  envelope,     \* the envelope each stored message holds
  deliveries,   \* how often each message was delivered
  worker,       \* what each processor worker is doing
  acks,         \* messages whose acknowledgement is on its way to the stream
  stragglers,   \* events of abandoned inserts that may still commit
  table         \* event ids in spectro.events_v1 (one logical row per id)

ingestVars == <<request, wire, recent>>
streamVars == <<status, envelope, deliveries>>
processorVars == <<worker, acks, stragglers, table>>
vars == <<request, wire, recent, status, envelope, deliveries,
          worker, acks, stragglers, table>>

\* "parked": max_deliver is used up, so the consumer never delivers the
\* message again, and the work queue never removes it.
InStream == {"ready", "pending", "parked"}
Gone == {"acked", "terminated"}

TypeOK ==
  /\ request \in [Requests -> {"new", "publishing", "published", "accepted", "refused"}]
  /\ wire \subseteq Requests
  /\ recent \subseteq Envelopes
  /\ status \in [Messages -> {"free"} \cup InStream \cup Gone]
  /\ envelope \in [Messages -> Envelopes \cup {NoEnvelope}]
  /\ deliveries \in [Messages -> 0..MaxDeliver]
  /\ worker \in [Workers -> [pc : {"idle", "writing", "written", "failed"},
                             message : Messages \cup {NoMessage},
                             left : SUBSET Events]]
  /\ acks \subseteq Messages
  /\ stragglers \subseteq Events
  /\ table \subseteq Events

Idle == [pc |-> "idle", message |-> NoMessage, left |-> {}]

Init ==
  /\ request = [r \in Requests |-> "new"]
  /\ wire = {}
  /\ recent = {}
  /\ status = [m \in Messages |-> "free"]
  /\ envelope = [m \in Messages |-> NoEnvelope]
  /\ deliveries = [m \in Messages |-> 0]
  /\ worker = [w \in Workers |-> Idle]
  /\ acks = {}
  /\ stragglers = {}
  /\ table = {}

-----------------------------------------------------------------------------
(* The ingest handler.                                                     *)

\* A request that passed authorization and validation: store.append publishes
\* the envelope with its deterministic message id and waits.
Admit(r) ==
  /\ request[r] = "new"
  /\ request' = [request EXCEPT ![r] = "publishing"]
  /\ wire' = wire \cup {r}
  /\ UNCHANGED <<recent, streamVars, processorVars>>

\* Mutant: 202 without waiting for the publish acknowledgement.
AcceptUnacknowledged(r) ==
  /\ request[r] \in {"publishing", "published"}
  /\ request' = [request EXCEPT ![r] = "accepted"]
  /\ UNCHANGED <<wire, recent, streamVars, processorVars>>

\* The publish acknowledgement names the stream: the handler answers 202.
Accept(r) ==
  /\ request[r] = "published"
  /\ request' = [request EXCEPT ![r] = "accepted"]
  /\ UNCHANGED <<wire, recent, streamVars, processorVars>>

\* The publish was refused, timed out, or its acknowledgement was lost: 503.
\* The publish itself may still reach the stream.
Refuse(r) ==
  /\ request[r] \in {"publishing", "published"}
  /\ request' = [request EXCEPT ![r] = "refused"]
  /\ UNCHANGED <<wire, recent, streamVars, processorVars>>

-----------------------------------------------------------------------------
(* The stream.                                                             *)

StoredMessages == {m \in Messages : status[m] \in InStream}
PendingMessages == {m \in Messages : status[m] = "pending"}

PublishAcknowledged(r) ==
  request' = IF request[r] = "publishing"
             THEN [request EXCEPT ![r] = "published"]
             ELSE request

\* The stream stores the publish as a message: discard policy "new" refuses
\* one that does not fit.
StreamAppend(r) ==
  /\ r \in wire
  /\ Carries[r] \notin recent
  /\ Cardinality(StoredMessages) < StreamCapacity
  /\ \E m \in Messages :
       /\ status[m] = "free"
       /\ status' = [status EXCEPT ![m] = "ready"]
       /\ envelope' = [envelope EXCEPT ![m] = Carries[r]]
  /\ wire' = wire \ {r}
  /\ recent' = recent \cup {Carries[r]}
  /\ PublishAcknowledged(r)
  /\ UNCHANGED <<deliveries, processorVars>>

\* A message id seen inside the duplicate window is acknowledged, not stored.
StreamDuplicate(r) ==
  /\ r \in wire
  /\ Carries[r] \in recent
  /\ wire' = wire \ {r}
  /\ PublishAcknowledged(r)
  /\ UNCHANGED <<recent, streamVars, processorVars>>

\* The publish is lost, or refused by a full stream.
PublishLost(r) ==
  /\ r \in wire
  /\ wire' = wire \ {r}
  /\ UNCHANGED <<request, recent, streamVars, processorVars>>

WindowElapses(e) ==
  /\ e \in recent
  /\ recent' = recent \ {e}
  /\ UNCHANGED <<request, wire, streamVars, processorVars>>

\* Mutant: a consumer created without max_deliver.
ReturnedForever(m) == "ready"

\* A delivered message comes back unless its deliveries are used up.
Returned(m) == IF deliveries[m] < MaxDeliver THEN "ready" ELSE "parked"

\* ack_wait (or the backoff step that replaces it) elapses: the worker that
\* holds the delivery is not told.
AckWaitElapses(m) ==
  /\ status[m] = "pending"
  /\ status' = [status EXCEPT ![m] = Returned(m)]
  /\ UNCHANGED <<ingestVars, envelope, deliveries, processorVars>>

\* An acknowledgement removes the message, even a late one.
AckArrives(m) ==
  /\ m \in acks
  /\ acks' = acks \ {m}
  /\ status' = [status EXCEPT ![m] = IF @ \in InStream THEN "acked" ELSE @]
  /\ UNCHANGED <<ingestVars, envelope, deliveries, worker, stragglers, table>>

AckLost(m) ==
  /\ m \in acks
  /\ acks' = acks \ {m}
  /\ UNCHANGED <<ingestVars, streamVars, worker, stragglers, table>>

-----------------------------------------------------------------------------
(* The processor workers.  runOnce is sequential: one delivery at a time,  *)
(* pulled, written to ClickHouse and only then acknowledged.               *)

BeIdle(w) == worker' = [worker EXCEPT ![w] = Idle]

\* The worker goes on with its delivery: the next step, and what its insert
\* still has to commit.
GoOn(w, pc, left) ==
  worker' = [worker EXCEPT ![w] = [pc |-> pc, message |-> worker[w].message, left |-> left]]

\* The consumer delivers a message; source.next decodes it and the processor
\* stamps it and starts the insert, with no await in between.
Deliver(w, m) ==
  /\ worker[w].pc = "idle"
  /\ status[m] = "ready"
  /\ Cardinality(PendingMessages) < MaxAckPending
  /\ deliveries' = [deliveries EXCEPT ![m] = @ + 1]
  /\ UNCHANGED <<ingestVars, envelope, acks, stragglers, table>>

Fetch(w, m) ==
  /\ Deliver(w, m)
  /\ envelope[m] \notin Undecodable
  /\ status' = [status EXCEPT ![m] = "pending"]
  /\ worker' = [worker EXCEPT ![w] =
       [pc |-> "writing", message |-> m, left |-> Contents[envelope[m]]]]

\* Decoding fails: the message is terminated and next throws.  The term may
\* be lost, and the message is then delivered again after ack_wait.
Terminate(w, m) ==
  /\ Deliver(w, m)
  /\ envelope[m] \in Undecodable
  /\ \E after \in {"terminated", "pending"} :
       status' = [status EXCEPT ![m] = after]
  /\ UNCHANGED worker

\* ClickHouse commits a part of the insert: a batch that spans partitions is
\* not atomic, so its events may become durable one after the other.
Commit(w) ==
  /\ worker[w].pc = "writing"
  /\ \E event \in worker[w].left :
       /\ table' = table \cup {event}
       /\ GoOn(w, "writing", worker[w].left \ {event})
  /\ UNCHANGED <<ingestVars, streamVars, acks, stragglers>>

\* Mutant: async_insert without wait_for_async_insert.
ResolveEarly(w) ==
  /\ worker[w].pc = "writing"
  /\ GoOn(w, "written", {})
  /\ stragglers' = stragglers \cup worker[w].left
  /\ UNCHANGED <<ingestVars, streamVars, acks, table>>

\* The insert resolves once every event is committed (wait_for_async_insert).
InsertResolves(w) ==
  /\ worker[w].pc = "writing"
  /\ worker[w].left = {}
  /\ GoOn(w, "written", {})
  /\ UNCHANGED <<ingestVars, streamVars, acks, stragglers, table>>

\* The insert rejects: refused, timed out or its answer lost, before or after
\* any part of it commits.  What is left may still commit later.
InsertRejects(w) ==
  /\ worker[w].pc = "writing"
  /\ GoOn(w, "failed", {})
  /\ stragglers' = stragglers \cup worker[w].left
  /\ UNCHANGED <<ingestVars, streamVars, acks, table>>

StragglerCommits(event) ==
  /\ event \in stragglers
  /\ table' = table \cup {event}
  /\ stragglers' = stragglers \ {event}
  /\ UNCHANGED <<ingestVars, streamVars, worker, acks>>

\* delivery.acknowledge(): fire and forget.
Acknowledge(w) ==
  /\ worker[w].pc = "written"
  /\ acks' = acks \cup {worker[w].message}
  /\ BeIdle(w)
  /\ UNCHANGED <<ingestVars, streamVars, stragglers, table>>

\* Mutant: a failed envelope is terminated instead of retried.
TerminateFailed(w) ==
  /\ worker[w].pc = "failed"
  /\ status' = [status EXCEPT ![worker[w].message] = IF @ = "pending" THEN "terminated" ELSE @]
  /\ BeIdle(w)
  /\ UNCHANGED <<ingestVars, envelope, deliveries, acks, stragglers, table>>

\* Mutant: acknowledging in a finally block, whatever the insert did.
AcknowledgeFailed(w) ==
  /\ worker[w].pc = "failed"
  /\ acks' = acks \cup {worker[w].message}
  /\ BeIdle(w)
  /\ UNCHANGED <<ingestVars, streamVars, stragglers, table>>

\* delivery.retry(1s): a negative acknowledgement, which may be lost and has
\* no effect on a message that is no longer pending.
Retry(w) ==
  /\ worker[w].pc = "failed"
  /\ LET m == worker[w].message IN
       \/ status' = [status EXCEPT ![m] = IF @ = "pending" THEN Returned(m) ELSE @]
       \/ UNCHANGED status
  /\ BeIdle(w)
  /\ UNCHANGED <<ingestVars, envelope, deliveries, acks, stragglers, table>>

\* The process stops at any point of an iteration and a new one starts.
Crash(w) ==
  /\ worker[w].pc # "idle"
  /\ stragglers' = stragglers \cup worker[w].left
  /\ BeIdle(w)
  /\ UNCHANGED <<ingestVars, streamVars, acks, table>>

-----------------------------------------------------------------------------
IngestNext == \E r \in Requests : Admit(r) \/ Accept(r) \/ Refuse(r)

StreamNext ==
  \/ \E r \in Requests : StreamAppend(r) \/ StreamDuplicate(r) \/ PublishLost(r)
  \/ \E e \in Envelopes : WindowElapses(e)
  \/ \E m \in Messages : AckWaitElapses(m) \/ AckArrives(m) \/ AckLost(m)

WorkerStep(w) ==
  \/ Commit(w)
  \/ InsertResolves(w)
  \/ InsertRejects(w)
  \/ Acknowledge(w)
  \/ Retry(w)
  \/ Crash(w)

ProcessorNext ==
  \/ \E w \in Workers : WorkerStep(w)
  \/ \E w \in Workers, m \in Messages : Fetch(w, m) \/ Terminate(w, m)
  \/ \E event \in Events : StragglerCommits(event)

Next == IngestNext \/ StreamNext \/ ProcessorNext

Spec == Init /\ [][Next]_vars

\* The run loop keeps pulling (server.ts), a started insert resolves or
\* rejects (the client has a request timeout), its outcome is acted on, and
\* the consumer's redelivery timer runs.  No fairness is asked of ClickHouse's
\* commits, of acknowledgements arriving, or of the ingest side.
Fairness ==
  /\ \A w \in Workers :
       /\ WF_vars(\E m \in Messages : Fetch(w, m) \/ Terminate(w, m))
       /\ WF_vars(InsertResolves(w) \/ InsertRejects(w))
       /\ WF_vars(Acknowledge(w) \/ Retry(w))
  /\ \A m \in Messages : WF_vars(AckWaitElapses(m))

FairSpec == Spec /\ Fairness

-----------------------------------------------------------------------------
(* Correctness.                                                            *)

AcceptedEnvelopes == {Carries[r] : r \in {q \in Requests : request[q] = "accepted"}}
AdmittedEnvelopes == {envelope[m] : m \in {n \in Messages : status[n] # "free"}}
HeldEnvelopes == {envelope[m] : m \in StoredMessages}
IsStored(e) == Contents[e] \subseteq table

\* An acknowledged message is never one whose events are missing from
\* ClickHouse: ADR-034 "acknowledges only after the complete envelope has been
\* successfully written", across crashes, lost acks and overlapping workers.
AcknowledgedIsStored ==
  \A m \in Messages : status[m] = "acked" => IsStored(envelope[m])

\* A 202 is a promise: an accepted envelope is in ClickHouse, or a message of
\* it is still in the stream, or it is one the processor cannot decode.
AcceptedIsNotLost ==
  \A e \in AcceptedEnvelopes :
    \/ IsStored(e)
    \/ e \in HeldEnvelopes
    \/ e \in Undecodable

\* Every accepted envelope settles: stored, terminated, or parked where an
\* operator finds it (the max_deliver advisory).
AcceptedSettles ==
  \A e \in Envelopes :
    e \in AcceptedEnvelopes ~>
      \/ IsStored(e)
      \/ e \in Undecodable
      \/ \E m \in Messages : status[m] = "parked" /\ envelope[m] = e

\* The event plane keeps the at-least-once promise.
Promise == INSTANCE AtLeastOnce WITH
  admitted <- AdmittedEnvelopes,
  held <- HeldEnvelopes,
  accepted <- AcceptedEnvelopes,
  stored <- table

ImplementsAtLeastOnce == Promise!Spec
=============================================================================
