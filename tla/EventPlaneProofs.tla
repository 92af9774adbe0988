-------------------------- MODULE EventPlaneProofs --------------------------
(***************************************************************************)
(* EventPlane is correct for every number of envelopes, requests, messages *)
(* and workers, and every setting of the consumer's limits: an             *)
(* acknowledged message is stored, a 202 is never lost, and the event      *)
(* plane implements AtLeastOnce.                                           *)
(***************************************************************************)
EXTENDS EventPlane, TLAPS

-----------------------------------------------------------------------------
(* The inductive invariant.                                                *)

\* A stored message holds an envelope, and a one not yet delivered to the end has deliveries left.
MessagesOK ==
  \A m \in Messages :
    /\ status[m] # "free" => envelope[m] \in Envelopes
    /\ status[m] \in {"free", "ready"} => deliveries[m] < MaxDeliver

\* A worker's insert accounts for every event of its envelope: in the table,
\* or still to be committed; once it resolved, all are in the table.
WorkerOK(w) ==
  worker[w].pc # "idle" =>
    LET m == worker[w].message IN
      /\ m \in Messages
      /\ status[m] # "free"
      /\ worker[w].left \subseteq Contents[envelope[m]]
      /\ worker[w].pc = "writing" => Contents[envelope[m]] \subseteq table \cup worker[w].left
      /\ worker[w].pc = "written" => IsStored(envelope[m])

IdleOK(w) == worker[w].pc = "idle" => worker[w].left = {}

WorkersOK == \A w \in Workers : WorkerOK(w) /\ IdleOK(w)

\* An acknowledgement on its way is one for a stored envelope.
AcksOK == \A m \in acks : status[m] # "free" /\ IsStored(envelope[m])

TerminatedOK == \A m \in Messages : status[m] = "terminated" => envelope[m] \in Undecodable

\* What the handler or the duplicate window takes as published was stored.
RequestsOK ==
  /\ \A r \in Requests : request[r] \in {"published", "accepted"} => Carries[r] \in AdmittedEnvelopes
  /\ recent \subseteq AdmittedEnvelopes

StragglersOK == \A event \in stragglers : \E e \in AdmittedEnvelopes : event \in Contents[e]

IInv ==
  /\ TypeOK
  /\ MessagesOK
  /\ WorkersOK
  /\ AcksOK
  /\ AcknowledgedIsStored
  /\ TerminatedOK
  /\ RequestsOK
  /\ StragglersOK

USE ContentsAssumption, CarriesAssumption, NullsAssumption, LimitsAssumption

\* The invariant's state: what every step must account for.
LEMMA InitIInv == Init => IInv
  BY DEF Init, IInv, TypeOK, MessagesOK, WorkersOK, WorkerOK, IdleOK, AcksOK,
         AcknowledgedIsStored, TerminatedOK, RequestsOK, StragglersOK, Idle,
         InStream, Gone

\* Messages are never forgotten, and rows never leave the table.
Monotone ==
  /\ \A m \in Messages : status[m] # "free" =>
       status'[m] # "free" /\ envelope'[m] = envelope[m]
  /\ table \subseteq table'

LEMMA MonotoneAdmitted ==
  ASSUME TypeOK, Monotone
  PROVE  AdmittedEnvelopes \subseteq AdmittedEnvelopes'
  BY DEF AdmittedEnvelopes, Monotone, TypeOK

LEMMA MonotoneStored ==
  ASSUME Monotone, NEW e, IsStored(e)
  PROVE  IsStored(e)'
  BY DEF IsStored, Monotone

LEMMA StepMonotone == TypeOK /\ WorkersOK /\ [Next]_vars => Monotone
  <1> SUFFICES ASSUME TypeOK, WorkersOK, [Next]_vars
               PROVE  Monotone
    OBVIOUS
  <1> USE DEF TypeOK, Monotone, streamVars, processorVars, ingestVars, InStream, Gone
  <1>1. CASE IngestNext
    BY <1>1 DEF IngestNext, Admit, Accept, Refuse
  <1>2. CASE StreamNext
    <2>1. ASSUME NEW r \in Requests, StreamAppend(r)
          PROVE  Monotone
      BY <2>1 DEF StreamAppend
    <2>2. ASSUME NEW r \in Requests, StreamDuplicate(r) \/ PublishLost(r)
          PROVE  Monotone
      BY <2>2 DEF StreamDuplicate, PublishLost
    <2>3. ASSUME NEW e \in Envelopes, WindowElapses(e)
          PROVE  Monotone
      BY <2>3 DEF WindowElapses
    <2>4. ASSUME NEW m \in Messages, AckWaitElapses(m) \/ AckArrives(m) \/ AckLost(m)
          PROVE  Monotone
      BY <2>4 DEF AckWaitElapses, AckArrives, AckLost, Returned
    <2> QED  BY <1>2, <2>1, <2>2, <2>3, <2>4 DEF StreamNext
  <1>3. CASE ProcessorNext
    <2>1. ASSUME NEW w \in Workers, Retry(w)
          PROVE  Monotone
      BY <2>1 DEF Retry, Returned, WorkersOK, WorkerOK
    <2>2. ASSUME NEW w \in Workers, WorkerStep(w), ~ Retry(w)
          PROVE  Monotone
      BY <2>2 DEF WorkerStep, Commit, InsertResolves, InsertRejects, Acknowledge, Crash
    <2>3. ASSUME NEW w \in Workers, NEW m \in Messages, Fetch(w, m) \/ Terminate(w, m)
          PROVE  Monotone
      BY <2>3 DEF Fetch, Terminate, Deliver
    <2>4. ASSUME NEW event \in Events, StragglerCommits(event)
          PROVE  Monotone
      BY <2>4 DEF StragglerCommits
    <2> QED  BY <1>3, <2>1, <2>2, <2>3, <2>4 DEF ProcessorNext
  <1>4. CASE UNCHANGED vars
    BY <1>4 DEF vars
  <1> QED  BY <1>1, <1>2, <1>3, <1>4 DEF Next

\* Every action keeps the types.
LEMMA StepTypeOK == TypeOK /\ MessagesOK /\ WorkersOK /\ StragglersOK /\ [Next]_vars => TypeOK'
  <1> SUFFICES ASSUME TypeOK, MessagesOK, WorkersOK, StragglersOK, [Next]_vars
               PROVE  TypeOK'
    OBVIOUS
  <1> USE DEF TypeOK, streamVars, processorVars, ingestVars, InStream, Gone, Idle, BeIdle, GoOn
  <1>1. ASSUME NEW r \in Requests, Admit(r) \/ Accept(r) \/ Refuse(r)
        PROVE  TypeOK'
    BY <1>1 DEF Admit, Accept, Refuse
  <1>2. ASSUME NEW r \in Requests, StreamAppend(r)
        PROVE  TypeOK'
    BY <1>2 DEF StreamAppend, PublishAcknowledged
  <1>3. ASSUME NEW r \in Requests, StreamDuplicate(r) \/ PublishLost(r)
        PROVE  TypeOK'
    BY <1>3 DEF StreamDuplicate, PublishLost, PublishAcknowledged
  <1>4. ASSUME NEW e \in Envelopes, WindowElapses(e)
        PROVE  TypeOK'
    BY <1>4 DEF WindowElapses
  <1>5. ASSUME NEW m \in Messages, AckWaitElapses(m) \/ AckArrives(m) \/ AckLost(m)
        PROVE  TypeOK'
    BY <1>5 DEF AckWaitElapses, AckArrives, AckLost, Returned
  <1>6. ASSUME NEW w \in Workers, Commit(w)
        PROVE  TypeOK'
    BY <1>6 DEF Commit
  <1>7. ASSUME NEW w \in Workers, InsertResolves(w) \/ InsertRejects(w)
        PROVE  TypeOK'
    BY <1>7 DEF InsertResolves, InsertRejects
  <1>8. ASSUME NEW w \in Workers, Acknowledge(w) \/ Retry(w) \/ Crash(w)
        PROVE  TypeOK'
    <2>1. CASE Acknowledge(w)
      BY <2>1 DEF Acknowledge, WorkersOK, WorkerOK
    <2>2. CASE Retry(w)
      BY <2>2 DEF Retry, Returned
    <2>3. CASE Crash(w)
      BY <2>3 DEF Crash
    <2> QED  BY <1>8, <2>1, <2>2, <2>3
  <1>9. ASSUME NEW w \in Workers, NEW m \in Messages, Fetch(w, m) \/ Terminate(w, m)
        PROVE  TypeOK'
    <2>1. deliveries' \in [Messages -> 0..MaxDeliver]
      BY <1>9 DEF Fetch, Terminate, Deliver, MessagesOK
    <2>2. status' \in [Messages -> {"free"} \cup InStream \cup Gone]
      BY <1>9 DEF Fetch, Terminate, Deliver
    <2>3. Contents[envelope[m]] \subseteq Events
      BY <1>9 DEF Fetch, Terminate, Deliver, MessagesOK
    <2>4. worker' \in [Workers -> [pc : {"idle", "writing", "written", "failed"},
                                  message : Messages \cup {NoMessage},
                                  left : SUBSET Events]]
      BY <1>9, <2>3 DEF Fetch, Terminate
    <2> QED  BY <1>9, <2>1, <2>2, <2>4 DEF Fetch, Terminate, Deliver
  <1>10. ASSUME NEW event \in Events, StragglerCommits(event)
         PROVE  TypeOK'
    BY <1>10 DEF StragglerCommits
  <1>11. CASE UNCHANGED vars
    BY <1>11 DEF vars
  <1> QED
    BY <1>1, <1>2, <1>3, <1>4, <1>5, <1>6, <1>7, <1>8, <1>9, <1>10, <1>11
       DEF Next, IngestNext, StreamNext, ProcessorNext, WorkerStep

LEMMA StepMessagesOK == TypeOK /\ MessagesOK /\ WorkersOK /\ [Next]_vars => MessagesOK'
  <1> SUFFICES ASSUME TypeOK, MessagesOK, WorkersOK, [Next]_vars
               PROVE  MessagesOK'
    OBVIOUS
  <1> USE DEF TypeOK, MessagesOK, streamVars, processorVars, ingestVars, InStream, Gone
  <1>1. ASSUME NEW r \in Requests, Admit(r) \/ Accept(r) \/ Refuse(r)
        PROVE  MessagesOK'
    BY <1>1 DEF Admit, Accept, Refuse
  <1>2. ASSUME NEW r \in Requests, StreamAppend(r)
        PROVE  MessagesOK'
    <2>1. PICK m \in Messages :
            /\ status[m] = "free"
            /\ status' = [status EXCEPT ![m] = "ready"]
            /\ envelope' = [envelope EXCEPT ![m] = Carries[r]]
      BY <1>2 DEF StreamAppend
    <2>2. deliveries' = deliveries
      BY <1>2 DEF StreamAppend
    <2> QED  BY <2>1, <2>2
  <1>3. ASSUME NEW r \in Requests, StreamDuplicate(r) \/ PublishLost(r)
        PROVE  MessagesOK'
    BY <1>3 DEF StreamDuplicate, PublishLost
  <1>4. ASSUME NEW e \in Envelopes, WindowElapses(e)
        PROVE  MessagesOK'
    BY <1>4 DEF WindowElapses
  <1>5. ASSUME NEW m \in Messages, AckWaitElapses(m) \/ AckArrives(m) \/ AckLost(m)
        PROVE  MessagesOK'
    BY <1>5 DEF AckWaitElapses, AckArrives, AckLost, Returned
  <1>6. ASSUME NEW w \in Workers, WorkerStep(w), ~ Retry(w)
        PROVE  MessagesOK'
    BY <1>6 DEF WorkerStep, Commit, InsertResolves, InsertRejects, Acknowledge, Crash
  <1>7. ASSUME NEW w \in Workers, Retry(w)
        PROVE  MessagesOK'
    BY <1>7 DEF Retry, Returned, WorkersOK, WorkerOK
  <1>8. ASSUME NEW w \in Workers, NEW m \in Messages, Fetch(w, m) \/ Terminate(w, m)
        PROVE  MessagesOK'
    BY <1>8 DEF Fetch, Terminate, Deliver
  <1>9. ASSUME NEW event \in Events, StragglerCommits(event)
        PROVE  MessagesOK'
    BY <1>9 DEF StragglerCommits
  <1>10. CASE UNCHANGED vars
    BY <1>10 DEF vars
  <1> QED
    BY <1>1, <1>2, <1>3, <1>4, <1>5, <1>6, <1>7, <1>8, <1>9, <1>10
       DEF Next, IngestNext, StreamNext, ProcessorNext

\* A worker that does not move keeps its part of the invariant.
LEMMA StillWorkerOK ==
  ASSUME TypeOK, Monotone, NEW w \in Workers, WorkerOK(w), IdleOK(w), worker'[w] = worker[w]
  PROVE  WorkerOK(w)' /\ IdleOK(w)'
  BY DEF TypeOK, Monotone, WorkerOK, IdleOK, IsStored

LEMMA StepWorkersOK == TypeOK /\ MessagesOK /\ WorkersOK /\ [Next]_vars => WorkersOK'
  <1> SUFFICES ASSUME TypeOK, MessagesOK, WorkersOK, [Next]_vars, NEW v \in Workers
               PROVE  WorkerOK(v)' /\ IdleOK(v)'
    BY DEF WorkersOK
  <1> Monotone
    BY StepMonotone
  <1> WorkerOK(v) /\ IdleOK(v)
    BY DEF WorkersOK
  <1>1. CASE worker'[v] = worker[v]
    BY <1>1, StillWorkerOK
  <1>2. ASSUME Commit(v)
        PROVE  WorkerOK(v)' /\ IdleOK(v)'
    <2>1. PICK event \in worker[v].left :
            /\ table' = table \cup {event}
            /\ worker'[v] = [pc |-> "writing", message |-> worker[v].message,
                             left |-> worker[v].left \ {event}]
      BY <1>2 DEF Commit, GoOn, TypeOK
    <2>2. status' = status /\ envelope' = envelope /\ worker[v].pc = "writing"
      BY <1>2 DEF Commit, streamVars
    <2> QED  BY <2>1, <2>2 DEF WorkerOK, IdleOK
  <1>3. ASSUME InsertResolves(v)
        PROVE  WorkerOK(v)' /\ IdleOK(v)'
    <2>1. worker'[v] = [pc |-> "written", message |-> worker[v].message, left |-> {}]
      BY <1>3 DEF InsertResolves, GoOn, TypeOK
    <2>2. /\ status' = status /\ envelope' = envelope /\ table' = table
          /\ worker[v].pc = "writing" /\ worker[v].left = {}
      BY <1>3 DEF InsertResolves, streamVars
    <2> QED  BY <2>1, <2>2 DEF WorkerOK, IdleOK, IsStored
  <1>4. ASSUME InsertRejects(v)
        PROVE  WorkerOK(v)' /\ IdleOK(v)'
    <2>1. worker'[v] = [pc |-> "failed", message |-> worker[v].message, left |-> {}]
      BY <1>4 DEF InsertRejects, GoOn, TypeOK
    <2>2. status' = status /\ envelope' = envelope /\ worker[v].pc = "writing"
      BY <1>4 DEF InsertRejects, streamVars
    <2> QED  BY <2>1, <2>2 DEF WorkerOK, IdleOK
  <1>5. ASSUME Acknowledge(v) \/ Retry(v) \/ Crash(v)
        PROVE  WorkerOK(v)' /\ IdleOK(v)'
    <2>1. worker'[v] = Idle
      BY <1>5 DEF Acknowledge, Retry, Crash, BeIdle, TypeOK
    <2> QED  BY <2>1 DEF WorkerOK, IdleOK, Idle
  <1>6. ASSUME NEW m \in Messages, Fetch(v, m)
        PROVE  WorkerOK(v)' /\ IdleOK(v)'
    <2>1. worker'[v] = [pc |-> "writing", message |-> m, left |-> Contents[envelope[m]]]
      BY <1>6 DEF Fetch, TypeOK
    <2>2. status'[m] = "pending" /\ envelope' = envelope
      BY <1>6 DEF Fetch, Deliver, TypeOK
    <2> QED  BY <2>1, <2>2 DEF WorkerOK, IdleOK
  <1>7. ASSUME NEW w \in Workers, w # v, WorkerStep(w)
        PROVE  worker'[v] = worker[v]
    BY <1>7 DEF WorkerStep, Commit, InsertResolves, InsertRejects, Acknowledge, Retry, Crash,
                GoOn, BeIdle, TypeOK
  <1>8. ASSUME NEW w \in Workers, NEW m \in Messages, Fetch(w, m) \/ Terminate(w, m), w # v
        PROVE  worker'[v] = worker[v]
    BY <1>8 DEF Fetch, Terminate, TypeOK
  <1>9. ASSUME NEW m \in Messages, Terminate(v, m)
        PROVE  worker'[v] = worker[v]
    BY <1>9 DEF Terminate
  <1>10. CASE IngestNext \/ StreamNext \/ UNCHANGED vars
    <2>1. worker' = worker
      BY <1>10 DEF IngestNext, Admit, Accept, Refuse, StreamNext, StreamAppend, StreamDuplicate,
                   PublishLost, WindowElapses, AckWaitElapses, AckArrives, AckLost,
                   processorVars, vars
    <2> QED  BY <2>1, <1>1
  <1>11. CASE \E event \in Events : StragglerCommits(event)
    BY <1>11, <1>1 DEF StragglerCommits
  <1> QED
    BY <1>1, <1>2, <1>3, <1>4, <1>5, <1>6, <1>7, <1>8, <1>9, <1>10, <1>11
       DEF Next, ProcessorNext, WorkerStep

\* Acknowledgements are only sent for written envelopes.
LEMMA StepAcksOK ==
  TypeOK /\ WorkersOK /\ AcksOK /\ [Next]_vars => AcksOK'
  <1> SUFFICES ASSUME TypeOK, WorkersOK, AcksOK, [Next]_vars, NEW m \in acks'
               PROVE  status'[m] # "free" /\ IsStored(envelope[m])'
    BY DEF AcksOK
  <1>1. Monotone
    BY StepMonotone
  <1>2. CASE m \in acks
    BY <1>1, <1>2 DEF AcksOK, Monotone, IsStored, TypeOK
  <1>3. CASE m \notin acks
    <2>1. \E w \in Workers : Acknowledge(w)
      BY <1>3 DEF Next, IngestNext, StreamNext, ProcessorNext, WorkerStep, vars, processorVars,
           Admit, Accept, Refuse, StreamAppend, StreamDuplicate, PublishLost, WindowElapses,
           AckWaitElapses, AckArrives, AckLost, Commit, InsertResolves, InsertRejects, Retry,
           Crash, Fetch, Terminate, Deliver, StragglerCommits
    <2>2. PICK w \in Workers : Acknowledge(w)
      BY <2>1
    <2>3. m = worker[w].message /\ worker[w].pc = "written"
      BY <2>2, <1>3 DEF Acknowledge
    <2>4. status[m] # "free" /\ IsStored(envelope[m]) /\ m \in Messages
      BY <2>3 DEF WorkersOK, WorkerOK
    <2> QED  BY <2>4, <1>1 DEF Monotone, IsStored
  <1> QED  BY <1>2, <1>3

\* What leaves the stream leaves it stored, or cannot be decoded.
LEMMA StepGoneOK ==
  TypeOK /\ MessagesOK /\ WorkersOK /\ AcksOK /\ AcknowledgedIsStored /\ TerminatedOK
    /\ TypeOK' /\ [Next]_vars
    => AcknowledgedIsStored' /\ TerminatedOK'
  <1> SUFFICES ASSUME TypeOK, MessagesOK, WorkersOK, AcksOK, AcknowledgedIsStored, TerminatedOK,
                      TypeOK', [Next]_vars, NEW m \in Messages
               PROVE  /\ status'[m] = "acked" => IsStored(envelope[m])'
                      /\ status'[m] = "terminated" => envelope'[m] \in Undecodable
    BY DEF AcknowledgedIsStored, TerminatedOK
  <1>1. Monotone
    BY StepMonotone
  <1>2. CASE status'[m] = status[m]
    BY <1>1, <1>2 DEF AcknowledgedIsStored, TerminatedOK, Monotone, IsStored
  <1>3. CASE status'[m] \in {"free", "ready", "pending", "parked"}
    BY <1>3
  <1>4. CASE status'[m] # status[m] /\ status'[m] = "acked"
    <2>1. m \in acks
      BY <1>4 DEF Next, IngestNext, StreamNext, ProcessorNext, WorkerStep, vars, streamVars, TypeOK,
           Admit, Accept, Refuse, StreamAppend, StreamDuplicate, PublishLost, WindowElapses,
           AckWaitElapses, AckArrives, AckLost, Returned, Commit, InsertResolves, InsertRejects,
           Acknowledge, Retry, Crash, Fetch, Terminate, StragglerCommits
    <2> QED  BY <2>1, <1>1, <1>4 DEF AcksOK, Monotone, IsStored
  <1>5. CASE status'[m] # status[m] /\ status'[m] = "terminated"
    <2>1. envelope'[m] \in Undecodable
      BY <1>5 DEF Next, IngestNext, StreamNext, ProcessorNext, WorkerStep, vars, streamVars, TypeOK,
           Admit, Accept, Refuse, StreamAppend, StreamDuplicate, PublishLost, WindowElapses,
           AckWaitElapses, AckArrives, AckLost, Returned, Commit, InsertResolves, InsertRejects,
           Acknowledge, Retry, Crash, Fetch, Terminate, Deliver, StragglerCommits
    <2> QED  BY <2>1, <1>5
  <1>6. status'[m] \in {"free"} \cup InStream \cup Gone
    BY DEF TypeOK
  <1> QED  BY <1>2, <1>3, <1>4, <1>5, <1>6 DEF InStream, Gone

\* A publish acknowledgement, and an entry of the duplicate window, is for an
\* envelope some message holds or held.
LEMMA StepRequestsOK == TypeOK /\ WorkersOK /\ RequestsOK /\ [Next]_vars => RequestsOK'
  <1> SUFFICES ASSUME TypeOK, WorkersOK, RequestsOK, [Next]_vars
               PROVE  RequestsOK'
    OBVIOUS
  <1>1. AdmittedEnvelopes \subseteq AdmittedEnvelopes'
    BY StepMonotone, MonotoneAdmitted
  <1>2. CASE request' = request /\ recent' \subseteq recent
    BY <1>1, <1>2 DEF RequestsOK
  <1>3. ASSUME NEW r \in Requests, Admit(r) \/ Accept(r) \/ Refuse(r)
        PROVE  RequestsOK'
    <2>1. recent' = recent
      BY <1>3 DEF Admit, Accept, Refuse
    <2>2. \A q \in Requests : request'[q] \in {"published", "accepted"}
                                => request[q] \in {"published", "accepted"}
      BY <1>3 DEF Admit, Accept, Refuse, TypeOK
    <2> QED  BY <1>1, <2>1, <2>2 DEF RequestsOK
  <1>4. ASSUME NEW r \in Requests, StreamAppend(r) \/ StreamDuplicate(r)
        PROVE  RequestsOK'
    <2>1. Carries[r] \in AdmittedEnvelopes'
      <3>1. CASE StreamAppend(r)
        <4>1. PICK m \in Messages :
                /\ status' = [status EXCEPT ![m] = "ready"]
                /\ envelope' = [envelope EXCEPT ![m] = Carries[r]]
          BY <3>1 DEF StreamAppend
        <4>2. status'[m] # "free" /\ envelope'[m] = Carries[r]
          BY <4>1 DEF TypeOK
        <4> QED  BY <4>2 DEF AdmittedEnvelopes
      <3>2. CASE StreamDuplicate(r)
        BY <3>2, <1>1 DEF StreamDuplicate, RequestsOK
      <3> QED  BY <1>4, <3>1, <3>2
    <2>2. recent' \subseteq recent \cup {Carries[r]}
      BY <1>4 DEF StreamAppend, StreamDuplicate
    <2>3. \A q \in Requests \ {r} : request'[q] = request[q]
      BY <1>4 DEF StreamAppend, StreamDuplicate, PublishAcknowledged, TypeOK
    <2> QED  BY <1>1, <2>1, <2>2, <2>3 DEF RequestsOK
  <1> QED
    BY <1>2, <1>3, <1>4
       DEF Next, IngestNext, StreamNext, ProcessorNext, WorkerStep, vars, ingestVars,
           PublishLost, WindowElapses, AckWaitElapses, AckArrives, AckLost, Commit,
           InsertResolves, InsertRejects, Acknowledge, Retry, Crash, Fetch, Terminate, Deliver,
           StragglerCommits

\* An abandoned insert carries events of the envelope its worker held.
LEMMA StepStragglersOK == TypeOK /\ WorkersOK /\ StragglersOK /\ [Next]_vars => StragglersOK'
  <1> SUFFICES ASSUME TypeOK, WorkersOK, StragglersOK, [Next]_vars
               PROVE  StragglersOK'
    OBVIOUS
  <1>1. AdmittedEnvelopes \subseteq AdmittedEnvelopes'
    BY StepMonotone, MonotoneAdmitted
  <1>2. CASE stragglers' \subseteq stragglers
    BY <1>1, <1>2 DEF StragglersOK
  <1>3. ASSUME NEW w \in Workers, InsertRejects(w) \/ Crash(w)
        PROVE  StragglersOK'
    <2>1. stragglers' = stragglers \cup worker[w].left /\ worker[w].pc # "idle"
      BY <1>3 DEF InsertRejects, Crash
    <2>2. envelope[worker[w].message] \in AdmittedEnvelopes
      BY <2>1 DEF WorkersOK, WorkerOK, AdmittedEnvelopes
    <2>3. worker[w].left \subseteq Contents[envelope[worker[w].message]]
      BY <2>1 DEF WorkersOK, WorkerOK
    <2> QED  BY <1>1, <2>1, <2>2, <2>3 DEF StragglersOK
  <1> QED
    BY <1>2, <1>3
       DEF Next, IngestNext, StreamNext, ProcessorNext, WorkerStep, vars, processorVars,
           Admit, Accept, Refuse, StreamAppend, StreamDuplicate, PublishLost, WindowElapses,
           AckWaitElapses, AckArrives, AckLost, Commit, InsertResolves, Acknowledge, Retry,
           Fetch, Terminate, Deliver, StragglerCommits

LEMMA Inductive == IInv /\ [Next]_vars => IInv'
  BY StepTypeOK, StepMessagesOK, StepWorkersOK, StepAcksOK, StepGoneOK, StepRequestsOK,
     StepStragglersOK DEF IInv

LEMMA Invariance == Spec => []IInv
  BY InitIInv, Inductive, PTL DEF Spec

-----------------------------------------------------------------------------
(* What the event plane guarantees.                                        *)

\* Every variable keeps its type, and no message is delivered more often than
\* max_deliver allows.
THEOREM TypeCorrect == Spec => []TypeOK
  BY Invariance, PTL DEF IInv

\* The processor's acknowledgement rule (worker.ts runOnce): an acknowledged
\* envelope is completely in ClickHouse.
THEOREM AcknowledgementSafety == Spec => []AcknowledgedIsStored
  BY Invariance, PTL DEF IInv

\* The promise of a 202 (app.ts): the envelope is stored, still in the stream,
\* or terminated as undecodable; it is never lost.
THEOREM AcceptanceSafety == Spec => []AcceptedIsNotLost
  <1>1. IInv => AcceptedIsNotLost
    <2> SUFFICES ASSUME IInv, NEW r \in Requests, request[r] = "accepted"
                 PROVE  \/ IsStored(Carries[r])
                        \/ Carries[r] \in HeldEnvelopes
                        \/ Carries[r] \in Undecodable
      BY DEF AcceptedIsNotLost, AcceptedEnvelopes
    <2>1. PICK m \in Messages : status[m] # "free" /\ envelope[m] = Carries[r]
      BY DEF IInv, RequestsOK, AdmittedEnvelopes
    <2>2. status[m] \in InStream \cup Gone
      BY <2>1 DEF IInv, TypeOK
    <2>3. CASE status[m] \in InStream
      BY <2>1, <2>3 DEF HeldEnvelopes, StoredMessages
    <2>4. CASE status[m] = "acked"
      BY <2>1, <2>4 DEF IInv, AcknowledgedIsStored
    <2>5. CASE status[m] = "terminated"
      BY <2>1, <2>5 DEF IInv, TerminatedOK
    <2> QED  BY <2>2, <2>3, <2>4, <2>5 DEF Gone
  <1> QED  BY <1>1, Invariance, PTL

-----------------------------------------------------------------------------
(* The event plane implements AtLeastOnce.                                 *)

LEMMA InitImplements == Init => Promise!Init
  BY DEF Init, Promise!Init, AdmittedEnvelopes, HeldEnvelopes, AcceptedEnvelopes,
         StoredMessages, InStream

\* A step that takes one message out of the stream ends the custody of its
\* envelope, unless another message still holds it.
LEMMA LeavingReleases ==
  ASSUME TypeOK, NEW m \in Messages, NEW after \in Gone,
         status' = [status EXCEPT ![m] = after], envelope' = envelope,
         status[m] \in InStream,
         envelope[m] \in Undecodable \/ Contents[envelope[m]] \subseteq table
  PROVE  /\ AdmittedEnvelopes' = AdmittedEnvelopes
         /\ \/ HeldEnvelopes' = HeldEnvelopes
            \/ HeldEnvelopes' = HeldEnvelopes \ {envelope[m]}
  <1> USE DEF TypeOK, InStream, Gone
  <1>1. \A n \in Messages : status'[n] = IF n = m THEN after ELSE status[n]
    OBVIOUS
  <1>2. AdmittedEnvelopes' = AdmittedEnvelopes
    BY <1>1 DEF AdmittedEnvelopes
  <1>3. StoredMessages' = StoredMessages \ {m} /\ m \in StoredMessages
    BY <1>1 DEF StoredMessages
  <1>4. \A e : e \in HeldEnvelopes' <=> \E n \in StoredMessages \ {m} : e = envelope[n]
    BY <1>3 DEF HeldEnvelopes
  <1>5. \A e : e \in HeldEnvelopes <=> \E n \in StoredMessages : e = envelope[n]
    BY DEF HeldEnvelopes
  <1>6. CASE \E n \in StoredMessages \ {m} : envelope[n] = envelope[m]
    <2>1. PICK k \in StoredMessages \ {m} : envelope[k] = envelope[m]
      BY <1>6
    <2>2. ASSUME NEW e, NEW n \in StoredMessages, e = envelope[n]
          PROVE  \E l \in StoredMessages \ {m} : e = envelope[l]
      BY <2>1, <2>2
    <2>3. \A e : e \in HeldEnvelopes' <=> e \in HeldEnvelopes
      BY <2>2, <1>4, <1>5
    <2>4. HeldEnvelopes' = HeldEnvelopes
      BY <2>3
    <2> QED  BY <1>2, <2>4
  <1>7. CASE \A n \in StoredMessages \ {m} : envelope[n] # envelope[m]
    <2>1. HeldEnvelopes' = HeldEnvelopes \ {envelope[m]}
      BY <1>3, <1>4, <1>5, <1>7
    <2> QED  BY <1>2, <2>1
  <1> QED  BY <1>6, <1>7

\* A message that only moves within the stream changes no custody.
LEMMA MovingKeeps ==
  ASSUME TypeOK, envelope' = envelope,
         \A m \in Messages : status'[m] = status[m]
                             \/ (status[m] \in InStream /\ status'[m] \in InStream)
  PROVE  AdmittedEnvelopes' = AdmittedEnvelopes /\ HeldEnvelopes' = HeldEnvelopes
  BY DEF TypeOK, InStream, AdmittedEnvelopes, HeldEnvelopes, StoredMessages

LEMMA StepImplements == IInv /\ [Next]_vars => [Promise!Next]_(Promise!vars)
  <1> SUFFICES ASSUME IInv, [Next]_vars
               PROVE  Promise!Next \/ UNCHANGED Promise!vars
    OBVIOUS
  <1> USE DEF Promise!vars
  <1>0. TypeOK /\ TypeOK'
    BY Inductive DEF IInv
  <1>1. CASE \E r \in Requests : Admit(r) \/ Refuse(r) \/ StreamDuplicate(r) \/ PublishLost(r)
    <2>1. UNCHANGED <<streamVars, table>>
      BY <1>1 DEF Admit, Refuse, StreamDuplicate, PublishLost, processorVars
    <2>2. UNCHANGED <<AdmittedEnvelopes, HeldEnvelopes>>
      BY <2>1 DEF streamVars, AdmittedEnvelopes, HeldEnvelopes, StoredMessages
    <2>3. \A q \in Requests : request'[q] = "accepted" <=> request[q] = "accepted"
      BY <1>1, <1>0 DEF Admit, Refuse, StreamDuplicate, PublishLost, PublishAcknowledged, TypeOK
    <2>4. AcceptedEnvelopes' = AcceptedEnvelopes
      BY <2>3 DEF AcceptedEnvelopes
    <2> QED  BY <2>1, <2>2, <2>4
  <1>2. ASSUME NEW r \in Requests, Accept(r)
        PROVE  Promise!Next
    <2>1. UNCHANGED <<streamVars, table>> /\ request' = [request EXCEPT ![r] = "accepted"]
      BY <1>2 DEF Accept, processorVars
    <2>2. UNCHANGED <<AdmittedEnvelopes, HeldEnvelopes>>
      BY <2>1 DEF streamVars, AdmittedEnvelopes, HeldEnvelopes, StoredMessages
    <2>3. AcceptedEnvelopes' = AcceptedEnvelopes \cup {Carries[r]}
      BY <2>1, <1>0 DEF AcceptedEnvelopes, TypeOK
    <2>4. Carries[r] \in AdmittedEnvelopes
      BY <1>2 DEF Accept, IInv, RequestsOK
    <2>5. Promise!Accept(Carries[r])
      BY <2>1, <2>2, <2>3, <2>4 DEF Promise!Accept
    <2> QED  BY <2>5 DEF Promise!Next
  <1>3. ASSUME NEW r \in Requests, StreamAppend(r)
        PROVE  Promise!Next
    <2>1. PICK m \in Messages :
            /\ status[m] = "free"
            /\ status' = [status EXCEPT ![m] = "ready"]
            /\ envelope' = [envelope EXCEPT ![m] = Carries[r]]
      BY <1>3 DEF StreamAppend
    <2>2. \A n \in Messages : /\ status'[n] = IF n = m THEN "ready" ELSE status[n]
                              /\ envelope'[n] = IF n = m THEN Carries[r] ELSE envelope[n]
      BY <2>1, <1>0 DEF TypeOK
    <2>3. AdmittedEnvelopes' = AdmittedEnvelopes \cup {Carries[r]}
      <3>1. \A e : e \in AdmittedEnvelopes'
                     <=> \E n \in Messages : status'[n] # "free" /\ e = envelope'[n]
        BY DEF AdmittedEnvelopes
      <3>2. \A e : e \in AdmittedEnvelopes
                     <=> \E n \in Messages : status[n] # "free" /\ e = envelope[n]
        BY DEF AdmittedEnvelopes
      <3> QED  BY <2>1, <2>2, <3>1, <3>2
    <2>4. HeldEnvelopes' = HeldEnvelopes \cup {Carries[r]}
      <3>1. \A e : e \in HeldEnvelopes'
                     <=> \E n \in Messages : status'[n] \in InStream /\ e = envelope'[n]
        BY DEF HeldEnvelopes, StoredMessages
      <3>2. \A e : e \in HeldEnvelopes
                     <=> \E n \in Messages : status[n] \in InStream /\ e = envelope[n]
        BY DEF HeldEnvelopes, StoredMessages
      <3> QED  BY <2>1, <2>2, <3>1, <3>2 DEF InStream
    <2>5. \A q \in Requests : request'[q] = "accepted" <=> request[q] = "accepted"
      BY <1>3, <1>0 DEF StreamAppend, PublishAcknowledged, TypeOK
    <2>6. AcceptedEnvelopes' = AcceptedEnvelopes /\ table' = table
      BY <2>5, <1>3 DEF AcceptedEnvelopes, StreamAppend, processorVars
    <2>7. Promise!Hold(Carries[r])
      BY <2>3, <2>4, <2>6 DEF Promise!Hold
    <2> QED  BY <2>7 DEF Promise!Next
  <1>4. ASSUME NEW m \in Messages, AckArrives(m), status[m] \in InStream
        PROVE  Promise!Next \/ UNCHANGED Promise!vars
    <2>1. /\ status' = [status EXCEPT ![m] = "acked"]
          /\ envelope' = envelope /\ table' = table /\ request' = request
      BY <1>4 DEF AckArrives, ingestVars
    <2>2. IsStored(envelope[m]) /\ envelope[m] \in Envelopes
      BY <1>4 DEF AckArrives, IInv, AcksOK, MessagesOK, InStream
    <2>3. AcceptedEnvelopes' = AcceptedEnvelopes
      BY <2>1 DEF AcceptedEnvelopes
    <2>4. AdmittedEnvelopes' = AdmittedEnvelopes
          /\ (HeldEnvelopes' = HeldEnvelopes \/ HeldEnvelopes' = HeldEnvelopes \ {envelope[m]})
      BY <1>0, <1>4, <2>1, <2>2, LeavingReleases DEF IsStored, Gone
    <2>5. HeldEnvelopes' = HeldEnvelopes \/ Promise!Release(envelope[m])
      BY <2>1, <2>2, <2>3, <2>4 DEF Promise!Release, IsStored
    <2> QED  BY <2>1, <2>2, <2>3, <2>4, <2>5 DEF Promise!Next
  <1>5. ASSUME NEW w \in Workers, NEW m \in Messages, Terminate(w, m), status'[m] = "terminated"
        PROVE  Promise!Next \/ UNCHANGED Promise!vars
    <2>1. /\ status' = [status EXCEPT ![m] = "terminated"] /\ status[m] = "ready"
          /\ envelope' = envelope /\ table' = table /\ request' = request
      BY <1>0, <1>5 DEF Terminate, Deliver, ingestVars, TypeOK
    <2>2. envelope[m] \in Undecodable /\ envelope[m] \in Envelopes
      BY <1>5, <2>1 DEF Terminate, IInv, MessagesOK
    <2>3. AcceptedEnvelopes' = AcceptedEnvelopes
      BY <2>1 DEF AcceptedEnvelopes
    <2>4. AdmittedEnvelopes' = AdmittedEnvelopes
          /\ (HeldEnvelopes' = HeldEnvelopes \/ HeldEnvelopes' = HeldEnvelopes \ {envelope[m]})
      BY <1>0, <2>1, <2>2, LeavingReleases DEF Gone, InStream
    <2>5. HeldEnvelopes' = HeldEnvelopes \/ Promise!Release(envelope[m])
      BY <2>1, <2>2, <2>3, <2>4 DEF Promise!Release
    <2> QED  BY <2>1, <2>2, <2>3, <2>4, <2>5 DEF Promise!Next
  <1>6. ASSUME NEW event \in Events, table' = table \cup {event}, UNCHANGED <<streamVars, request>>,
               \E e \in AdmittedEnvelopes : event \in Contents[e]
        PROVE  Promise!Next
    <2>1. UNCHANGED <<AdmittedEnvelopes, HeldEnvelopes, AcceptedEnvelopes>>
      BY <1>6 DEF streamVars, AdmittedEnvelopes, HeldEnvelopes, AcceptedEnvelopes, StoredMessages
    <2>2. Promise!Store(event)
      BY <1>6, <2>1 DEF Promise!Store
    <2>3. AdmittedEnvelopes \subseteq Envelopes
      BY DEF AdmittedEnvelopes, IInv, MessagesOK
    <2> QED  BY <1>6, <2>2, <2>3 DEF Promise!Next
  <1>7. ASSUME NEW w \in Workers, Commit(w)
        PROVE  Promise!Next
    <2>1. PICK event \in worker[w].left : table' = table \cup {event}
      BY <1>7 DEF Commit
    <2>2. /\ worker[w].message \in Messages
          /\ status[worker[w].message] # "free"
          /\ event \in Contents[envelope[worker[w].message]]
      BY <1>7 DEF Commit, IInv, WorkersOK, WorkerOK
    <2>3. \E e \in AdmittedEnvelopes : event \in Contents[e]
      BY <2>2 DEF AdmittedEnvelopes
    <2>4. event \in Events
      BY <1>0 DEF TypeOK
    <2> QED  BY <1>6, <1>7, <2>1, <2>3, <2>4 DEF Commit, ingestVars
  <1>8. ASSUME NEW event \in Events, StragglerCommits(event)
        PROVE  Promise!Next
    BY <1>6, <1>8 DEF StragglerCommits, ingestVars, IInv, StragglersOK
  <1>9. ASSUME UNCHANGED <<request, table, envelope>>,
               \A m \in Messages : status'[m] = status[m]
                                   \/ (status[m] \in InStream /\ status'[m] \in InStream)
        PROVE  UNCHANGED Promise!vars
    BY <1>0, <1>9, MovingKeeps DEF AcceptedEnvelopes
  <1>10. ASSUME NEW w \in Workers, Retry(w)
         PROVE  UNCHANGED Promise!vars
    BY <1>0, <1>9, <1>10 DEF Retry, Returned, ingestVars, InStream, TypeOK
  <1>11. ASSUME NEW m \in Messages,
                AckWaitElapses(m) \/ AckLost(m) \/ (AckArrives(m) /\ status[m] \notin InStream)
         PROVE  UNCHANGED Promise!vars
    <2>1. UNCHANGED <<request, table, envelope>>
      BY <1>11 DEF AckWaitElapses, AckLost, AckArrives, ingestVars, streamVars, processorVars
    <2>2. CASE AckWaitElapses(m)
      BY <1>0, <1>9, <2>1, <2>2 DEF AckWaitElapses, Returned, InStream, TypeOK
    <2>3. CASE AckLost(m)
      BY <1>9, <2>1, <2>3 DEF AckLost, streamVars
    <2>4. CASE AckArrives(m) /\ status[m] \notin InStream
      <3>1. status' = status
        BY <1>0, <2>4 DEF AckArrives, TypeOK
      <3> QED  BY <1>9, <2>1, <3>1
    <2> QED  BY <1>11, <2>2, <2>3, <2>4
  <1>12. ASSUME NEW w \in Workers, NEW m \in Messages,
                Fetch(w, m) \/ (Terminate(w, m) /\ status'[m] # "terminated")
         PROVE  UNCHANGED Promise!vars
    BY <1>0, <1>9, <1>12 DEF Fetch, Terminate, Deliver, ingestVars, InStream, TypeOK
  <1>13. ASSUME NEW w \in Workers,
                InsertResolves(w) \/ InsertRejects(w) \/ Acknowledge(w) \/ Crash(w)
         PROVE  UNCHANGED Promise!vars
    BY <1>9, <1>13 DEF InsertResolves, InsertRejects, Acknowledge, Crash, ingestVars, streamVars
  <1>14. CASE (\E e \in Envelopes : WindowElapses(e)) \/ UNCHANGED vars
    BY <1>9, <1>14 DEF WindowElapses, processorVars, streamVars, vars
  <1> QED
    BY <1>1, <1>2, <1>3, <1>4, <1>5, <1>7, <1>8, <1>10, <1>11, <1>12, <1>13, <1>14
       DEF Next, IngestNext, StreamNext, ProcessorNext, WorkerStep

\* Whatever broker and store the ports hide, an SDK sees AtLeastOnce.
THEOREM Implementation == Spec => ImplementsAtLeastOnce
  BY InitImplements, StepImplements, Invariance, PTL
     DEF Spec, ImplementsAtLeastOnce, Promise!Spec
=============================================================================
