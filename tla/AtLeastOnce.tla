----------------------------- MODULE AtLeastOnce -----------------------------
(***************************************************************************)
(* What the event plane promises an SDK, whatever broker and database it   *)
(* is built from (ADR-034): an envelope answered with 202 is held durably  *)
(* until all of its events are stored; an envelope may be stored more than *)
(* once; and an event reaches the event store only from an admitted        *)
(* envelope.  EventPlane implements this specification.                    *)
(***************************************************************************)
CONSTANTS
  Envelopes,    \* envelope identities (createEnvelopeId)
  Contents,     \* the event ids an envelope carries
  Undecodable   \* envelopes the processor terminates instead of storing

VARIABLES
  admitted,     \* envelopes the service has ever taken custody of
  held,         \* envelopes in its custody now
  accepted,     \* envelopes a producer was told are accepted
  stored        \* event ids in the event store

vars == <<admitted, held, accepted, stored>>

Init ==
  /\ admitted = {}
  /\ held = {}
  /\ accepted = {}
  /\ stored = {}

Hold(e) ==
  /\ admitted' = admitted \cup {e}
  /\ held' = held \cup {e}
  /\ UNCHANGED <<accepted, stored>>

Accept(e) ==
  /\ e \in admitted
  /\ accepted' = accepted \cup {e}
  /\ UNCHANGED <<admitted, held, stored>>

Store(event) ==
  /\ \E e \in admitted : event \in Contents[e]
  /\ stored' = stored \cup {event}
  /\ UNCHANGED <<admitted, held, accepted>>

\* Custody ends only when nothing is left to store, or nothing can be.
Release(e) ==
  /\ e \in Undecodable \/ Contents[e] \subseteq stored
  /\ held' = held \ {e}
  /\ UNCHANGED <<admitted, accepted, stored>>

Next ==
  \/ \E e \in Envelopes : Hold(e) \/ Accept(e) \/ Release(e)
  \/ \E event \in UNION {Contents[e] : e \in Envelopes} : Store(event)

Spec == Init /\ [][Next]_vars
=============================================================================
