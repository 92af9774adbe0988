\* Safety: one two-event envelope posted twice, two messages, two workers.
CONSTANTS
  e1 = e1
  e2 = e2
  r1 = r1
  r2 = r2
  r3 = r3
  a = a
  b = b
  c = c
  Envelopes = {e1}
  Events = {a, b}
  Contents <- MCContents
  Undecodable = {}
  Requests = {r1, r2}
  Carries <- MCCarries
  Messages = {m1, m2}
  Workers = {w1, w2}
  MaxDeliver = 2
  MaxAckPending = 2
  StreamCapacity = 2
  NoMessage = NoMessage
  NoEnvelope = NoEnvelope
SPECIFICATION Spec
INVARIANTS TypeOK AcknowledgedIsStored AcceptedIsNotLost
PROPERTIES ImplementsAtLeastOnce
SYMMETRY Symmetry
CHECK_DEADLOCK FALSE
