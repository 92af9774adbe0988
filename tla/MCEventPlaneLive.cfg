\* Liveness: one envelope that decodes, one that does not; two workers.
CONSTANTS
  e1 = e1
  e2 = e2
  r1 = r1
  r2 = r2
  r3 = r3
  a = a
  b = b
  c = c
  Envelopes = {e1, e2}
  Events = {a, b, c}
  Contents <- MCContents
  Undecodable = {e2}
  Requests = {r1, r3}
  Carries <- MCCarries
  Messages = {m1, m2}
  Workers = {w1, w2}
  MaxDeliver = 2
  MaxAckPending = 1
  StreamCapacity = 2
  NoMessage = NoMessage
  NoEnvelope = NoEnvelope
SPECIFICATION FairSpec
PROPERTIES AcceptedSettles
CHECK_DEADLOCK FALSE
