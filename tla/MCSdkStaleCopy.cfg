\* A save that runs after the direct removal of a delivered event.
CONSTANTS
  MaxEvent = 3
  Urgent = {1, 2, 3}
  Size <- MCSize
  Nearby <- MCNearby
  QueueLimit = 3
  QueueBytes = 4
  MaxAttempts = 2
  MaxContext = 1
  OutboxLimit = 3
  OutboxBytes = 4
  BatchLimit = 3
  EnvelopeBytes = 4
  KeepaliveBytes = 1
  BatchThreshold = 2
  AppOptions = {}
  StorageFails = FALSE
  MaxExpired = 0
  MaxOutages = 0
  MaxRestarts = 0
  NoRetry = NoRetry
SPECIFICATION Spec
INVARIANTS DeliveredIsForgotten
CHECK_DEADLOCK FALSE
