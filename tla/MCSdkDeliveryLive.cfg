\* Liveness: one routine and one urgent event, an outage, destroy at any time.
CONSTANTS
  MaxEvent = 2
  Urgent = {2}
  Size <- MCSize
  Nearby <- MCNearby
  QueueLimit = 2
  QueueBytes = 4
  MaxAttempts = 2
  MaxContext = 1
  OutboxLimit = 2
  OutboxBytes = 4
  BatchLimit = 1
  EnvelopeBytes = 3
  KeepaliveBytes = 1
  BatchThreshold = 2
  AppOptions <- MCAppOptions
  StorageFails = FALSE
  MaxExpired = 0
  MaxOutages = 1
  MaxRestarts = 0
  NoRetry = NoRetry
SPECIFICATION FairSpec
PROPERTIES EventsSettle
CHECK_DEADLOCK FALSE
