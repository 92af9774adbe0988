\* Safety: two urgent events around a routine one, room for two in the queue.
CONSTANTS
  MaxEvent = 3
  Urgent = {1, 3}
  Size <- MCSize
  Nearby <- MCNearby
  QueueLimit = 2
  QueueBytes = 3
  MaxAttempts = 2
  MaxContext = 1
  OutboxLimit = 2
  OutboxBytes = 4
  BatchLimit = 2
  EnvelopeBytes = 3
  KeepaliveBytes = 1
  BatchThreshold = 2
  AppOptions <- MCAppOptions
  StorageFails = FALSE
  MaxExpired = 0
  MaxOutages = 0
  MaxRestarts = 1
  NoRetry = NoRetry
SPECIFICATION Spec
INVARIANTS TypeOK EachEventOnce
PROPERTIES CaptureSparesUrgent
CHECK_DEADLOCK FALSE
