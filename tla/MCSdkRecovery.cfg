\* Recovery: two urgent events, one stored, pages left and loaded again.
CONSTANTS
  MaxEvent = 2
  Urgent = {1, 2}
  Size <- MCSize
  Nearby <- MCNearby
  QueueLimit = 1
  QueueBytes = 4
  MaxAttempts = 2
  MaxContext = 1
  OutboxLimit = 1
  OutboxBytes = 4
  BatchLimit = 2
  EnvelopeBytes = 3
  KeepaliveBytes = 1
  BatchThreshold = 2
  AppOptions = {}
  StorageFails = TRUE
  MaxExpired = 1
  MaxOutages = 0
  MaxRestarts = 2
  NoRetry = NoRetry
SPECIFICATION Spec
INVARIANTS UrgentIsRecoverable StoredAttemptsAreCurrent DroppedIsForgotten
CHECK_DEADLOCK FALSE
