\* Sessions of three units with writes throttled to two; two contexts kept.
CONSTANTS
  SessionTimeout = 3
  PersistInterval = 2
  MaxContexts = 2
  NoSession = NoSession
  NoPage = NoPage
  Foreign = Foreign
  Urls = {home, cart, pay}
  Requests = {r1, r2}
  Budgets <- MCBudgets
  NoClient = NoClient
SPECIFICATION Spec
INVARIANTS ContextsAreRecent ObservationKeepsItsRoute CapturedOnce
PROPERTIES SessionAnnounced RotationFollowsIdleness ActivityIsFresh OnlyWitnessesCapture WrappersAreRespected
SYMMETRY Alike
CHECK_DEADLOCK FALSE
