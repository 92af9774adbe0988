\* Two browsers, two people, three requests of which two are under way at a time.
CONSTANTS
  Browsers = {b1, b2}
  Calls = {c1, c2, c3}
  Identities = {ann, bob}
  Concurrent = 2
  Budgets <- MCBudgets
  None = None
SPECIFICATION Spec
INVARIANTS LoginsAreOwned FirstLoginsDoNotCollide ActsAsSeen DeadSessionsAreRefused
PROPERTIES CarriedSessionIsDead
SYMMETRY Alike
CHECK_DEADLOCK FALSE
