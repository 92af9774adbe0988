\* Three concurrent calls on an issue without a row.
CONSTANTS
  w1 = w1
  w2 = w2
  w3 = w3
  Writers = {w1, w2, w3}
  Statuses = {"open", "resolved"}
  Absent = Absent
  Existing = Absent
  NoWriter = NoWriter
SPECIFICATION Spec
INVARIANTS HistoryLeadsToRow
CHECK_DEADLOCK FALSE
