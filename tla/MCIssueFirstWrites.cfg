\* Two concurrent calls that resolve an issue without a row.
CONSTANTS
  w1 = w1
  w2 = w2
  w3 = w3
  Writers = {w1, w2}
  Statuses = {"resolved"}
  Absent = Absent
  Existing = Absent
  NoWriter = NoWriter
SPECIFICATION Spec
PROPERTIES OnlyChangesAreRecorded
CHECK_DEADLOCK FALSE
