SPECIFICATION ToolSpec
CONSTANTS
  None = None
  Items <- MCItems
  Limits = {1, 2, 3}
  Caps = {1, 2}
  MaxChanges = 2
  LEN = 10
  MOST_NEGATIVE = 1
  FIRST_NEGATIVE = 4
  FIRST_POSITIVE = 5
  MOST_POSITIVE = 9
  JITTER_RANGE = 200
  MaxNumber = 3000
  Pages = {p1, p2, p3}
  Calls = {c1}
  Shifts = {0, 1, 199}
  FirstKeys <- MCFirstKeys
  Limit = 2
  MaxKey = 5
  MaxMoves = 3
  UpdateCalls = {u1, u2, u3}
  Upgrades = TRUE
  Documents <- MCDocuments
SYMMETRY Symmetric
INVARIANTS NothingWithheld NeverPagesForever MovedBetween MovedKeyAccepted
  SilenceMeansApplied WellFormed WriterKeepsText ReadBack
CHECK_DEADLOCK FALSE
