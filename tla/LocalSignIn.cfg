SPECIFICATION Spec
CONSTANTS
  Submissions = {s1, s2}
  Visits = {v1}
  Timer = Timer
  Accounts = {alice, bob}
  Old = Old
  None = None
CHECK_DEADLOCK FALSE
INVARIANTS NoSubmissionLeftBehind SessionOfNamedAccount
PROPERTIES FirstOutcomeStands WaitEnds ServerToldToStop
