SPECIFICATION Spec
CONSTANTS
  Native = FALSE
  Handlers = {h1, h2}
  Browsers = {b1}
  Clients = {cl1}
  Requests = {r1, r2, r3}
  Codes = {code1, code2}
  Sessions = {s1}
  MaxClients = 1
  MaxPending = 1
  MaxCompleted = 1
  MaxFailures = 1
  PendingTtl = 1
  CodeTtl = 1
  FailureWindow = 1
  MaxTime = 1
  Fresh = Fresh
  Gone = Gone
  None = None
  Free = Free
SYMMETRY Symmetric
INVARIANTS LockoutBound NoReplayGap PendingCapacity
PROPERTIES AnsweredNeverReopened
