SPECIFICATION Spec
CONSTANTS
  alice = alice
  bob = bob
  Handlers = {h1, h2}
  Clients = {cl1, cl2}
  Redirects = {redirect1}
  Verifiers = {verifier1}
  Sessions = {alice, bob}
  Codes = {code1, code2}
  AccessTokens = {a1, a2, a3}
  RefreshTokens = {r1, r2}
  SessionExpiry <- MCSessionExpiry
  NoExpiry = NoExpiry
  NoClient = NoClient
  Fresh = Fresh
  Gone = Gone
  Nobody = Nobody
  CodeTtl = 1
  AccessTtl = 2
  MinLife = 1
  MaxAccess = 1
  MaxRefresh = 1
  MaxTime = 3
SYMMETRY Symmetric
INVARIANTS TypeOK AuthorityHeldOnce GrantsKeepTheirSession GrantCapacity
PROPERTIES AccessHonouredUntilExpiry ImplementsOneTime
