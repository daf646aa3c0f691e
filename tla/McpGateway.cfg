SPECIFICATION GatewaySpec
CONSTANTS
  alice = alice
  bob = bob
  Handlers = {h1, h2}
  Clients = {cl1}
  Redirects = {redirect1}
  Verifiers = {verifier1}
  Sessions = {alice, bob}
  Codes = {code1, code2}
  AccessTokens = {a1, a2}
  RefreshTokens = {r1, r2}
  SessionExpiry <- MCSessionExpiry
  NoExpiry = NoExpiry
  NoClient = NoClient
  Fresh = Fresh
  Gone = Gone
  Nobody = Nobody
  CodeTtl = 1
  AccessTtl = 2
  MinLife = 1
  MaxAccess = 2
  MaxRefresh = 2
  MaxTime = 2
SYMMETRY Symmetric
PROPERTIES ServiceKeptWhileGranted NoOrphanService
