SPECIFICATION Spec
CONSTANTS
  here = here
  there = there
  alice = alice
  bob = bob
  t0 = t0
  Calls = {c1, c2}
  Servers = {here, there}
  Accounts = {alice, bob}
  Tokens = {t0, t1, t2}
  Given = {t0}
  GivenSession <- MCGivenSession
  Users = {carol}
  UserToken <- MCUserToken
  Deployments <- MCDeployments
  Shared = Shared
  Life = 2
  Window = 1
  MaxTime = 1
  None = None
SYMMETRY Symmetric
INVARIANTS UserActsAlone ConfiguredServerOnly RetryIsFresh OnlyTypedPasswordsSaved FilesAgree
