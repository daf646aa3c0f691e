--------------------------- MODULE MC_AuthManager ---------------------------
\* AuthManager for TLC: two Docmost servers, one user, three servers of the MCP
\* started with another Docmost, with an account, or with an API token.
EXTENDS AuthManager, TLC

CONSTANTS here, there, alice, bob, t0

MCUserToken == [u \in Users |-> t0]

MCGivenSession == [t \in Given |-> [server |-> here, account |-> alice, expires |-> 2]]

MCDeployments ==
  {[url |-> here, account |-> None, api |-> None],
   [url |-> there, account |-> alice, api |-> None],
   [url |-> None, account |-> None, api |-> None],
   [url |-> here, account |-> None, api |-> t0]}

Symmetric == Permutations(Calls) \cup Permutations(Tokens \ Given)
=============================================================================
