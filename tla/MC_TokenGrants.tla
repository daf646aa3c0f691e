--------------------------- MODULE MC_TokenGrants ---------------------------
\* TokenGrants for TLC: a Docmost session that ends (alice), one whose token
\* carries no expiry (bob), and interchangeable handlers, clients and tokens.
EXTENDS TokenGrants, TLC

CONSTANTS alice, bob

MCSessionExpiry == [s \in Sessions |-> IF s = alice THEN 3 ELSE NoExpiry]

Symmetric ==
  Permutations(Handlers) \cup Permutations(Clients) \cup Permutations(Codes)
    \cup Permutations(AccessTokens) \cup Permutations(RefreshTokens)
=============================================================================
