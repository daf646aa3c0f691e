--------------------------- MODULE MC_McpGateway ---------------------------
\* McpGateway for TLC: a session that ends and one without an expiry.
EXTENDS McpGateway, TLC

CONSTANTS alice, bob

MCSessionExpiry == [s \in Sessions |-> IF s = alice THEN 3 ELSE NoExpiry]

Symmetric ==
  Permutations(Handlers) \cup Permutations(Codes)
    \cup Permutations(AccessTokens) \cup Permutations(RefreshTokens)
=============================================================================
