----------------------- MODULE MC_AuthorizationFlow -----------------------
\* AuthorizationFlow for TLC: everything but the clock is interchangeable.
EXTENDS AuthorizationFlow, TLC

Symmetric ==
  Permutations(Handlers) \cup Permutations(Browsers) \cup Permutations(Clients)
    \cup Permutations(Requests) \cup Permutations(Codes) \cup Permutations(Sessions)
=============================================================================
