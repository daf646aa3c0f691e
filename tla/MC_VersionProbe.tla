-------------------------- MODULE MC_VersionProbe --------------------------
\* VersionProbe for TLC: calls are interchangeable.
EXTENDS VersionProbe, TLC

Symmetric == Permutations(Calls)
=============================================================================
