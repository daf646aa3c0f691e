-------------------------- MODULE MC_AuditedWrites --------------------------
\* AuditedWrites for TLC with interchangeable calls.
EXTENDS AuditedWrites, TLC

Symmetric == Permutations(Calls)
=============================================================================
