--------------------------- MODULE MC_StateStore ---------------------------
\* StateStore for TLC: a short and a long value.
EXTENDS StateStore, TLC

CONSTANTS short, long

MCSize == [v \in Values |-> IF v = short THEN 1 ELSE 2]

Symmetric ==
  Permutations(Writers) \cup Permutations(Readers)
=============================================================================
