---------------------------- MODULE MC_PageTools ----------------------------
\* PageTools for TLC.  Keys have ten digits, of which 1..4 are the heads of
\* negative integers and 5..9 of the others.
EXTENDS PageTools, MC_Documents, TLC

MCItems == 1..4

\* The first key, whose predecessor is negative, and integers whose successor
\* or predecessor is longer.
MCFirstKeys == {<<5, 0>>, <<5, 9>>, <<4, 0>>}

Symmetric == Permutations(Pages) \cup Permutations(UpdateCalls)
=============================================================================
