---------------------------- MODULE MC_PageBody ----------------------------
\* PageBody for TLC.
EXTENDS PageBody, MC_Documents
=============================================================================
