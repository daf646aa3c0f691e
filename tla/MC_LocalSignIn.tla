--------------------------- MODULE MC_LocalSignIn ---------------------------
\* LocalSignIn for TLC: two forms, two accounts, a visit to /success.
EXTENDS LocalSignIn
=============================================================================
