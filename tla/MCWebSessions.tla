--------------------------- MODULE MCWebSessions ---------------------------
EXTENDS WebSessions, TLC

Symmetry == Permutations(Sessions) \union Permutations(Requests)
=============================================================================
