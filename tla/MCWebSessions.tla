---------------------------- MODULE MCWebSessions ----------------------------
EXTENDS WebSessions, TLC

Permuted == Permutations(Requests) \cup Permutations(Browsers) \cup Permutations(Ids)
=============================================================================
