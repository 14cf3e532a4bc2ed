--------------------------- MODULE MCAuthSession ---------------------------
EXTENDS AuthSession, TLC

\* Requests are interchangeable, and so are the clients of the user.
Symmetry == Permutations(Calls) \union Permutations(Clients)
=============================================================================
