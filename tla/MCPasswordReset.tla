-------------------------- MODULE MCPasswordReset --------------------------
EXTENDS PasswordReset, TLC

\* Requests are interchangeable.
CallSymmetry == Permutations(Calls)
=============================================================================
