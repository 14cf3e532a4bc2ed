---------------------------- MODULE MCOtaUpdates ----------------------------
EXTENDS OtaUpdates, TLC

\* Processes of a kind are interchangeable, and devices that are all active.
\* Safety runs only.
ProcessSymmetry == Permutations(Requests) \union Permutations(Handlers)
=============================================================================
