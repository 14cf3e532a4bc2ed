------------------------------ MODULE OneReply ------------------------------
(***************************************************************************)
(* What a request for history is owed: one answer, unless the backend      *)
(* stops before.  HistoryRequest implements it.                            *)
(***************************************************************************)
VARIABLE state    \* "none", "open", "replied" or "lost"

Init  == state = "none"
Ask   == state = "none" /\ state' = "open"
Reply == state = "open" /\ state' = "replied"
Lose  == state = "open" /\ state' = "lost"
Next  == Ask \/ Reply \/ Lose

Safety == Init /\ [][Next]_state

\* An open request does not stay open.
Spec == Safety /\ WF_state(Reply \/ Lose)
=============================================================================
